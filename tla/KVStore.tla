------------------------------- MODULE KVStore -------------------------------
(***************************************************************************)
(* The key-value store of cpp/kvstore/kvstore.cc with a file: a hash map   *)
(* behind a shared mutex and a log of its changes, of which a restart      *)
(* rebuilds the map.                                                       *)
(*                                                                         *)
(* A change (Put, Remove, Clear) holds the lock from its first step to its *)
(* last: it alters map_, remembers the log's position, writes the record   *)
(* and replies.  The record reaches the file cell by cell, whenever the    *)
(* stream's buffer is handed to the system, so that a crash, or a refused  *)
(* write, can leave any prefix of it there.  A refused write is undone in  *)
(* the file by truncating it to the remembered position; map_ keeps the    *)
(* change.  Starting the store replays the file up to its end or up to the *)
(* first record that cannot be read, where the file is then truncated.     *)
(*                                                                         *)
(* marks, dirty and before are history variables: no guard and no other    *)
(* variable depends on them.                                               *)
(***************************************************************************)
EXTENDS MultiMap

CONSTANTS
  Readers,     \* threads that call Get
  NoKey,       \* not a key: a reader outside Get
  IntMax,      \* the largest int (2^31 - 1 in the code), in cells
  MaxFile,     \* bound: cells in the file
  MaxValues    \* bound: values under one key

ASSUME NoKeyAssumption == NoKey \notin Keys
ASSUME IntMaxAssumption == IntMax \in Nat
ASSUME BoundsAssumption == MaxFile \in Nat /\ MaxValues \in Nat

VARIABLES
  map,      \* map_
  file,     \* the content of the file filename_
  phase,    \* where the process, or the thread holding the unique lock, is
  pos,      \* while loading: how far infile has been read
  change,   \* the change being made, or NoChange
  left,     \* the cells of its record that are not in the file yet
  curPos,   \* cur_pos of that change
  found,    \* whether the key to remove was in map_ (key_existed)
  iter,     \* the key whose values each reader is copying, or NoKey
  ret,      \* what the last call returned
  marks,    \* where each change known to be stored ends in the file, and the
            \* map that the changes up to there make
  dirty,    \* keys that a refused change has touched since the start
  before    \* map_ as it was before the change being made

vars == <<map, file, phase, pos, change, left, curPos, found, iter, ret,
          marks, dirty, before>>

\* The change being made and all that its thread knows about it.
writer == <<change, left, curPos, found, before>>

\* Mutant of AsInt: a type of half the range.
AsShort(n) == LET h == IntMax \div 2 IN ((n + h + 1) % (2 * (h + 1))) - (h + 1)

\* A file position kept in an int: narrowed to its width.
AsInt(n) == ((n + IntMax + 1) % (2 * (IntMax + 1))) - (IntMax + 1)

\* The whole record of change c lies in file f after its first at cells.
RecordAt(f, at, c) ==
  /\ at + Len(c) <= Len(f)
  /\ \A i \in 1..Len(c) : f[at + i] = c[i]

LastMark == marks[Len(marks)]

Busy == phase \in {"writing", "failing"}

Init ==
  /\ map = EmptyMap
  /\ file = <<>>
  /\ phase = "down"
  /\ pos = 0
  /\ change = NoChange
  /\ left = <<>>
  /\ curPos = 0
  /\ found = FALSE
  /\ before = EmptyMap
  /\ iter = [r \in Readers |-> NoKey]
  /\ ret = [status |-> "NONE", values |-> <<>>]
  /\ marks = <<[at |-> 0, map |-> EmptyMap]>>
  /\ dirty = {}

-----------------------------------------------------------------------------
(* The process dies: of all it had, the file remains.                      *)

Forget ==
  /\ change' = NoChange
  /\ left' = <<>>
  /\ curPos' = 0
  /\ found' = FALSE
  /\ before' = EmptyMap

Dies ==
  /\ phase' = "down"
  /\ map' = EmptyMap
  /\ pos' = 0
  /\ iter' = [r \in Readers |-> NoKey]
  /\ dirty' = {}
  /\ Forget
  /\ UNCHANGED <<file, ret, marks>>

Crash == phase # "down" /\ Dies

\* Mutant of TruncateTrailingContent: the file is reopened as it is.
ReopenOnly(start) ==
  /\ start >= 0
  /\ file' = file
  /\ phase' = "serving"

\* Mutant of TruncateTrailingContent: a refused truncate() is not fatal.
TruncateIfPossible(start) ==
  /\ file' = IF start >= 0 THEN SubSeq(file, 1, start) ELSE file
  /\ phase' = "serving"

\* truncate() succeeds, and the file is reopened.
TruncateTrailingContent(start) ==
  /\ start >= 0
  /\ file' = SubSeq(file, 1, start)
  /\ phase' = "serving"

-----------------------------------------------------------------------------
(* The constructor.                                                        *)

Start ==
  /\ phase = "down"
  /\ phase' = "loading"
  /\ UNCHANGED <<map, file, pos, writer, iter, ret, marks, dirty>>

\* Mutant of LoadChange: a Clear is read, and not done.
LoadChangeButClear ==
  /\ phase = "loading"
  /\ \E c \in Changes :
       /\ RecordAt(file, pos, c)
       /\ map' = IF c = ClearChange THEN map ELSE Apply(map, c)
       /\ pos' = pos + Len(c)
       /\ marks' = IF pos = LastMark.at
                   THEN Append(marks, [at |-> pos', map |-> Apply(map, c)])
                   ELSE marks
  /\ UNCHANGED <<file, phase, writer, iter, ret, dirty>>

LoadChange ==
  /\ phase = "loading"
  /\ \E c \in Changes :
       /\ RecordAt(file, pos, c)
       /\ map' = Apply(map, c)
       /\ pos' = pos + Len(c)
       /\ marks' = IF pos = LastMark.at
                   THEN Append(marks, [at |-> pos', map |-> map'])
                   ELSE marks
  /\ UNCHANGED <<file, phase, writer, iter, ret, dirty>>

\* Mutant of Corrupted: position 0 stands for "nothing is corrupted".
CorruptedLater ==
  /\ phase = "loading"
  /\ pos \in 1..(Len(file) - 1)
  /\ \A c \in Changes : ~RecordAt(file, pos, c)

\* There is something to read, and it is not a record.
Corrupted ==
  /\ phase = "loading"
  /\ pos < Len(file)
  /\ \A c \in Changes : ~RecordAt(file, pos, c)

LoadCorrupted ==
  /\ Corrupted
  /\ TruncateTrailingContent(AsInt(pos))
  /\ pos' = 0
  /\ UNCHANGED <<map, writer, iter, ret, marks, dirty>>

LoadDone ==
  /\ phase = "loading"
  /\ pos = Len(file)
  /\ phase' = "serving"
  /\ pos' = 0
  /\ UNCHANGED <<map, file, writer, iter, ret, marks, dirty>>

-----------------------------------------------------------------------------
(* Put, Remove and Clear, under the unique lock.                           *)

\* Mutant of BeginChange: the lock does not keep readers out.
BeginChangeUnlocked(c) ==
  /\ phase = "serving"
  /\ Len(file) + Len(c) <= MaxFile
  /\ phase' = "writing"
  /\ map' = Apply(map, c)
  /\ change' = c
  /\ left' = c
  /\ curPos' = AsInt(Len(file))
  /\ before' = map
  /\ UNCHANGED <<file, pos, iter, ret, marks, dirty>>

\* map_ is altered, then tellp() tells where the record will start.
BeginChange(c) ==
  /\ phase = "serving"
  /\ \A r \in Readers : iter[r] = NoKey
  /\ Len(file) + Len(c) <= MaxFile
  /\ phase' = "writing"
  /\ map' = Apply(map, c)
  /\ change' = c
  /\ left' = c
  /\ curPos' = AsInt(Len(file))
  /\ before' = map
  /\ UNCHANGED <<file, pos, iter, ret, marks, dirty>>

Put(k, v) ==
  /\ Len(map[k]) < MaxValues
  /\ BeginChange(PutChange(k, v))
  /\ found' = FALSE

Remove(k) ==
  /\ BeginChange(RemoveChange(k))
  /\ found' = (map[k] # <<>>)

Clear ==
  /\ BeginChange(ClearChange)
  /\ found' = FALSE

\* A cell of the record reaches the file: by write(), flush() or close().
Spill ==
  /\ Busy
  /\ left # <<>>
  /\ file' = Append(file, Head(left))
  /\ left' = Tail(left)
  /\ UNCHANGED <<map, phase, pos, change, curPos, found, iter, ret, marks,
                 dirty, before>>

\* The lock is given up, with status s for the caller.
Return(s) ==
  /\ ret' = [status |-> s, values |-> <<>>]
  /\ Forget
  /\ UNCHANGED <<map, pos, iter>>

\* Mutant of StatusIf: a record that is not written is an exception.
StatusUnlessThrown(logged) ==
  IF change[1] = "remove" /\ ~found THEN "NOT_FOUND"
  ELSE IF logged THEN "OK" ELSE "UNKNOWN"

\* What the service answers: a key that was not there goes before a record
\* that was not written.
StatusIf(logged) ==
  IF change[1] = "remove" /\ ~found THEN "NOT_FOUND"
  ELSE IF logged THEN "OK" ELSE "UNAVAILABLE"

Acknowledge ==
  /\ phase = "writing"
  /\ left = <<>>
  /\ phase' = "serving"
  /\ marks' = Append(marks, [at  |-> Len(file),
                             map |-> Apply(LastMark.map, change)])
  /\ dirty' = dirty \ Settled(change)
  /\ Return(StatusIf(TRUE))
  /\ UNCHANGED file

\* write() or flush() reports an error.
WriteFails ==
  /\ phase = "writing"
  /\ left # <<>>
  /\ phase' = "failing"
  /\ UNCHANGED <<map, file, pos, writer, iter, ret, marks, dirty>>

Rollback ==
  /\ phase = "failing"
  /\ TruncateTrailingContent(curPos)
  /\ dirty' = dirty \cup Touched(change)
  /\ Return(StatusIf(FALSE))
  /\ UNCHANGED marks

\* Control is at a truncate() of the file to StartPos ...
Truncating == phase = "failing" \/ Corrupted

StartPos == IF phase = "failing" THEN curPos ELSE AsInt(pos)

\* ... which the system refuses (EINVAL) or cannot do: LOG(FATAL).
TruncateRefused == Truncating /\ StartPos < 0 /\ Dies
TruncateFails   == Truncating /\ StartPos >= 0 /\ Dies

-----------------------------------------------------------------------------
(* Get, under the shared lock: find(), then the copy of the values.        *)

BeginGet(r, k) ==
  /\ phase = "serving"
  /\ iter[r] = NoKey
  /\ iter' = [iter EXCEPT ![r] = k]
  /\ UNCHANGED <<map, file, phase, pos, writer, ret, marks, dirty>>

EndGet(r) ==
  /\ phase = "serving"
  /\ iter[r] # NoKey
  /\ iter' = [iter EXCEPT ![r] = NoKey]
  /\ ret' = [status |-> "OK", values |-> map[iter[r]]]
  /\ UNCHANGED <<map, file, phase, pos, writer, marks, dirty>>

-----------------------------------------------------------------------------

Next ==
  \/ Start \/ LoadChange \/ LoadCorrupted \/ LoadDone
  \/ \E k \in Keys : Remove(k) \/ \E v \in Values : Put(k, v)
  \/ Clear
  \/ Spill \/ Acknowledge \/ WriteFails \/ Rollback
  \/ TruncateRefused \/ TruncateFails
  \/ \E r \in Readers : EndGet(r) \/ \E k \in Keys : BeginGet(r, k)
  \/ Crash

Spec == Init /\ [][Next]_vars

\* The thread that loads the file, or holds the lock, keeps running.  Nothing
\* makes the process start, a call be made or a write fail.
Load == LoadChange \/ LoadCorrupted \/ LoadDone
Write == Spill \/ Acknowledge \/ Rollback

Fairness ==
  /\ WF_vars(Load)
  /\ WF_vars(Write)
  /\ WF_vars(TruncateRefused)
  /\ \A r \in Readers : WF_vars(EndGet(r))

FairSpec == Spec /\ Fairness

-----------------------------------------------------------------------------
(* Properties.                                                             *)

Statuses == {"NONE", "OK", "NOT_FOUND", "UNAVAILABLE"}

TypeOK ==
  /\ map \in Maps
  /\ file \in Seq(Cells)
  /\ phase \in {"down", "loading", "serving", "writing", "failing"}
  /\ pos \in Nat
  /\ change \in Changes \cup {NoChange}
  /\ left \in Seq(Cells)
  /\ curPos \in Int
  /\ found \in BOOLEAN
  /\ iter \in [Readers -> Keys \cup {NoKey}]
  /\ ret \in [status : Statuses, values : Seq(Values)]
  /\ marks \in Seq([at : Nat, map : Maps])
  /\ dirty \subseteq Keys
  /\ before \in Maps

\* Mark i is in the file: the record that ends there is whole, and makes the
\* marked map of the one before it.
Stored(i) ==
  \E c \in Changes :
    /\ RecordAt(file, marks[i - 1].at, c)
    /\ marks[i].at = marks[i - 1].at + Len(c)
    /\ marks[i].map = Apply(marks[i - 1].map, c)

\* No crash, refused write or truncation, of this change or of a later one,
\* ever costs a change that was answered OK or that a restart has brought back:
\* its record stays whole in the file, after those of the changes before it
\* ("all data will stay intact except the last operation", kvstore.h).
AcknowledgedOnDisk == \A i \in 2..Len(marks) : Stored(i)

\* When no change is being made, the file ends with the last stored record:
\* the next one never follows the remains of another, where the next load
\* would stop and truncate it (TruncateTrailingContent, both callers).
NoTornGap == phase = "serving" => Len(file) = LastMark.at

\* Every key that no refused change has touched has in memory exactly the
\* values that the stored changes make, so that a restart does not alter it
\* (Put, Remove and Clear against the constructor).
MemoryMatchesLog ==
  phase = "serving" =>
    \A k \in Keys \ dirty : map[k] = LastMark.map[k]

\* While a reader holds an iterator into map_, nothing alters map_: its key
\* is neither erased nor reallocated under it (Get's shared_lock against the
\* unique_lock of the changes).
IteratorStaysValid ==
  [][\A r \in Readers : iter[r] # NoKey /\ iter'[r] = iter[r] => map' = map]_vars

\* Replay of whatever the file holds, and the handling of a write that is
\* refused part way, come to their end: the constructor never loops over the
\* remains of a record, and no change keeps the lock for ever.
Progress == []<>(phase \in {"serving", "down"})

\* The store never aborts because of a position it has computed itself: every
\* cur_pos handed to truncate() is one that the file has.
NeverAbortsItself == [][~TruncateRefused]_vars

\* What a restart will bring back: the stored changes, and after them the one
\* in flight, when its record is whole.
Recoverable ==
  IF \E c \in Changes : RecordAt(file, LastMark.at, c)
  THEN Apply(LastMark.map, CHOOSE c \in Changes : RecordAt(file, LastMark.at, c))
  ELSE LastMark.map

Up == phase = "serving" \/ Busy

Abs == INSTANCE DurableMap WITH
  up      <- Up,
  mem     <- IF Busy THEN before ELSE IF Up THEN map ELSE EmptyMap,
  dur     <- IF Up THEN LastMark.map ELSE Recoverable,
  pending <- change,
  ret     <- ret

\* To its callers the store is the durable map in which each call takes effect
\* at once: Get never shows a change that is being made, an answered change
\* survives every crash, one that was not answered is kept or lost as a whole.
ImplementsDurableMap == Abs!AbsSpec
=============================================================================
