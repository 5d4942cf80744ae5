------------------------------ MODULE LogBytes ------------------------------
(***************************************************************************)
(* The log of a KVStore byte by byte (cpp/kvstore/kvstore.cc): how         *)
(* DumpString writes a string, how LoadString and LoadChange read it back, *)
(* and what the constructor makes of a file in which the last record is    *)
(* cut anywhere.  It is what allows KVStore to take a string for one cell. *)
(*                                                                         *)
(* map_ goes by the changes it is made of (replayed).  The widths of a     *)
(* group of bits and of the integers are parameters: 7, 32 and 64 in the   *)
(* code.  File positions are exact here; KVStore narrows them.             *)
(*                                                                         *)
(* stored and lost are history variables.                                  *)
(***************************************************************************)
EXTENDS Integers, SequencesExt

CONSTANTS
  GroupBits,   \* bits of a length in one byte
  IntBits,     \* width of int
  SizeBits,    \* width of size_t
  Keys,        \* keys, as sequences of bytes
  Values,      \* values, as sequences of bytes
  Faults,      \* "open": the file is there and cannot be opened for reading,
               \* "power": the machine may lose its power
  MaxChanges   \* bound: changes in the log

VARIABLES
  file,      \* the bytes of the file
  phase,     \* where the process is
  pos,       \* while loading: how far infile has been read
  curPos,    \* cur_pos: where the record that is read or written starts
  part,      \* what LoadChange has of the record
  replayed,  \* the changes that map_ is made of
  change,    \* the change being made, or NoChange
  left,      \* the bytes of its record that are not in the file yet
  stored,    \* changes answered OK, or brought back by a start
  lost,      \* the change that was being made when the process died, or NoChange
  disk       \* what of the file a power failure leaves, and of its history

vars == <<file, phase, pos, curPos, part, replayed, change, left, stored, lost, disk>>

kPut    == 0
kRemove == 1
kClear  == 2

\* Mutant of StringsOf: the value of a Put is not read.
StringsOfKeys == [type \in {kPut, kRemove, kClear} |-> IF type = kClear THEN 0 ELSE 1]

\* The number of strings in a record of each type.
StringsOf == [type \in {kPut, kRemove, kClear} |->
                IF type = kPut THEN 2 ELSE IF type = kRemove THEN 1 ELSE 0]

Changes == {<<kPut, k, v>> : k \in Keys, v \in Values}
             \cup {<<kRemove, k>> : k \in Keys} \cup {<<kClear>>}

NoChange == <<>>

-----------------------------------------------------------------------------
(* Writing.                                                                *)

Group == 2 ^ GroupBits

Byte == 0..(2 * Group - 1)

ASSUME WidthsAssumption ==
  /\ GroupBits \in Nat \ {0} /\ IntBits \in Nat \ {0} /\ SizeBits \in Nat
  /\ IntBits <= SizeBits

\* No string is twice as long as an int can say: no message of a call comes near it.
ASSUME StringsAssumption ==
  \A s \in Keys \cup Values : s \in Seq(Byte) /\ Len(s) < 2 ^ IntBits

\* What the proofs use of powers, of which the provers know nothing.
ASSUME PowersAssumption ==
  \A n \in 0..(GroupBits + SizeBits) : 2 ^ n \in Nat /\ 2 ^ (n + 1) = 2 * 2 ^ n

\* The groups of a length, the lowest first; all but the last are marked.
Varint[x \in Nat] ==
  IF x < Group THEN <<x>> ELSE <<Group + (x % Group)>> \o Varint[x \div Group]

\* Mutant of DumpString: the highest group first.
DumpBigEndian(s) == Reverse(Varint[Len(s)]) \o s

DumpString(s) == Varint[Len(s)] \o s

\* The record of a change: its type and its strings.
Record(c) == <<c[1]>> \o FlattenSeq([i \in 1..(Len(c) - 1) |-> DumpString(c[i + 1])])

Bytes(cs) == FlattenSeq([i \in DOMAIN cs |-> Record(cs[i])])

-----------------------------------------------------------------------------
(* Reading.                                                                *)

\* Mutant of AsInt: an int of one bit less.
AsShortInt(n) == ((n + 2 ^ (IntBits - 2)) % 2 ^ (IntBits - 1)) - 2 ^ (IntBits - 2)

\* A value narrowed to int, and one widened from there to size_t.
AsInt(n)  == ((n + 2 ^ (IntBits - 1)) % 2 ^ IntBits) - 2 ^ (IntBits - 1)
AsSize(n) == n % 2 ^ SizeBits

\* The bitwise or of two values.
Or[a \in Nat] == [b \in Nat |->
  IF a = 0 THEN b
  ELSE 2 * Or[a \div 2][b \div 2] + (IF a % 2 = 0 THEN b % 2 ELSE 1)]

\* len |= ((b & 0x7F) << n_shifts): an int is shifted, which the processor does
\* by the shift modulo its width, and its sign goes into the upper half of len.
WithGroup(len, b, shifts) ==
  Or[len][AsSize(AsInt((b % Group) * 2 ^ (shifts % IntBits)))]

\* At the type of the next record, the length of a string or its characters.
NoPart == [at |-> "type", type |-> kClear, strs |-> <<>>, len |-> 0, shifts |-> 0]

\* LoadChange has read the type and some of the strings: the change is made,
\* or the next string is due.
Loaded(type, strs) ==
  IF Len(strs) = StringsOf[type]
  THEN /\ part' = NoPart
       /\ replayed' = Append(replayed, <<type>> \o strs)
  ELSE /\ part' = [NoPart EXCEPT !.at = "length", !.type = type, !.strs = strs]
       /\ UNCHANGED replayed

NextByte == file[pos + 1]

LoadType ==
  /\ phase = "loading" /\ part.at = "type"
  /\ pos < Len(file)
  /\ NextByte \in DOMAIN StringsOf
  /\ Loaded(NextByte, <<>>)
  /\ pos' = pos + 1
  /\ curPos' = pos
  /\ UNCHANGED <<file, phase, change, left, stored, lost>>

LoadLength ==
  /\ phase = "loading" /\ part.at = "length"
  /\ pos < Len(file)
  /\ part' = [part EXCEPT !.len = WithGroup(@, NextByte, part.shifts),
                          !.shifts = @ + GroupBits,
                          !.at = IF NextByte < Group THEN "chars" ELSE @]
  /\ pos' = pos + 1
  /\ UNCHANGED <<file, phase, curPos, replayed, change, left, stored, lost>>

\* resize() cannot make a string that long, and nobody catches what it throws.
TooLong == phase = "loading" /\ part.at = "chars" /\ part.len >= 2 ^ (SizeBits - 1)

LoadChars ==
  /\ phase = "loading" /\ part.at = "chars" /\ ~TooLong
  /\ pos + part.len <= Len(file)
  /\ Loaded(part.type, Append(part.strs, SubSeq(file, pos + 1, pos + part.len)))
  /\ pos' = pos + part.len
  /\ UNCHANGED <<file, phase, curPos, change, left, stored, lost>>

\* Mutant of Corrupted: the end of the file in a length is not noticed.
CorruptedButLength ==
  /\ phase = "loading" /\ ~TooLong
  /\ \/ part.at = "type" /\ pos < Len(file) /\ NextByte \notin DOMAIN StringsOf
     \/ part.at = "chars" /\ pos + part.len > Len(file)

\* What was read is not the next part of a record.
Corrupted ==
  /\ phase = "loading" /\ ~TooLong
  /\ \/ part.at = "type" /\ pos < Len(file) /\ NextByte \notin DOMAIN StringsOf
     \/ part.at = "length" /\ pos = Len(file)
     \/ part.at = "chars" /\ pos + part.len > Len(file)

\* Mutant of RecordStart: the file is cut where reading stopped.
RecordEnd == pos

\* cur_pos of the record that is being read.
RecordStart == IF part.at = "type" THEN pos ELSE curPos

\* The load is over: the file holds what was replayed.
Serve ==
  /\ phase' = "serving"
  /\ pos' = 0 /\ curPos' = 0 /\ part' = NoPart
  /\ stored' = replayed
  /\ lost' = NoChange
  /\ UNCHANGED <<replayed, change, left>>

LoadCorrupted ==
  /\ Corrupted
  /\ file' = SubSeq(file, 1, RecordStart)
  /\ Serve

LoadDone ==
  /\ phase = "loading" /\ part.at = "type"
  /\ pos = Len(file)
  /\ Serve
  /\ UNCHANGED file

-----------------------------------------------------------------------------
(* The process.                                                            *)

Init ==
  /\ file = <<>>
  /\ phase = "down"
  /\ pos = 0 /\ curPos = 0
  /\ part = NoPart
  /\ replayed = <<>>
  /\ change = NoChange
  /\ left = <<>>
  /\ stored = <<>>
  /\ lost = NoChange
  /\ disk = [file |-> <<>>, stored |-> <<>>, lost |-> NoChange]

\* The constructor opens the file.  One that it cannot open it takes for a missing
\* one, and serves an empty map; a whole record of the lost change stays in the file.
Start ==
  /\ phase = "down"
  /\ phase' \in (IF "open" \in Faults THEN {"loading", "serving"} ELSE {"loading"})
  /\ LET whole == lost # NoChange /\ file = Bytes(Append(stored, lost)) IN
       stored' = IF phase' = "serving" /\ whole THEN Append(stored, lost) ELSE stored
  /\ lost' = IF phase' = "serving" THEN NoChange ELSE lost
  /\ UNCHANGED <<file, pos, curPos, part, replayed, change, left>>

\* Put, Remove or Clear: map_ first, then the record.
BeginChange(c) ==
  /\ phase = "serving"
  /\ Len(stored) < MaxChanges /\ Len(replayed) < MaxChanges
  /\ phase' = "writing"
  /\ replayed' = Append(replayed, c)
  /\ change' = c
  /\ left' = Record(c)
  /\ curPos' = Len(file)
  /\ UNCHANGED <<file, pos, part, stored, lost>>

Spill ==
  /\ phase = "writing"
  /\ left # <<>>
  /\ file' = Append(file, Head(left))
  /\ left' = Tail(left)
  /\ UNCHANGED <<phase, pos, curPos, part, replayed, change, stored, lost>>

\* The change is over, in the file or not.
Return ==
  /\ phase' = "serving"
  /\ change' = NoChange /\ left' = <<>> /\ curPos' = 0
  /\ UNCHANGED <<pos, part, replayed, lost>>

Acknowledge ==
  /\ phase = "writing"
  /\ left = <<>>
  /\ stored' = Append(stored, change)
  /\ Return
  /\ UNCHANGED file

\* The system refuses the rest of the record, and what is there is cut off.
WriteFails ==
  /\ phase = "writing"
  /\ left # <<>>
  /\ file' = SubSeq(file, 1, curPos)
  /\ Return
  /\ UNCHANGED stored

\* The change that a start may bring back in addition to the stored ones.
Doubtful == IF change # NoChange THEN change ELSE lost

Ends ==
  /\ phase' = "down"
  /\ pos' = 0 /\ curPos' = 0 /\ part' = NoPart
  /\ replayed' = <<>>
  /\ change' = NoChange /\ left' = <<>>

Dies ==
  /\ Ends
  /\ lost' = Doubtful
  /\ UNCHANGED <<file, stored>>

Crash == phase # "down" /\ ~TooLong /\ Dies

LoadThrows == TooLong /\ Dies

\* The system writes the file to the disk when it likes: flush() does not ask for it.
Writeback ==
  /\ "power" \in Faults
  /\ file # disk.file
  /\ disk' = [file |-> file, stored |-> stored, lost |-> Doubtful]
  /\ UNCHANGED <<file, phase, pos, curPos, part, replayed, change, left, stored, lost>>

\* The machine stops: the file is what was written back last.
PowerFails ==
  /\ "power" \in Faults
  /\ Ends
  /\ file' = disk.file /\ stored' = disk.stored /\ lost' = disk.lost
  /\ UNCHANGED disk

Load == LoadType \/ LoadLength \/ LoadChars \/ LoadCorrupted \/ LoadDone \/ LoadThrows

Next ==
  \/ /\ \/ Start \/ Load
        \/ \E c \in Changes : BeginChange(c)
        \/ Spill \/ Acknowledge \/ WriteFails
        \/ Crash
     /\ UNCHANGED disk
  \/ Writeback
  \/ PowerFails

Spec == Init /\ [][Next]_vars

\* The thread that loads the file keeps running.
FairSpec == Spec /\ WF_vars(Load /\ UNCHANGED disk)

-----------------------------------------------------------------------------
(* Properties.                                                             *)

TypeOK ==
  /\ file \in Seq(Byte)
  /\ phase \in {"down", "loading", "serving", "writing"}
  /\ pos \in 0..Len(file) /\ curPos \in 0..Len(file)
  /\ part.at \in {"type", "length", "chars"} /\ part.len \in 0..(2 ^ SizeBits - 1)
  /\ replayed \in Seq(Changes) /\ stored \in Seq(Changes)
  /\ change \in Changes \cup {NoChange} /\ lost \in Changes \cup {NoChange}

\* Outside a change the file holds the records of the stored changes and not one
\* byte more, in which no length could be mistaken (constructor, DumpString).
FileIsRecords == phase = "serving" => file = Bytes(stored)

\* A start brings back the changes that were answered OK, each with the very
\* strings it had, and after them at most the one that was being made when the
\* process died: "all data will stay intact except the last operation" (kvstore.h).
\* A power failure takes that back to an earlier moment, never to a map that was not.
RestartsRight ==
  [][phase = "loading" /\ phase' = "serving" =>
       replayed' \in {stored, Append(stored, lost)}]_vars

\* A load ends with a map, unless a string in the file is too long for the int in
\* which its length is put together (LoadString).
OnlyLongStringsThrow ==
  TooLong => \E c \in Range(stored) \cup {lost} :
               \E i \in 2..Len(c) : Len(c[i]) >= 2 ^ (IntBits - 1)

\* Every load comes to an end, whatever byte the file ends with (constructor).
LoadEnds == phase = "loading" ~> phase # "loading"
=============================================================================
