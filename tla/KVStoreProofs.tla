---------------------------- MODULE KVStoreProofs ----------------------------
(***************************************************************************)
(* Proofs about KVStore, for any keys, values, readers and bounds.         *)
(*                                                                         *)
(* Positions are kept in an int in the code, so the results hold for files *)
(* whose positions do not turn positive again when they are narrowed:      *)
(* MaxFile <= 2 * IntMax + 1, which is 4 GiB.                              *)
(***************************************************************************)
EXTENDS KVStore, SequenceTheorems, TLAPS

-----------------------------------------------------------------------------
(* The inductive invariant.                                                *)

\* The first n cells of the record of c, and nothing else, follow the last mark.
PartAtEnd(n, c) ==
  /\ Len(file) = LastMark.at + n
  /\ \A i \in 1..n : file[LastMark.at + i] = c[i]

\* The marks are the ends of the records from the start of the file on.
Chain ==
  /\ marks # <<>>
  /\ marks[1].at = 0 /\ marks[1].map = EmptyMap
  /\ AcknowledgedOnDisk
  /\ \A i, j \in 1..Len(marks) : i < j => marks[i].at < marks[j].at
  /\ LastMark.at <= Len(file)

\* What follows the last mark: nothing while the store serves, the cells of the
\* record being written that are not left, and at most the beginning of one
\* record once the process has died.
EndOfFile ==
  /\ Len(file) <= MaxFile
  /\ NoTornGap
  /\ Busy => /\ change \in Changes
             /\ Len(left) <= Len(change)
             /\ PartAtEnd(Len(change) - Len(left), change)
             /\ \A i \in 1..Len(left) : left[i] = change[Len(change) - Len(left) + i]
             /\ LastMark.at + Len(change) <= MaxFile
             /\ curPos = AsInt(LastMark.at)
  /\ phase \in {"down", "loading"} =>
       \E c \in Changes : \E n \in 0..Len(c) : PartAtEnd(n, c)

\* The replay stands at a mark, with the map that the marked changes make.
Replay ==
  phase = "loading" =>
    \E i \in 1..Len(marks) : pos = marks[i].at /\ map = marks[i].map

\* Memory and log differ in dirty keys and in the change being made.
Memory ==
  /\ MemoryMatchesLog
  /\ Busy => /\ map = Apply(before, change)
             /\ \A k \in Keys \ dirty : before[k] = LastMark.map[k]
             /\ found = (change[1] = "remove" /\ before[change[2]] # <<>>)
  /\ ~Busy => change = NoChange
  /\ phase = "down" => map = EmptyMap /\ pos = 0
  /\ phase \in {"down", "loading"} => dirty = {}
  /\ \A r \in Readers : iter[r] # NoKey => phase = "serving"

\* No position wraps round to another position: the file stays below 4 GiB.
BelowWrap == MaxFile <= 2 * IntMax + 1

IInv == TypeOK /\ Chain /\ EndOfFile /\ Replay /\ Memory

-----------------------------------------------------------------------------
(* Changes and the records they make.                                      *)

LEMMA ChangeShape ==
  ASSUME NEW c \in Changes
  PROVE  /\ c \in Seq(Cells)
         /\ \/ \E k \in Keys, v \in Values : c = PutChange(k, v)
            \/ \E k \in Keys : c = RemoveChange(k)
            \/ c = ClearChange
         /\ c[1] \in {"put", "remove", "clear"}
         /\ c[1] = "put" => Len(c) = 3
         /\ c[1] = "remove" => Len(c) = 2
         /\ c[1] = "clear" => Len(c) = 1
<1>1. CASE \E k \in Keys, v \in Values : c = PutChange(k, v)
  BY <1>1 DEF PutChange, Cells
<1>2. CASE \E k \in Keys : c = RemoveChange(k)
  BY <1>2 DEF RemoveChange, Cells
<1>3. CASE c = ClearChange
  BY <1>3 DEF ClearChange, Cells
<1> QED BY <1>1, <1>2, <1>3 DEF Changes

LEMMA ChangeLen ==
  ASSUME NEW c \in Changes
  PROVE  c \in Seq(Cells) /\ Len(c) \in Nat /\ Len(c) \in 1..3 /\ Len(c) \in Nat \ {0}
  BY ChangeShape

LEMMA ApplyType ==
  ASSUME NEW c \in Changes, NEW m \in Maps
  PROVE  Apply(m, c) \in Maps
<1>1. CASE \E k \in Keys, v \in Values : c = PutChange(k, v)
  BY <1>1 DEF PutChange, Maps, Apply
<1>2. CASE \E k \in Keys : c = RemoveChange(k)
  BY <1>2 DEF RemoveChange, Maps, Apply
<1>3. CASE c = ClearChange
  BY <1>3 DEF ClearChange, Maps, Apply, EmptyMap
<1> QED BY <1>1, <1>2, <1>3 DEF Changes

LEMMA AsIntFits ==
  ASSUME NEW n \in Nat, n <= 2 * IntMax + 1, AsInt(n) >= 0
  PROVE  AsInt(n) = n
  BY IntMaxAssumption DEF AsInt

LEMMA RecordUnique ==
  ASSUME NEW f \in Seq(Cells), NEW at \in Nat, NEW c \in Changes, NEW d \in Changes,
         RecordAt(f, at, c), RecordAt(f, at, d)
  PROVE  c = d
<1>1. /\ c \in Seq(Cells) /\ Len(c) \in Nat \ {0}
      /\ d \in Seq(Cells) /\ Len(d) \in Nat \ {0}
  BY ChangeLen
<1>2. c[1] = d[1]
  <2>1. 1 \in 1..Len(c) /\ 1 \in 1..Len(d)
    BY <1>1
  <2>2. f[at + 1] = c[1] /\ f[at + 1] = d[1]
    BY <2>1 DEF RecordAt
  <2> QED BY <2>2
<1>3. Len(c) = Len(d)
  BY <1>2, ChangeShape
<1>4. \A i \in 1..Len(c) : c[i] = d[i]
  BY <1>3 DEF RecordAt
<1> QED BY <1>1, <1>3, <1>4, SeqEqual

-----------------------------------------------------------------------------
(* The initial state, and steps that change no variable.                   *)

LEMMA ClearIsChange == ClearChange \in Changes /\ Len(ClearChange) = 1
  BY DEF Changes, ClearChange

LEMMA EmptyMapType == EmptyMap \in Maps
  BY DEF EmptyMap, Maps

LEMMA InitIInv == Init => IInv
<1> SUFFICES ASSUME Init PROVE IInv
  OBVIOUS
<1> USE DEF Init, LastMark
<1>1. TypeOK
  <2>1. marks \in Seq([at : Nat, map : Maps])
    BY EmptyMapType
  <2>2. ret \in [status : Statuses, values : Seq(Values)]
    BY DEF Statuses
  <2>3. file \in Seq(Cells) /\ left \in Seq(Cells)
    OBVIOUS
  <2>4. iter \in [Readers -> Keys \cup {NoKey}]
    OBVIOUS
  <2>5. phase \in {"down", "loading", "serving", "writing", "failing"} /\ pos \in Nat
    OBVIOUS
  <2>7. curPos \in Int /\ dirty \subseteq Keys
    OBVIOUS
  <2>8. found \in BOOLEAN
    OBVIOUS
  <2>9. change \in Changes \cup {NoChange}
    OBVIOUS
  <2>6. map \in Maps /\ before \in Maps
    BY EmptyMapType
  <2> QED BY <2>5, <2>6, <2>7, <2>8, <2>9, <2>1, <2>2, <2>3, <2>4, EmptyMapType DEF TypeOK
<1>2. Chain
  BY DEF Chain, AcknowledgedOnDisk
<1>3. EndOfFile
  <2>1. PartAtEnd(0, ClearChange)
    BY DEF PartAtEnd
  <2> QED BY <2>1, ClearIsChange, BoundsAssumption DEF EndOfFile, NoTornGap, Busy
<1>4. Replay /\ Memory
  BY DEF Replay, Memory, MemoryMatchesLog, Busy
<1> QED BY <1>1, <1>2, <1>3, <1>4 DEF IInv

LEMMA StutterIInv == IInv /\ UNCHANGED vars => IInv'
<1> SUFFICES ASSUME IInv, UNCHANGED vars PROVE IInv'
  OBVIOUS
<1> USE DEF vars, writer, IInv
<1>1. TypeOK'
  BY DEF TypeOK
<1>2. \A i : Stored(i)' = Stored(i)
  BY DEF Stored, RecordAt
<1>3. Chain'
  BY <1>2 DEF Chain, AcknowledgedOnDisk, LastMark
<1>4. EndOfFile'
  BY DEF EndOfFile, NoTornGap, PartAtEnd, LastMark, Busy
<1>5. Replay' /\ Memory'
  BY DEF Replay, Memory, MemoryMatchesLog, LastMark, Busy
<1> QED BY <1>1, <1>3, <1>4, <1>5

-----------------------------------------------------------------------------
(* The marks.                                                              *)

LEMMA MarkType ==
  ASSUME marks \in Seq([at : Nat, map : Maps]), NEW i \in 1..Len(marks)
  PROVE  marks[i] \in [at : Nat, map : Maps] /\ marks[i].at \in Nat /\ marks[i].map \in Maps
<1>1. marks[i] \in [at : Nat, map : Maps]
  BY ElementOfSeq
<1> QED BY <1>1

LEMMA LastMarkType ==
  ASSUME marks \in Seq([at : Nat, map : Maps]), marks # <<>>
  PROVE  /\ Len(marks) \in Nat \ {0}
         /\ Len(marks) \in 1..Len(marks)
         /\ LastMark \in [at : Nat, map : Maps]
         /\ LastMark.at \in Nat
         /\ LastMark.map \in Maps
<1>1. Len(marks) \in Nat \ {0}
  BY EmptySeq, LenProperties
<1>2. Len(marks) \in 1..Len(marks)
  BY <1>1
<1>3. LastMark \in [at : Nat, map : Maps]
  BY <1>2, MarkType DEF LastMark
<1> QED BY <1>1, <1>2, <1>3

LEMMA MarksIncrease ==
  ASSUME marks \in Seq([at : Nat, map : Maps]), marks # <<>>,
         \A i, j \in 1..Len(marks) : i < j => marks[i].at < marks[j].at,
         NEW i \in 1..Len(marks)
  PROVE  marks[i].at <= LastMark.at
<1>1. marks[i].at \in Nat /\ LastMark.at \in Nat /\ Len(marks) \in 1..Len(marks)
  BY MarkType, LastMarkType
<1>2. CASE i = Len(marks)
  BY <1>1, <1>2 DEF LastMark
<1>3. CASE i < Len(marks)
  BY <1>1, <1>3 DEF LastMark
<1> QED BY <1>1, <1>2, <1>3

\* The marks stand as long as the cells up to the last of them do.
LEMMA ChainKept ==
  ASSUME TypeOK, TypeOK', Chain, marks' = marks,
         LastMark.at <= Len(file'),
         \A i \in 1..LastMark.at : file'[i] = file[i]
  PROVE  Chain'
<1>1. /\ marks \in Seq([at : Nat, map : Maps])
      /\ LastMark.at \in Nat /\ Len(marks) \in Nat \ {0}
  BY LastMarkType DEF Chain, TypeOK
<1>2. ASSUME NEW i \in 2..Len(marks) PROVE Stored(i)'
  <2> DEFINE at == marks[i - 1].at
  <2>1. PICK c \in Changes : /\ RecordAt(file, at, c)
                             /\ marks[i].at = at + Len(c)
                             /\ marks[i].map = Apply(marks[i - 1].map, c)
    BY DEF Chain, AcknowledgedOnDisk, Stored
  <2>2. i \in 1..Len(marks) /\ i - 1 \in 1..Len(marks)
    BY <1>1
  <2>3. at \in Nat /\ Len(c) \in Nat
    BY <1>1, <2>2, MarkType, ChangeLen
  <2> HIDE DEF at
  <2>4. at + Len(c) <= LastMark.at
    BY <1>1, <2>1, <2>2, MarksIncrease DEF Chain
  <2>5. \A j \in 1..Len(c) : at + j \in 1..LastMark.at
    BY <1>1, <2>3, <2>4
  <2>6. at + Len(c) <= Len(file') /\ \A j \in 1..Len(c) : file'[at + j] = c[j]
    <3>1. file' \in Seq(Cells)
      BY DEF TypeOK
    <3>2. Len(file') \in Nat
      BY <3>1, LenProperties
    <3>3. \A j \in 1..Len(c) : file'[at + j] = c[j]
      BY <2>1, <2>5 DEF RecordAt
    <3> QED BY <1>1, <2>3, <2>4, <3>2, <3>3
  <2>7. marks' = marks /\ RecordAt(file', at, c)
    BY <2>6 DEF RecordAt
  <2> QED BY <2>1, <2>7 DEF Stored, at
<1> QED BY <1>2 DEF Chain, AcknowledgedOnDisk, LastMark

\* The next mark goes where the next record ends.
LEMMA ChainGrows ==
  ASSUME TypeOK, TypeOK', Chain, NEW c \in Changes,
         RecordAt(file, LastMark.at, c), file' = file,
         marks' = Append(marks, [at  |-> LastMark.at + Len(c),
                                 map |-> Apply(LastMark.map, c)])
  PROVE  /\ Chain'
         /\ LastMark'.at = LastMark.at + Len(c)
         /\ LastMark'.map = Apply(LastMark.map, c)
<1> DEFINE n == Len(marks)
           m == [at |-> LastMark.at + Len(c), map |-> Apply(LastMark.map, c)]
<1>a. marks \in Seq([at : Nat, map : Maps]) /\ marks # <<>>
  BY DEF Chain, TypeOK
<1>b. n \in Nat \ {0} /\ LastMark.at \in Nat /\ LastMark.map \in Maps
  BY <1>a, LastMarkType
<1>c. Len(c) \in Nat \ {0}
  BY ChangeLen
<1>1. /\ n \in Nat \ {0} /\ LastMark.at \in Nat /\ LastMark.map \in Maps
      /\ Len(c) \in Nat \ {0}
  BY <1>b, <1>c
<1>2. m \in [at : Nat, map : Maps]
  BY <1>1, ApplyType
<1>3. /\ Len(marks') = n + 1
      /\ \A i \in 1..n : marks'[i] = marks[i]
      /\ marks'[n + 1] = m
  BY <1>1, <1>2, AppendProperties DEF TypeOK
<1>4. LastMark' = m
  BY <1>1, <1>3 DEF LastMark
<1>5. \A i \in 1..n : marks[i].at \in Nat /\ marks[i].at <= LastMark.at
  BY <1>1, MarkType, MarksIncrease DEF Chain, TypeOK
<1>6. ASSUME NEW i \in 2..(n + 1) PROVE Stored(i)'
  <2>1. CASE i \in 2..n
    <3>1. Stored(i)
      BY <2>1 DEF Chain, AcknowledgedOnDisk
    <3>2. i - 1 \in 1..n /\ i \in 1..n
      BY <2>1, <1>1
    <3> QED BY <3>1, <3>2, <1>3 DEF Stored, RecordAt
  <2>2. CASE i = n + 1
    <3>1. marks'[i] = m /\ marks'[i - 1] = LastMark
      BY <2>2, <1>1, <1>3 DEF LastMark
    <3> QED BY <3>1 DEF Stored, RecordAt
  <2> QED BY <1>1, <2>1, <2>2
<1>7. ASSUME NEW i \in 1..(n + 1), NEW j \in 1..(n + 1), i < j
      PROVE  marks'[i].at < marks'[j].at
  <2>1. CASE j \in 1..n
    <3>1. i \in 1..n
      BY <1>1, <1>7, <2>1
    <3>2. marks'[i] = marks[i] /\ marks'[j] = marks[j]
      BY <1>3, <2>1, <3>1
    <3>3. marks[i].at < marks[j].at
      BY <1>7, <2>1, <3>1 DEF Chain
    <3> QED BY <3>2, <3>3, Zenon
  <2>2. CASE j = n + 1
    <3>1. i \in 1..n
      BY <1>1, <1>7, <2>2
    <3>2. marks'[i] = marks[i] /\ marks'[j] = m
      BY <1>3, <2>2, <3>1
    <3>3. marks[i].at \in Nat /\ marks[i].at <= LastMark.at /\ m.at = LastMark.at + Len(c)
      BY <1>5, <3>1
    <3>4. marks[i].at < m.at
      BY <1>1, <3>3
    <3> QED BY <3>2, <3>4, Zenon
  <2> QED BY <1>1, <2>1, <2>2
<1>8. LastMark'.at <= Len(file')
  BY <1>1, <1>4 DEF RecordAt
<1>9. marks' # <<>> /\ marks'[1] = marks[1]
  BY <1>1, <1>3
<1> QED BY <1>1, <1>3, <1>4, <1>6, <1>7, <1>8, <1>9 DEF Chain, AcknowledgedOnDisk
-----------------------------------------------------------------------------
(* What every step starts from.                                            *)

LEMMA IInvFacts ==
  ASSUME IInv
  PROVE  /\ marks \in Seq([at : Nat, map : Maps]) /\ marks # <<>>
         /\ Len(marks) \in Nat \ {0} /\ Len(marks) \in 1..Len(marks)
         /\ LastMark.at \in Nat /\ LastMark.map \in Maps
         /\ file \in Seq(Cells) /\ Len(file) \in Nat
         /\ LastMark.at <= Len(file) /\ Len(file) <= MaxFile
<1>1. marks \in Seq([at : Nat, map : Maps]) /\ marks # <<>> /\ file \in Seq(Cells)
  BY DEF IInv, TypeOK, Chain
<1>2. /\ Len(marks) \in Nat \ {0} /\ Len(marks) \in 1..Len(marks)
      /\ LastMark.at \in Nat /\ LastMark.map \in Maps
  BY <1>1, LastMarkType
<1>3. Len(file) \in Nat
  BY <1>1, LenProperties
<1> QED BY <1>1, <1>2, <1>3 DEF IInv, Chain, EndOfFile

LEMMA ChainSame == Chain /\ UNCHANGED <<file, marks>> => Chain'
<1> SUFFICES ASSUME Chain, UNCHANGED <<file, marks>> PROVE Chain'
  OBVIOUS
<1>1. \A i : Stored(i)' = Stored(i)
  BY DEF Stored, RecordAt
<1> QED BY <1>1 DEF Chain, AcknowledgedOnDisk, LastMark

\* Whatever the store is doing, at most the beginning of one record follows the
\* last mark.
LEMMA PartRemains ==
  ASSUME IInv
  PROVE  \E c \in Changes : \E n \in 0..Len(c) : PartAtEnd(n, c)
<1>1. CASE phase \in {"down", "loading"}
  BY <1>1 DEF IInv, EndOfFile
<1>2. CASE phase = "serving"
  <2>1. Len(file) = LastMark.at
    BY <1>2 DEF IInv, EndOfFile, NoTornGap
  <2>2. PartAtEnd(0, ClearChange)
    BY <2>1, IInvFacts DEF PartAtEnd
  <2> QED BY <2>2, ClearIsChange
<1>3. CASE Busy
  <2>1. /\ change \in Changes /\ Len(left) <= Len(change)
        /\ PartAtEnd(Len(change) - Len(left), change)
    BY <1>3 DEF IInv, EndOfFile
  <2>2. Len(left) \in Nat /\ Len(change) \in Nat
    BY <2>1, ChangeLen, LenProperties DEF IInv, TypeOK
  <2>3. Len(change) - Len(left) \in 0..Len(change)
    BY <2>1, <2>2
  <2> QED BY <2>1, <2>3
<1> QED BY <1>1, <1>2, <1>3 DEF IInv, TypeOK, Busy

-----------------------------------------------------------------------------
(* The steps.                                                              *)

LEMMA DiesStep ==
  ASSUME IInv, Dies
  PROVE  IInv'
<1> USE DEF Dies, Forget
<1>1. TypeOK'
  <2>1. change' \in Changes \cup {NoChange} /\ left' \in Seq(Cells) /\ curPos' \in Int
    BY DEF NoChange
  <2>2. found' \in BOOLEAN /\ iter' \in [Readers -> Keys \cup {NoKey}]
    OBVIOUS
  <2> QED BY <2>1, <2>2, EmptyMapType DEF IInv, TypeOK
<1>2. Chain'
  BY ChainSame DEF IInv
<1>3. EndOfFile'
  <2>1. UNCHANGED <<file, marks>> /\ LastMark' = LastMark
    BY DEF LastMark
  <2>2. \E c \in Changes : \E n \in 0..Len(c) : PartAtEnd(n, c)'
    BY <2>1, PartRemains DEF PartAtEnd
  <2> QED BY <2>1, <2>2, IInvFacts DEF EndOfFile, NoTornGap, Busy
<1>4. Replay' /\ Memory'
  BY DEF Replay, Memory, MemoryMatchesLog, Busy
<1> QED BY <1>1, <1>2, <1>3, <1>4 DEF IInv

LEMMA StartStep ==
  ASSUME IInv, Start
  PROVE  IInv'
<1> USE DEF Start, writer
<1>1. TypeOK'
  BY DEF IInv, TypeOK
<1>2. Chain'
  BY ChainSame DEF IInv
<1>3. EndOfFile'
  BY DEF IInv, EndOfFile, NoTornGap, Busy, PartAtEnd, LastMark
<1>4. Replay'
  <2>1. 1 \in 1..Len(marks) /\ marks[1].at = 0 /\ marks[1].map = EmptyMap
    BY IInvFacts DEF IInv, Chain
  <2> QED BY <2>1 DEF IInv, Memory, Replay
<1>5. Memory'
  BY DEF IInv, Memory, MemoryMatchesLog, Busy
<1> QED BY <1>1, <1>2, <1>3, <1>4, <1>5 DEF IInv

\* A store that has read all that there is to read has read all the marks.
LEMMA ReplayAtEnd ==
  ASSUME IInv, phase = "loading", pos = LastMark.at
  PROVE  map = LastMark.map
<1>1. PICK i \in 1..Len(marks) : pos = marks[i].at /\ map = marks[i].map
  BY DEF IInv, Replay
<1>2. marks[i].at \in Nat /\ Len(marks) \in Nat /\ Len(marks) \in 1..Len(marks)
  BY IInvFacts, MarkType
<1>3. CASE i < Len(marks)
  <2>1. marks[i].at < LastMark.at
    BY <1>2, <1>3 DEF IInv, Chain, LastMark
  <2> QED BY <1>1, <1>2, <2>1, IInvFacts
<1>4. CASE i = Len(marks)
  BY <1>1, <1>4 DEF LastMark
<1> QED BY <1>2, <1>3, <1>4

LEMMA LoadDoneStep ==
  ASSUME IInv, LoadDone
  PROVE  IInv'
<1> USE DEF LoadDone, writer
<1>1. TypeOK'
  BY DEF IInv, TypeOK
<1>2. Chain'
  BY ChainSame DEF IInv
<1>3. pos = LastMark.at
  <2>1. PICK i \in 1..Len(marks) : pos = marks[i].at
    BY DEF IInv, Replay
  <2>2. marks[i].at \in Nat /\ marks[i].at <= LastMark.at
    BY IInvFacts, MarkType, MarksIncrease DEF IInv, Chain
  <2> QED BY <2>1, <2>2, IInvFacts
<1>4. EndOfFile'
  BY <1>3, IInvFacts DEF EndOfFile, NoTornGap, Busy, LastMark
<1>5. Replay'
  BY DEF Replay
<1>6. Memory'
  <2>1. map = LastMark.map
    BY <1>3, ReplayAtEnd
  <2> QED BY <2>1 DEF IInv, Memory, MemoryMatchesLog, Busy, LastMark
<1> QED BY <1>1, <1>2, <1>4, <1>5, <1>6 DEF IInv

\* A record after the last mark is the end of the file.
LEMMA RecordEnds ==
  ASSUME IInv, NEW c \in Changes, RecordAt(file, LastMark.at, c)
  PROVE  Len(file) = LastMark.at + Len(c)
<1>1. PICK d \in Changes : \E n \in 0..Len(d) : PartAtEnd(n, d)
  BY PartRemains
<1>2. PICK n \in 0..Len(d) : PartAtEnd(n, d)
  BY <1>1
<1>3. Len(c) \in Nat \ {0} /\ Len(d) \in Nat
  BY ChangeLen
<1>4. n \in Nat /\ n <= Len(d) /\ Len(file) = LastMark.at + n
  BY <1>2, <1>3 DEF PartAtEnd
<1>5. Len(c) <= n
  BY <1>3, <1>4, IInvFacts DEF RecordAt
<1>6. c[1] = d[1]
  <2>1. 1 \in 1..n /\ 1 \in 1..Len(c)
    BY <1>3, <1>4, <1>5
  <2> QED BY <1>2, <2>1 DEF PartAtEnd, RecordAt
<1>7. Len(c) = Len(d)
  BY <1>6, ChangeShape
<1> QED BY <1>3, <1>4, <1>5, <1>7

LEMMA LoadChangeStep ==
  ASSUME IInv, LoadChange
  PROVE  IInv'
<1>1. PICK c \in Changes :
        /\ RecordAt(file, pos, c)
        /\ map' = Apply(map, c)
        /\ pos' = pos + Len(c)
        /\ marks' = IF pos = LastMark.at
                    THEN Append(marks, [at |-> pos', map |-> map'])
                    ELSE marks
  BY DEF LoadChange
<1>2. /\ phase = "loading"
      /\ UNCHANGED <<file, phase, writer, iter, ret, dirty>>
  BY DEF LoadChange
<1>3. PICK i \in 1..Len(marks) : pos = marks[i].at /\ map = marks[i].map
  BY <1>2 DEF IInv, Replay
<1>4. marks \in Seq([at : Nat, map : Maps]) /\ marks # <<>> /\ Len(marks) \in Nat
  BY IInvFacts
<1>5. marks[i].at \in Nat /\ marks[i].map \in Maps
  BY <1>4, MarkType
<1>6. Len(c) \in Nat \ {0} /\ Apply(map, c) \in Maps
  BY <1>3, <1>5, ChangeLen, ApplyType
<1>7. marks' \in Seq([at : Nat, map : Maps])
  <2>1. [at |-> pos', map |-> map'] \in [at : Nat, map : Maps]
    BY <1>1, <1>3, <1>5, <1>6
  <2> QED BY <1>1, <1>4, <2>1, AppendProperties
<1>8. TypeOK'
  <2>1. pos' \in Nat /\ map' \in Maps
    BY <1>1, <1>3, <1>5, <1>6
  <2> QED BY <1>2, <1>7, <2>1 DEF IInv, TypeOK, writer
<1>9. Memory'
  BY <1>2 DEF IInv, Memory, MemoryMatchesLog, Busy, writer
<1>10. CASE i < Len(marks)
  <2>1. i + 1 \in 2..Len(marks) /\ (i + 1) - 1 = i /\ i + 1 \in 1..Len(marks)
    BY <1>4, <1>10
  <2>2. PICK d \in Changes : /\ RecordAt(file, marks[i].at, d)
                             /\ marks[i + 1].at = marks[i].at + Len(d)
                             /\ marks[i + 1].map = Apply(marks[i].map, d)
    <3>1. Stored(i + 1)
      BY <2>1 DEF IInv, Chain, AcknowledgedOnDisk
    <3> QED BY <2>1, <3>1 DEF Stored
  <2>3. c = d
    BY <1>1, <1>3, <1>5, <2>2, IInvFacts, RecordUnique
  <2>4. pos # LastMark.at
    <3>1. marks[i].at < LastMark.at
      BY <1>4, <1>10, IInvFacts DEF IInv, Chain, LastMark
    <3> QED BY <1>3, <1>5, <3>1, IInvFacts
  <2>5. marks' = marks
    BY <1>1, <2>4
  <2>6. Chain'
    BY <1>2, <2>5, ChainSame DEF IInv
  <2>7. EndOfFile'
    BY <1>2, <2>5 DEF IInv, EndOfFile, NoTornGap, Busy, PartAtEnd, LastMark, writer
  <2>8. Replay'
    <3>1. pos' = marks'[i + 1].at /\ map' = marks'[i + 1].map /\ i + 1 \in 1..Len(marks')
      BY <1>1, <1>3, <2>1, <2>2, <2>3, <2>5
    <3> QED BY <3>1 DEF Replay
  <2> QED BY <1>8, <1>9, <2>6, <2>7, <2>8 DEF IInv
<1>11. CASE i = Len(marks)
  <2>1. pos = LastMark.at /\ map = LastMark.map
    BY <1>3, <1>11 DEF LastMark
  <2>2. marks' = Append(marks, [at  |-> LastMark.at + Len(c),
                                map |-> Apply(LastMark.map, c)])
    BY <1>1, <2>1
  <2>3. RecordAt(file, LastMark.at, c) /\ file' = file
    BY <1>1, <1>2, <2>1
  <2>4. /\ Chain'
        /\ LastMark'.at = LastMark.at + Len(c)
        /\ LastMark'.map = Apply(LastMark.map, c)
    BY <1>8, <2>2, <2>3, ChainGrows DEF IInv
  <2>5. Len(file) = LastMark.at + Len(c)
    BY <2>3, RecordEnds
  <2>6. EndOfFile'
    <3>1. PartAtEnd(0, ClearChange)'
      BY <1>2, <2>4, <2>5, <1>6, IInvFacts DEF PartAtEnd
    <3> QED BY <1>2, <3>1, ClearIsChange, IInvFacts DEF EndOfFile, NoTornGap, Busy
  <2>7. Replay'
    <3>1. Len(marks') \in 1..Len(marks')
      BY <1>7, <2>4, LastMarkType DEF Chain
    <3>2. pos' = LastMark'.at /\ map' = LastMark'.map
      BY <1>1, <2>1, <2>4
    <3> QED BY <3>1, <3>2 DEF Replay, LastMark
  <2> QED BY <1>8, <1>9, <2>4, <2>6, <2>7 DEF IInv
<1> QED BY <1>4, <1>10, <1>11

\* A replay that stops at something else than a record has read all the marks.
LEMMA CorruptedAtEnd ==
  ASSUME IInv, Corrupted
  PROVE  pos = LastMark.at /\ map = LastMark.map
<1>1. PICK i \in 1..Len(marks) : pos = marks[i].at
  BY DEF IInv, Replay, Corrupted
<1>2. Len(marks) \in Nat
  BY IInvFacts
<1>3. CASE i < Len(marks)
  <2>1. i + 1 \in 2..Len(marks) /\ (i + 1) - 1 = i
    BY <1>2, <1>3
  <2>2. Stored(i + 1)
    BY <2>1 DEF IInv, Chain, AcknowledgedOnDisk
  <2> QED BY <1>1, <2>1, <2>2 DEF Stored, Corrupted
<1>4. CASE i = Len(marks)
  <2>1. pos = LastMark.at
    BY <1>1, <1>4 DEF LastMark
  <2> QED BY <2>1, ReplayAtEnd DEF Corrupted
<1> QED BY <1>2, <1>3, <1>4

\* Truncating the file to the last mark leaves all the marks.
LEMMA TruncateStep ==
  ASSUME BelowWrap, IInv, TruncateTrailingContent(AsInt(LastMark.at)), marks' = marks
  PROVE  /\ file' \in Seq(Cells)
         /\ Len(file') = LastMark.at
         /\ \A i \in 1..LastMark.at : file'[i] = file[i]
<1>1. LastMark.at \in Nat /\ LastMark.at <= 2 * IntMax + 1
  BY IInvFacts, IntMaxAssumption, BoundsAssumption DEF BelowWrap
<1>2. AsInt(LastMark.at) = LastMark.at
  BY <1>1, AsIntFits DEF TruncateTrailingContent
<1>3. file' = SubSeq(file, 1, LastMark.at)
  BY <1>2 DEF TruncateTrailingContent
<1>4. \A i \in 1..LastMark.at : file[i] \in Cells
  BY <1>1, IInvFacts, ElementOfSeq
<1>5. LastMark.at - 1 + 1 = LastMark.at /\ \A i \in 1..LastMark.at : 1 + i - 1 = i
  BY <1>1
<1> QED BY <1>1, <1>3, <1>4, <1>5, SubSeqProperties

LEMMA LoadCorruptedStep ==
  ASSUME BelowWrap, IInv, LoadCorrupted
  PROVE  IInv'
<1>1. /\ Corrupted /\ pos = LastMark.at /\ map = LastMark.map
      /\ TruncateTrailingContent(AsInt(LastMark.at))
      /\ pos' = 0
      /\ UNCHANGED <<map, writer, iter, ret, marks, dirty>>
  BY CorruptedAtEnd DEF LoadCorrupted
<1>2. /\ file' \in Seq(Cells) /\ Len(file') = LastMark.at
      /\ \A i \in 1..LastMark.at : file'[i] = file[i]
      /\ phase = "loading" /\ phase' = "serving"
  BY <1>1, TruncateStep DEF TruncateTrailingContent, Corrupted
<1>3. TypeOK'
  BY <1>1, <1>2 DEF IInv, TypeOK, writer
<1>4. Chain'
  BY <1>1, <1>2, <1>3, ChainKept, IInvFacts DEF IInv
<1>5. EndOfFile'
  <2>1. Len(file') <= MaxFile
    BY <1>2, IInvFacts, BoundsAssumption
  <2> QED BY <1>1, <1>2, <2>1 DEF EndOfFile, NoTornGap, Busy, LastMark
<1>6. Replay' /\ Memory'
  BY <1>1, <1>2 DEF IInv, Replay, Memory, MemoryMatchesLog, Busy, LastMark, writer
<1> QED BY <1>3, <1>4, <1>5, <1>6 DEF IInv

LEMMA BeginStep ==
  ASSUME IInv, NEW c \in Changes, BeginChange(c),
         found' = (c[1] = "remove" /\ map[c[2]] # <<>>)
  PROVE  IInv'
<1> USE DEF BeginChange
<1>1. c \in Seq(Cells) /\ Len(c) \in Nat \ {0} /\ Apply(map, c) \in Maps
  BY ChangeLen, ApplyType DEF IInv, TypeOK
<1>2. Len(file) = LastMark.at
  BY DEF IInv, EndOfFile, NoTornGap
<1>3. TypeOK'
  <2>1. AsInt(Len(file)) \in Int
    BY IInvFacts, IntMaxAssumption DEF AsInt
  <2>2. found' \in BOOLEAN
    OBVIOUS
  <2> QED BY <1>1, <2>1, <2>2 DEF IInv, TypeOK
<1>4. Chain'
  BY ChainSame DEF IInv
<1>5. EndOfFile'
  <2>1. LastMark' = LastMark
    BY DEF LastMark
  <2>2. /\ Len(left') = Len(change') /\ Len(change') - Len(left') = 0
        /\ \A i \in 1..Len(left') : left'[i] = change'[0 + i]
    BY <1>1
  <2>3. PartAtEnd(0, c)'
    BY <1>2, <2>1, IInvFacts DEF PartAtEnd
  <2>4. Len(file) + Len(c) <= MaxFile
    OBVIOUS
  <2> QED BY <1>1, <1>2, <2>1, <2>2, <2>3, <2>4, IInvFacts DEF EndOfFile, NoTornGap, Busy
<1>6. Replay' /\ Memory'
  BY DEF IInv, Replay, Memory, MemoryMatchesLog, Busy, LastMark
<1> QED BY <1>3, <1>4, <1>5, <1>6 DEF IInv

LEMMA CallStep ==
  ASSUME IInv,
         \/ \E k \in Keys : Remove(k) \/ \E v \in Values : Put(k, v)
         \/ Clear
  PROVE  IInv'
<1>1. ASSUME NEW k \in Keys, NEW v \in Values, Put(k, v) PROVE IInv'
  <2>1. PutChange(k, v) \in Changes /\ PutChange(k, v)[1] = "put"
    BY DEF Changes, PutChange
  <2> QED BY <1>1, <2>1, BeginStep DEF Put
<1>2. ASSUME NEW k \in Keys, Remove(k) PROVE IInv'
  <2>1. /\ RemoveChange(k) \in Changes /\ RemoveChange(k)[1] = "remove"
        /\ RemoveChange(k)[2] = k
    BY DEF Changes, RemoveChange
  <2> QED BY <1>2, <2>1, BeginStep DEF Remove
<1>3. ASSUME Clear PROVE IInv'
  <2>1. ClearChange \in Changes /\ ClearChange[1] = "clear"
    BY DEF Changes, ClearChange
  <2> QED BY <1>3, <2>1, BeginStep DEF Clear
<1> QED BY <1>1, <1>2, <1>3

LEMMA SpillStep ==
  ASSUME IInv, Spill
  PROVE  IInv'
<1>1. /\ Busy /\ left # <<>> /\ file' = Append(file, Head(left)) /\ left' = Tail(left)
      /\ UNCHANGED <<map, phase, pos, change, curPos, found, iter, ret, marks,
                     dirty, before>>
  BY DEF Spill
<1>3. /\ left \in Seq(Cells) /\ Len(left) \in Nat \ {0}
      /\ change \in Changes /\ Len(change) \in Nat /\ Len(left) <= Len(change)
  <2>1. change \in Changes /\ Len(left) <= Len(change) /\ left \in Seq(Cells)
    BY <1>1 DEF IInv, EndOfFile, TypeOK
  <2> QED BY <1>1, <2>1, ChangeLen, LenProperties, EmptySeq
<1>a. Len(change) - Len(left) \in Nat
  BY <1>3
<1>0. PICK n \in Nat : n = Len(change) - Len(left)
  BY <1>a
<1>b. LastMark.at \in Nat
  BY IInvFacts
<1>2. /\ PartAtEnd(n, change)
      /\ \A i \in 1..Len(left) : left[i] = change[n + i]
      /\ LastMark.at + Len(change) <= MaxFile
  BY <1>0, <1>1 DEF IInv, EndOfFile
<1>4. /\ Head(left) = left[1] /\ Head(left) \in Cells
      /\ left' \in Seq(Cells) /\ Len(left') = Len(left) - 1
      /\ \A i \in 1..Len(left') : left'[i] = left[i + 1]
  BY <1>1, <1>3, HeadTailProperties
<1>5. /\ file' \in Seq(Cells) /\ Len(file') = Len(file) + 1
      /\ \A i \in 1..Len(file) : file'[i] = file[i]
      /\ file'[Len(file) + 1] = left[1]
  BY <1>1, <1>4, IInvFacts, AppendProperties
<1>6. TypeOK'
  BY <1>1, <1>4, <1>5 DEF IInv, TypeOK
<1>7. Chain'
  <2>1. LastMark.at <= Len(file') /\ \A i \in 1..LastMark.at : file'[i] = file[i]
    BY <1>5, IInvFacts
  <2> QED BY <1>1, <1>6, <2>1, ChainKept DEF IInv
<1>8. EndOfFile'
  <2>1. LastMark' = LastMark
    BY <1>1 DEF LastMark
  <2>2. Len(file) = LastMark.at + n
    BY <1>2 DEF PartAtEnd
  <2>3. Len(change') - Len(left') = n + 1 /\ Len(left') <= Len(change')
    BY <1>0, <1>1, <1>3, <1>4
  <2>4. PartAtEnd(n + 1, change)'
    <3>1. Len(file') = LastMark.at + (n + 1)
      BY <1>5, <2>1, <2>2, IInvFacts
    <3>2. ASSUME NEW i \in 1..(n + 1) PROVE file'[LastMark.at + i] = change[i]
      <4>1. CASE i \in 1..n
        <5>1. LastMark.at + i \in 1..Len(file)
          BY <2>1, <2>2, <4>1, IInvFacts
        <5>2. file[LastMark.at + i] = change[i]
          BY <1>2, <4>1 DEF PartAtEnd
        <5> QED BY <1>5, <5>1, <5>2
      <4>2. CASE i = n + 1
        <5>1. LastMark.at + i = Len(file) + 1
          BY <1>b, <2>2, <4>2
        <5>2. left[1] = change[n + 1]
          BY <1>2, <1>3
        <5> QED BY <1>5, <4>2, <5>1, <5>2
      <4> QED BY <2>1, <4>1, <4>2
    <3> QED BY <1>1, <2>1, <3>1, <3>2 DEF PartAtEnd
  <2>5. ASSUME NEW i \in 1..Len(left') PROVE left'[i] = change[(n + 1) + i]
    <3>1. i + 1 \in 1..Len(left) /\ n + (i + 1) = (n + 1) + i
      BY <1>3, <1>4, <2>1
    <3>2. left[i + 1] = change[n + (i + 1)]
      BY <1>2, <3>1
    <3> QED BY <1>4, <3>1, <3>2
  <2>6. Len(file') <= MaxFile
    BY <1>0, <1>2, <1>3, <1>5, <2>2, IInvFacts, BoundsAssumption
  <2>7. Busy' /\ phase' \notin {"serving", "down", "loading"} /\ curPos' = AsInt(LastMark'.at)
    BY <1>1, <2>1 DEF IInv, EndOfFile, Busy
  <2>8. /\ change' \in Changes /\ PartAtEnd(Len(change) - Len(left), change)'
        /\ \A i \in 1..Len(left') : left'[i] = change'[Len(change') - Len(left') + i]
        /\ LastMark'.at + Len(change') <= MaxFile
    BY <1>1, <1>2, <1>3, <2>1, <2>3, <2>4, <2>5
  <2> QED BY <2>3, <2>6, <2>7, <2>8 DEF EndOfFile, NoTornGap
<1>9. Replay' /\ Memory'
  BY <1>1 DEF IInv, Replay, Memory, MemoryMatchesLog, Busy, LastMark
<1> QED BY <1>6, <1>7, <1>8, <1>9 DEF IInv

\* A key that a change settles has the same values afterwards, whatever it had.
LEMMA ApplyAgrees ==
  ASSUME NEW c \in Changes, NEW m1 \in Maps, NEW m2 \in Maps, NEW k \in Keys,
         m1[k] = m2[k] \/ k \in Settled(c)
  PROVE  Apply(m1, c)[k] = Apply(m2, c)[k]
<1>1. ASSUME NEW x \in Keys, NEW v \in Values, c = PutChange(x, v)
      PROVE  Apply(m1, c)[k] = Apply(m2, c)[k]
  <2>1. m1[k] = m2[k] /\ c[1] = "put" /\ c[2] = x /\ c[3] = v
    BY <1>1 DEF PutChange, Settled
  <2> QED BY <2>1 DEF Apply, Maps
<1>2. ASSUME NEW x \in Keys, c = RemoveChange(x)
      PROVE  Apply(m1, c)[k] = Apply(m2, c)[k]
  <2>1. c[1] = "remove" /\ c[2] = x /\ (m1[k] = m2[k] \/ k = x)
    BY <1>2 DEF RemoveChange, Settled, Touched
  <2> QED BY <2>1 DEF Apply, Maps
<1>3. ASSUME c = ClearChange PROVE Apply(m1, c)[k] = Apply(m2, c)[k]
  BY <1>3 DEF ClearChange, Apply
<1> QED BY <1>1, <1>2, <1>3, ChangeShape

\* A change leaves the keys alone that it does not touch.
LEMMA ApplyElsewhere ==
  ASSUME NEW c \in Changes, NEW m \in Maps, NEW k \in Keys \ Touched(c)
  PROVE  Apply(m, c)[k] = m[k]
<1>1. ASSUME NEW x \in Keys, NEW v \in Values, c = PutChange(x, v)
      PROVE  Apply(m, c)[k] = m[k]
  <2>1. k # x /\ c[1] = "put" /\ c[2] = x
    BY <1>1 DEF PutChange, Touched
  <2> QED BY <2>1 DEF Apply, Maps
<1>2. ASSUME NEW x \in Keys, c = RemoveChange(x)
      PROVE  Apply(m, c)[k] = m[k]
  <2>1. k # x /\ c[1] = "remove" /\ c[2] = x
    BY <1>2 DEF RemoveChange, Touched
  <2> QED BY <2>1 DEF Apply, Maps
<1>3. c # ClearChange
  BY DEF ClearChange, Touched
<1> QED BY <1>1, <1>2, <1>3, ChangeShape

LEMMA AcknowledgeStep ==
  ASSUME IInv, Acknowledge
  PROVE  IInv'
<1>1. /\ phase = "writing" /\ left = <<>> /\ phase' = "serving"
      /\ marks' = Append(marks, [at  |-> Len(file),
                                map |-> Apply(LastMark.map, change)])
      /\ dirty' = dirty \ Settled(change)
      /\ ret' = [status |-> StatusIf(TRUE), values |-> <<>>]
      /\ change' = NoChange /\ left' = <<>> /\ curPos' = 0 /\ found' = FALSE
      /\ before' = EmptyMap
      /\ UNCHANGED <<map, pos, iter, file>>
  BY DEF Acknowledge, Return, Forget
<1>2. /\ change \in Changes /\ PartAtEnd(Len(change) - Len(left), change)
      /\ map = Apply(before, change)
      /\ \A k \in Keys \ dirty : before[k] = LastMark.map[k]
  BY <1>1 DEF IInv, EndOfFile, Memory, Busy
<1>3. Len(change) - Len(left) = Len(change) /\ Len(change) \in Nat
  BY <1>1, <1>2, ChangeLen
<1>4. Len(file) = LastMark.at + Len(change) /\ RecordAt(file, LastMark.at, change)
  <2>1. PartAtEnd(Len(change), change)
    BY <1>2, <1>3
  <2>2. /\ Len(file) = LastMark.at + Len(change)
        /\ \A i \in 1..Len(change) : file[LastMark.at + i] = change[i]
    BY <2>1 DEF PartAtEnd
  <2>3. LastMark.at + Len(change) <= Len(file)
    BY <1>3, <2>2, IInvFacts
  <2> QED BY <2>2, <2>3 DEF RecordAt
<1>5. Apply(LastMark.map, change) \in Maps
  BY <1>2, ApplyType, IInvFacts
<1>6. marks' \in Seq([at : Nat, map : Maps])
  <2>1. [at |-> Len(file), map |-> Apply(LastMark.map, change)] \in [at : Nat, map : Maps]
    BY <1>5, IInvFacts
  <2> QED BY <1>1, <2>1, IInvFacts, AppendProperties
<1>7. TypeOK'
  <2>1. ret' \in [status : Statuses, values : Seq(Values)]
    BY <1>1 DEF StatusIf, Statuses
  <2>2. /\ phase' \in {"down", "loading", "serving", "writing", "failing"}
        /\ change' \in Changes \cup {NoChange} /\ left' \in Seq(Cells)
        /\ curPos' \in Int /\ dirty' \subseteq Keys
    BY <1>1 DEF IInv, TypeOK
  <2>3. found' \in BOOLEAN
    BY <1>1
  <2> QED BY <1>1, <1>6, <2>1, <2>2, <2>3, EmptyMapType DEF IInv, TypeOK
<1>8. /\ Chain'
      /\ LastMark'.at = LastMark.at + Len(change)
      /\ LastMark'.map = Apply(LastMark.map, change)
  <2>1. marks' = Append(marks, [at  |-> LastMark.at + Len(change),
                                map |-> Apply(LastMark.map, change)])
    BY <1>1, <1>4
  <2> QED BY <1>1, <1>2, <1>4, <1>7, <2>1, ChainGrows DEF IInv
<1>9. EndOfFile'
  BY <1>1, <1>4, <1>8, IInvFacts DEF EndOfFile, NoTornGap, Busy
<1>10. Memory'
  <2>1. ASSUME NEW k \in Keys \ dirty' PROVE map'[k] = LastMark'.map[k]
    <3>1. before \in Maps /\ LastMark.map \in Maps
      BY IInvFacts DEF IInv, TypeOK
    <3>2. before[k] = LastMark.map[k] \/ k \in Settled(change)
      BY <1>1, <1>2, <2>1
    <3>3. Apply(before, change)[k] = Apply(LastMark.map, change)[k]
      BY <1>2, <3>1, <3>2, ApplyAgrees
    <3> QED BY <1>1, <1>2, <1>8, <3>3
  <2> QED BY <1>1, <2>1 DEF Memory, MemoryMatchesLog, Busy
<1>11. Replay'
  BY <1>1 DEF Replay
<1> QED BY <1>7, <1>8, <1>9, <1>10, <1>11 DEF IInv

LEMMA WriteFailsStep ==
  ASSUME IInv, WriteFails
  PROVE  IInv'
<1> USE DEF WriteFails, writer
<1>1. TypeOK'
  BY DEF IInv, TypeOK
<1>2. Chain'
  BY ChainSame DEF IInv
<1>3. EndOfFile'
  BY DEF IInv, EndOfFile, NoTornGap, Busy, PartAtEnd, LastMark
<1>4. Replay' /\ Memory'
  BY DEF IInv, Replay, Memory, MemoryMatchesLog, Busy, LastMark
<1> QED BY <1>1, <1>2, <1>3, <1>4 DEF IInv

LEMMA RollbackStep ==
  ASSUME BelowWrap, IInv, Rollback
  PROVE  IInv'
<1>1. /\ phase = "failing" /\ TruncateTrailingContent(curPos)
      /\ dirty' = dirty \cup Touched(change)
      /\ ret' = [status |-> StatusIf(FALSE), values |-> <<>>]
      /\ change' = NoChange /\ left' = <<>> /\ curPos' = 0 /\ found' = FALSE
      /\ before' = EmptyMap
      /\ UNCHANGED <<map, pos, iter, marks>>
  BY DEF Rollback, Return, Forget
<1>2. /\ change \in Changes /\ curPos = AsInt(LastMark.at)
      /\ map = Apply(before, change)
      /\ \A k \in Keys \ dirty : before[k] = LastMark.map[k]
  BY <1>1 DEF IInv, EndOfFile, Memory, Busy
<1>3. /\ file' \in Seq(Cells) /\ Len(file') = LastMark.at
      /\ \A i \in 1..LastMark.at : file'[i] = file[i]
      /\ phase' = "serving"
  BY <1>1, <1>2, TruncateStep DEF TruncateTrailingContent
<1>4. TypeOK'
  <2>1. ret' \in [status : Statuses, values : Seq(Values)]
    BY <1>1 DEF StatusIf, Statuses
  <2>2. Touched(change) \subseteq Keys
    BY <1>2 DEF Changes, Touched, PutChange, RemoveChange, ClearChange
  <2>3. /\ phase' \in {"down", "loading", "serving", "writing", "failing"}
        /\ change' \in Changes \cup {NoChange} /\ left' \in Seq(Cells)
        /\ curPos' \in Int /\ dirty' \subseteq Keys
    BY <1>1, <1>3, <2>2 DEF IInv, TypeOK
  <2>4. found' \in BOOLEAN
    BY <1>1
  <2> QED BY <1>1, <1>3, <2>1, <2>3, <2>4, EmptyMapType DEF IInv, TypeOK
<1>5. Chain'
  BY <1>1, <1>3, <1>4, ChainKept, IInvFacts DEF IInv
<1>6. EndOfFile'
  <2>1. Len(file') <= MaxFile
    BY <1>3, IInvFacts, BoundsAssumption
  <2> QED BY <1>1, <1>3, <2>1 DEF EndOfFile, NoTornGap, Busy, LastMark
<1>7. Memory'
  <2>1. ASSUME NEW k \in Keys \ dirty' PROVE map'[k] = LastMark'.map[k]
    <3>1. before \in Maps /\ k \in Keys \ Touched(change) /\ k \in Keys \ dirty
      BY <1>1, <2>1 DEF IInv, TypeOK
    <3>2. Apply(before, change)[k] = before[k]
      BY <1>2, <3>1, ApplyElsewhere
    <3>3. LastMark' = LastMark
      BY <1>1 DEF LastMark
    <3> QED BY <1>1, <1>2, <3>1, <3>2, <3>3
  <2> QED BY <1>1, <1>3, <2>1 DEF Memory, MemoryMatchesLog, Busy
<1>8. Replay'
  BY <1>3 DEF Replay
<1> QED BY <1>4, <1>5, <1>6, <1>7, <1>8 DEF IInv

LEMMA GetStep ==
  ASSUME IInv, NEW r \in Readers, EndGet(r) \/ \E k \in Keys : BeginGet(r, k)
  PROVE  IInv'
<1>1. /\ phase = "serving"
      /\ UNCHANGED <<map, file, phase, pos, writer, marks, dirty>>
  BY DEF EndGet, BeginGet
<1>2. TypeOK'
  <2>1. CASE EndGet(r)
    <3>1. iter[r] \in Keys
      BY <2>1 DEF EndGet, IInv, TypeOK
    <3>2. map[iter[r]] \in Seq(Values)
      BY <3>1 DEF IInv, TypeOK, Maps
    <3>3. ret' \in [status : Statuses, values : Seq(Values)]
      BY <2>1, <3>2 DEF EndGet, Statuses
    <3>4. iter' \in [Readers -> Keys \cup {NoKey}]
      BY <2>1 DEF EndGet, IInv, TypeOK
    <3> QED BY <1>1, <3>3, <3>4 DEF IInv, TypeOK, writer
  <2>2. CASE \E k \in Keys : BeginGet(r, k)
    <3>1. iter' \in [Readers -> Keys \cup {NoKey}] /\ ret' = ret
      BY <2>2 DEF BeginGet, IInv, TypeOK
    <3> QED BY <1>1, <3>1 DEF IInv, TypeOK, writer
  <2> QED BY <2>1, <2>2
<1>3. Chain'
  BY <1>1, ChainSame DEF IInv
<1>4. EndOfFile'
  BY <1>1 DEF IInv, EndOfFile, NoTornGap, Busy, PartAtEnd, LastMark, writer
<1>5. Replay' /\ Memory'
  BY <1>1 DEF IInv, Replay, Memory, MemoryMatchesLog, Busy, LastMark, writer
<1> QED BY <1>2, <1>3, <1>4, <1>5 DEF IInv

LEMMA NextIInv ==
  ASSUME BelowWrap, IInv, Next
  PROVE  IInv'
<1>1. CASE Start
  BY <1>1, StartStep
<1>2. CASE LoadChange
  BY <1>2, LoadChangeStep
<1>3. CASE LoadCorrupted
  BY <1>3, LoadCorruptedStep
<1>4. CASE LoadDone
  BY <1>4, LoadDoneStep
<1>5. CASE (\E k \in Keys : Remove(k) \/ \E v \in Values : Put(k, v)) \/ Clear
  BY <1>5, CallStep
<1>6. CASE Spill
  BY <1>6, SpillStep
<1>7. CASE Acknowledge
  BY <1>7, AcknowledgeStep
<1>8. CASE WriteFails
  BY <1>8, WriteFailsStep
<1>9. CASE Rollback
  BY <1>9, RollbackStep
<1>10. CASE TruncateRefused \/ TruncateFails \/ Crash
  BY <1>10, DiesStep DEF TruncateRefused, TruncateFails, Crash
<1>11. CASE \E r \in Readers : EndGet(r) \/ \E k \in Keys : BeginGet(r, k)
  BY <1>11, GetStep
<1> QED
  BY <1>1, <1>2, <1>3, <1>4, <1>5, <1>6, <1>7, <1>8, <1>9, <1>10, <1>11 DEF Next

-----------------------------------------------------------------------------
(* The theorems.                                                           *)

\* The invariant is inductive, in every store whose file stays below the size
\* at which positions wrap round.
THEOREM Invariance == ASSUME BelowWrap PROVE Spec => []IInv
<1>1. IInv /\ [Next]_vars => IInv'
  BY NextIInv, StutterIInv
<1> QED BY <1>1, InitIInv, PTL DEF Spec

\* Every variable keeps to its type: in particular a truncation never makes the
\* file longer (TruncateTrailingContent).
THEOREM TypeCorrect == ASSUME BelowWrap PROVE Spec => []TypeOK
<1>1. IInv => TypeOK
  BY DEF IInv
<1> QED BY <1>1, Invariance, PTL

\* No crash, refused write or truncation costs a change that was answered OK or
\* recovered (the comment on the constructor and on interruptions in kvstore.h).
THEOREM Durability == ASSUME BelowWrap PROVE Spec => []AcknowledgedOnDisk
<1>1. IInv => AcknowledgedOnDisk
  BY DEF IInv, Chain
<1> QED BY <1>1, Invariance, PTL

\* A record never follows the remains of another (TruncateTrailingContent).
THEOREM NoGap == ASSUME BelowWrap PROVE Spec => []NoTornGap
<1>1. IInv => NoTornGap
  BY DEF IInv, EndOfFile
<1> QED BY <1>1, Invariance, PTL

\* Keys that no refused change has touched are in memory as in the file (Put,
\* Remove, Clear against the constructor).
THEOREM MemoryAgrees == ASSUME BelowWrap PROVE Spec => []MemoryMatchesLog
<1>1. IInv => MemoryMatchesLog
  BY DEF IInv, Memory
<1> QED BY <1>1, Invariance, PTL

\* A reader's iterator stays valid for as long as it holds it (the shared_lock
\* of Get against the unique_lock of Put, Remove and Clear).
THEOREM IteratorsSafe == ASSUME BelowWrap PROVE Spec => IteratorStaysValid
<1>1. IInv /\ [Next]_vars =>
        \A r \in Readers : iter[r] # NoKey /\ iter'[r] = iter[r] => map' = map
  <2> SUFFICES ASSUME IInv, [Next]_vars, NEW r \in Readers,
                      iter[r] # NoKey, iter'[r] = iter[r]
               PROVE  map' = map
    OBVIOUS
  <2>1. phase = "serving" /\ ~Busy
    BY DEF IInv, Memory, Busy
  <2>2. CASE Dies
    BY <2>2 DEF Dies
  <2>3. CASE UNCHANGED vars
    BY <2>3 DEF vars
  <2>4. CASE ~Dies /\ Next
    BY <2>1, <2>4
       DEF Next, Start, LoadChange, LoadCorrupted, LoadDone, Corrupted, Put, Remove,
           Clear, BeginChange, Spill, Acknowledge, WriteFails, Rollback, EndGet,
           BeginGet, Crash, TruncateRefused, TruncateFails
  <2> QED BY <2>2, <2>3, <2>4
<1>2. IInv /\ [Next]_vars =>
        [\A r \in Readers : iter[r] # NoKey /\ iter'[r] = iter[r] => map' = map]_vars
  BY <1>1
<1> QED BY <1>2, Invariance, PTL DEF Spec, IteratorStaysValid

\* A store whose positions all fit an int never aborts over one of them (the
\* int cur_pos of the constructor and of the changes).
THEOREM NoAbort == ASSUME MaxFile <= IntMax PROVE Spec => NeverAbortsItself
<1>1. BelowWrap
  BY IntMaxAssumption, BoundsAssumption DEF BelowWrap
<1>2. ASSUME IInv PROVE ~TruncateRefused
  <2>1. LastMark.at \in 0..IntMax
    BY <1>2, IInvFacts, IntMaxAssumption, BoundsAssumption
  <2>2. AsInt(LastMark.at) >= 0
    BY <2>1, IntMaxAssumption DEF AsInt
  <2>3. phase = "failing" => curPos = AsInt(LastMark.at)
    BY <1>2 DEF IInv, EndOfFile, Busy
  <2>4. Corrupted => pos = LastMark.at /\ phase # "failing"
    BY <1>2, CorruptedAtEnd DEF Corrupted
  <2>5. Truncating => StartPos = AsInt(LastMark.at)
    BY <2>3, <2>4 DEF Truncating, StartPos
  <2>6. Truncating => StartPos >= 0
    BY <2>2, <2>5
  <2>7. StartPos \in Int
    BY <1>2, IntMaxAssumption DEF StartPos, AsInt, IInv, TypeOK
  <2>8. ASSUME Truncating, StartPos < 0 PROVE FALSE
    BY <2>6, <2>7, <2>8
  <2> QED BY <2>8 DEF TruncateRefused
<1>3. IInv /\ [Next]_vars => [~TruncateRefused]_vars
  BY <1>2
<1> QED BY <1>1, <1>3, Invariance, PTL DEF Spec, NeverAbortsItself
=============================================================================
