-------------------------- MODULE KVStoreRefinement --------------------------
(***************************************************************************)
(* KVStore implements DurableMap: every step of the store is a step of the *)
(* durable map, or leaves it as it is.  A change takes effect for callers  *)
(* when its thread gives up the lock, and for the file when its process    *)
(* dies with the record whole.                                             *)
(***************************************************************************)
EXTENDS KVStoreProofs

\* The durable map that a state of the store stands for.
AbsMem == IF Busy THEN before ELSE IF Up THEN map ELSE EmptyMap
AbsDur == IF Up THEN LastMark.map ELSE Recoverable

-----------------------------------------------------------------------------
(* What a restart brings back.                                             *)

LEMMA RecoverableIs ==
  ASSUME file \in Seq(Cells), LastMark.at \in Nat,
         NEW c \in Changes, RecordAt(file, LastMark.at, c)
  PROVE  Recoverable = Apply(LastMark.map, c)
<1> DEFINE d == CHOOSE d \in Changes : RecordAt(file, LastMark.at, d)
<1>1. d \in Changes /\ RecordAt(file, LastMark.at, d)
  OBVIOUS
<1>2. d = c
  BY <1>1, RecordUnique
<1> QED BY <1>2 DEF Recoverable

LEMMA RecoverableNone ==
  ASSUME \A c \in Changes : ~RecordAt(file, LastMark.at, c)
  PROVE  Recoverable = LastMark.map
  BY DEF Recoverable

\* Nothing follows the last mark.
LEMMA RecoverableEnd ==
  ASSUME LastMark.at \in Nat, Len(file) = LastMark.at
  PROVE  Recoverable = LastMark.map
<1>1. ASSUME NEW c \in Changes PROVE ~RecordAt(file, LastMark.at, c)
  <2>1. Len(c) \in Nat \ {0}
    BY ChangeLen
  <2> QED BY <2>1 DEF RecordAt
<1> QED BY <1>1, RecoverableNone

\* The only record that can follow the last mark is the one being written.
LEMMA InFlight ==
  ASSUME IInv, Busy, NEW c \in Changes, RecordAt(file, LastMark.at, c)
  PROVE  c = change
<1>1. change \in Changes /\ left \in Seq(Cells) /\ Len(left) <= Len(change)
  BY DEF IInv, EndOfFile, TypeOK
<1>2. Len(left) \in Nat /\ Len(change) \in Nat /\ Len(c) \in Nat \ {0}
  BY <1>1, ChangeLen, LenProperties
<1>3. Len(change) - Len(left) \in Nat
  BY <1>1, <1>2
<1>4. PICK n \in Nat : n = Len(change) - Len(left)
  BY <1>3
<1>5. PartAtEnd(n, change) /\ LastMark.at \in Nat
  BY <1>4, IInvFacts DEF IInv, EndOfFile
<1>6. Len(c) <= n
  <2>1. Len(file) = LastMark.at + n /\ LastMark.at + Len(c) <= Len(file)
    BY <1>5 DEF PartAtEnd, RecordAt
  <2> QED BY <1>2, <1>5, <2>1
<1>7. \A i \in 1..Len(c) : c[i] = change[i]
  <2>1. \A i \in 1..Len(c) : i \in 1..n
    BY <1>2, <1>6
  <2> QED BY <1>5, <2>1 DEF PartAtEnd, RecordAt
<1>8. c[1] = change[1]
  <2>1. 1 \in 1..Len(c)
    BY <1>2
  <2> QED BY <1>7, <2>1
<1>9. Len(c) = Len(change)
  BY <1>1, <1>8, ChangeShape
<1> QED BY <1>1, <1>7, <1>9, ChangeLen, SeqEqual

-----------------------------------------------------------------------------
(* The steps.                                                              *)

LEMMA InitRefines == Init => Abs!AbsInit
<1> SUFFICES ASSUME Init PROVE Abs!AbsInit
  OBVIOUS
<1>1. LastMark.at \in Nat /\ Len(file) = LastMark.at /\ LastMark.map = EmptyMap
  BY DEF Init, LastMark
<1>2. Recoverable = EmptyMap
  BY <1>1, RecoverableEnd
<1> QED BY <1>2 DEF Init, Abs!AbsInit, Abs!EmptyMap, EmptyMap, Abs!NoChange, NoChange, Up, Busy

\* What is recoverable depends on the file and the marks only.
LEMMA RecoverableSame ==
  UNCHANGED <<file, marks>> => Recoverable' = Recoverable /\ LastMark' = LastMark
  BY DEF Recoverable, RecordAt, LastMark

\* While no store is up, nothing changes but what is being read.
LEMMA StaysDown ==
  ASSUME phase \in {"down", "loading"}, phase' \in {"down", "loading"},
         change' = change, ret' = ret, Recoverable' = Recoverable
  PROVE  UNCHANGED Abs!absVars
<1>1. Up = FALSE /\ Up' = FALSE
  BY DEF Up, Busy
<1>2. ~Busy /\ ~Busy'
  BY DEF Busy
<1>3. AbsMem' = AbsMem /\ AbsDur' = AbsDur
  BY <1>1, <1>2 DEF AbsMem, AbsDur
<1>4. Up' = Up
  BY <1>1
<1> QED BY <1>3, <1>4 DEF Abs!absVars, AbsMem, AbsDur

\* A process that dies keeps the change in flight if its record is whole.
LEMMA DiesRefines ==
  ASSUME IInv, phase # "down", Dies
  PROVE  Abs!AbsCrash \/ UNCHANGED Abs!absVars
<1>1. Recoverable' = Recoverable /\ LastMark' = LastMark
  BY RecoverableSame DEF Dies
<1>2. ~Up' /\ ~Busy' /\ map' = EmptyMap /\ change' = NoChange /\ ret' = ret
  BY DEF Dies, Forget, Up, Busy
<1>3. CASE phase = "loading"
  <2>1. change = NoChange /\ phase' = "down"
    BY <1>3 DEF Busy, IInv, Memory, Dies
  <2> QED BY <1>1, <1>2, <1>3, <2>1, StaysDown
<1>4. CASE phase = "serving"
  <2>1. Recoverable = LastMark.map
    BY <1>4, IInvFacts, RecoverableEnd DEF IInv, EndOfFile, NoTornGap
  <2>2. Up /\ ~Busy
    BY <1>4 DEF Up, Busy
  <2> QED BY <1>1, <1>2, <2>1, <2>2
          DEF Abs!AbsCrash, Abs!EmptyMap, EmptyMap, Abs!NoChange, NoChange
<1>5. CASE Busy
  <2>1. change \in Changes /\ Up
    BY <1>5 DEF Up, IInv, EndOfFile
  <2>2. change # NoChange
    BY <2>1, ChangeLen DEF NoChange
  <2>3. Recoverable = LastMark.map \/ Recoverable = Apply(LastMark.map, change)
    <3>1. CASE \E c \in Changes : RecordAt(file, LastMark.at, c)
      BY <1>5, <3>1, InFlight, RecoverableIs, IInvFacts
    <3>2. CASE \A c \in Changes : ~RecordAt(file, LastMark.at, c)
      BY <3>2, RecoverableNone
    <3> QED BY <3>1, <3>2
  <2> QED BY <1>1, <1>2, <2>1, <2>2, <2>3
          DEF Abs!AbsCrash, Abs!EmptyMap, EmptyMap, Abs!NoChange, NoChange,
              Abs!Apply, Apply
<1>6. phase \in {"loading", "serving"} \/ Busy
  BY DEF IInv, TypeOK, Busy
<1> QED BY <1>3, <1>4, <1>5, <1>6

LEMMA LoadChangeRefines ==
  ASSUME IInv, IInv', LoadChange
  PROVE  UNCHANGED Abs!absVars
<1>1. /\ phase = "loading"
      /\ UNCHANGED <<file, phase, writer, iter, ret, dirty>>
  BY DEF LoadChange
<1>2. PICK c \in Changes :
        /\ RecordAt(file, pos, c)
        /\ map' = Apply(map, c)
        /\ pos' = pos + Len(c)
        /\ marks' = IF pos = LastMark.at
                    THEN Append(marks, [at |-> pos', map |-> map'])
                    ELSE marks
  BY DEF LoadChange
<1>4. Recoverable' = Recoverable
  <2>1. CASE pos # LastMark.at
    BY <1>1, <1>2, <2>1, RecoverableSame
  <2>2. CASE pos = LastMark.at
    <3>1. map = LastMark.map
      BY <1>1, <2>2, ReplayAtEnd
    <3>2. Recoverable = Apply(LastMark.map, c)
      BY <1>2, <2>2, IInvFacts, RecoverableIs
    <3>3. LastMark' = [at |-> pos', map |-> map']
      <4>1. marks' = Append(marks, [at |-> pos', map |-> map'])
        BY <1>2, <2>2
      <4>2. [at |-> pos', map |-> map'] \in [at : Nat, map : Maps]
        BY DEF IInv, TypeOK
      <4>3. /\ Len(marks') = Len(marks) + 1
            /\ marks'[Len(marks) + 1] = [at |-> pos', map |-> map']
        BY <4>1, <4>2, IInvFacts, AppendProperties
      <4> QED BY <4>3 DEF LastMark
    <3>4. \A d \in Changes : ~RecordAt(file', LastMark'.at, d)
      <4>1. LastMark'.at = LastMark.at + Len(c)
        BY <1>2, <2>2, <3>3
      <4>2. Len(file') = LastMark'.at /\ LastMark'.at \in Nat
        BY <1>1, <1>2, <2>2, <4>1, RecordEnds, IInvFacts, ChangeLen
      <4>3. ASSUME NEW d \in Changes PROVE ~RecordAt(file', LastMark'.at, d)
        <5>1. Len(d) \in Nat \ {0}
          BY ChangeLen
        <5> QED BY <4>2, <5>1 DEF RecordAt
      <4> QED BY <4>3
    <3>5. Recoverable' = LastMark'.map
      BY <3>4 DEF Recoverable
    <3>6. LastMark'.map = Apply(LastMark.map, c)
      BY <1>2, <3>1, <3>3
    <3> QED BY <3>2, <3>5, <3>6
  <2> QED BY <2>1, <2>2
<1>5. change' = change /\ ret' = ret
  BY <1>1 DEF writer
<1> QED BY <1>1, <1>4, <1>5, StaysDown

LEMMA StartRefines ==
  ASSUME Start
  PROVE  UNCHANGED Abs!absVars
<1>1. phase = "down" /\ phase' = "loading" /\ change' = change /\ ret' = ret
  BY DEF Start, writer
<1>2. Recoverable' = Recoverable
  BY RecoverableSame DEF Start
<1> QED BY <1>1, <1>2, StaysDown

\* The end of a replay is the restart: memory holds what was recoverable.
LEMMA RestartRefines ==
  ASSUME IInv, phase = "loading", phase' = "serving", map' = map,
         map = Recoverable, LastMark' = LastMark,
         Recoverable = LastMark.map, change' = change, ret' = ret
  PROVE  Abs!AbsRestart
<1>1. Up = FALSE /\ Up' = TRUE /\ ~Busy /\ ~Busy'
  BY DEF Up, Busy
<1> QED BY <1>1 DEF Abs!AbsRestart

LEMMA LoadDoneRefines ==
  ASSUME IInv, IInv', LoadDone
  PROVE  Abs!AbsRestart
<1>1. /\ phase = "loading" /\ phase' = "serving" /\ map' = map /\ pos = Len(file)
      /\ change' = change /\ ret' = ret /\ file' = file /\ LastMark' = LastMark
  BY DEF LoadDone, writer, LastMark
<1>2. Len(file) = LastMark.at
  BY <1>1 DEF IInv, EndOfFile, NoTornGap
<1>3. map = LastMark.map
  BY <1>1, <1>2, ReplayAtEnd
<1>4. Recoverable = LastMark.map
  BY <1>2, IInvFacts, RecoverableEnd
<1> QED BY <1>1, <1>3, <1>4, RestartRefines

LEMMA LoadCorruptedRefines ==
  ASSUME IInv, LoadCorrupted
  PROVE  Abs!AbsRestart
<1>1. /\ phase = "loading" /\ phase' = "serving" /\ map' = map
      /\ change' = change /\ ret' = ret /\ LastMark' = LastMark
      /\ \A c \in Changes : ~RecordAt(file, pos, c)
  BY DEF LoadCorrupted, Corrupted, TruncateTrailingContent, writer, LastMark
<1>2. pos = LastMark.at /\ map = LastMark.map
  BY CorruptedAtEnd DEF LoadCorrupted
<1>3. Recoverable = LastMark.map
  BY <1>1, <1>2, RecoverableNone
<1> QED BY <1>1, <1>2, <1>3, RestartRefines

LEMMA BeginRefines ==
  ASSUME IInv, NEW c \in Changes, BeginChange(c)
  PROVE  \E d \in Abs!Changes : Abs!AbsCall(d)
<1>1. /\ phase = "serving" /\ phase' = "writing" /\ change' = c /\ before' = map
      /\ ret' = ret /\ LastMark' = LastMark /\ change = NoChange
  BY DEF BeginChange, LastMark, IInv, Memory, Busy
<1>2. Up = TRUE /\ Up' = TRUE /\ ~Busy /\ Busy'
  BY <1>1 DEF Up, Busy
<1>3. Abs!AbsCall(c)
  BY <1>1, <1>2 DEF Abs!AbsCall, Abs!NoChange, NoChange
<1>4. c \in Abs!Changes
  BY DEF Changes, Abs!Changes, PutChange, RemoveChange, ClearChange,
         Abs!PutChange, Abs!RemoveChange, Abs!ClearChange
<1> QED BY <1>3, <1>4

LEMMA WritingRefines ==
  ASSUME IInv, Spill \/ WriteFails
  PROVE  UNCHANGED Abs!absVars
<1>1. /\ Busy /\ Busy' /\ change' = change /\ before' = before /\ ret' = ret
      /\ LastMark' = LastMark
  BY DEF Spill, WriteFails, Busy, writer, LastMark
<1>2. Up = TRUE /\ Up' = TRUE
  BY <1>1 DEF Up, Busy
<1>3. AbsMem' = AbsMem /\ AbsDur' = AbsDur /\ Up' = Up
  BY <1>1, <1>2 DEF AbsMem, AbsDur
<1> QED BY <1>1, <1>3 DEF Abs!absVars, AbsMem, AbsDur

\* The service's answer is that of the durable map.
LEMMA StatusRefines ==
  ASSUME IInv, Busy, NEW logged \in BOOLEAN
  PROVE  [status |-> StatusIf(logged), values |-> <<>>]
           = Abs!StatusOf(change, Abs!Existed(before, change), logged)
<1>1. found = (change[1] = "remove" /\ before[change[2]] # <<>>)
  BY DEF IInv, Memory
<1> QED BY <1>1 DEF StatusIf, Abs!StatusOf, Abs!Existed

LEMMA AcknowledgeRefines ==
  ASSUME IInv, IInv', Acknowledge
  PROVE  Abs!AbsStore
<1>1. /\ phase = "writing" /\ phase' = "serving" /\ map' = map /\ change' = NoChange
      /\ ret' = [status |-> StatusIf(TRUE), values |-> <<>>]
      /\ marks' = Append(marks, [at  |-> Len(file),
                                map |-> Apply(LastMark.map, change)])
  BY DEF Acknowledge, Return, Forget
<1>2. Busy /\ ~Busy' /\ Up = TRUE /\ Up' = TRUE
  BY <1>1 DEF Busy, Up
<1>3. map = Apply(before, change) /\ change \in Changes
  BY <1>2 DEF IInv, Memory, EndOfFile
<1>4. LastMark'.map = Apply(LastMark.map, change)
  <2>1. [at |-> Len(file), map |-> Apply(LastMark.map, change)] \in [at : Nat, map : Maps]
    BY <1>3, IInvFacts, ApplyType
  <2>2. /\ Len(marks') = Len(marks) + 1
        /\ marks'[Len(marks) + 1] = [at |-> Len(file), map |-> Apply(LastMark.map, change)]
    BY <1>1, <2>1, IInvFacts, AppendProperties
  <2> QED BY <2>2 DEF LastMark
<1>5. change # NoChange
  BY <1>3, ChangeLen DEF NoChange
<1>6. ret' = Abs!StatusOf(change, Abs!Existed(before, change), TRUE)
  BY <1>1, <1>2, StatusRefines
<1> QED BY <1>1, <1>2, <1>3, <1>4, <1>5, <1>6
        DEF Abs!AbsStore, Abs!Apply, Apply, Abs!NoChange, NoChange, Abs!EmptyMap, EmptyMap

LEMMA RollbackRefines ==
  ASSUME IInv, Rollback
  PROVE  Abs!AbsRefuse
<1>1. /\ phase = "failing" /\ phase' = "serving" /\ map' = map /\ change' = NoChange
      /\ ret' = [status |-> StatusIf(FALSE), values |-> <<>>]
      /\ LastMark' = LastMark
  BY DEF Rollback, Return, Forget, TruncateTrailingContent, LastMark
<1>2. Busy /\ ~Busy' /\ Up = TRUE /\ Up' = TRUE
  BY <1>1 DEF Busy, Up
<1>3. map = Apply(before, change) /\ change \in Changes
  BY <1>2 DEF IInv, Memory, EndOfFile
<1>4. change # NoChange
  BY <1>3, ChangeLen DEF NoChange
<1>5. ret' = Abs!StatusOf(change, Abs!Existed(before, change), FALSE)
  BY <1>1, <1>2, StatusRefines
<1> QED BY <1>1, <1>2, <1>3, <1>4, <1>5
        DEF Abs!AbsRefuse, Abs!Apply, Apply, Abs!NoChange, NoChange, Abs!EmptyMap, EmptyMap

LEMMA GetRefines ==
  ASSUME IInv, NEW r \in Readers, EndGet(r) \/ \E k \in Keys : BeginGet(r, k)
  PROVE  (\E k \in Keys : Abs!AbsGet(k)) \/ UNCHANGED Abs!absVars
<1>1. /\ phase = "serving" /\ phase' = "serving" /\ map' = map /\ change' = change
      /\ LastMark' = LastMark /\ change = NoChange
  BY DEF EndGet, BeginGet, writer, LastMark, IInv, Memory, Busy
<1>2. Up = TRUE /\ Up' = TRUE /\ ~Busy /\ ~Busy'
  BY <1>1 DEF Up, Busy
<1>3. CASE EndGet(r)
  <2>1. iter[r] \in Keys /\ ret' = [status |-> "OK", values |-> map[iter[r]]]
    BY <1>3 DEF EndGet, IInv, TypeOK
  <2>2. Abs!AbsGet(iter[r])
    BY <1>1, <1>2, <2>1 DEF Abs!AbsGet, Abs!NoChange, NoChange
  <2> QED BY <2>1, <2>2
<1>4. CASE \E k \in Keys : BeginGet(r, k)
  <2>1. ret' = ret
    BY <1>4 DEF BeginGet
  <2>2. AbsMem' = AbsMem /\ AbsDur' = AbsDur /\ Up' = Up
    BY <1>1, <1>2 DEF AbsMem, AbsDur
  <2> QED BY <1>1, <2>1, <2>2 DEF Abs!absVars, AbsMem, AbsDur
<1> QED BY <1>3, <1>4

LEMMA NextRefines ==
  ASSUME IInv, IInv', Next
  PROVE  Abs!AbsNext \/ UNCHANGED Abs!absVars
<1> USE DEF Abs!AbsNext
<1>1. CASE Start
  BY <1>1, StartRefines
<1>2. CASE LoadChange
  BY <1>2, LoadChangeRefines
<1>3. CASE LoadCorrupted
  BY <1>3, LoadCorruptedRefines
<1>4. CASE LoadDone
  BY <1>4, LoadDoneRefines
<1>5. CASE (\E k \in Keys : Remove(k) \/ \E v \in Values : Put(k, v)) \/ Clear
  <2>1. \E c \in Changes : BeginChange(c)
    BY <1>5 DEF Put, Remove, Clear, Changes
  <2> QED BY <2>1, BeginRefines
<1>6. CASE Spill \/ WriteFails
  BY <1>6, WritingRefines
<1>7. CASE Acknowledge
  BY <1>7, AcknowledgeRefines
<1>8. CASE Rollback
  BY <1>8, RollbackRefines
<1>9. CASE TruncateRefused \/ TruncateFails \/ Crash
  <2>1. phase # "down" /\ Dies
    BY <1>9 DEF TruncateRefused, TruncateFails, Crash, Truncating, Corrupted
  <2> QED BY <2>1, DiesRefines
<1>10. CASE \E r \in Readers : EndGet(r) \/ \E k \in Keys : BeginGet(r, k)
  BY <1>10, GetRefines
<1> QED BY <1>1, <1>2, <1>3, <1>4, <1>5, <1>6, <1>7, <1>8, <1>9, <1>10 DEF Next

\* A store whose file stays below the size at which positions wrap round behaves
\* to its callers as the durable map does (the class comment and the comments on
\* the constructor, on Get and on interruptions in kvstore.h).
THEOREM Refinement == ASSUME BelowWrap PROVE Spec => ImplementsDurableMap
<1>1. IInv /\ IInv' /\ [Next]_vars => [Abs!AbsNext]_(Abs!absVars)
  <2> SUFFICES ASSUME IInv, IInv', [Next]_vars
               PROVE  Abs!AbsNext \/ UNCHANGED Abs!absVars
    OBVIOUS
  <2>1. CASE Next
    BY <2>1, NextRefines
  <2>2. CASE UNCHANGED vars
    <3>1. /\ phase' = phase /\ map' = map /\ before' = before /\ change' = change
          /\ ret' = ret /\ file' = file /\ marks' = marks
      BY <2>2 DEF vars
    <3>2. Up' = Up /\ Busy' = Busy
      BY <3>1 DEF Up, Busy
    <3>3. Recoverable' = Recoverable /\ LastMark' = LastMark
      BY <3>1, RecoverableSame
    <3>4. AbsMem' = AbsMem /\ AbsDur' = AbsDur
      BY <3>1, <3>2, <3>3 DEF AbsMem, AbsDur
    <3> QED BY <3>1, <3>2, <3>4 DEF Abs!absVars, AbsMem, AbsDur
  <2> QED BY <2>1, <2>2
<1>2. Init => Abs!AbsInit
  BY InitRefines
<1> QED BY <1>1, <1>2, Invariance, PTL DEF Spec, ImplementsDurableMap, Abs!AbsSpec
=============================================================================
