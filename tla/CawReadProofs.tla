---------------------------- MODULE CawReadProofs ----------------------------
(***************************************************************************)
(* Proofs about the calls of CawHandler that read a thread of caws, where  *)
(* the values of a Get always arrive.                                      *)
(***************************************************************************)
EXTENDS CawHandlerProofs

-----------------------------------------------------------------------------
(* The invariants.                                                         *)

\* A read of a caw that is there ends with OK, or at a caw whose id was given twice.
Finds(t) ==
  call[t].op = "Read" /\ call[t].a # BadId =>
    \/ call[t].status \in {"NONE", "OK", "DIED"}
    \/ /\ call[t].status = "UNAVAILABLE"
       /\ call[t].queue # <<>> /\ issued[Head(call[t].queue)] = 2

AllFind == \A t \in Threads : Finds(t)

\* The caws of S have the replies in m of every caw in S but those of done.
ClosedBut(m, S, done) == \A y \in S \ done : Range(m[ReplyKey(y)]) \subseteq S

\* Whatever has the caws that the read has found, and the replies of those that it
\* has not asked for yet, has all that was there when the read began.
Covers(m, must, found, done) ==
  \A S \in SUBSET Ids : found \subseteq S /\ ClosedBut(m, S, done) => must \subseteq S

Covered(t) ==
  LET must  == call[t].must
      queue == call[t].queue
      out   == call[t].out IN
  /\ call[t].pc = "read_check" => Covers(dur, must, {call[t].a}, {}) /\ out = <<>>
  /\ call[t].pc = "read_caw" => Covers(dur, must, Range(out) \cup Range(queue), Range(out))
  /\ call[t].pc = "read_replies" =>
       /\ Covers(dur, must, Range(out) \cup Range(queue), Range(out) \ {Head(queue)})
       /\ Head(queue) \in Range(out)
  /\ call[t].op = "Read" /\ call[t].status = "OK" => must \subseteq Range(out)

AllCovered == \A t \in Threads : Covered(t)

\* In log m: both caws that were given the id are there.
Twice(m, id) == Len(m[CawKey(id)]) >= 2

\* A caw with the id replies to p; the first one with the id does.
Under(m, id, p)      == \E c \in Range(m[CawKey(id)]) : c.parent = p
FirstUnder(m, id, p) == m[CawKey(id)] # <<>> /\ m[CawKey(id)][1].parent = p

\* The caws that were read: each once, the one asked for first, and every other one
\* after the caw that it replies to.
InOrder(m, a, out) ==
  /\ out # <<>> => out[1] = a
  /\ \A i \in 2..Len(out) : \E j \in 1..(i - 1) : FirstUnder(m, out[i], out[j])
  /\ IsInjective(out)

\* The caws that are still to be read: replies to the first n of those that were read,
\* none of them one that was read, or is there twice, unless its id was given twice.
ToRead(m, out, rest, n) ==
  /\ \A x \in Range(rest) : \E j \in 1..n : Under(m, x, out[j])
  /\ \A x \in Range(rest) \cap Range(out) : Twice(m, x)
  /\ \A i, j \in 1..Len(rest) : i # j /\ rest[i] = rest[j] => Twice(m, rest[i])

ReadOK(t) ==
  LET a     == call[t].a
      queue == call[t].queue
      out   == call[t].out IN
  /\ call[t].pc = "read_check" => out = <<>>
  /\ call[t].pc = "read_caw" =>
       /\ InOrder(dur, a, out)
       /\ IF out = <<>> THEN queue = <<a>> ELSE ToRead(dur, out, queue, Len(out))
  /\ call[t].pc = "read_replies" =>
       /\ InOrder(dur, a, out)
       /\ out # <<>> /\ out[Len(out)] = Head(queue)
       /\ ToRead(dur, out, Tail(queue), Len(out) - 1)
  /\ call[t].op = "Read" /\ call[t].status = "OK" => out # <<>> /\ InOrder(dur, a, out)

AllRead == \A t \in Threads : ReadOK(t)

\* No thread of caws leads back to its start: of any caws, one was stored first, and
\* what it replies to was there before.
NoCycle ==
  \A S \in SUBSET Ids : (\A x \in S : \E p \in S : FirstUnder(dur, x, p)) => S = {}

\* In store m a caw is listed twice as a reply to another only if its id was given twice.
ListedTwice(m) ==
  \A p, id \in Ids : \A i, j \in 1..Len(m[ReplyKey(p)]) :
    i # j /\ m[ReplyKey(p)][i] = id /\ m[ReplyKey(p)][j] = id => Twice(dur, id)

\* Thread t is about to list the caw as a reply to p.
Replying(t, id, p) == call[t].pc = "caw_put_reply" /\ call[t].id = id /\ call[t].b = p

\* So is one that is about to be listed again.
ToBeListed ==
  \A t \in Threads, id \in Ids, p \in Ids : Replying(t, id, p) =>
    /\ id \in Range(mem[ReplyKey(p)]) => Twice(dur, id)
    /\ \A s \in Threads \ {t}, q \in Ids : Replying(s, id, q) => Twice(dur, id)

ThreadsOK == NoCycle /\ ListedTwice(mem) /\ ListedTwice(dur) /\ ToBeListed

-----------------------------------------------------------------------------
(* What a step does to a read.                                             *)

\* What a step does to a call that is a read, or to one that is not.
ReadCases(t) ==
  \/ call'[t] = call[t]
  \/ call'[t].op # "Read"
  \/ /\ dur' = dur
     /\ \E id \in known \cup {BadId} :
          Begins(t, "Read", id, NoCaw, "read_check", CawsBelow(dur, id))
  \/ ReadCheck(t) \/ ReadCaw(t) \/ ReadReplies(t)
  \/ /\ call'[t].op = call[t].op /\ call'[t].a = call[t].a
     /\ call'[t].pc = "done" /\ call'[t].status = "DIED"

LEMMA NextReadCases ==
  ASSUME Typed, [Next]_vars, NEW t \in Threads
  PROVE  ReadCases(t)
<1>1. CASE CawQuiet
  BY <1>1 DEF CawQuiet, UserOps, ReadCases
<1>2. ASSUME NEW s \in Threads, NEW u, NEW p, Begins(s, "Caw", u, p, "caw_user", {})
      PROVE  ReadCases(t)
  BY <1>2 DEF Begins, ReadCases
<1>3. ASSUME NEW s \in Threads, NEW id \in known \cup {BadId}, UNCHANGED <<mem, dur>>,
             Begins(s, "Read", id, NoCaw, "read_check", CawsBelow(dur, id))
      PROVE  ReadCases(t)
  BY <1>3 DEF Begins, ReadCases
<1>4. ASSUME NEW s \in Threads, CawStep(s) PROVE ReadCases(t)
  <2>1. /\ \E where : Goes(s, where)
    BY <1>4, CawStepEffect
  <2>2. CASE s # t
    BY <2>1, <2>2 DEF Goes, ReadCases
  <2>3. CASE s = t /\ (CawCheckUser(t) \/ CawCheckParent(t) \/ CawPut(t) \/ CawPutReply(t))
    <3>1. call[t].op = "Caw"
      BY <2>3, CawCheckEffect, CawPutEffect, CawPutReplyEffect
    <3> QED BY <2>1, <2>3, <3>1 DEF Goes, ReadCases
  <2> QED BY <1>4, <2>2, <2>3 DEF CawStep, ReadCases
<1>5. CASE KvRestart
  BY <1>5 DEF KvRestart, ReadCases
<1>6. CASE FazCrash
  BY <1>6, FazCrashEffect DEF ReadCases
<1>7. ASSUME NEW s \in Threads, Outlives(s) PROVE ReadCases(t)
  BY <1>7 DEF Outlives, Moves, Goes, ReadCases
<1> QED BY <1>1, <1>2, <1>3, <1>4, <1>5, <1>6, <1>7, CawCases

LEMMA HeadTailFacts ==
  ASSUME NEW T, NEW s \in Seq(T), s # <<>>
  PROVE  /\ Head(s) = s[1] /\ 1 \in 1..Len(s) /\ Head(s) \in T /\ Head(s) \in Range(s)
         /\ Tail(s) \in Seq(T) /\ Len(Tail(s)) = Len(s) - 1 /\ Len(s) \in Nat
         /\ \A i \in 1..(Len(s) - 1) : Tail(s)[i] = s[i + 1]
         /\ Range(s) = {Head(s)} \cup Range(Tail(s))
<1>1. /\ Head(s) = s[1] /\ 1 \in 1..Len(s) /\ Head(s) \in T
      /\ Tail(s) \in Seq(T) /\ Len(Tail(s)) = Len(s) - 1 /\ Len(s) \in Nat
      /\ \A i \in 1..(Len(s) - 1) : Tail(s)[i] = s[i + 1]
  OBVIOUS
<1>2. Head(s) \in Range(s)
  BY <1>1, RangeFacts
<1>3. Range(Tail(s)) \subseteq Range(s)
  <2>1. SUFFICES ASSUME NEW x \in Range(Tail(s)) PROVE x \in Range(s)
    OBVIOUS
  <2>2. PICK i \in 1..Len(Tail(s)) : Tail(s)[i] = x
    BY <1>1, <2>1, RangeFacts
  <2>3. i + 1 \in 1..Len(s) /\ s[i + 1] = x
    BY <1>1, <2>2
  <2> QED BY <2>3, RangeFacts
<1>4. Range(s) \subseteq {Head(s)} \cup Range(Tail(s))
  <2>1. SUFFICES ASSUME NEW x \in Range(s), x # Head(s) PROVE x \in Range(Tail(s))
    OBVIOUS
  <2>2. PICK i \in 1..Len(s) : s[i] = x
    BY <2>1, RangeFacts
  <2>3. i # 1
    BY <1>1, <2>1, <2>2
  <2>4. /\ i - 1 \in 1..(Len(s) - 1) /\ (i - 1) + 1 = i
    BY <1>1, <2>2, <2>3
  <2>5. i - 1 \in 1..Len(Tail(s)) /\ Tail(s)[i - 1] = x
    BY <1>1, <2>2, <2>4
  <2> QED BY <1>1, <2>5, RangeFacts
<1> QED BY <1>1, <1>2, <1>3, <1>4

-----------------------------------------------------------------------------
(* A read finds what clients have seen.                                    *)

LEMMA IssuedStays ==
  ASSUME Typed, [Next]_vars, NEW id \in Ids, issued[id] = 2
  PROVE  issued'[id] = 2
<1>1. CASE CawQuiet \/ KvRestart \/ UNCHANGED issued
  BY <1>1 DEF CawQuiet, KvRestart
<1>2. CASE FazCrash
  BY <1>2, FazCrashEffect
<1>3. ASSUME NEW t \in Threads, CawStep(t) PROVE issued'[id] = 2
  <2>1. CASE CawPut(t)
    <3>1. PICK i \in Ids : issued[i] < 2 /\ issued' = [issued EXCEPT ![i] = issued[i] + 1]
      BY <2>1, CawPutEffect
    <3>2. i # id
      BY <3>1
    <3> QED BY <3>1, <3>2 DEF Typed
  <2>2. CASE \/ CawCheckUser(t) \/ CawCheckParent(t) \/ CawPutReply(t)
             \/ ReadCheck(t) \/ ReadCaw(t) \/ ReadReplies(t)
    BY <2>2, CawCheckEffect, CawPutReplyEffect, ReadCheckEffect, ReadCawEffect,
       ReadRepliesEffect
  <2> QED BY <1>3, <2>1, <2>2 DEF CawStep
<1>4. ASSUME NEW t \in Threads, Outlives(t) PROVE issued'[id] = 2
  BY <1>4 DEF Outlives
<1> QED BY <1>1, <1>2, <1>3, <1>4, CawCases

LEMMA NextFind ==
  ASSUME "cut" \notin Faults
  PROVE  Typed /\ CawsStored /\ AllFind /\ [Next]_vars => AllFind'
<1> SUFFICES ASSUME Typed, CawsStored, [Next]_vars, NEW t \in Threads, Finds(t)
             PROVE  Finds(t)'
  BY DEF AllFind
<1>0. CallOK(call[t]) /\ call[t] \in CallRecord
  BY DEF Typed
<1>1. CASE call'[t] = call[t]
  <2>1. CASE call[t].op = "Read" /\ call[t].queue # <<>>
    <3>1. call[t].queue \in Seq(Ids)
      BY <1>0 DEF CallRecord
    <3>2. Head(call[t].queue) \in Ids
      BY <2>1, <3>1, HeadTailFacts
    <3> QED BY <1>1, <3>2, IssuedStays DEF Finds
  <2> QED BY <1>1, <2>1 DEF Finds
<1>2. CASE \/ call'[t].op # "Read"
           \/ call'[t].status \in {"NONE", "DIED"}
  BY <1>2 DEF Finds
<1>3. CASE ReadCheck(t)
  <2>1. /\ \/ Moves(t, Answer("NOT_FOUND")) /\ mem[CawKey(call[t].a)] = <<>>
           \/ Goes(t, Continue("read_caw"))
    BY <1>3, ReadCheckEffect
  <2>2. CASE Goes(t, Continue("read_caw"))
    BY <1>2, <2>2 DEF Goes, Continue
  <2>3. CASE Moves(t, Answer("NOT_FOUND")) /\ mem[CawKey(call[t].a)] = <<>>
    <3>1. call[t].op = "Read"
      BY <1>3, ReadCheckEffect
    <3>2. call[t].a \notin known
      <4>1. SUFFICES ASSUME call[t].a \in known PROVE FALSE
        OBVIOUS
      <4>2. Len(mem[CawKey(call[t].a)]) \in 1..issued[call[t].a]
        BY <4>1, StoredSeen DEF SeenCawsLast
      <4>3. Len(<<>>) = 0
        OBVIOUS
      <4> QED BY <2>3, <4>2, <4>3
    <3>3. call[t].a = BadId
      BY <3>1, <3>2 DEF CawsStored, CallStored
    <3> QED BY <2>3, <3>3 DEF Moves, Goes, Finds
  <2> QED BY <2>1, <2>2, <2>3
<1>4. CASE ReadCaw(t)
  <2> DEFINE queue == call[t].queue
             head  == Head(queue)
  <2>1. /\ call[t].op = "Read" /\ queue \in Seq(Ids) /\ queue # <<>>
        /\ head \in Ids /\ UNCHANGED issued
        /\ \/ Moves(t, Answer("UNAVAILABLE")) /\ Len(mem[CawKey(head)]) # 1
           \/ Goes(t, Continue("read_replies"))
    BY <1>4, ReadCawEffect
  <2>2. CASE Goes(t, Continue("read_replies"))
    BY <1>2, <2>2 DEF Goes, Continue
  <2>3. CASE Moves(t, Answer("UNAVAILABLE")) /\ Len(mem[CawKey(head)]) # 1
    <3>1. head \in Range(queue)
      BY <2>1, HeadTailFacts
    <3>2. Stored(head)
      BY <2>1, <3>1 DEF CawsStored, CallStored
    <3>3. /\ dur[CawKey(head)] \in Seq(Caws) /\ mem[CawKey(head)] \in Seq(Caws)
          /\ Len(dur[CawKey(head)]) <= Len(mem[CawKey(head)])
          /\ Len(mem[CawKey(head)]) <= issued[head] /\ issued[head] \in 0..2
      BY <2>1, KeysInStore DEF Typed, StoreOK, Ahead, CawsStored
    <3>4. Len(dur[CawKey(head)]) # 0 /\ Len(dur[CawKey(head)]) \in Nat
      BY <3>2, <3>3, RangeFacts DEF Stored
    <3>5. Len(mem[CawKey(head)]) \in Nat
      BY <3>3
    <3>6. issued[head] = 2
      <4>1. \A d, m, n \in Nat : d # 0 /\ d <= m /\ m <= n /\ n <= 2 /\ m # 1 => n = 2
        OBVIOUS
      <4>2. issued[head] \in Nat /\ issued[head] <= 2
        BY <3>3
      <4> QED BY <2>3, <3>3, <3>4, <3>5, <4>1, <4>2
    <3>7. /\ call'[t].status = "UNAVAILABLE" /\ call'[t].queue = queue
          /\ issued' = issued
      BY <2>1, <2>3 DEF Moves, Goes, Answer
    <3> QED BY <2>1, <3>6, <3>7 DEF Finds
  <2> QED BY <2>1, <2>2, <2>3
<1>5. CASE ReadReplies(t)
  <2>1. PICK where \in {Answer("OK"), Continue("read_caw")} : Goes(t, where)
    BY <1>5, ReadRepliesEffect
  <2>2. call'[t].status \in {"OK", "NONE"}
    BY <2>1 DEF Goes, Answer, Continue
  <2> QED BY <2>2 DEF Finds
<1> QED BY <1>1, <1>2, <1>3, <1>4, <1>5, NextReadCases DEF ReadCases, Begins

\* Every read that is done was answered, so that what it may not be is all that is left.
LEMMA FindsFound == Typed /\ AllFind => ReadFinds
<1> SUFFICES ASSUME Typed, AllFind, NEW t \in Threads,
                    Done(t), call[t].op = "Read", call[t].a # BadId
             PROVE  \/ call[t].status \in {"OK", "DIED"}
                    \/ call[t].status = "UNAVAILABLE" /\ issued[Head(call[t].queue)] = 2
  BY DEF ReadFinds
<1>1. call[t].status # "NONE"
  BY DEF Typed, CallOK, Done
<1>2. Finds(t)
  BY DEF AllFind
<1> QED BY <1>1, <1>2 DEF Finds

-----------------------------------------------------------------------------
(* A read has all that was there when it began.                            *)

LEMMA CoversMore ==
  ASSUME NEW m, NEW must, NEW found, NEW more, NEW done, NEW fewer,
         found \subseteq more, fewer \subseteq done, Covers(m, must, found, done)
  PROVE  Covers(m, must, more, fewer)
BY DEF Covers, ClosedBut

LEMMA CoversStays ==
  ASSUME Typed, [Next]_vars
  PROVE  \A must, found, done :
           Covers(dur, must, found, done) => Covers(dur', must, found, done)
<1> SUFFICES ASSUME NEW must, NEW found, NEW done, Covers(dur, must, found, done),
                    NEW S \in SUBSET Ids, found \subseteq S, ClosedBut(dur', S, done)
             PROVE  must \subseteq S
  BY DEF Covers
<1>1. \A y \in S : Range(dur[ReplyKey(y)]) \subseteq Range(dur'[ReplyKey(y)])
  BY NextGrows, KeysInStore DEF Grows
<1>2. ClosedBut(dur, S, done)
  BY <1>1 DEF ClosedBut
<1> QED BY <1>2 DEF Covers

LEMMA BeginCovers ==
  ASSUME NEW m, NEW id
  PROVE  Covers(m, CawsBelow(m, id), {id}, {})
BY DEF Covers, ClosedBut, CawsBelow

LEMMA NextCovered ==
  ASSUME "cut" \notin Faults
  PROVE  Typed /\ AllCovered /\ [Next]_vars => AllCovered'
<1> SUFFICES ASSUME Typed, [Next]_vars, NEW t \in Threads, Covered(t)
             PROVE  Covered(t)'
  BY DEF AllCovered
<1>0. /\ CallOK(call[t]) /\ call[t] \in CallRecord /\ CallOK(call'[t])
  BY NextTyped DEF Typed
<1>1. CASE call'[t] = call[t]
  BY <1>1, CoversStays DEF Covered
<1>2. CASE /\ call'[t].pc \notin {"read_check", "read_caw", "read_replies"}
           /\ call'[t].op # "Read" \/ call'[t].status # "OK"
  BY <1>2 DEF Covered
<1>3. CASE call'[t].op # "Read"
  BY <1>0, <1>2, <1>3 DEF CallOK
<1>4. ASSUME NEW id \in known \cup {BadId}, dur' = dur,
             Begins(t, "Read", id, NoCaw, "read_check", CawsBelow(dur, id))
      PROVE  Covered(t)'
  <2>1. /\ call'[t].pc = "read_check" /\ call'[t].status = "NONE" /\ call'[t].a = id
        /\ call'[t].out = <<>> /\ call'[t].must = CawsBelow(dur, id)
    BY <1>4 DEF Begins
  <2>2. Covers(dur', call'[t].must, {call'[t].a}, {})
    BY <1>4, <2>1, BeginCovers
  <2> QED BY <2>1, <2>2 DEF Covered
<1>5. CASE ReadCheck(t)
  <2>1. /\ call[t].pc = "read_check" /\ dur' = dur
        /\ \/ Moves(t, Answer("NOT_FOUND"))
           \/ /\ Goes(t, Continue("read_caw"))
              /\ call'[t].out = call[t].out /\ call'[t].queue = <<call[t].a>>
    BY <1>5, ReadCheckEffect
  <2>2. CASE Moves(t, Answer("NOT_FOUND"))
    BY <1>2, <2>2 DEF Moves, Goes, Answer
  <2>3. CASE /\ Goes(t, Continue("read_caw"))
             /\ call'[t].out = call[t].out /\ call'[t].queue = <<call[t].a>>
    <3>1. Covers(dur, call[t].must, {call[t].a}, {}) /\ call[t].out = <<>>
      BY <2>1 DEF Covered
    <3>2. /\ call'[t].pc = "read_caw" /\ call'[t].status = "NONE"
          /\ call'[t].must = call[t].must
      BY <2>3 DEF Goes, Continue
    <3>3. Range(call'[t].out) = {} /\ Range(call'[t].queue) = {call[t].a}
      BY <2>3, <3>1 DEF Range
    <3>4. Covers(dur', call'[t].must, Range(call'[t].out) \cup Range(call'[t].queue),
                 Range(call'[t].out))
      <4>1. Range(call'[t].out) \cup Range(call'[t].queue) = {call[t].a}
        BY <3>3
      <4> QED BY <2>1, <3>1, <3>2, <3>3, <4>1
    <3> QED BY <3>2, <3>4 DEF Covered
  <2> QED BY <2>1, <2>2, <2>3
<1>6. CASE ReadCaw(t)
  <2>1. /\ call[t].pc = "read_caw" /\ dur' = dur /\ call[t].op = "Read"
        /\ call[t].queue \in Seq(Ids) /\ call[t].queue # <<>>
        /\ \/ Moves(t, Answer("UNAVAILABLE"))
           \/ /\ Goes(t, Continue("read_replies")) /\ call'[t].queue = call[t].queue
              /\ call'[t].out = Append(call[t].out, Head(call[t].queue))
    BY <1>6, ReadCawEffect
  <2>2. CASE Moves(t, Answer("UNAVAILABLE"))
    BY <1>2, <2>2 DEF Moves, Goes, Answer
  <2>3. CASE /\ Goes(t, Continue("read_replies")) /\ call'[t].queue = call[t].queue
             /\ call'[t].out = Append(call[t].out, Head(call[t].queue))
    <3>1. Covers(dur, call[t].must, Range(call[t].out) \cup Range(call[t].queue),
                 Range(call[t].out))
      BY <2>1 DEF Covered
    <3>2. /\ call'[t].pc = "read_replies" /\ call'[t].status = "NONE"
          /\ call'[t].must = call[t].must
      BY <2>3 DEF Goes, Continue
    <3>3. Head(call[t].queue) \in Ids /\ Head(call[t].queue) \in Range(call[t].queue)
      BY <2>1, HeadTailFacts
    <3>4. Range(call'[t].out) = Range(call[t].out) \cup {Head(call[t].queue)}
      BY <1>0, <2>1, <2>3, <3>3, AppendFacts DEF CallOK
    <3>5. Covers(dur', call'[t].must, Range(call'[t].out) \cup Range(call'[t].queue),
                 Range(call'[t].out) \ {Head(call'[t].queue)})
      <4>1. /\ Range(call[t].out) \cup Range(call[t].queue)
                 \subseteq Range(call'[t].out) \cup Range(call'[t].queue)
            /\ Range(call'[t].out) \ {Head(call'[t].queue)} \subseteq Range(call[t].out)
        BY <2>3, <3>4
      <4> QED BY <2>1, <3>1, <3>2, <4>1, CoversMore
    <3> QED BY <2>3, <3>2, <3>4, <3>5 DEF Covered
  <2> QED BY <2>1, <2>2, <2>3
<1>7. CASE ReadReplies(t)
  <2> DEFINE head == Head(call[t].queue)
             rest == call'[t].queue
             out  == call[t].out
  <2>1. PICK values \in Seq(Ids) :
          /\ values = mem[ReplyKey(head)]
          /\ rest = Tail(call[t].queue) \o values
          /\ Goes(t, IF rest = <<>> THEN Answer("OK") ELSE Continue("read_caw"))
          /\ call'[t].out = out
    BY <1>7, ReadRepliesEffect
  <2>2. /\ call[t].pc = "read_replies" /\ call[t].op = "Read" /\ dur' = dur
        /\ call[t].queue \in Seq(Ids) /\ call[t].queue # <<>> /\ head \in Ids
    BY <1>7, ReadRepliesEffect
  <2>3. /\ Tail(call[t].queue) \in Seq(Ids)
        /\ Range(call[t].queue) = {head} \cup Range(Tail(call[t].queue))
    BY <2>2, HeadTailFacts
  <2>4. Range(rest) = Range(Tail(call[t].queue)) \cup Range(values)
    <3>1. Range(Tail(call[t].queue) \o values) = Range(Tail(call[t].queue)) \cup Range(values)
      <4>1. values \in Seq(Ids) /\ Tail(call[t].queue) \in Seq(Ids)
        BY <2>1, <2>3
      <4> HIDE <2>1
      <4> QED BY <4>1, RangeConcat
    <3> QED BY <2>1, <3>1
  <2>5. /\ Covers(dur, call[t].must, Range(out) \cup Range(call[t].queue), Range(out) \ {head})
        /\ head \in Range(out)
    BY <2>2 DEF Covered
  <2>6. Range(dur[ReplyKey(head)]) \subseteq Range(values)
    BY <2>1, <2>2, KeysInStore DEF Typed, Ahead
  <2>7. Covers(dur, call[t].must, Range(out) \cup Range(rest), Range(out))
    <3>1. SUFFICES ASSUME NEW S \in SUBSET Ids, Range(out) \cup Range(rest) \subseteq S,
                          ClosedBut(dur, S, Range(out))
                   PROVE  call[t].must \subseteq S
      BY DEF Covers
    <3>2. Range(dur[ReplyKey(head)]) \subseteq S
      BY <2>4, <2>6, <3>1
    <3>3. ClosedBut(dur, S, Range(out) \ {head})
      BY <3>1, <3>2 DEF ClosedBut
    <3>4. Range(out) \cup Range(call[t].queue) \subseteq S
      BY <2>3, <2>4, <2>5, <3>1
    <3> QED BY <2>5, <3>3, <3>4 DEF Covers
  <2>8. call'[t].must = call[t].must /\ call'[t].op = "Read"
    BY <2>1, <2>2 DEF Goes
  <2>9. CASE rest = <<>>
    <3>1. call'[t].pc = "done"
      BY <2>1, <2>9 DEF Goes, Answer
    <3>2. Range(rest) = {}
      BY <2>9 DEF Range
    <3>3. Range(out) \in SUBSET Ids /\ ClosedBut(dur, Range(out), Range(out))
      BY <1>0, <2>2, RangeFacts DEF ClosedBut, CallOK
    <3>4. call[t].must \subseteq Range(out)
      BY <2>7, <3>2, <3>3 DEF Covers
    <3> QED BY <2>1, <2>8, <3>1, <3>4 DEF Covered
  <2>10. CASE rest # <<>>
    <3>1. call'[t].pc = "read_caw" /\ call'[t].status = "NONE"
      BY <2>1, <2>10 DEF Goes, Continue
    <3>2. Covers(dur', call'[t].must, Range(call'[t].out) \cup Range(call'[t].queue),
                 Range(call'[t].out))
      BY <2>1, <2>2, <2>7, <2>8
    <3> QED BY <3>1, <3>2 DEF Covered
  <2> QED BY <2>9, <2>10
<1>8. CASE call'[t].pc = "done" /\ call'[t].status = "DIED"
  BY <1>2, <1>8
<1> QED BY <1>1, <1>3, <1>4, <1>5, <1>6, <1>7, <1>8, NextReadCases DEF ReadCases

-----------------------------------------------------------------------------
(* No thread of caws leads back to its start.                              *)

LEMMA CawListTypes ==
  ASSUME Typed, NEW id \in Ids
  PROVE  /\ dur[CawKey(id)] \in Seq(Caws) /\ mem[CawKey(id)] \in Seq(Caws)
         /\ dur[ReplyKey(id)] \in Seq(Ids) /\ mem[ReplyKey(id)] \in Seq(Ids)
         /\ CawKey(id) \in StoreKeys /\ ReplyKey(id) \in StoreKeys
         /\ Range(dur[ReplyKey(id)]) \subseteq Range(mem[ReplyKey(id)])
         /\ Range(dur[CawKey(id)]) \subseteq Range(mem[CawKey(id)])
         /\ Len(dur[CawKey(id)]) \in Nat /\ Len(mem[CawKey(id)]) \in Nat
         /\ Len(dur[CawKey(id)]) <= Len(mem[CawKey(id)])
BY KeysInStore DEF Typed, StoreOK, Ahead

\* What is known of a caw in the log stays so.
LEMMA CawStays ==
  ASSUME Typed, [Next]_vars, NEW id \in Ids
  PROVE  /\ Twice(dur, id) => Twice(dur', id)
         /\ \A p : Under(dur, id, p) => Under(dur', id, p)
         /\ \A p : FirstUnder(dur, id, p) => FirstUnder(dur', id, p)
<1>1. Typed' /\ Grows
  BY NextTyped, NextGrows
<1>2. /\ dur[CawKey(id)] \in Seq(Caws) /\ dur'[CawKey(id)] \in Seq(Caws)
      /\ Len(dur[CawKey(id)]) \in Nat /\ Len(dur'[CawKey(id)]) \in Nat
      /\ Len(dur[CawKey(id)]) <= Len(dur'[CawKey(id)])
      /\ Range(dur[CawKey(id)]) \subseteq Range(dur'[CawKey(id)])
      /\ \A i \in 1..Len(dur[CawKey(id)]) : dur'[CawKey(id)][i] = dur[CawKey(id)][i]
  BY <1>1, KeysInStore DEF Typed, StoreOK, Grows
<1>3. Twice(dur, id) => Twice(dur', id)
  BY <1>2 DEF Twice
<1>4. \A p : Under(dur, id, p) => Under(dur', id, p)
  BY <1>2 DEF Under
<1>5. dur[CawKey(id)] # <<>> =>
        1 \in 1..Len(dur[CawKey(id)]) /\ dur'[CawKey(id)] # <<>>
  BY <1>2
<1>6. \A p : FirstUnder(dur, id, p) => FirstUnder(dur', id, p)
  BY <1>2, <1>5 DEF FirstUnder
<1> QED BY <1>3, <1>4, <1>6

\* A caw that is there once replies to one caw only.
LEMMA OneParent ==
  ASSUME Typed, NEW id \in Ids
  PROVE  /\ \A p, q : Under(dur, id, p) /\ Under(dur, id, q) /\ p # q => Twice(dur, id)
         /\ \A p : Under(dur, id, p) => Twice(dur, id) \/ FirstUnder(dur, id, p)
         /\ \A p : FirstUnder(dur, id, p) => Under(dur, id, p)
         /\ \A p : Under(dur, id, p) => Len(dur[CawKey(id)]) >= 1
<1>1. PICK s \in Seq(Caws) : s = dur[CawKey(id)]
  BY CawListTypes
<1>2. /\ Len(s) \in Nat /\ \A i \in 1..Len(s) : s[i] \in Range(s)
      /\ \A x \in Range(s) : \E i \in 1..Len(s) : s[i] = x
      /\ s = <<>> <=> Len(s) = 0
  BY RangeFacts
<1>3. ASSUME NEW p, NEW q, \E c \in Range(s) : c.parent = p,
             \E c \in Range(s) : c.parent = q, p # q
      PROVE  Len(s) >= 2
  <2>1. PICK c \in Range(s), d \in Range(s) : c.parent = p /\ d.parent = q
    BY <1>3
  <2>2. PICK i \in 1..Len(s), j \in 1..Len(s) : s[i] = c /\ s[j] = d
    BY <1>2
  <2>3. i # j
    BY <1>3, <2>1, <2>2
  <2> QED BY <1>2, <2>3
<1>4. ASSUME NEW p, \E c \in Range(s) : c.parent = p
      PROVE  Len(s) >= 1 /\ (Len(s) >= 2 \/ (s # <<>> /\ s[1].parent = p))
  <2>1. PICK i \in 1..Len(s) : s[i].parent = p
    BY <1>2, <1>4
  <2>2. Len(s) >= 1 /\ s # <<>> /\ (Len(s) >= 2 \/ i = 1)
    BY <1>2
  <2> QED BY <2>1, <2>2
<1>5. ASSUME NEW p, s # <<>>, s[1].parent = p
      PROVE  \E c \in Range(s) : c.parent = p
  <2>1. 1 \in 1..Len(s)
    BY <1>2, <1>5
  <2> QED BY <1>2, <1>5, <2>1
<1> QED BY <1>1, <1>3, <1>4, <1>5 DEF Under, FirstUnder, Twice

\* The caws are listed as they were, and no thread has come to list one.
CawListsSame ==
  /\ \A id \in Ids : /\ dur'[CawKey(id)] = dur[CawKey(id)]
                     /\ dur'[ReplyKey(id)] = dur[ReplyKey(id)]
                     /\ mem'[ReplyKey(id)] = mem[ReplyKey(id)]
  /\ \A t \in Threads : \/ call'[t].pc # "caw_put_reply"
                       \/ /\ call'[t].pc = call[t].pc
                          /\ call'[t].b = call[t].b /\ call'[t].id = call[t].id

LEMMA ListCases ==
  ASSUME Typed, [Next]_vars
  PROVE  \/ CawListsSame
         \/ \E t \in Threads : CawPut(t)
         \/ \E t \in Threads : CawPutReply(t)
         \/ KvRestart
<1>0. \A t \in Threads : CallOK(call'[t])
  BY NextTyped DEF Typed
<1>1. CASE CawQuiet
  <2>1. \A t \in Threads : call'[t] = call[t] \/ call'[t].pc # "caw_put_reply"
    BY <1>0, <1>1 DEF CawQuiet, CallOK, UserOps
  <2> QED BY <1>1, <2>1 DEF CawQuiet, CawListsSame
<1>2. ASSUME NEW t \in Threads, NEW op, NEW a, NEW b, NEW pc, NEW must, pc # "caw_put_reply",
             UNCHANGED <<mem, dur>>, Begins(t, op, a, b, pc, must)
      PROVE  CawListsSame
  BY <1>2 DEF Begins, CawListsSame
<1>3. ASSUME NEW t \in Threads, NEW pc \in PCs \ {"caw_put_reply"},
             UNCHANGED <<mem, dur>>, call'[t].pc = pc, \E where : Goes(t, where)
      PROVE  CawListsSame
  BY <1>3 DEF Goes, CawListsSame
<1>4. ASSUME NEW t \in Threads, CawStep(t), ~CawPut(t), ~CawPutReply(t)
      PROVE  CawListsSame
  <2>1. CASE CawCheckUser(t) \/ CawCheckParent(t)
    <3>1. PICK where : Moves(t, where) /\ where.pc \in {"done", "caw_put", "caw_parent"}
      BY <2>1, CawCheckEffect
    <3>2. call'[t].pc \in {"done", "caw_put", "caw_parent"} /\ Goes(t, where)
          /\ UNCHANGED <<mem, dur>>
      BY <2>1, <3>1, CawCheckEffect DEF Moves, Goes
    <3> QED BY <1>3, <3>2 DEF PCs
  <2>2. CASE ReadCheck(t) \/ ReadCaw(t) \/ ReadReplies(t)
    <3>1. call[t].op = "Read" /\ UNCHANGED <<mem, dur>> /\ \E where : Goes(t, where)
      BY <1>4, <2>2, ReadCheckEffect, ReadCawEffect, ReadRepliesEffect, CawStepEffect
    <3>2. call'[t].op = "Read"
      BY <3>1 DEF Goes
    <3>3. call'[t].pc \in PCs \ {"caw_put_reply"}
      <4>1. call'[t] \in CallRecord
        BY <3>1 DEF Goes
      <4>2. call'[t].pc \in PCs
        BY <4>1 DEF CallRecord
      <4> QED BY <1>0, <3>2, <4>2 DEF CallOK
    <3> QED BY <1>3, <3>1, <3>3
  <2> QED BY <1>4, <2>1, <2>2 DEF CawStep
<1>5. CASE FazCrash
  <2>1. \A t \in Threads : call'[t] = call[t] \/ call'[t].pc # "caw_put_reply"
    BY <1>5, FazCrashEffect
  <2> QED BY <1>5, <2>1, FazCrashEffect DEF CawListsSame
<1>6. ASSUME NEW t \in Threads, Outlives(t) PROVE CawListsSame
  BY <1>6 DEF Outlives, Moves, Goes, CawListsSame
<1> QED BY <1>1, <1>2, <1>4, <1>5, <1>6, CawCases

\* What a CawPut does to the log: the caw is the last one under its id, and the reply
\* lists stay.
LEMMA CawPutLists ==
  ASSUME Typed, NEW t \in Threads, CawPut(t)
  PROVE  \E id \in Ids, ok \in BOOLEAN, caw \in Caws :
           /\ caw.parent = call[t].b
           /\ dur'[CawKey(id)] = dur[CawKey(id)]
                \/ dur'[CawKey(id)] = Append(dur[CawKey(id)], caw)
           /\ ok => dur'[CawKey(id)] = Append(dur[CawKey(id)], caw)
           /\ \A i \in Ids : i # id => dur'[CawKey(i)] = dur[CawKey(i)]
           /\ \A i \in Ids : /\ dur'[ReplyKey(i)] = dur[ReplyKey(i)]
                             /\ mem'[ReplyKey(i)] = mem[ReplyKey(i)]
           /\ \A s \in Threads \ {t} : call'[s] = call[s]
           /\ call'[t].id = id
           /\ call'[t].pc = "caw_put_reply" => ok
<1> DEFINE caw == [user |-> call[t].a, parent |-> call[t].b]
<1>1. /\ call[t].a \in Users /\ call[t].b \in Ids \cup {NoCaw}
  BY CawPutEffect
<1>2. PICK id \in Ids, ok \in BOOLEAN :
        /\ Adds(CawKey(id), caw, ok)
        /\ Goes(t, AfterPut(ok, IF call[t].b = NoCaw THEN Answer("OK")
                                ELSE Continue("caw_put_reply")))
        /\ call'[t].id = id
  BY CawPutEffect
<1>3. caw \in Caws /\ caw.parent = call[t].b
  BY <1>1 DEF Caws
<1>4. CawKey(id) \in StoreKeys /\ \A i \in Ids :
        /\ ReplyKey(i) \in StoreKeys \ {CawKey(id)}
        /\ i # id => CawKey(i) \in StoreKeys \ {CawKey(id)}
  BY KeysInStore, KeysDiffer
<1>5. call'[t].pc = "caw_put_reply" => ok
  BY <1>2 DEF Goes, AfterPut, Answer
<1>6. \A s \in Threads \ {t} : call'[s] = call[s]
  BY <1>2 DEF Goes
<1> HIDE DEF caw
<1>7. /\ dur'[CawKey(id)] = dur[CawKey(id)]
           \/ dur'[CawKey(id)] = Append(dur[CawKey(id)], caw)
      /\ ok => dur'[CawKey(id)] = Append(dur[CawKey(id)], caw)
      /\ \A i \in Ids : i # id => dur'[CawKey(i)] = dur[CawKey(i)]
      /\ \A i \in Ids : /\ dur'[ReplyKey(i)] = dur[ReplyKey(i)]
                        /\ mem'[ReplyKey(i)] = mem[ReplyKey(i)]
  BY <1>2, <1>4 DEF Adds
<1> QED BY <1>2, <1>3, <1>5, <1>6, <1>7

\* The same of a CawPutReply.
LEMMA CawPutReplyLists ==
  ASSUME Typed, NEW t \in Threads, CawPutReply(t)
  PROVE  \E id \in Ids, p \in Ids :
           /\ Replying(t, id, p)
           /\ \A m \in {mem, dur} : m \in [StoreKeys -> Seq(Entries)]
           /\ mem'[ReplyKey(p)] \in {mem[ReplyKey(p)], Append(mem[ReplyKey(p)], id)}
           /\ dur'[ReplyKey(p)] \in {dur[ReplyKey(p)], Append(dur[ReplyKey(p)], id)}
           /\ \A i \in Ids : dur'[CawKey(i)] = dur[CawKey(i)]
           /\ \A i \in Ids : i # p => /\ dur'[ReplyKey(i)] = dur[ReplyKey(i)]
                                      /\ mem'[ReplyKey(i)] = mem[ReplyKey(i)]
           /\ \A s \in Threads \ {t} : call'[s] = call[s]
           /\ call'[t].pc = "done"
<1>1. PICK id \in Ids, p \in Ids : Replying(t, id, p)
  BY CawPutReplyEffect DEF Replying
<1>2. PICK ok \in BOOLEAN :
        Adds(ReplyKey(p), id, ok) /\ Moves(t, AfterPut(ok, Answer("OK")))
  BY <1>1, CawPutReplyEffect DEF Replying
<1>3. /\ ReplyKey(p) \in StoreKeys
      /\ \A i \in Ids : /\ CawKey(i) \in StoreKeys \ {ReplyKey(p)}
                        /\ i # p => ReplyKey(i) \in StoreKeys \ {ReplyKey(p)}
  BY KeysInStore, KeysDiffer
<1>4. (\A s \in Threads \ {t} : call'[s] = call[s]) /\ call'[t].pc = "done"
  BY <1>2 DEF Moves, Goes, AfterPut, Answer
<1>5. \A m \in {mem, dur} : m \in [StoreKeys -> Seq(Entries)]
  BY DEF Typed, StoreOK
<1> QED BY <1>1, <1>2, <1>3, <1>4, <1>5 DEF Adds

LEMMA NextNoCycle == Typed /\ CawsStored /\ NoCycle /\ [Next]_vars => NoCycle'
<1> SUFFICES ASSUME Typed, CawsStored, NoCycle, [Next]_vars,
                    NEW S \in SUBSET Ids, \A x \in S : \E p \in S : FirstUnder(dur', x, p)
             PROVE  S = {}
  BY DEF NoCycle
<1>1. ASSUME \A id \in Ids : dur'[CawKey(id)] = dur[CawKey(id)]
      PROVE  S = {}
  <2>1. \A x \in S : \E p \in S : FirstUnder(dur, x, p)
    BY <1>1 DEF FirstUnder
  <2> QED BY <2>1 DEF NoCycle
<1>2. ASSUME NEW t \in Threads, CawPut(t) PROVE S = {}
  <2> DEFINE b == call[t].b
  <2>1. PICK id \in Ids, caw \in Caws :
          /\ caw.parent = b
          /\ dur'[CawKey(id)] = dur[CawKey(id)]
               \/ dur'[CawKey(id)] = Append(dur[CawKey(id)], caw)
          /\ \A i \in Ids : i # id => dur'[CawKey(i)] = dur[CawKey(i)]
    BY <1>2, CawPutLists
  <2>2. dur[CawKey(id)] \in Seq(Caws)
    BY CawListTypes
  <2>3. CASE dur[CawKey(id)] # <<>>
    <3>1. dur'[CawKey(id)] # <<>> /\ dur'[CawKey(id)][1] = dur[CawKey(id)][1]
      <4>1. Len(dur[CawKey(id)]) \in Nat /\ 1 \in 1..Len(dur[CawKey(id)])
        BY <2>2, <2>3, RangeFacts
      <4> QED BY <2>1, <2>2, <2>3, <4>1, AppendFacts
    <3>2. \A x \in S : \A p : FirstUnder(dur', x, p) => FirstUnder(dur, x, p)
      BY <2>1, <2>3, <3>1 DEF FirstUnder
    <3> QED BY <3>2 DEF NoCycle
  <2>4. CASE dur[CawKey(id)] = <<>>
    <3>1. b # NoCaw => b \in known
      BY <1>2, CawPutEffect, NoCawAssumption DEF CawsStored, CallStored
    <3>2. b # id
      BY <2>4, <3>1, NoCawAssumption DEF CawsStored, Stored
    <3>3. ASSUME NEW x \in S, x # id, NEW p \in S, FirstUnder(dur', x, p)
          PROVE  FirstUnder(dur, x, p) /\ p # id
      <4>1. FirstUnder(dur, x, p)
        BY <2>1, <3>3 DEF FirstUnder
      <4>2. Under(dur, x, p)
        BY <4>1, OneParent
      <4>3. PICK c \in Range(mem[CawKey(x)]) : c.parent = p
        BY <4>2, CawListTypes DEF Under
      <4>4. Stored(p)
        BY <4>3, NoCawAssumption DEF CawsStored
      <4> QED BY <2>4, <4>1, <4>4 DEF Stored
    <3>4. \A x \in S \ {id} : \E p \in S \ {id} : FirstUnder(dur, x, p)
      BY <3>3
    <3>5. S \ {id} = {}
      BY <3>4 DEF NoCycle
    <3>6. ASSUME id \in S PROVE FALSE
      <4>1. FirstUnder(dur', id, id)
        BY <3>5, <3>6
      <4>2. dur'[CawKey(id)] = Append(<<>>, caw)
        BY <2>1, <2>4, <4>1 DEF FirstUnder
      <4>3. Append(<<>>, caw)[1] = caw
        OBVIOUS
      <4> QED BY <2>1, <3>2, <4>1, <4>2, <4>3 DEF FirstUnder
    <3> QED BY <3>5, <3>6
  <2> QED BY <2>3, <2>4
<1>3. CASE CawListsSame
  BY <1>1, <1>3 DEF CawListsSame
<1>4. ASSUME NEW t \in Threads, CawPutReply(t) PROVE S = {}
  BY <1>1, <1>4, CawPutReplyLists
<1>5. CASE KvRestart
  BY <1>1, <1>5 DEF KvRestart
<1> QED BY <1>2, <1>3, <1>4, <1>5, ListCases

-----------------------------------------------------------------------------
(* Only a caw whose id was given twice is listed twice.                    *)

\* One that a thread lists is in the log before.
LEMMA ReplyingStored ==
  ASSUME Typed, CawsStored, NEW t \in Threads, NEW id \in Ids, NEW p \in Ids,
         Replying(t, id, p) \/ id \in Range(mem[ReplyKey(p)])
  PROVE  Under(dur, id, p)
<1>1. CASE Replying(t, id, p)
  BY <1>1 DEF Replying, CawsStored, CallStored, StoredUnder, Under
<1>2. CASE id \in Range(mem[ReplyKey(p)])
  BY <1>2 DEF CawsStored, NoDanglingReply, Under
<1> QED BY <1>1, <1>2

LEMMA NextToBeListed ==
  Typed /\ CawsStored /\ ToBeListed /\ [Next]_vars => ToBeListed'
<1> SUFFICES ASSUME Typed, CawsStored, ToBeListed, [Next]_vars,
                    NEW t \in Threads, NEW id \in Ids, NEW p \in Ids, Replying(t, id, p)'
             PROVE  /\ id \in Range(mem'[ReplyKey(p)]) => Twice(dur', id)
                    /\ \A s \in Threads \ {t}, q \in Ids :
                         Replying(s, id, q)' => Twice(dur', id)
  BY DEF ToBeListed
<1>0. Twice(dur, id) => Twice(dur', id)
  BY CawStays
<1>1. ASSUME Replying(t, id, p), \A s \in Threads, q \in Ids :
                                   Replying(s, id, q)' => Replying(s, id, q),
             id \in Range(mem'[ReplyKey(p)]) => id \in Range(mem[ReplyKey(p)])
      PROVE  /\ id \in Range(mem'[ReplyKey(p)]) => Twice(dur', id)
             /\ \A s \in Threads \ {t}, q \in Ids : Replying(s, id, q)' => Twice(dur', id)
  BY <1>0, <1>1 DEF ToBeListed
<1>2. CASE CawListsSame
  <2>1. \A s \in Threads, q \in Ids : Replying(s, id, q)' => Replying(s, id, q)
    BY <1>2 DEF CawListsSame, Replying
  <2> QED BY <1>1, <1>2, <2>1 DEF CawListsSame
<1>3. CASE KvRestart
  <2>1. call' = call /\ mem' = dur
    BY <1>3 DEF KvRestart
  <2>2. \A s \in Threads, q \in Ids : Replying(s, id, q)' => Replying(s, id, q)
    BY <2>1 DEF Replying
  <2>3. Range(dur[ReplyKey(p)]) \subseteq Range(mem[ReplyKey(p)])
    BY CawListTypes
  <2> QED BY <1>1, <2>1, <2>2, <2>3
<1>4. ASSUME NEW w \in Threads, CawPut(w)
      PROVE  /\ id \in Range(mem'[ReplyKey(p)]) => Twice(dur', id)
             /\ \A s \in Threads \ {t}, q \in Ids : Replying(s, id, q)' => Twice(dur', id)
  <2>1. PICK new \in Ids, ok \in BOOLEAN, caw \in Caws :
          /\ ok => dur'[CawKey(new)] = Append(dur[CawKey(new)], caw)
          /\ \A i \in Ids : mem'[ReplyKey(i)] = mem[ReplyKey(i)]
          /\ \A s \in Threads \ {w} : call'[s] = call[s]
          /\ call'[w].id = new
          /\ call'[w].pc = "caw_put_reply" => ok
    BY <1>4, CawPutLists
  <2>2. ASSUME NEW q, Under(dur, new, q), ok PROVE Twice(dur', new)
    <3>1. Len(dur[CawKey(new)]) >= 1 /\ dur[CawKey(new)] \in Seq(Caws)
          /\ Len(dur[CawKey(new)]) \in Nat
      BY <2>2, OneParent, CawListTypes
    <3>2. Len(dur'[CawKey(new)]) = Len(dur[CawKey(new)]) + 1
      BY <2>1, <2>2, <3>1, AppendFacts
    <3> QED BY <3>1, <3>2 DEF Twice
  <2>3. \A s \in Threads \ {w}, q \in Ids : Replying(s, id, q)' => Replying(s, id, q)
    BY <2>1 DEF Replying
  <2>4. \A q \in Ids : Replying(w, id, q)' => id = new /\ ok
    BY <2>1 DEF Replying
  <2>5. CASE t = w
    <3>1. id = new /\ ok
      BY <2>4, <2>5
    <3>2. id \in Range(mem'[ReplyKey(p)]) => Twice(dur', id)
      BY <2>1, <2>2, <3>1, ReplyingStored
    <3>3. ASSUME NEW s \in Threads \ {t}, NEW q \in Ids, Replying(s, id, q)'
          PROVE  Twice(dur', id)
      <4>1. Replying(s, id, q)
        BY <2>3, <2>5, <3>3
      <4> QED BY <2>2, <3>1, <4>1, ReplyingStored
    <3> QED BY <3>2, <3>3
  <2>6. CASE t # w
    <3>1. Replying(t, id, p)
      BY <2>3, <2>6
    <3>2. id \in Range(mem'[ReplyKey(p)]) => Twice(dur', id)
      BY <1>0, <2>1, <3>1 DEF ToBeListed
    <3>3. ASSUME NEW s \in Threads \ {t}, NEW q \in Ids, Replying(s, id, q)'
          PROVE  Twice(dur', id)
      <4>1. CASE s = w
        <5>1. id = new /\ ok
          BY <2>4, <3>3, <4>1
        <5> QED BY <2>2, <3>1, <5>1, ReplyingStored
      <4>2. CASE s # w
        BY <1>0, <2>3, <3>1, <3>3, <4>2 DEF ToBeListed
      <4> QED BY <4>1, <4>2
    <3> QED BY <3>2, <3>3
  <2> QED BY <2>5, <2>6
<1>5. ASSUME NEW w \in Threads, CawPutReply(w)
      PROVE  /\ id \in Range(mem'[ReplyKey(p)]) => Twice(dur', id)
             /\ \A s \in Threads \ {t}, q \in Ids : Replying(s, id, q)' => Twice(dur', id)
  <2>1. PICK new \in Ids, b \in Ids :
          /\ Replying(w, new, b)
          /\ mem'[ReplyKey(b)] \in {mem[ReplyKey(b)], Append(mem[ReplyKey(b)], new)}
          /\ \A i \in Ids : i # b => mem'[ReplyKey(i)] = mem[ReplyKey(i)]
          /\ \A s \in Threads \ {w} : call'[s] = call[s]
          /\ call'[w].pc = "done"
    BY <1>5, CawPutReplyLists
  <2>2. \A s \in Threads, q \in Ids : Replying(s, id, q)' => s # w /\ Replying(s, id, q)
    BY <2>1 DEF Replying
  <2>3. Replying(t, id, p) /\ t # w
    BY <2>2
  <2>4. \A s \in Threads \ {t}, q \in Ids : Replying(s, id, q) => Twice(dur', id)
    BY <1>0, <2>3 DEF ToBeListed
  <2>5. id \in Range(mem'[ReplyKey(p)]) => Twice(dur', id)
    <3>1. CASE id \in Range(mem[ReplyKey(p)])
      BY <1>0, <2>3, <3>1 DEF ToBeListed
    <3>2. CASE id \notin Range(mem[ReplyKey(p)])
      <4>1. mem[ReplyKey(b)] \in Seq(Ids)
        BY CawListTypes
      <4>2. Range(Append(mem[ReplyKey(b)], new)) = Range(mem[ReplyKey(b)]) \cup {new}
        BY <4>1, AppendFacts
      <4>3. id \in Range(mem'[ReplyKey(p)]) => id = new /\ p = b
        BY <2>1, <3>2, <4>2
      <4> QED BY <2>1, <2>3, <2>4, <4>3
    <3> QED BY <3>1, <3>2
  <2> QED BY <2>2, <2>4, <2>5
<1> QED BY <1>2, <1>3, <1>4, <1>5, ListCases

\* A list that gets a caw that it does not have, or that is there twice.
LEMMA AppendListed ==
  ASSUME NEW s \in Seq(Ids), NEW new \in Ids, NEW id \in Ids,
         NEW i \in 1..Len(Append(s, new)), NEW j \in 1..Len(Append(s, new)), i # j,
         Append(s, new)[i] = id, Append(s, new)[j] = id
  PROVE  \/ /\ i \in 1..Len(s) /\ j \in 1..Len(s)
            /\ s[i] = id /\ s[j] = id
         \/ id = new /\ new \in Range(s)
<1>1. /\ Len(Append(s, new)) = Len(s) + 1 /\ Len(s) \in Nat
      /\ \A k \in 1..Len(s) : Append(s, new)[k] = s[k] /\ s[k] \in Range(s)
      /\ Append(s, new)[Len(s) + 1] = new
  BY AppendFacts, RangeFacts
<1>2. i \in 1..(Len(s) + 1) /\ j \in 1..(Len(s) + 1)
  BY <1>1
<1>3. CASE i \in 1..Len(s) /\ j \in 1..Len(s)
  BY <1>1, <1>3
<1>4. CASE i = Len(s) + 1
  <2>1. j \in 1..Len(s) /\ id = new
    BY <1>1, <1>2, <1>4
  <2> QED BY <1>1, <2>1
<1>5. CASE j = Len(s) + 1
  <2>1. i \in 1..Len(s) /\ id = new
    BY <1>1, <1>2, <1>5
  <2> QED BY <1>1, <2>1
<1> QED BY <1>1, <1>2, <1>3, <1>4, <1>5

LEMMA NextListedTwice ==
  Typed /\ ListedTwice(mem) /\ ListedTwice(dur) /\ ToBeListed /\ [Next]_vars =>
    ListedTwice(mem)' /\ ListedTwice(dur)'
<1> SUFFICES ASSUME Typed, ListedTwice(mem), ListedTwice(dur), ToBeListed, [Next]_vars,
                    NEW p \in Ids, NEW id \in Ids
             PROVE  \A m \in {mem', dur'} : \A i, j \in 1..Len(m[ReplyKey(p)]) :
                      i # j /\ m[ReplyKey(p)][i] = id /\ m[ReplyKey(p)][j] = id =>
                        Twice(dur', id)
  BY DEF ListedTwice
<1> DEFINE Good(s) == \A i, j \in 1..Len(s) : i # j /\ s[i] = id /\ s[j] = id => Twice(dur', id)
<1>1. Good(mem[ReplyKey(p)]) /\ Good(dur[ReplyKey(p)])
  BY CawStays DEF ListedTwice
<1>2. ASSUME mem'[ReplyKey(p)] \in {mem[ReplyKey(p)], dur[ReplyKey(p)]},
             dur'[ReplyKey(p)] = dur[ReplyKey(p)]
      PROVE  Good(mem'[ReplyKey(p)]) /\ Good(dur'[ReplyKey(p)])
  BY <1>1, <1>2
<1>3. ASSUME NEW w \in Threads, CawPutReply(w)
      PROVE  Good(mem'[ReplyKey(p)]) /\ Good(dur'[ReplyKey(p)])
  <2>1. PICK new \in Ids, b \in Ids :
          /\ Replying(w, new, b)
          /\ mem'[ReplyKey(b)] \in {mem[ReplyKey(b)], Append(mem[ReplyKey(b)], new)}
          /\ dur'[ReplyKey(b)] \in {dur[ReplyKey(b)], Append(dur[ReplyKey(b)], new)}
          /\ \A i \in Ids : i # b => /\ dur'[ReplyKey(i)] = dur[ReplyKey(i)]
                                     /\ mem'[ReplyKey(i)] = mem[ReplyKey(i)]
    BY <1>3, CawPutReplyLists
  <2>2. CASE p # b
    BY <1>2, <2>1, <2>2
  <2>3. CASE p = b
    <3>1. ASSUME NEW s \in Seq(Ids), Good(s), Range(s) \subseteq Range(mem[ReplyKey(p)])
          PROVE  Good(Append(s, new))
      <4>1. SUFFICES ASSUME NEW i \in 1..Len(Append(s, new)), NEW j \in 1..Len(Append(s, new)),
                            i # j, Append(s, new)[i] = id, Append(s, new)[j] = id
                     PROVE  Twice(dur', id)
        OBVIOUS
      <4>2. CASE i \in 1..Len(s) /\ j \in 1..Len(s) /\ s[i] = id /\ s[j] = id
        BY <3>1, <4>1, <4>2
      <4>3. CASE id = new /\ new \in Range(s)
        <5>1. Twice(dur, id)
          BY <2>1, <2>3, <3>1, <4>3 DEF ToBeListed
        <5> QED BY <5>1, CawStays
      <4> QED BY <4>1, <4>2, <4>3, AppendListed
    <3>2. /\ mem[ReplyKey(p)] \in Seq(Ids) /\ dur[ReplyKey(p)] \in Seq(Ids)
          /\ Range(dur[ReplyKey(p)]) \subseteq Range(mem[ReplyKey(p)])
      BY CawListTypes
    <3>3. Good(Append(mem[ReplyKey(p)], new)) /\ Good(Append(dur[ReplyKey(p)], new))
      <4> HIDE DEF Good
      <4> QED BY <1>1, <3>1, <3>2
    <3> HIDE DEF Good
    <3> QED BY <1>1, <2>1, <2>3, <3>3
  <2> QED BY <2>2, <2>3
<1>4. ASSUME NEW w \in Threads, CawPut(w)
      PROVE  Good(mem'[ReplyKey(p)]) /\ Good(dur'[ReplyKey(p)])
  <2>1. dur'[ReplyKey(p)] = dur[ReplyKey(p)] /\ mem'[ReplyKey(p)] = mem[ReplyKey(p)]
    BY <1>4, CawPutLists
  <2> QED BY <1>2, <2>1
<1>5. Good(mem'[ReplyKey(p)]) /\ Good(dur'[ReplyKey(p)])
  <2> HIDE DEF Good
  <2> QED BY <1>2, <1>3, <1>4, ListCases DEF CawListsSame, KvRestart
<1> QED BY <1>5

LEMMA NextThreads == Typed /\ CawsStored /\ ThreadsOK /\ [Next]_vars => ThreadsOK'
BY NextNoCycle, NextListedTwice, NextToBeListed DEF ThreadsOK

-----------------------------------------------------------------------------
(* A read goes through its thread in order, and reads no caw twice.        *)

LEMMA InOrderStays ==
  ASSUME Typed, [Next]_vars, NEW a, NEW out \in Seq(Ids), InOrder(dur, a, out)
  PROVE  InOrder(dur', a, out)
<1>1. ASSUME NEW i \in 2..Len(out), NEW j \in 1..(i - 1), FirstUnder(dur, out[i], out[j])
      PROVE  FirstUnder(dur', out[i], out[j])
  <2>1. out[i] \in Ids
    BY RangeFacts
  <2> QED BY <1>1, <2>1, CawStays
<1>2. \A i \in 2..Len(out) : \E j \in 1..(i - 1) : FirstUnder(dur', out[i], out[j])
  BY <1>1 DEF InOrder
<1> QED BY <1>2 DEF InOrder

LEMMA ToReadStays ==
  ASSUME Typed, [Next]_vars, NEW out \in Seq(Ids), NEW rest \in Seq(Ids), NEW n,
         ToRead(dur, out, rest, n)
  PROVE  ToRead(dur', out, rest, n)
<1>1. Range(rest) \subseteq Ids /\ \A i \in 1..Len(rest) : rest[i] \in Ids
  BY RangeFacts
<1>2. /\ \A x \in Range(rest) : \E j \in 1..n : Under(dur, x, out[j])
      /\ \A x \in Range(rest) \cap Range(out) : Twice(dur, x)
      /\ \A i, j \in 1..Len(rest) : i # j /\ rest[i] = rest[j] => Twice(dur, rest[i])
  BY DEF ToRead
<1>3. \A x \in Ids : /\ Twice(dur, x) => Twice(dur', x)
                     /\ \A p : Under(dur, x, p) => Under(dur', x, p)
  BY CawStays
<1>4. \A x \in Range(rest) : \E j \in 1..n : Under(dur', x, out[j])
  BY <1>1, <1>2, <1>3
<1>5. \A x \in Range(rest) \cap Range(out) : Twice(dur', x)
  BY <1>1, <1>2, <1>3
<1>6. \A i, j \in 1..Len(rest) : i # j /\ rest[i] = rest[j] => Twice(dur', rest[i])
  BY <1>1, <1>2, <1>3
<1> QED BY <1>4, <1>5, <1>6 DEF ToRead

LEMMA StartToRead ==
  ASSUME NEW m, NEW a \in Ids
  PROVE  /\ InOrder(m, a, <<>>)
         /\ InOrder(m, a, <<a>>) /\ <<a>> # <<>> /\ <<a>>[Len(<<a>>)] = a
         /\ Append(<<>>, a) = <<a>> /\ Head(<<a>>) = a
         /\ ToRead(m, <<a>>, Tail(<<a>>), Len(<<a>>) - 1)
<1>1. InOrder(m, a, <<>>)
  BY DEF InOrder, IsInjective
<1>2. /\ Append(<<>>, a) = <<a>> /\ Head(<<a>>) = a /\ <<a>> # <<>> /\ Len(<<a>>) = 1
      /\ <<a>>[1] = a /\ DOMAIN <<a>> = {1}
  OBVIOUS
<1>3. InOrder(m, a, <<a>>)
  BY <1>2 DEF InOrder, IsInjective
<1>4. Tail(<<a>>) = <<>> /\ Len(<<>>) = 0 /\ Range(<<>>) = {}
  BY DEF Range
<1>5. ToRead(m, <<a>>, Tail(<<a>>), 0)
  BY <1>4 DEF ToRead
<1> QED BY <1>1, <1>2, <1>3, <1>5

\* ReadCaw: the caw at the front, which is there once, is read.
LEMMA OneMoreRead ==
  ASSUME Typed, NEW a, NEW out \in Seq(Ids), NEW queue \in Seq(Ids), queue # <<>>, out # <<>>,
         InOrder(dur, a, out), ToRead(dur, out, queue, Len(out)),
         ~Twice(dur, Head(queue))
  PROVE  LET more == Append(out, Head(queue)) IN
           /\ InOrder(dur, a, more) /\ more # <<>>
           /\ more[Len(more)] = Head(queue)
           /\ ToRead(dur, more, Tail(queue), Len(more) - 1)
<1> DEFINE more == Append(out, Head(queue))
<1>1. PICK n \in Nat : n = Len(out)
  BY RangeFacts
<1>2. PICK h \in Ids : h = Head(queue)
  BY HeadTailFacts
<1>3. /\ h = queue[1] /\ h \in Range(queue) /\ Tail(queue) \in Seq(Ids)
      /\ Range(Tail(queue)) \subseteq Range(queue) /\ Len(queue) \in Nat
      /\ 1 \in 1..Len(queue) /\ Len(Tail(queue)) = Len(queue) - 1
      /\ \A i \in 1..(Len(queue) - 1) : Tail(queue)[i] = queue[i + 1]
  BY <1>2, HeadTailFacts
<1>4. /\ more \in Seq(Ids) /\ more # <<>> /\ Len(more) = n + 1 /\ more[n + 1] = h
      /\ \A i \in 1..n : more[i] = out[i]
      /\ Range(more) = Range(out) \cup {h}
      /\ DOMAIN more = 1..(n + 1) /\ DOMAIN out = 1..n
  BY <1>1, <1>2, AppendFacts
<1>5. /\ \A x \in Range(queue) : \E j \in 1..n : Under(dur, x, out[j])
      /\ \A x \in Range(queue) \cap Range(out) : Twice(dur, x)
      /\ \A i, j \in 1..Len(queue) : i # j /\ queue[i] = queue[j] => Twice(dur, queue[i])
  BY <1>1 DEF ToRead
<1>6. n # 0 /\ out[1] = a /\ \A i \in 1..n : out[i] \in Range(out)
  BY <1>1, RangeFacts DEF InOrder
<1>7. h \notin Range(out)
  BY <1>2, <1>3, <1>5
<1> HIDE DEF more
<1>8. InOrder(dur, a, more)
  <2>1. more[1] = a
    BY <1>4, <1>6
  <2>2. ASSUME NEW i \in 2..(n + 1)
        PROVE  \E j \in 1..(i - 1) : FirstUnder(dur, more[i], more[j])
    <3>1. CASE i \in 2..n
      <4>1. PICK j \in 1..(i - 1) : FirstUnder(dur, out[i], out[j])
        BY <1>1, <3>1 DEF InOrder
      <4>2. i \in 1..n /\ j \in 1..n
        BY <3>1
      <4> QED BY <1>4, <4>1, <4>2
    <3>2. CASE i = n + 1
      <4>1. PICK j \in 1..n : Under(dur, h, out[j])
        BY <1>3, <1>5
      <4>2. FirstUnder(dur, h, out[j])
        BY <1>2, <4>1, OneParent
      <4>3. j \in 1..(i - 1)
        BY <3>2
      <4> QED BY <1>4, <3>2, <4>2, <4>3
    <3> QED BY <3>1, <3>2
  <2>3. IsInjective(more)
    <3>1. SUFFICES ASSUME NEW i \in 1..(n + 1), NEW j \in 1..(n + 1), more[i] = more[j]
                   PROVE  i = j
      BY <1>4 DEF IsInjective
    <3>2. CASE i \in 1..n /\ j \in 1..n
      BY <1>4, <3>1, <3>2 DEF InOrder, IsInjective
    <3>3. CASE i = n + 1 /\ j \in 1..n
      BY <1>4, <1>6, <1>7, <3>1, <3>3
    <3>4. CASE i \in 1..n /\ j = n + 1
      BY <1>4, <1>6, <1>7, <3>1, <3>4
    <3> QED BY <3>2, <3>3, <3>4
  <2> QED BY <1>4, <2>1, <2>2, <2>3 DEF InOrder
<1>9. ToRead(dur, more, Tail(queue), n)
  <2>1. \A x \in Range(Tail(queue)) : \E j \in 1..n : Under(dur, x, more[j])
    BY <1>3, <1>4, <1>5
  <2>2. ASSUME NEW i \in 1..(Len(queue) - 1), NEW j \in 1..(Len(queue) - 1), i # j,
               Tail(queue)[i] = Tail(queue)[j]
        PROVE  Twice(dur, Tail(queue)[i])
    <3>1. i + 1 \in 1..Len(queue) /\ j + 1 \in 1..Len(queue) /\ i + 1 # j + 1
      BY <1>3, <2>2
    <3> QED BY <1>3, <1>5, <2>2, <3>1
  <2>3. h \notin Range(Tail(queue))
    <3>1. SUFFICES ASSUME h \in Range(Tail(queue)) PROVE FALSE
      OBVIOUS
    <3>0. PICK rest \in Seq(Ids) : rest = Tail(queue)
      BY <1>3
    <3>2. h \in Range(rest)
      BY <3>0, <3>1
    <3>4. PICK i \in 1..Len(rest) : rest[i] = h
      <4>1. \A x \in Range(rest) : \E i \in 1..Len(rest) : rest[i] = x
        BY RangeFacts
      <4> QED BY <3>2, <4>1
    <3>3. i \in 1..(Len(queue) - 1) /\ i + 1 \in 1..Len(queue) /\ i + 1 # 1
      BY <1>3, <3>0
    <3> QED BY <1>2, <1>3, <1>5, <3>0, <3>3, <3>4
  <2>4. \A x \in Range(Tail(queue)) \cap Range(more) : Twice(dur, x)
    BY <1>3, <1>4, <1>5, <2>3
  <2> QED BY <1>3, <2>1, <2>2, <2>4 DEF ToRead
<1> QED BY <1>2, <1>4, <1>8, <1>9 DEF more

\* ReadReplies: the replies of the caw that was read last are still to be read.
LEMMA MoreToRead ==
  ASSUME Typed, CawsStored, ThreadsOK,
         NEW a, NEW out \in Seq(Ids), NEW rest \in Seq(Ids), NEW h \in Ids, out # <<>>,
         out[Len(out)] = h, InOrder(dur, a, out), ToRead(dur, out, rest, Len(out) - 1),
         NEW values \in Seq(Ids), values = mem[ReplyKey(h)]
  PROVE  ToRead(dur, out, rest \o values, Len(out))
<1>1. PICK n \in Nat : n = Len(out)
  BY RangeFacts
<1>2. n # 0 /\ n \in 1..n /\ out[n] = h /\ \A i \in 1..n : out[i] \in Range(out)
  BY <1>1, RangeFacts
<1>3. /\ \A x \in Range(rest) : \E j \in 1..(n - 1) : Under(dur, x, out[j])
      /\ \A x \in Range(rest) \cap Range(out) : Twice(dur, x)
      /\ \A i, j \in 1..Len(rest) : i # j /\ rest[i] = rest[j] => Twice(dur, rest[i])
  BY <1>1 DEF ToRead
<1>4. /\ \A i \in 2..n : \E j \in 1..(i - 1) : FirstUnder(dur, out[i], out[j])
      /\ \A i, j \in 1..n : out[i] = out[j] => i = j
  <2>1. DOMAIN out = 1..n
    BY <1>1
  <2> QED BY <1>1, <2>1 DEF InOrder, IsInjective
<1>5. /\ Range(rest) \subseteq Ids /\ Range(values) \subseteq Ids
      /\ Range(out) \subseteq Ids /\ Range(rest \o values) = Range(rest) \cup Range(values)
  BY RangeFacts, RangeConcat
<1>6. \A x \in Range(values) : Under(dur, x, h)
  BY DEF CawsStored, NoDanglingReply, Under
<1>7. \A j \in 1..(n - 1) : j \in 1..n /\ out[j] # h
  BY <1>2, <1>4
<1>8. ASSUME NEW x \in Range(values), NEW j \in 1..(n - 1), Under(dur, x, out[j])
      PROVE  Twice(dur, x)
  BY <1>5, <1>6, <1>7, <1>8, OneParent
<1>9. \A x \in Range(rest \o values) : \E j \in 1..n : Under(dur, x, out[j])
  BY <1>2, <1>3, <1>5, <1>6, <1>7
<1>10. ASSUME NEW x \in Range(values) \cap Range(out)
       PROVE  Twice(dur, x)
  <2>1. PICK i \in 1..n : out[i] = x
    BY <1>1, RangeFacts
  <2>2. CASE i \in 2..n
    <3>1. PICK j \in 1..(i - 1) : FirstUnder(dur, x, out[j])
      BY <1>4, <2>1, <2>2
    <3>2. j \in 1..(n - 1) /\ x \in Ids
      BY <1>5
    <3> QED BY <1>8, <3>1, <3>2, OneParent
  <2>3. CASE i = 1
    <3>1. SUFFICES ASSUME ~Twice(dur, x) PROVE FALSE
      OBVIOUS
    <3>2. FirstUnder(dur, x, h)
      BY <1>5, <1>6, <3>1, OneParent
    <3>3. ASSUME NEW y \in Range(out)
          PROVE  \E p \in Range(out) : FirstUnder(dur, y, p)
      <4>1. PICK k \in 1..n : out[k] = y
        BY <1>1, RangeFacts
      <4>2. CASE k = 1
        BY <1>2, <2>1, <2>3, <3>2, <4>1, <4>2
      <4>3. CASE k \in 2..n
        <5>1. PICK j \in 1..(k - 1) : FirstUnder(dur, y, out[j])
          BY <1>4, <4>1, <4>3
        <5>2. j \in 1..n
          OBVIOUS
        <5> QED BY <1>2, <5>1, <5>2
      <4> QED BY <4>2, <4>3
    <3>4. Range(out) = {}
      BY <1>5, <3>3 DEF ThreadsOK, NoCycle
    <3> QED BY <3>4
  <2> QED BY <2>2, <2>3
<1>11. \A x \in Range(rest \o values) \cap Range(out) : Twice(dur, x)
  BY <1>3, <1>5, <1>10
<1>12. ASSUME NEW i \in 1..Len(rest \o values), NEW j \in 1..Len(rest \o values), i # j,
              (rest \o values)[i] = (rest \o values)[j]
       PROVE  Twice(dur, (rest \o values)[i])
  <2>1. PICK r \in Nat, v \in Nat : r = Len(rest) /\ v = Len(values)
    BY RangeFacts
  <2>2. PICK all \in Seq(Ids) : all = rest \o values
    BY ConcatProperties
  <2>3. /\ Len(all) = r + v
        /\ \A k \in 1..r : all[k] = rest[k] /\ rest[k] \in Range(rest)
        /\ \A k \in 1..v : all[r + k] = values[k] /\ values[k] \in Range(values)
    <3>1. /\ Len(rest \o values) = Len(rest) + Len(values)
          /\ \A k \in 1..Len(rest) : (rest \o values)[k] = rest[k]
          /\ \A k \in 1..Len(values) : (rest \o values)[Len(rest) + k] = values[k]
      BY ConcatProperties
    <3>2. /\ \A k \in 1..Len(rest) : rest[k] \in Range(rest)
          /\ \A k \in 1..Len(values) : values[k] \in Range(values)
      BY RangeFacts
    <3> QED BY <2>1, <2>2, <3>1, <3>2
  <2>4. i \in 1..(r + v) /\ j \in 1..(r + v) /\ all[i] = all[j]
    BY <1>12, <2>2, <2>3
  <2>5. ASSUME NEW k \in 1..r, NEW l \in 1..v, all[k] = all[r + l]
        PROVE  Twice(dur, all[k])
    <3>1. all[k] \in Range(rest) /\ all[k] \in Range(values)
      BY <2>3, <2>5
    <3> QED BY <1>3, <1>8, <3>1
  <2>6. \A k \in 1..(r + v) : k \in 1..r \/ (k - r \in 1..v /\ k = r + (k - r))
    OBVIOUS
  <2>7. CASE i \in 1..r /\ j \in 1..r
    BY <1>3, <1>12, <2>1, <2>2, <2>3, <2>4, <2>7
  <2>8. CASE i \in 1..r /\ j \notin 1..r
    <3>1. PICK l \in 1..v : j = r + l
      BY <2>4, <2>6, <2>8
    <3> QED BY <2>2, <2>4, <2>5, <2>8, <3>1
  <2>9. CASE i \notin 1..r /\ j \in 1..r
    <3>1. PICK l \in 1..v : i = r + l
      BY <2>4, <2>6, <2>9
    <3> QED BY <2>2, <2>4, <2>5, <2>9, <3>1
  <2>10. CASE i \notin 1..r /\ j \notin 1..r
    <3>1. PICK k \in 1..v, l \in 1..v : i = r + k /\ j = r + l
      BY <2>4, <2>6, <2>10
    <3>2. k # l /\ values[k] = values[l] /\ all[i] = values[k] /\ values[k] \in Ids
      BY <1>5, <1>12, <2>3, <2>4, <3>1
    <3>3. Twice(dur, values[k])
      BY <2>1, <3>2 DEF ThreadsOK, ListedTwice
    <3> QED BY <2>2, <3>2, <3>3
  <2> QED BY <2>7, <2>8, <2>9, <2>10
<1> QED BY <1>1, <1>9, <1>11, <1>12 DEF ToRead

LEMMA NextRead ==
  ASSUME "cut" \notin Faults
  PROVE  Typed /\ CawsStored /\ ThreadsOK /\ AllRead /\ [Next]_vars => AllRead'
<1> SUFFICES ASSUME Typed, CawsStored, ThreadsOK, [Next]_vars, NEW t \in Threads, ReadOK(t)
             PROVE  ReadOK(t)'
  BY DEF AllRead
<1>0. /\ CallOK(call[t]) /\ call[t] \in CallRecord /\ CallOK(call'[t])
      /\ call'[t] \in CallRecord
  BY NextTyped DEF Typed
<1>1. CASE call'[t] = call[t]
  <2>1. CASE call[t].op = "Read"
    <3>1. PICK a \in Ids \cup {BadId}, out \in Seq(Ids), queue \in Seq(Ids) :
            a = call[t].a /\ out = call[t].out /\ queue = call[t].queue
      BY <1>0, <2>1 DEF CallRecord, CallOK
    <3>2. InOrder(dur, a, out) => InOrder(dur', a, out)
      BY InOrderStays
    <3>3. ToRead(dur, out, queue, Len(out)) => ToRead(dur', out, queue, Len(out))
      BY ToReadStays
    <3>4. queue # <<>> /\ ToRead(dur, out, Tail(queue), Len(out) - 1) =>
            ToRead(dur', out, Tail(queue), Len(out) - 1)
      BY ToReadStays, HeadTailFacts
    <3>5. call[t].pc = "read_replies" => queue # <<>>
      BY <1>0, <3>1 DEF CallOK
    <3> QED BY <1>1, <3>1, <3>2, <3>3, <3>4, <3>5 DEF ReadOK
  <2>2. CASE call[t].op # "Read"
    BY <1>0, <1>1, <2>2 DEF ReadOK, CallOK
  <2> QED BY <2>1, <2>2
<1>2. CASE /\ call'[t].pc \notin {"read_check", "read_caw", "read_replies"}
           /\ call'[t].op # "Read" \/ call'[t].status # "OK"
  BY <1>2 DEF ReadOK
<1>3. CASE call'[t].op # "Read"
  BY <1>0, <1>2, <1>3 DEF CallOK
<1>4. ASSUME NEW id, Begins(t, "Read", id, NoCaw, "read_check", CawsBelow(dur, id))
      PROVE  ReadOK(t)'
  BY <1>4 DEF Begins, ReadOK
<1>5. CASE ReadCheck(t)
  <2>1. /\ call[t].pc = "read_check" /\ dur' = dur
        /\ \/ Moves(t, Answer("NOT_FOUND"))
           \/ /\ Goes(t, Continue("read_caw")) /\ call[t].a \in Ids
              /\ call'[t].out = call[t].out /\ call'[t].queue = <<call[t].a>>
    BY <1>5, ReadCheckEffect
  <2>2. CASE Moves(t, Answer("NOT_FOUND"))
    BY <1>2, <2>2 DEF Moves, Goes, Answer
  <2>3. CASE /\ Goes(t, Continue("read_caw")) /\ call[t].a \in Ids
             /\ call'[t].out = call[t].out /\ call'[t].queue = <<call[t].a>>
    <3>1. PICK a \in Ids : a = call[t].a
      BY <2>3
    <3>2. /\ call'[t].pc = "read_caw" /\ call'[t].status = "NONE" /\ call'[t].a = a
          /\ call'[t].out = <<>> /\ call'[t].queue = <<a>>
      BY <2>1, <2>3, <3>1 DEF Goes, Continue, ReadOK
    <3>3. InOrder(dur', a, <<>>)
      BY StartToRead
    <3> QED BY <3>2, <3>3 DEF ReadOK
  <2> QED BY <2>1, <2>2, <2>3
<1>6. CASE ReadCaw(t)
  <2>1. /\ call[t].pc = "read_caw" /\ dur' = dur /\ call[t].op = "Read"
        /\ \/ Moves(t, Answer("UNAVAILABLE"))
           \/ /\ Goes(t, Continue("read_replies")) /\ call'[t].queue = call[t].queue
              /\ Len(mem[CawKey(Head(call[t].queue))]) = 1
              /\ call'[t].out = Append(call[t].out, Head(call[t].queue))
    BY <1>6, ReadCawEffect
  <2>2. CASE Moves(t, Answer("UNAVAILABLE"))
    BY <1>2, <2>2 DEF Moves, Goes, Answer
  <2>3. CASE /\ Goes(t, Continue("read_replies")) /\ call'[t].queue = call[t].queue
             /\ Len(mem[CawKey(Head(call[t].queue))]) = 1
             /\ call'[t].out = Append(call[t].out, Head(call[t].queue))
    <3>1. PICK a \in Ids \cup {BadId}, out \in Seq(Ids), queue \in Seq(Ids) :
            /\ a = call[t].a /\ out = call[t].out /\ queue = call[t].queue
            /\ queue # <<>>
      BY <1>0, <2>1 DEF CallRecord, CallOK
    <3>2. /\ call'[t].pc = "read_replies" /\ call'[t].status = "NONE" /\ call'[t].a = a
          /\ call'[t].out = Append(out, Head(queue)) /\ call'[t].queue = queue
      BY <2>3, <3>1 DEF Goes, Continue
    <3>3. PICK h \in Ids : h = Head(queue)
      BY <3>1, HeadTailFacts
    <3>4. ~Twice(dur, h)
      <4>1. Len(mem[CawKey(h)]) = 1
        BY <2>3, <3>1, <3>3
      <4>2. Len(dur[CawKey(h)]) <= 1 /\ Len(dur[CawKey(h)]) \in Nat
        BY <4>1, CawListTypes
      <4>3. \A n \in Nat : n <= 1 => ~(n >= 2)
        OBVIOUS
      <4> QED BY <4>2, <4>3 DEF Twice
    <3>5. InOrder(dur, a, out) /\ IF out = <<>> THEN queue = <<a>>
                                  ELSE ToRead(dur, out, queue, Len(out))
      BY <2>1, <3>1 DEF ReadOK
    <3>6. LET more == Append(out, Head(queue)) IN
            /\ InOrder(dur, a, more) /\ more # <<>>
            /\ more[Len(more)] = Head(queue)
            /\ ToRead(dur, more, Tail(queue), Len(more) - 1)
      <4>1. CASE out = <<>>
        <5>1. queue = <<a>> /\ a = h
          BY <3>3, <3>5, <4>1
        <5> QED BY <4>1, <5>1, StartToRead
      <4>2. CASE out # <<>>
        BY <3>1, <3>3, <3>4, <3>5, <4>2, OneMoreRead
      <4> QED BY <4>1, <4>2
    <3> QED BY <2>1, <3>2, <3>6 DEF ReadOK
  <2> QED BY <2>1, <2>2, <2>3
<1>7. CASE ReadReplies(t)
  <2>1. PICK a \in Ids \cup {BadId}, out \in Seq(Ids), queue \in Seq(Ids) :
          /\ a = call[t].a /\ out = call[t].out /\ queue = call[t].queue
          /\ queue # <<>>
    <3>1. call[t].op = "Read" /\ call[t].queue # <<>>
      BY <1>7, ReadRepliesEffect
    <3> QED BY <1>0, <3>1 DEF CallRecord, CallOK
  <2>2. PICK h \in Ids, tail \in Seq(Ids) : h = Head(queue) /\ tail = Tail(queue)
    BY <2>1, HeadTailFacts
  <2>3. PICK values \in Seq(Ids), rest \in Seq(Ids) :
          /\ values = mem[ReplyKey(h)] /\ rest = tail \o values
          /\ Goes(t, IF rest = <<>> THEN Answer("OK") ELSE Continue("read_caw"))
          /\ call'[t].out = out /\ call'[t].queue = rest
    BY <1>7, <2>1, <2>2, ReadRepliesEffect
  <2>4. call[t].pc = "read_replies" /\ dur' = dur /\ call[t].op = "Read"
    BY <1>7, ReadRepliesEffect
  <2>5. /\ InOrder(dur, a, out) /\ out # <<>> /\ out[Len(out)] = h
        /\ ToRead(dur, out, tail, Len(out) - 1)
    BY <2>1, <2>2, <2>4 DEF ReadOK
  <2>6. ToRead(dur, out, rest, Len(out))
    BY <2>3, <2>5, MoreToRead
  <2>7. call'[t].a = a /\ call'[t].pc \in {"done", "read_caw"}
    BY <2>1, <2>3 DEF Goes, Answer, Continue
  <2> QED BY <2>3, <2>4, <2>5, <2>6, <2>7 DEF ReadOK
<1>8. CASE call'[t].pc = "done" /\ call'[t].status = "DIED"
  BY <1>2, <1>8
<1> QED BY <1>1, <1>3, <1>4, <1>5, <1>6, <1>7, <1>8, NextReadCases DEF ReadCases

-----------------------------------------------------------------------------
(* The theorems.                                                           *)

LEMMA InitReads ==
  Init => AllFind /\ AllCovered /\ AllRead /\ ThreadsOK
<1> SUFFICES ASSUME Init PROVE AllFind /\ AllCovered /\ AllRead /\ ThreadsOK
  OBVIOUS
<1>1. \A t \in Threads : /\ call[t].op = "none" /\ call[t].pc = "done"
                         /\ call[t].status = "NONE"
  BY DEF Init, NoCall
<1>2. /\ \A id \in Ids : mem[CawKey(id)] = <<>> /\ mem[ReplyKey(id)] = <<>>
      /\ dur = mem /\ Len(<<>>) = 0
  BY KeysInStore, KeysDiffer DEF Init
<1>3. AllFind
  BY <1>1 DEF AllFind, Finds
<1>4. AllCovered /\ AllRead
  BY <1>1 DEF AllCovered, Covered, AllRead, ReadOK
<1>5. NoCycle
  BY <1>2 DEF NoCycle, FirstUnder
<1>6. ListedTwice(mem) /\ ListedTwice(dur)
  BY <1>2 DEF ListedTwice
<1>7. ToBeListed
  BY <1>1 DEF ToBeListed, Replying
<1> QED BY <1>3, <1>4, <1>5, <1>6, <1>7 DEF ThreadsOK

LEMMA ReadsNeverRepeat == AllRead => ReadNeverRepeats
BY DEF AllRead, ReadOK, InOrder, ReadNeverRepeats

LEMMA ReadsWhole == Typed /\ AllCovered /\ AllRead => ReadWhole
<1> SUFFICES ASSUME Typed, AllCovered, AllRead,
                    NEW t \in Threads, call[t].op = "Read", call[t].status = "OK"
             PROVE  LET out == call[t].out IN
                    /\ call[t].must \subseteq Range(out)
                    /\ out[1] = call[t].a
                    /\ \A i \in 2..Len(out) : \E j \in 1..(i - 1) :
                         \E stored \in Range(dur[CawKey(out[i])]) : stored.parent = out[j]
  BY DEF ReadWhole
<1>1. call[t].must \subseteq Range(call[t].out)
  BY DEF AllCovered, Covered
<1>2. call[t].out # <<>> /\ InOrder(dur, call[t].a, call[t].out)
  BY DEF AllRead, ReadOK
<1>3. PICK out \in Seq(Ids) : out = call[t].out
  BY DEF Typed, CallOK
<1>4. ASSUME NEW i \in 2..Len(out), NEW j \in 1..(i - 1), FirstUnder(dur, out[i], out[j])
      PROVE  Under(dur, out[i], out[j])
  BY <1>4, OneParent, RangeFacts
<1> QED BY <1>1, <1>2, <1>3, <1>4 DEF InOrder, Under

\* If the values of a Get always arrive, a read of a caw that a client has seen finds
\* it and all its thread leads to: only a caw whose id was given twice stops it.
THEOREM ReadsFind ==
  ASSUME "cut" \notin Faults
  PROVE  Spec => []ReadFinds
<1>1. Init => AllFind
  BY InitReads
<1>2. Typed /\ CawsStored /\ AllFind /\ [Next]_vars => AllFind'
  BY NextFind
<1> QED BY <1>1, <1>2, TypesHold, FindsFound, PTL DEF Spec

\* What every theorem about the order of a read rests on.
LEMMA ReadsHold ==
  ASSUME "cut" \notin Faults
  PROVE  Spec => [](AllRead /\ ThreadsOK)
<1>1. Init => AllRead /\ ThreadsOK
  BY InitReads
<1>2. Typed /\ CawsStored /\ AllRead /\ ThreadsOK /\ [Next]_vars => (AllRead /\ ThreadsOK)'
  BY NextRead, NextThreads
<1> QED BY <1>1, <1>2, TypesHold, PTL DEF Spec

\* If the values of a Get always arrive, a thread that is read has every caw that was
\* in the log when the read began, and each one after the caw that it replies to,
\* whatever was posted meanwhile.
THEOREM ReadsAreWhole ==
  ASSUME "cut" \notin Faults
  PROVE  Spec => []ReadWhole
<1>1. Init => AllCovered
  BY InitReads
<1>2. Typed /\ AllCovered /\ [Next]_vars => AllCovered'
  BY NextCovered
<1> QED BY <1>1, <1>2, TypesHold, ReadsHold, ReadsWhole, PTL DEF Spec

\* If the values of a Get always arrive, no read takes a caw twice, so that its loop
\* ends: a caw is stored before any reply to it can be, and one that is listed or
\* reached twice has an id that was given twice, at which the read stops.
THEOREM ReadsRepeatNothing ==
  ASSUME "cut" \notin Faults
  PROVE  Spec => []ReadNeverRepeats
BY ReadsHold, ReadsNeverRepeat, PTL

=============================================================================
