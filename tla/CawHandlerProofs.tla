--------------------------- MODULE CawHandlerProofs --------------------------
(***************************************************************************)
(* Proofs about CawHandler, for any users, caw ids, threads, faults and    *)
(* bounds.  This module has the types, what each kind of step does, and    *)
(* what is known of the caws in the store; CawFollowProofs and             *)
(* CawReadProofs build on it.                                              *)
(***************************************************************************)
EXTENDS CawHandler, SequenceTheorems, TLAPS

-----------------------------------------------------------------------------
(* Types.                                                                  *)

PCs ==
  {"done", "register_check", "register_put", "follow_user", "follow_other",
   "follow_pair", "follow_put_pair", "follow_put_following", "follow_put_follower",
   "profile_user", "profile_followings", "profile_followers", "caw_user",
   "caw_parent", "caw_put", "caw_put_reply", "read_check", "read_caw",
   "read_replies"}

Where == [pc : PCs, status : Statuses]

\* A caw as it is stored.
Caws == [user : Users, parent : Ids \cup {NoCaw}]

Entries == {""} \cup Users \cup Ids \cup Caws

Args == Users \cup Ids \cup {NoCaw, BadId}

CallRecord ==
  [op : {"none", "RegisterUser", "Follow", "Profile", "Caw", "Read"},
   a : Args, b : Args, pc : PCs, status : Statuses, id : Ids \cup {NoCaw},
   queue : Seq(Ids), out : Seq(Ids) \cup Seq(Seq(Users)),
   must : (SUBSET Ids) \cup ((SUBSET Users) \X (SUBSET Users))]

\* A call has the arguments of its operation and stands at one of its stages.
CallOK(c) ==
  /\ c.pc = "done" => (c.op = "none" <=> c.status = "NONE")
  /\ c.pc # "done" => c.op # "none"
  /\ c.pc # "done" /\ c.status # "NONE" => c.pc \in Putting /\ c.status = "UNAVAILABLE"
  /\ c.pc \in {"register_check", "register_put"} => c.op = "RegisterUser"
  /\ c.pc \in {"follow_user", "follow_other", "follow_pair", "follow_put_pair",
               "follow_put_following", "follow_put_follower"} => c.op = "Follow"
  /\ c.pc \in {"profile_user", "profile_followings", "profile_followers"} =>
       c.op = "Profile"
  /\ c.pc \in {"caw_user", "caw_parent", "caw_put", "caw_put_reply"} => c.op = "Caw"
  /\ c.pc \in {"read_check", "read_caw", "read_replies"} => c.op = "Read"
  /\ c.op = "RegisterUser" => c.a \in Users /\ c.b = NoCaw
  /\ c.op = "Follow" => c.a \in Users /\ c.b \in Users
  /\ c.op = "Profile" => /\ c.a \in Users
                         /\ c.out \in Seq(Seq(Users))
                         /\ c.must \in (SUBSET Users) \X (SUBSET Users)
  /\ c.op = "Caw" => c.a \in Users /\ c.b \in Ids \cup {NoCaw, BadId}
  /\ c.op = "Read" => /\ c.a \in Ids \cup {BadId}
                      /\ c.out \in Seq(Ids)
                      /\ c.must \in SUBSET Ids
  /\ c.pc = "caw_parent" => c.b # NoCaw
  /\ c.pc = "caw_put" => c.b # BadId
  /\ c.pc = "caw_put_reply" => c.b \in Ids /\ c.id \in Ids
  /\ c.pc \in {"read_caw", "read_replies"} => c.queue # <<>>

\* A store has under each key what its handlers put there.
StoreOK(m) ==
  /\ m \in [StoreKeys -> Seq(Entries)]
  /\ \A u \in Users : /\ m[FollowingsKey(u)] \in Seq(Users)
                      /\ m[FollowersKey(u)] \in Seq(Users)
  /\ \A id \in Ids : /\ m[CawKey(id)] \in Seq(Caws)
                     /\ m[ReplyKey(id)] \in Seq(Ids)
  /\ m[CawKey(BadId)] = <<>>

\* Memory has whatever the log has.
Ahead ==
  \A k \in StoreKeys : /\ Len(dur[k]) <= Len(mem[k])
                       /\ Range(dur[k]) \subseteq Range(mem[k])

Typed ==
  /\ StoreOK(mem) /\ StoreOK(dur)
  /\ Ahead
  /\ call \in [Threads -> CallRecord]
  /\ \A t \in Threads : CallOK(call[t])
  /\ issued \in [Ids -> 0..2]
  /\ known \subseteq Ids
  /\ calls \in 0..MaxCalls

-----------------------------------------------------------------------------
(* Keys: those of different kinds, or made of different names, differ.     *)

LEMMA KeysInStore ==
  /\ \A u \in Users : /\ UserKey(u) \in StoreKeys
                      /\ FollowingsKey(u) \in StoreKeys
                      /\ FollowersKey(u) \in StoreKeys
  /\ \A u, v \in Users : PairKey(u, v) \in StoreKeys
  /\ \A id \in Ids : CawKey(id) \in StoreKeys /\ ReplyKey(id) \in StoreKeys
  /\ CawKey(BadId) \in StoreKeys
BY DEF StoreKeys

LEMMA KeysDiffer ==
  /\ \A u, v : /\ UserKey(u) = UserKey(v) => u = v
               /\ FollowingsKey(u) = FollowingsKey(v) => u = v
               /\ FollowersKey(u) = FollowersKey(v) => u = v
               /\ CawKey(u) = CawKey(v) => u = v
               /\ ReplyKey(u) = ReplyKey(v) => u = v
  /\ \A u, v, x, y : PairKey(u, v) = PairKey(x, y) => u = x /\ v = y
  /\ \A u, v : /\ UserKey(u) # FollowingsKey(v)
               /\ UserKey(u) # FollowersKey(v)
               /\ UserKey(u) # CawKey(v)
               /\ UserKey(u) # ReplyKey(v)
               /\ FollowingsKey(u) # FollowersKey(v)
               /\ FollowingsKey(u) # CawKey(v)
               /\ FollowingsKey(u) # ReplyKey(v)
               /\ FollowersKey(u) # CawKey(v)
               /\ FollowersKey(u) # ReplyKey(v)
               /\ CawKey(u) # ReplyKey(v)
  /\ \A u, v, x : /\ PairKey(u, v) # UserKey(x)
                  /\ PairKey(u, v) # FollowingsKey(x)
                  /\ PairKey(u, v) # FollowersKey(x)
                  /\ PairKey(u, v) # CawKey(x)
                  /\ PairKey(u, v) # ReplyKey(x)
<1>1. /\ "user" # "user_followings" /\ "user" # "user_followers" /\ "user" # "caw"
      /\ "user" # "caw_reply" /\ "user_followings" # "user_followers"
      /\ "user_followings" # "caw" /\ "user_followings" # "caw_reply"
      /\ "user_followers" # "caw" /\ "user_followers" # "caw_reply"
      /\ "caw" # "caw_reply" /\ "following_pair" # "user"
  OBVIOUS
<1>2. \A k, l, u, v : <<k, u>> = <<l, v>> => k = l /\ u = v
  OBVIOUS
<1>3. \A k, l, u, v, x, y : <<k, u, v>> = <<l, x, y>> => u = x /\ v = y
  OBVIOUS
<1>4. \A k, l, u, v, x : <<k, u, v>> # <<l, x>>
  OBVIOUS
<1> QED BY <1>1, <1>2, <1>3, <1>4
        DEF UserKey, FollowingsKey, FollowersKey, PairKey, CawKey, ReplyKey

-----------------------------------------------------------------------------
(* What an entry put at the end of a list changes.                         *)

LEMMA AppendFacts ==
  ASSUME NEW T, NEW s \in Seq(T), NEW e \in T
  PROVE  /\ Append(s, e) \in Seq(T)
         /\ Append(s, e) # <<>>
         /\ Len(Append(s, e)) = Len(s) + 1
         /\ Len(s) \in Nat
         /\ \A i \in 1..Len(s) : Append(s, e)[i] = s[i]
         /\ Append(s, e)[Len(s) + 1] = e
         /\ Range(Append(s, e)) = Range(s) \cup {e}
<1>1. /\ Append(s, e) \in Seq(T) /\ Len(Append(s, e)) = Len(s) + 1
      /\ Append(s, e) # <<>> /\ Len(s) \in Nat
      /\ \A i \in 1..Len(s) : Append(s, e)[i] = s[i]
      /\ Append(s, e)[Len(s) + 1] = e
  OBVIOUS
<1>2. DOMAIN s = 1..Len(s) /\ DOMAIN Append(s, e) = 1..(Len(s) + 1)
  OBVIOUS
<1>3. Range(Append(s, e)) \subseteq Range(s) \cup {e}
  BY <1>1, <1>2 DEF Range
<1>4. Range(s) \cup {e} \subseteq Range(Append(s, e))
  BY <1>1, <1>2 DEF Range
<1> QED BY <1>1, <1>3, <1>4

LEMMA RangeFacts ==
  ASSUME NEW T, NEW s \in Seq(T)
  PROVE  /\ Range(s) \subseteq T
         /\ Len(s) \in Nat
         /\ \A i \in 1..Len(s) : s[i] \in Range(s)
         /\ \A x \in Range(s) : \E i \in 1..Len(s) : s[i] = x
         /\ s = <<>> <=> Len(s) = 0
         /\ s = <<>> <=> Range(s) = {}
  BY EmptySeq DEF Range

LEMMA RangeConcat ==
  ASSUME NEW T, NEW s \in Seq(T), NEW r \in Seq(T)
  PROVE  Range(s \o r) = Range(s) \cup Range(r)
<1>1. /\ s \o r \in Seq(T) /\ Len(s \o r) = Len(s) + Len(r)
      /\ Len(s) \in Nat /\ Len(r) \in Nat
      /\ \A i \in 1..Len(s) : (s \o r)[i] = s[i]
      /\ \A i \in 1..Len(r) : (s \o r)[Len(s) + i] = r[i]
  BY ConcatProperties
<1>2. ASSUME NEW x \in Range(s \o r) PROVE x \in Range(s) \cup Range(r)
  <2>1. PICK i \in 1..Len(s \o r) : (s \o r)[i] = x
    BY <1>1, <1>2, RangeFacts
  <2>2. CASE i <= Len(s)
    BY <1>1, <2>1, <2>2, RangeFacts
  <2>3. CASE i > Len(s)
    <3>1. i - Len(s) \in 1..Len(r) /\ i = Len(s) + (i - Len(s))
      BY <1>1, <2>3
    <3> QED BY <1>1, <2>1, <3>1, RangeFacts
  <2> QED BY <1>1, <2>2, <2>3
<1>3. \A i \in 1..Len(s \o r) : (s \o r)[i] \in Range(s \o r)
  BY <1>1, RangeFacts
<1>4. ASSUME NEW x \in Range(s) PROVE x \in Range(s \o r)
  <2>1. PICK i \in 1..Len(s) : s[i] = x
    BY <1>4, RangeFacts
  <2>2. i \in 1..Len(s \o r) /\ (s \o r)[i] = x
    BY <1>1, <2>1
  <2> QED BY <1>3, <2>2
<1>5. ASSUME NEW x \in Range(r) PROVE x \in Range(s \o r)
  <2>1. PICK i \in 1..Len(r) : r[i] = x
    BY <1>5, RangeFacts
  <2>2. Len(s) + i \in 1..Len(s \o r) /\ (s \o r)[Len(s) + i] = x
    BY <1>1, <2>1
  <2> QED BY <1>3, <2>2
<1> QED BY <1>2, <1>4, <1>5

-----------------------------------------------------------------------------
(* What the kinds of steps do.                                             *)

\* Thread t goes to where; its operation and the other threads stay as they are.
Goes(t, where) ==
  /\ call' \in [Threads -> CallRecord]
  /\ \A s \in Threads \ {t} : call'[s] = call[s]
  /\ call'[t].pc = where.pc /\ call'[t].status = where.status
  /\ call'[t].op = call[t].op /\ call'[t].a = call[t].a /\ call'[t].b = call[t].b
  /\ call'[t].must = call[t].must

\* So does the rest of its call.
Moves(t, where) ==
  /\ Goes(t, where)
  /\ call'[t].id = call[t].id /\ call'[t].queue = call[t].queue
  /\ call'[t].out = call[t].out

\* A value is put under key: in both stores, only in memory, or not at all.
Adds(key, value, ok) ==
  /\ mem' \in [StoreKeys -> Seq(Entries)] /\ dur' \in [StoreKeys -> Seq(Entries)]
  /\ \A k \in StoreKeys \ {key} : mem'[k] = mem[k] /\ dur'[k] = dur[k]
  /\ \/ mem'[key] = Append(mem[key], value) /\ dur'[key] = Append(dur[key], value)
     \/ ~ok /\ mem'[key] = Append(mem[key], value) /\ dur'[key] = dur[key]
     \/ ~ok /\ mem'[key] = mem[key] /\ dur'[key] = dur[key]

LEMMA LeavesMoves ==
  ASSUME call \in [Threads -> CallRecord], NEW t \in Threads, NEW where \in Where,
         call' = Leaves(t, where)
  PROVE  Moves(t, where)
<1> DEFINE c == call[t]
           d == [[c EXCEPT !.pc = where.pc] EXCEPT !.status = where.status]
<1>1. c \in CallRecord /\ where.pc \in PCs /\ where.status \in Statuses
  BY DEF Where
<1>2. /\ d \in CallRecord
      /\ d.pc = where.pc /\ d.status = where.status
      /\ d.op = c.op /\ d.a = c.a /\ d.b = c.b /\ d.id = c.id
      /\ d.queue = c.queue /\ d.out = c.out /\ d.must = c.must
  BY <1>1 DEF CallRecord
<1>3. call' = [call EXCEPT ![t] = d]
  BY DEF Leaves
<1> HIDE DEF d
<1> QED BY <1>2, <1>3 DEF Moves, Goes

LEMMA GetsFacts ==
  ASSUME NEW key \in StoreKeys, mem \in [StoreKeys -> Seq(Entries)],
         NEW values \in Gets(key)
  PROVE  /\ values \in Seq(Entries)
         /\ \A T : mem[key] \in Seq(T) => values \in Seq(T)
         /\ values # <<>> => mem[key] # <<>>
         /\ "cut" \notin Faults => values = mem[key]
<1>1. CASE values = mem[key]
  BY <1>1
<1>2. CASE "cut" \in Faults /\ \E n \in 0..Len(mem[key]) : values = SubSeq(mem[key], 1, n)
  <2>1. PICK n \in 0..Len(mem[key]) : values = SubSeq(mem[key], 1, n)
    BY <1>2
  <2>2. \A T : mem[key] \in Seq(T) => values \in Seq(T)
    <3>1. SUFFICES ASSUME NEW T, mem[key] \in Seq(T)
                   PROVE  values \in Seq(T)
      OBVIOUS
    <3>2. \A i \in 1..n : mem[key][i] \in T
      BY <3>1
    <3> QED BY <2>1, <3>1, <3>2, SubSeqProperties
  <2>3. values # <<>> => mem[key] # <<>>
    <3>1. mem[key] \in Seq(Entries)
      OBVIOUS
    <3>2. SUFFICES ASSUME mem[key] = <<>> PROVE values = <<>>
      OBVIOUS
    <3>3. n = 0
      BY <3>2
    <3> QED BY <2>1, <3>2, <3>3
  <2> QED BY <1>2, <2>2, <2>3
<1> QED BY <1>1, <1>2 DEF Gets

LEMMA GetsInRange ==
  ASSUME NEW key \in StoreKeys, mem \in [StoreKeys -> Seq(Entries)],
         NEW values \in Gets(key)
  PROVE  Range(values) \subseteq Range(mem[key])
<1>1. CASE values = mem[key]
  BY <1>1
<1>2. CASE \E n \in 0..Len(mem[key]) : values = SubSeq(mem[key], 1, n)
  <2>1. PICK n \in 0..Len(mem[key]) : values = SubSeq(mem[key], 1, n)
    BY <1>2
  <2>2. mem[key] \in Seq(Entries)
    OBVIOUS
  <2>3. DOMAIN values = 1..n /\ \A i \in 1..n : values[i] = mem[key][i]
    BY <2>1, <2>2
  <2>4. 1..n \subseteq DOMAIN mem[key]
    BY <2>2
  <2> QED BY <2>3, <2>4 DEF Range
<1> QED BY <1>1, <1>2 DEF Gets

Blinds(t) == Notes(call[t].op, call[t].a, call[t].b, "blind")

LEMMA CheckEffect ==
  ASSUME Typed, NEW t \in Threads, NEW pc, NEW key \in StoreKeys,
         NEW ifNone \in Where, NEW ifSome \in Where,
         Check(t, pc, key, ifNone, ifSome)
  PROVE  /\ call[t].pc = pc
         /\ UNCHANGED <<mem, dur, issued, known, calls>>
         /\ \/ /\ Moves(t, ifNone)
               /\ \/ mishaps' = mishaps /\ (mem[key] = <<>> \/ ifNone.status # "NONE")
                  \/ mishaps' = mishaps \cup Blinds(t)
            \/ Moves(t, ifSome) /\ mem[key] # <<>> /\ mishaps' = mishaps
<1>1. mem \in [StoreKeys -> Seq(Entries)] /\ call \in [Threads -> CallRecord]
  BY DEF Typed, StoreOK
<1>2. PICK values \in Gets(key) :
        /\ call' = Leaves(t, IF values = <<>> THEN ifNone ELSE ifSome)
        /\ mishaps' = mishaps \cup IF values = <<>> /\ mem[key] # <<>> /\ ifNone.status = "NONE"
                                  THEN Blinds(t) ELSE {}
  BY DEF Check, Blinds
<1>0. call[t].pc = pc /\ UNCHANGED <<mem, dur, issued, known, calls>>
  BY DEF Check
<1>3. CASE values = <<>>
  <2>1. Moves(t, ifNone)
    BY <1>1, <1>2, <1>3, LeavesMoves
  <2> QED BY <2>1, <1>0, <1>2, <1>3
<1>4. CASE values # <<>>
  <2>1. Moves(t, ifSome)
    BY <1>1, <1>2, <1>4, LeavesMoves
  <2>2. mem[key] # <<>>
    BY <1>1, <1>4, GetsFacts
  <2> QED BY <2>1, <2>2, <1>0, <1>2, <1>4
<1> QED BY <1>3, <1>4

LEMMA PutEffect ==
  ASSUME mem \in [StoreKeys -> Seq(Entries)], dur \in [StoreKeys -> Seq(Entries)],
         NEW key \in StoreKeys, NEW value \in Entries, NEW ok \in BOOLEAN,
         Puts(key, value, ok)
  PROVE  Adds(key, value, ok)
<1> DEFINE Added(m) == [m EXCEPT ![key] = Append(@, value)]
<1>1. ASSUME NEW m \in [StoreKeys -> Seq(Entries)]
      PROVE  /\ Added(m) \in [StoreKeys -> Seq(Entries)]
             /\ \A k \in StoreKeys \ {key} : Added(m)[k] = m[k]
             /\ Added(m)[key] = Append(m[key], value)
  OBVIOUS
<1>2. /\ mem' = Added(mem) \/ (~ok /\ mem' = mem)
      /\ dur' = Added(dur) \/ (~ok /\ dur' = dur)
      /\ dur' = Added(dur) => mem' = Added(mem) \/ dur' = dur
  BY DEF Puts
<1>3. \/ mem' = Added(mem) /\ dur' = Added(dur)
      \/ ~ok /\ mem' = Added(mem) /\ dur' = dur
      \/ ~ok /\ mem' = mem /\ dur' = dur
  BY DEF Puts
<1> HIDE DEF Added
<1> QED BY <1>1, <1>3 DEF Adds

\* Whatever a Put does it may also do unheard.
LEMMA AddsUnheard ==
  ASSUME NEW key, NEW value, NEW ok \in BOOLEAN, NEW heard \in BOOLEAN, heard => ok,
         Adds(key, value, ok)
  PROVE  Adds(key, value, heard)
BY DEF Adds

LEMMA StoreEffect ==
  ASSUME Typed, NEW t \in Threads, NEW pc, NEW key \in StoreKeys, NEW value \in Entries,
         NEW then \in Where, Store(t, pc, key, value, then)
  PROVE  /\ call[t].pc = pc
         /\ UNCHANGED <<issued, known, calls>>
         /\ \E ok \in BOOLEAN :
              /\ Adds(key, value, ok)
              /\ Moves(t, AfterPut(ok, then))
              /\ mishaps' = mishaps \cup IF ok THEN {} ELSE Fails(t)
<1>1. /\ mem \in [StoreKeys -> Seq(Entries)] /\ dur \in [StoreKeys -> Seq(Entries)]
      /\ call \in [Threads -> CallRecord]
  BY DEF Typed, StoreOK
<1>2. PICK ok \in BOOLEAN :
        /\ Puts(key, value, ok)
        /\ call' = Leaves(t, AfterPut(Heard(t, ok), then))
        /\ mishaps' = mishaps \cup IF Heard(t, ok) THEN {} ELSE Fails(t)
  BY DEF Store
<1> DEFINE heard == Heard(t, ok)
<1>0. heard \in BOOLEAN /\ (heard => ok)
  BY DEF Heard
<1>3. AfterPut(heard, then) \in Where
  BY DEF AfterPut, Answer, Where, PCs, Statuses
<1>4. Adds(key, value, heard)
  BY <1>0, <1>1, <1>2, PutEffect, AddsUnheard
<1>5. Moves(t, AfterPut(heard, then))
  BY <1>1, <1>2, <1>3, LeavesMoves
<1>6. mishaps' = mishaps \cup IF heard THEN {} ELSE Fails(t)
  BY <1>2
<1>7. call[t].pc = pc /\ UNCHANGED <<issued, known, calls>>
  BY DEF Store
<1> HIDE DEF heard
<1> QED BY <1>0, <1>4, <1>5, <1>6, <1>7

\* Thread t, which has answered, takes up a new call.
Begins(t, op, a, b, pc, must) ==
  /\ call' \in [Threads -> CallRecord]
  /\ \A s \in Threads \ {t} : call'[s] = call[s]
  /\ call[t].pc = "done"
  /\ call'[t].op = op /\ call'[t].a = a /\ call'[t].b = b
  /\ call'[t].pc = pc /\ call'[t].status = "NONE"
  /\ call'[t].id = NoCaw /\ call'[t].queue = <<>> /\ call'[t].out = <<>>
  /\ call'[t].must = must

LEMMA BeginEffect ==
  ASSUME Typed, NEW t \in Threads,
         NEW op \in {"RegisterUser", "Follow", "Profile", "Caw", "Read"},
         NEW a \in Args, NEW b \in Args, NEW pc \in PCs,
         NEW must \in (SUBSET Ids) \cup ((SUBSET Users) \X (SUBSET Users)),
         Begin(t, op, a, b, pc, must)
  PROVE  /\ Begins(t, op, a, b, pc, must)
         /\ UNCHANGED <<mem, dur, issued, known>>
         /\ calls' \in 0..MaxCalls
         /\ mishaps' = mishaps \cup IF \E s \in Threads : Same(s, op, a, b)
                                    THEN Notes(op, a, b, "raced") ELSE {}
<1> DEFINE c == [NoCall EXCEPT !.op = op, !.a = a, !.b = b, !.pc = pc, !.must = must]
<1>1. /\ c.op = op /\ c.a = a /\ c.b = b /\ c.pc = pc /\ c.status = "NONE"
      /\ c.id = NoCaw /\ c.queue = <<>> /\ c.out = <<>> /\ c.must = must
      /\ c = [op |-> op, a |-> a, b |-> b, pc |-> pc, status |-> "NONE", id |-> NoCaw,
              queue |-> <<>>, out |-> <<>>, must |-> must]
  <2>1. ASSUME NEW d, d = c
        PROVE  d = [op |-> op, a |-> a, b |-> b, pc |-> pc, status |-> "NONE", id |-> NoCaw,
                    queue |-> <<>>, out |-> <<>>, must |-> must]
    BY <2>1 DEF NoCall
  <2> HIDE DEF c
  <2> QED BY <2>1
<1>2. c \in CallRecord
  <2>1. <<>> \in Seq(Ids) /\ "NONE" \in Statuses
    BY EmptySeq DEF Statuses
  <2> QED BY <1>1, <2>1 DEF CallRecord
<1>3. call \in [Threads -> CallRecord] /\ call' = [call EXCEPT ![t] = c]
  BY DEF Typed, Begin
<1> HIDE DEF c
<1>4. Begins(t, op, a, b, pc, must)
  <2>1. call[t].pc = "done"
    BY DEF Begin, Done
  <2> QED BY <1>1, <1>2, <1>3, <2>1 DEF Begins
<1>5. calls' \in 0..MaxCalls
  BY MaxCallsAssumption DEF Begin, Typed
<1> QED BY <1>4, <1>5 DEF Begin

-----------------------------------------------------------------------------
(* The types are an invariant.                                             *)

\* What is put under a key is what its handlers put there.
Fits(key, value) ==
  /\ value \in Entries
  /\ key # CawKey(BadId)
  /\ \A u \in Users : key \in {FollowingsKey(u), FollowersKey(u)} => value \in Users
  /\ \A id \in Ids : /\ key = CawKey(id) => value \in Caws
                     /\ key = ReplyKey(id) => value \in Ids

LEMMA AddsStoreOK ==
  ASSUME StoreOK(mem), StoreOK(dur), Ahead,
         NEW key \in StoreKeys, NEW value, NEW ok, Fits(key, value), Adds(key, value, ok)
  PROVE  StoreOK(mem') /\ StoreOK(dur') /\ Ahead'
<1>1. /\ mem \in [StoreKeys -> Seq(Entries)] /\ dur \in [StoreKeys -> Seq(Entries)]
      /\ mem' \in [StoreKeys -> Seq(Entries)] /\ dur' \in [StoreKeys -> Seq(Entries)]
      /\ value \in Entries
  BY DEF StoreOK, Adds, Fits
<1>2. ASSUME NEW k \in StoreKeys
      PROVE  /\ mem'[k] = mem[k] \/ (k = key /\ mem'[k] = Append(mem[k], value))
             /\ dur'[k] = dur[k] \/ (k = key /\ dur'[k] = Append(dur[k], value))
             /\ dur'[k] # dur[k] => mem'[k] = Append(mem[k], value)
  BY DEF Adds
<1>3. ASSUME NEW m, NEW n, StoreOK(m), n \in [StoreKeys -> Seq(Entries)],
             \A k \in StoreKeys : n[k] = m[k] \/ (k = key /\ n[k] = Append(m[k], value))
      PROVE  StoreOK(n)
  <2>0. ASSUME NEW T, NEW k \in StoreKeys, m[k] \in Seq(T), k = key => value \in T
        PROVE  n[k] \in Seq(T)
    <3>1. CASE n[k] = m[k]
      BY <2>0, <3>1
    <3>2. CASE k = key /\ n[k] = Append(m[k], value)
      BY <2>0, <3>2, AppendFacts
    <3> QED BY <1>3, <3>1, <3>2
  <2>1. ASSUME NEW u \in Users
        PROVE  n[FollowingsKey(u)] \in Seq(Users) /\ n[FollowersKey(u)] \in Seq(Users)
    BY <1>3, <2>0, KeysInStore DEF StoreOK, Fits
  <2>2. ASSUME NEW id \in Ids
        PROVE  n[CawKey(id)] \in Seq(Caws) /\ n[ReplyKey(id)] \in Seq(Ids)
    BY <1>3, <2>0, KeysInStore DEF StoreOK, Fits
  <2>3. n[CawKey(BadId)] = <<>>
    BY <1>3, KeysInStore DEF StoreOK, Fits
  <2> QED BY <1>3, <2>1, <2>2, <2>3 DEF StoreOK
<1>4. Ahead'
  <2>1. SUFFICES ASSUME NEW k \in StoreKeys
                 PROVE  Len(dur'[k]) <= Len(mem'[k]) /\ Range(dur'[k]) \subseteq Range(mem'[k])
    BY DEF Ahead
  <2>2. /\ mem[k] \in Seq(Entries) /\ dur[k] \in Seq(Entries)
        /\ Len(dur[k]) <= Len(mem[k]) /\ Range(dur[k]) \subseteq Range(mem[k])
    BY <1>1 DEF Ahead
  <2>3. /\ Len(Append(mem[k], value)) = Len(mem[k]) + 1 /\ Len(mem[k]) \in Nat
        /\ Range(Append(mem[k], value)) = Range(mem[k]) \cup {value}
    BY <1>1, <2>2, AppendFacts
  <2>4. /\ Len(Append(dur[k], value)) = Len(dur[k]) + 1 /\ Len(dur[k]) \in Nat
        /\ Range(Append(dur[k], value)) = Range(dur[k]) \cup {value}
    BY <1>1, <2>2, AppendFacts
  <2>5. CASE dur'[k] = dur[k] /\ mem'[k] = mem[k]
    BY <2>2, <2>5
  <2>6. CASE dur'[k] = dur[k] /\ mem'[k] = Append(mem[k], value)
    BY <2>2, <2>3, <2>4, <2>6
  <2>7. CASE dur'[k] = Append(dur[k], value) /\ mem'[k] = Append(mem[k], value)
    BY <2>2, <2>3, <2>4, <2>7
  <2> QED BY <1>2, <2>5, <2>6, <2>7
<1> QED BY <1>1, <1>2, <1>3, <1>4

LEMMA WheresTyped ==
  /\ \A pc \in PCs : Continue(pc) \in Where /\ Continue(pc).pc = pc
                     /\ Continue(pc).status = "NONE"
  /\ \A s \in Statuses : Answer(s) \in Where /\ Answer(s).pc = "done"
                         /\ Answer(s).status = s
BY DEF Continue, Answer, Where, PCs, Statuses

\* The operation of t can be at where, from any stage of it on.
Fitting(t, where) ==
  \/ where.pc = "done" /\ where.status # "NONE"
  \/ /\ where.pc # "done" /\ where.status = "NONE"
     /\ where.pc \in {"register_check", "register_put"} => call[t].op = "RegisterUser"
     /\ where.pc \in {"follow_user", "follow_other", "follow_pair", "follow_put_pair",
                      "follow_put_following", "follow_put_follower"} =>
          call[t].op = "Follow"
     /\ where.pc \in {"profile_user", "profile_followings", "profile_followers"} =>
          call[t].op = "Profile"
     /\ where.pc \in {"caw_user", "caw_parent", "caw_put"} => call[t].op = "Caw"
     /\ where.pc = "caw_parent" => call[t].b # NoCaw
     /\ where.pc = "caw_put" => call[t].b # BadId
     /\ where.pc \notin {"caw_put_reply", "read_check", "read_caw", "read_replies"}

LEMMA MovesCallOK ==
  ASSUME Typed, NEW t \in Threads, NEW where, Moves(t, where),
         call[t].pc # "done", Fitting(t, where)
  PROVE  \A s \in Threads : CallOK(call'[s])
<1>1. SUFFICES CallOK(call'[t])
  BY DEF Moves, Goes, Typed
<1>2. CallOK(call[t]) /\ call[t].op # "none"
  BY DEF CallOK, Typed
<1>3. CASE where.pc = "done" /\ where.status # "NONE"
  BY <1>2, <1>3 DEF Moves, Goes, CallOK
<1>4. CASE where.pc # "done"
  BY <1>2, <1>4 DEF Moves, Goes, CallOK, Fitting
<1> QED BY <1>3, <1>4 DEF Fitting

LEMMA CheckTyped ==
  ASSUME Typed, NEW t \in Threads, NEW pc \in PCs \ {"done"}, NEW key \in StoreKeys,
         NEW ifNone \in Where, NEW ifSome \in Where, Check(t, pc, key, ifNone, ifSome),
         Fitting(t, ifNone), mem[key] # <<>> => Fitting(t, ifSome)
  PROVE  Typed'
<1>1. /\ call[t].pc # "done"
      /\ UNCHANGED <<mem, dur, issued, known, calls>>
      /\ Moves(t, ifNone) \/ (Moves(t, ifSome) /\ mem[key] # <<>>)
  BY CheckEffect
<1>2. \A s \in Threads : CallOK(call'[s])
  BY <1>1, MovesCallOK
<1>3. call' \in [Threads -> CallRecord]
  BY <1>1 DEF Moves, Goes
<1> QED BY <1>1, <1>2, <1>3 DEF Typed, StoreOK, Ahead

LEMMA StoreTyped ==
  ASSUME Typed, NEW t \in Threads, NEW pc \in PCs \ {"done"}, NEW key \in StoreKeys,
         NEW value, NEW then \in Where, Store(t, pc, key, value, then),
         Fitting(t, then), Fits(key, value)
  PROVE  Typed'
<1>1. value \in Entries
  BY DEF Fits
<1>2. PICK ok \in BOOLEAN : Adds(key, value, ok) /\ Moves(t, AfterPut(ok, then))
  BY <1>1, StoreEffect
<1>3. call[t].pc # "done" /\ UNCHANGED <<issued, known, calls>>
  BY <1>1, StoreEffect
<1>4. Fitting(t, AfterPut(ok, then))
  BY WheresTyped DEF Fitting, AfterPut, Answer
<1>5. \A s \in Threads : CallOK(call'[s])
  BY <1>2, <1>3, <1>4, MovesCallOK
<1>6. StoreOK(mem') /\ StoreOK(dur') /\ Ahead'
  BY <1>2, AddsStoreOK DEF Typed
<1>7. call' \in [Threads -> CallRecord]
  BY <1>2 DEF Moves, Goes
<1> QED BY <1>3, <1>5, <1>6, <1>7 DEF Typed

LEMMA UserPutsFit ==
  ASSUME NEW u \in Users, NEW v \in Users
  PROVE  /\ Fits(UserKey(u), "") /\ Fits(PairKey(u, v), "")
         /\ Fits(FollowingsKey(u), v) /\ Fits(FollowersKey(u), v)
BY KeysDiffer DEF Fits, Entries

LEMMA BeginsTyped ==
  ASSUME Typed, NEW t \in Threads, NEW op, NEW a, NEW b, NEW pc, NEW must,
         Begins(t, op, a, b, pc, must), UNCHANGED <<mem, dur, issued, known>>,
         calls' \in 0..MaxCalls,
         \/ op = "RegisterUser" /\ a \in Users /\ b = NoCaw /\ pc = "register_check"
         \/ op = "Follow" /\ a \in Users /\ b \in Users /\ pc = "follow_user"
         \/ /\ op = "Profile" /\ a \in Users /\ pc = "profile_user"
            /\ must \in (SUBSET Users) \X (SUBSET Users)
         \/ op = "Caw" /\ a \in Users /\ b \in Ids \cup {NoCaw, BadId} /\ pc = "caw_user"
         \/ op = "Read" /\ a \in Ids \cup {BadId} /\ pc = "read_check" /\ must \in SUBSET Ids
  PROVE  Typed'
<1>1. CallOK(call'[t])
  <2>1. <<>> \in Seq(Ids) /\ <<>> \in Seq(Seq(Users))
    BY EmptySeq
  <2> QED BY <2>1 DEF Begins, CallOK
<1>2. \A s \in Threads : CallOK(call'[s])
  BY <1>1 DEF Begins, Typed
<1>3. call' \in [Threads -> CallRecord]
  BY DEF Begins
<1>4. StoreOK(mem') /\ StoreOK(dur') /\ Ahead'
  BY DEF Typed, StoreOK, Ahead
<1> QED BY <1>2, <1>3, <1>4 DEF Typed

LEMMA InitTyped == Init => Typed
<1> SUFFICES ASSUME Init PROVE Typed
  OBVIOUS
<1>1. StoreOK(mem)
  <2>1. \A T : <<>> \in Seq(T)
    BY EmptySeq
  <2>2. <<"">> \in Seq(Entries)
    BY DEF Entries
  <2>3. mem \in [StoreKeys -> Seq(Entries)]
    BY <2>1, <2>2 DEF Init
  <2>4. \A u \in Users : mem[FollowingsKey(u)] = <<>> /\ mem[FollowersKey(u)] = <<>>
    BY KeysInStore, KeysDiffer DEF Init
  <2>5. \A id \in Ids : mem[CawKey(id)] = <<>> /\ mem[ReplyKey(id)] = <<>>
    BY KeysInStore, KeysDiffer DEF Init
  <2>6. mem[CawKey(BadId)] = <<>>
    BY KeysInStore, KeysDiffer DEF Init
  <2> QED BY <2>1, <2>3, <2>4, <2>5, <2>6 DEF StoreOK
<1>2. Ahead
  <2>1. ASSUME NEW k \in StoreKeys PROVE Len(mem[k]) \in Nat
    BY <1>1 DEF StoreOK
  <2>2. dur = mem
    BY DEF Init
  <2> QED BY <2>1, <2>2 DEF Ahead
<1>3. call \in [Threads -> CallRecord]
  <2>1. NoCall \in CallRecord
    <3>1. <<>> \in Seq(Ids)
      BY EmptySeq
    <3> QED BY <3>1 DEF NoCall, CallRecord, Args, PCs, Statuses
  <2> QED BY <2>1 DEF Init
<1>4. \A t \in Threads : CallOK(call[t])
  BY DEF Init, NoCall, CallOK
<1>5. issued \in [Ids -> 0..2] /\ known \subseteq Ids /\ calls \in 0..MaxCalls
  <2>1. issued = [id \in Ids |-> 0] /\ known = {} /\ calls = 0
    BY DEF Init
  <2> QED BY <2>1, MaxCallsAssumption
<1> QED BY <1>1, <1>2, <1>3, <1>4, <1>5 DEF Typed, Init


LEMMA ProfileGetEffect ==
  ASSUME Typed, NEW t \in Threads,
         NEW pc \in {"profile_followings", "profile_followers"},
         NEW key \in StoreKeys, mem[key] \in Seq(Users), NEW then \in Where,
         ProfileGet(t, pc, key, then)
  PROVE  /\ call[t].pc = pc
         /\ UNCHANGED <<mem, dur, issued, known, mishaps, calls>>
         /\ Goes(t, then)
         /\ call'[t].id = call[t].id /\ call'[t].queue = call[t].queue
         /\ \E values \in Gets(key) : /\ values \in Seq(Users)
                                      /\ call'[t].out = Append(call[t].out, values)
<1>1. PICK values \in Gets(key) :
        call' = [Leaves(t, then) EXCEPT ![t].out = Append(@, values)]
  BY DEF ProfileGet
<1>2. values \in Seq(Users)
  BY <1>1, GetsFacts DEF Typed, StoreOK
<1> DEFINE c == call[t]
           d == [[[c EXCEPT !.pc = then.pc] EXCEPT !.status = then.status]
                   EXCEPT !.out = Append(c.out, values)]
<1>3. c \in CallRecord /\ then.pc \in PCs /\ then.status \in Statuses
  BY DEF Where, Typed
<1>4. Append(c.out, values) \in Seq(Seq(Users))
  <2>1. c.out \in Seq(Seq(Users))
    BY DEF Typed, CallOK, ProfileGet
  <2> QED BY <2>1, <1>2, AppendFacts
<1>5. /\ d \in CallRecord
      /\ d.pc = then.pc /\ d.status = then.status
      /\ d.op = c.op /\ d.a = c.a /\ d.b = c.b /\ d.id = c.id
      /\ d.queue = c.queue /\ d.out = Append(c.out, values) /\ d.must = c.must
  BY <1>3, <1>4 DEF CallRecord
<1>6. call' = [call EXCEPT ![t] = d]
  BY <1>1 DEF Leaves, Typed
<1> HIDE DEF d
<1> QED BY <1>1, <1>2, <1>5, <1>6 DEF Goes, ProfileGet, Typed

LEMMA ProfileGetTyped ==
  ASSUME Typed, NEW t \in Threads,
         NEW pc \in {"profile_followings", "profile_followers"},
         NEW key \in StoreKeys, mem[key] \in Seq(Users), NEW then \in Where,
         then \in {Continue("profile_followers"), Answer("OK")},
         ProfileGet(t, pc, key, then)
  PROVE  Typed'
<1>1. /\ call[t].pc = pc
      /\ UNCHANGED <<mem, dur, issued, known, mishaps, calls>>
      /\ Goes(t, then) /\ call'[t].queue = call[t].queue /\ call'[t].id = call[t].id
  BY ProfileGetEffect
<1>2. PICK values \in Seq(Users) : call'[t].out = Append(call[t].out, values)
  BY ProfileGetEffect
<1>3. CallOK(call[t]) /\ call[t].op = "Profile"
  BY <1>1 DEF Typed, CallOK
<1>4. call'[t].out \in Seq(Seq(Users))
  BY <1>2, <1>3, AppendFacts DEF CallOK
<1>5. \/ then.pc = "done" /\ then.status = "OK"
      \/ then.pc = "profile_followers" /\ then.status = "NONE"
  BY DEF Continue, Answer
<1>6. CallOK(call'[t])
  BY <1>1, <1>3, <1>4, <1>5 DEF CallOK, Goes
<1>7. \A s \in Threads : CallOK(call'[s])
  BY <1>1, <1>6 DEF Typed, Goes
<1>8. call' \in [Threads -> CallRecord]
  BY <1>1 DEF Goes
<1> QED BY <1>1, <1>7, <1>8 DEF Typed, StoreOK, Ahead

LEMMA CawPutEffect ==
  ASSUME Typed, NEW t \in Threads, CawPut(t)
  PROVE  /\ call[t].pc = "caw_put" /\ call[t].op = "Caw"
         /\ call[t].a \in Users /\ call[t].b \in Ids \cup {NoCaw}
         /\ UNCHANGED <<mishaps, calls>>
         /\ \E id \in Ids, ok \in BOOLEAN :
              /\ issued[id] < 2
              /\ issued' = [issued EXCEPT ![id] = issued[id] + 1]
              /\ issued' \in [Ids -> 0..2]
              /\ Fits(CawKey(id), [user |-> call[t].a, parent |-> call[t].b])
              /\ Adds(CawKey(id), [user |-> call[t].a, parent |-> call[t].b], ok)
              /\ Goes(t, AfterPut(ok, IF call[t].b = NoCaw THEN Answer("OK")
                                      ELSE Continue("caw_put_reply")))
              /\ call'[t].id = id
              /\ call'[t].queue = call[t].queue /\ call'[t].out = call[t].out
              /\ known' = IF ok /\ call[t].b = NoCaw THEN known \cup {id} ELSE known
<1> DEFINE value == [user |-> call[t].a, parent |-> call[t].b]
           where(ok) == AfterPut(ok, IF call[t].b = NoCaw THEN Answer("OK")
                                     ELSE Continue("caw_put_reply"))
<1>0. PICK id \in NewIds, put \in BOOLEAN :
        /\ issued' = [issued EXCEPT ![id] = @ + 1]
        /\ Puts(CawKey(id), value, put)
        /\ call' = [Leaves(t, where(Heard(t, put))) EXCEPT ![t].id = id]
        /\ known' = IF where(Heard(t, put)).status = "OK" THEN known \cup {id} ELSE known
  BY DEF CawPut
<1>p. PICK ok \in BOOLEAN : ok = Heard(t, put) /\ (ok => put)
  BY DEF Heard
<1>1. /\ issued' = [issued EXCEPT ![id] = @ + 1]
      /\ Puts(CawKey(id), value, put)
      /\ call' = [Leaves(t, where(ok)) EXCEPT ![t].id = id]
      /\ known' = IF where(ok).status = "OK" THEN known \cup {id} ELSE known
  BY <1>0, <1>p
<1>2. id \in Ids /\ issued[id] < 2
  BY DEF NewIds, Typed
<1>3. /\ call[t].pc = "caw_put" /\ call[t].op = "Caw"
      /\ call[t].a \in Users /\ call[t].b \in Ids \cup {NoCaw}
  BY DEF CawPut, Typed, CallOK
<1>4. value \in Caws
  BY <1>3 DEF Caws
<1>5. Fits(CawKey(id), value)
  BY <1>2, <1>4, KeysDiffer, NoCawAssumption DEF Fits, Entries
<1>6. Adds(CawKey(id), value, ok)
  <2>1. Adds(CawKey(id), value, put)
    BY <1>1, <1>2, <1>5, PutEffect, KeysInStore DEF Typed, StoreOK, Fits
  <2> QED BY <1>p, <2>1, AddsUnheard
<1>7. where(ok) \in Where /\ where(ok).pc \in PCs /\ where(ok).status \in Statuses
  <2>1. where(ok) \in Where
    BY WheresTyped DEF AfterPut, PCs, Statuses
  <2> QED BY <2>1 DEF Where
<1>8. where(ok).status = "OK" <=> ok /\ call[t].b = NoCaw
  BY WheresTyped DEF AfterPut, PCs, Statuses
<1>9. issued' = [issued EXCEPT ![id] = issued[id] + 1] /\ issued' \in [Ids -> 0..2]
  BY <1>1, <1>2 DEF Typed
<1> DEFINE c == call[t]
           w == where(ok)
           d == [[[c EXCEPT !.pc = w.pc] EXCEPT !.status = w.status] EXCEPT !.id = id]
<1>10. call' = [call EXCEPT ![t] = d]
  BY <1>1 DEF Leaves, Typed
<1>11. c \in CallRecord
  BY DEF Typed
<1> HIDE DEF w, where
<1>12. w.pc \in PCs /\ w.status \in Statuses
  BY <1>7 DEF w
<1>13. /\ d \in CallRecord
       /\ d.pc = w.pc /\ d.status = w.status
       /\ d.op = c.op /\ d.a = c.a /\ d.b = c.b /\ d.id = id
       /\ d.queue = c.queue /\ d.out = c.out /\ d.must = c.must
  BY <1>2, <1>11, <1>12 DEF CallRecord
<1> HIDE DEF d
<1>14. Goes(t, w) /\ call'[t].id = id
       /\ call'[t].queue = call[t].queue /\ call'[t].out = call[t].out
  BY <1>10, <1>13 DEF Goes, Typed
<1> QED BY <1>1, <1>2, <1>3, <1>5, <1>6, <1>8, <1>9, <1>14 DEF w, where, CawPut

LEMMA CawPutReplyEffect ==
  ASSUME Typed, NEW t \in Threads, CawPutReply(t)
  PROVE  /\ call[t].pc = "caw_put_reply" /\ call[t].op = "Caw"
         /\ call[t].b \in Ids /\ call[t].id \in Ids
         /\ UNCHANGED <<issued, mishaps, calls>>
         /\ Fits(ReplyKey(call[t].b), call[t].id)
         /\ \E ok \in BOOLEAN :
              /\ Adds(ReplyKey(call[t].b), call[t].id, ok)
              /\ Moves(t, AfterPut(ok, Answer("OK")))
              /\ known' = IF ok THEN known \cup {call[t].id} ELSE known
<1>0. PICK put \in BOOLEAN :
        /\ Puts(ReplyKey(call[t].b), call[t].id, put)
        /\ call' = Leaves(t, AfterPut(Heard(t, put), Answer("OK")))
        /\ known' = IF Heard(t, put) THEN known \cup {call[t].id} ELSE known
  BY DEF CawPutReply
<1>p. PICK ok \in BOOLEAN : ok = Heard(t, put) /\ (ok => put)
  BY DEF Heard
<1>1. /\ Puts(ReplyKey(call[t].b), call[t].id, put)
      /\ call' = Leaves(t, AfterPut(ok, Answer("OK")))
      /\ known' = IF ok THEN known \cup {call[t].id} ELSE known
  BY <1>0, <1>p
<1>2. /\ call[t].pc = "caw_put_reply" /\ call[t].op = "Caw"
      /\ call[t].b \in Ids /\ call[t].id \in Ids
  BY DEF CawPutReply, Typed, CallOK
<1>3. Fits(ReplyKey(call[t].b), call[t].id)
  BY <1>2, KeysDiffer DEF Fits, Entries
<1>4. Adds(ReplyKey(call[t].b), call[t].id, ok)
  <2>1. Adds(ReplyKey(call[t].b), call[t].id, put)
    BY <1>1, <1>2, <1>3, PutEffect, KeysInStore DEF Typed, StoreOK, Fits
  <2> QED BY <1>p, <2>1, AddsUnheard
<1>5. AfterPut(ok, Answer("OK")) \in Where
  BY WheresTyped DEF AfterPut, Statuses
<1>6. Moves(t, AfterPut(ok, Answer("OK")))
  BY <1>1, <1>5, LeavesMoves DEF Typed
<1> QED BY <1>1, <1>2, <1>3, <1>4, <1>6 DEF CawPutReply

LEMMA ReadCheckEffect ==
  ASSUME Typed, NEW t \in Threads, ReadCheck(t)
  PROVE  /\ call[t].pc = "read_check" /\ call[t].op = "Read"
         /\ UNCHANGED <<mem, dur, issued, known, mishaps, calls>>
         /\ \/ /\ Moves(t, Answer("NOT_FOUND"))
               /\ "cut" \notin Faults => mem[CawKey(call[t].a)] = <<>>
            \/ /\ Goes(t, Continue("read_caw"))
               /\ call[t].a \in Ids /\ mem[CawKey(call[t].a)] # <<>>
               /\ call'[t].id = call[t].id /\ call'[t].out = call[t].out
               /\ call'[t].queue = <<call[t].a>>
<1> DEFINE key == CawKey(call[t].a)
<1>1. /\ call[t].pc = "read_check" /\ call[t].op = "Read"
      /\ call[t].a \in Ids \cup {BadId}
  BY DEF ReadCheck, Typed, CallOK
<1>2. key \in StoreKeys
  BY <1>1, KeysInStore
<1>3. PICK values \in Gets(key) :
        call' = IF values = <<>> THEN Leaves(t, Answer("NOT_FOUND"))
                ELSE [Leaves(t, Continue("read_caw")) EXCEPT ![t].queue = <<call[t].a>>]
  BY DEF ReadCheck
<1>4. CASE values = <<>>
  <2>1. Moves(t, Answer("NOT_FOUND"))
    BY <1>3, <1>4, LeavesMoves, WheresTyped DEF Typed, Statuses
  <2>2. "cut" \notin Faults => mem[key] = <<>>
    BY <1>2, <1>4, GetsFacts DEF Typed, StoreOK
  <2> QED BY <1>1, <2>1, <2>2 DEF ReadCheck
<1>5. CASE values # <<>>
  <2>1. mem[key] # <<>>
    BY <1>2, <1>5, GetsFacts DEF Typed, StoreOK
  <2>2. call[t].a \in Ids
    BY <1>1, <2>1 DEF Typed, StoreOK
  <2> DEFINE queue == <<call[t].a>>
             c == call[t]
             w == Continue("read_caw")
             d == [[[c EXCEPT !.pc = w.pc] EXCEPT !.status = w.status]
                     EXCEPT !.queue = queue]
  <2>3. c \in CallRecord /\ w.pc \in PCs /\ w.status \in Statuses
    BY DEF Typed, Continue, PCs, Statuses
  <2>4. call' = [call EXCEPT ![t] = d]
    BY <1>3, <1>5 DEF Leaves, Typed
  <2> HIDE DEF w
  <2>7. queue \in Seq(Ids)
    BY <2>2
  <2> HIDE DEF queue
  <2>5. /\ d \in CallRecord
        /\ d.pc = w.pc /\ d.status = w.status
        /\ d.op = c.op /\ d.a = c.a /\ d.b = c.b /\ d.id = c.id
        /\ d.queue = queue /\ d.out = c.out /\ d.must = c.must
    BY <2>3, <2>7 DEF CallRecord
  <2> USE DEF queue
  <2> HIDE DEF d
  <2>6. Goes(t, w) /\ call'[t].id = call[t].id /\ call'[t].out = call[t].out
        /\ call'[t].queue = <<call[t].a>>
    BY <2>4, <2>5 DEF Goes, Typed
  <2> QED BY <1>1, <2>1, <2>2, <2>6 DEF ReadCheck, w
<1> QED BY <1>4, <1>5

LEMMA ReadCawEffect ==
  ASSUME Typed, NEW t \in Threads, ReadCaw(t)
  PROVE  /\ call[t].pc = "read_caw" /\ call[t].op = "Read"
         /\ call[t].queue \in Seq(Ids) /\ call[t].queue # <<>>
         /\ Head(call[t].queue) \in Ids
         /\ UNCHANGED <<mem, dur, issued, known, mishaps, calls>>
         /\ \/ /\ Moves(t, Answer("UNAVAILABLE"))
               /\ "cut" \notin Faults => Len(mem[CawKey(Head(call[t].queue))]) # 1
            \/ /\ Goes(t, Continue("read_replies"))
               /\ mem[CawKey(Head(call[t].queue))] # <<>>
               /\ "cut" \notin Faults => Len(mem[CawKey(Head(call[t].queue))]) = 1
               /\ call'[t].id = call[t].id /\ call'[t].queue = call[t].queue
               /\ call'[t].out = Append(call[t].out, Head(call[t].queue))
<1> DEFINE head == Head(call[t].queue)
           key == CawKey(head)
<1>1. /\ call[t].pc = "read_caw" /\ call[t].op = "Read"
      /\ call[t].queue \in Seq(Ids) /\ call[t].queue # <<>>
      /\ call[t].out \in Seq(Ids)
  BY DEF ReadCaw, Typed, CallOK, CallRecord
<1>2. head \in Ids
  BY <1>1
<1> HIDE DEF head
<1>3. key \in StoreKeys
  BY <1>2, KeysInStore
<1>4. PICK values \in Gets(key) :
        call' = IF Len(values) # 1 THEN Leaves(t, Answer("UNAVAILABLE"))
                ELSE [Leaves(t, Continue("read_replies")) EXCEPT
                        ![t].out = Append(@, head)]
  BY DEF ReadCaw, head
<1>5. CASE Len(values) # 1
  <2>1. Moves(t, Answer("UNAVAILABLE"))
    BY <1>4, <1>5, LeavesMoves, WheresTyped DEF Typed, Statuses
  <2>2. "cut" \notin Faults => Len(mem[key]) # 1
    BY <1>3, <1>5, GetsFacts DEF Typed, StoreOK
  <2> QED BY <1>1, <1>2, <2>1, <2>2 DEF ReadCaw, head
<1>6. CASE Len(values) = 1
  <2>1. mem[key] # <<>> /\ ("cut" \notin Faults => Len(mem[key]) = 1)
    <3>1. values # <<>>
      BY <1>6
    <3> QED BY <3>1, <1>3, <1>6, GetsFacts DEF Typed, StoreOK
  <2> DEFINE c == call[t]
             w == Continue("read_replies")
             d == [[[c EXCEPT !.pc = w.pc] EXCEPT !.status = w.status]
                     EXCEPT !.out = Append(c.out, head)]
  <2>2. c \in CallRecord /\ w.pc \in PCs /\ w.status \in Statuses
    BY DEF Typed, Continue, PCs, Statuses
  <2>3. call' = [call EXCEPT ![t] = d]
    BY <1>4, <1>6 DEF Leaves, Typed
  <2> HIDE DEF w
  <2>4. Append(c.out, head) \in Seq(Ids)
    BY <1>1, <1>2
  <2>5. /\ d \in CallRecord
        /\ d.pc = w.pc /\ d.status = w.status
        /\ d.op = c.op /\ d.a = c.a /\ d.b = c.b /\ d.id = c.id
        /\ d.queue = c.queue /\ d.out = Append(c.out, head) /\ d.must = c.must
    BY <2>2, <2>4 DEF CallRecord
  <2> HIDE DEF d
  <2>6. Goes(t, w) /\ call'[t].id = call[t].id /\ call'[t].queue = call[t].queue
        /\ call'[t].out = Append(call[t].out, head)
    BY <2>3, <2>5 DEF Goes, Typed
  <2> QED BY <1>1, <1>2, <2>1, <2>6 DEF ReadCaw, w, head
<1> QED BY <1>5, <1>6

LEMMA ReadRepliesEffect ==
  ASSUME Typed, NEW t \in Threads, ReadReplies(t)
  PROVE  /\ call[t].pc = "read_replies" /\ call[t].op = "Read"
         /\ call[t].queue \in Seq(Ids) /\ call[t].queue # <<>>
         /\ Head(call[t].queue) \in Ids
         /\ UNCHANGED <<mem, dur, issued, mishaps, calls>>
         /\ \E values \in Seq(Ids) :
              /\ values \in Gets(ReplyKey(Head(call[t].queue)))
              /\ "cut" \notin Faults => values = mem[ReplyKey(Head(call[t].queue))]
              /\ LET rest == Tail(call[t].queue) \o values IN
                   /\ rest \in Seq(Ids)
                   /\ Goes(t, IF rest = <<>> THEN Answer("OK") ELSE Continue("read_caw"))
                   /\ call'[t].id = call[t].id /\ call'[t].out = call[t].out
                   /\ call'[t].queue = rest
                   /\ known' = IF rest = <<>> THEN known \cup Range(call[t].out) ELSE known
<1> DEFINE key == ReplyKey(Head(call[t].queue))
<1>1. /\ call[t].pc = "read_replies" /\ call[t].op = "Read"
      /\ call[t].queue \in Seq(Ids) /\ call[t].queue # <<>>
      /\ call[t].out \in Seq(Ids)
  BY DEF ReadReplies, Typed, CallOK, CallRecord
<1>2. Head(call[t].queue) \in Ids /\ Tail(call[t].queue) \in Seq(Ids)
  BY <1>1
<1>3. key \in StoreKeys
  BY <1>2, KeysInStore
<1> DEFINE rest(values) == Tail(call[t].queue) \o values
           w(values) == IF rest(values) = <<>> THEN Answer("OK") ELSE Continue("read_caw")
<1>4. PICK values \in Gets(key) :
        /\ call' = [Leaves(t, w(values)) EXCEPT ![t].queue = rest(values)]
        /\ known' = IF rest(values) = <<>> THEN known \cup Range(call[t].out) ELSE known
  BY DEF ReadReplies, Enqueued
<1>5. values \in Seq(Ids) /\ ("cut" \notin Faults => values = mem[key])
  BY <1>2, <1>3, <1>4, GetsFacts DEF Typed, StoreOK
<1>6. rest(values) \in Seq(Ids)
  BY <1>2, <1>5
<1>7. w(values).pc \in PCs /\ w(values).status \in Statuses
  BY DEF Continue, Answer, PCs, Statuses
<1> HIDE DEF w, rest
<1> DEFINE c == call[t]
           d == [[[c EXCEPT !.pc = w(values).pc] EXCEPT !.status = w(values).status]
                   EXCEPT !.queue = rest(values)]
<1>8. c \in CallRecord
  BY DEF Typed
<1>9. call' = [call EXCEPT ![t] = d]
  BY <1>4 DEF Leaves, Typed
<1>10. /\ d \in CallRecord
       /\ d.pc = w(values).pc /\ d.status = w(values).status
       /\ d.op = c.op /\ d.a = c.a /\ d.b = c.b /\ d.id = c.id
       /\ d.queue = rest(values) /\ d.out = c.out /\ d.must = c.must
  BY <1>6, <1>7, <1>8 DEF CallRecord
<1> HIDE DEF d
<1>11. Goes(t, w(values)) /\ call'[t].id = call[t].id /\ call'[t].out = call[t].out
       /\ call'[t].queue = rest(values)
  BY <1>9, <1>10 DEF Goes, Typed
<1> QED BY <1>1, <1>2, <1>4, <1>5, <1>6, <1>11 DEF ReadReplies, w, rest

\* The call of t has failed, and its Put is on its way.
Outlives(t) ==
  /\ call[t].pc \in Putting /\ call[t].status = "NONE"
  /\ call[t].op \in {"RegisterUser", "Follow", "Caw"}
  /\ UNCHANGED <<mem, dur, issued, known, calls>>
  /\ mishaps' = mishaps \cup Fails(t)
  /\ Moves(t, [pc |-> call[t].pc, status |-> "UNAVAILABLE"])
  /\ call'[t].pc = call[t].pc /\ call'[t].status = "UNAVAILABLE"

LEMMA OutlivesEffect ==
  ASSUME Typed, NEW t \in Threads, PutOutlivesCall(t)
  PROVE  Outlives(t)
<1> DEFINE where == [pc |-> call[t].pc, status |-> "UNAVAILABLE"]
<1>1. call \in [Threads -> CallRecord] /\ CallOK(call[t])
  BY DEF Typed
<1>2. /\ call[t].pc \in Putting /\ call[t].status = "NONE"
      /\ UNCHANGED <<mem, dur, issued, known, calls>>
      /\ mishaps' = mishaps \cup Fails(t)
      /\ call' = Leaves(t, where)
  BY DEF PutOutlivesCall, Live
<1>3. call[t].op \in {"RegisterUser", "Follow", "Caw"}
  BY <1>1, <1>2 DEF CallOK, Putting
<1>4. where \in Where /\ where.pc = call[t].pc /\ where.status = "UNAVAILABLE"
  BY <1>2 DEF Where, PCs, Statuses, Putting
<1> HIDE DEF where
<1>5. Moves(t, where)
  BY <1>1, <1>2, <1>4, LeavesMoves
<1>6. call'[t].pc = call[t].pc /\ call'[t].status = "UNAVAILABLE"
  BY <1>4, <1>5 DEF Moves, Goes
<1> QED BY <1>2, <1>3, <1>5, <1>6 DEF Outlives, where

\* A step of a thread that leaves the stores, the ids and the counter alone.
LEMMA GoesTyped ==
  ASSUME Typed, NEW t \in Threads, NEW where, Goes(t, where), CallOK(call'[t]),
         UNCHANGED <<mem, dur, issued, calls>>, known' \subseteq Ids
  PROVE  Typed'
<1>1. \A s \in Threads : CallOK(call'[s])
  BY DEF Typed, Goes
<1>2. call' \in [Threads -> CallRecord]
  BY DEF Goes
<1> QED BY <1>1, <1>2 DEF Typed, StoreOK, Ahead

LEMMA EventTyped ==
  ASSUME Typed, NEW t \in Threads, Event(t)
  PROVE  Typed'
<1> DEFINE Musts == (SUBSET Ids) \cup ((SUBSET Users) \X (SUBSET Users))
<1>0. {} \in Musts /\ (\A u \in Users : u \in Args)
      /\ (\A p \in known \cup {NoCaw, BadId} : p \in Args /\ p \in Ids \cup {NoCaw, BadId})
  BY DEF Args, Typed
<1>1. ASSUME NEW u \in Users, RegisterUser(t, u) PROVE Typed'
  <2>1. /\ Begins(t, "RegisterUser", u, NoCaw, "register_check", {})
        /\ UNCHANGED <<mem, dur, issued, known>> /\ calls' \in 0..MaxCalls
    BY <1>0, <1>1, BeginEffect DEF RegisterUser, PCs
  <2> QED BY <2>1, BeginsTyped
<1>2. ASSUME NEW u \in Users, Profile(t, u) PROVE Typed'
  <2> DEFINE must == <<Range(dur[FollowingsKey(u)]), Range(dur[FollowersKey(u)])>>
  <2>1. must \in (SUBSET Users) \X (SUBSET Users)
    BY RangeFacts DEF Typed, StoreOK
  <2>2. /\ Begins(t, "Profile", u, NoCaw, "profile_user", must)
        /\ UNCHANGED <<mem, dur, issued, known>> /\ calls' \in 0..MaxCalls
    BY <1>0, <1>2, <2>1, BeginEffect DEF Profile, PCs
  <2> QED BY <2>1, <2>2, BeginsTyped
<1>3. ASSUME NEW u \in Users, NEW v \in Users, Follow(t, u, v) PROVE Typed'
  <2>1. /\ Begins(t, "Follow", u, v, "follow_user", {})
        /\ UNCHANGED <<mem, dur, issued, known>> /\ calls' \in 0..MaxCalls
    BY <1>0, <1>3, BeginEffect DEF Follow, PCs
  <2> QED BY <2>1, BeginsTyped
<1>4. ASSUME NEW u \in Users, NEW p \in known \cup {NoCaw, BadId}, Caw(t, u, p) PROVE Typed'
  <2>1. /\ Begins(t, "Caw", u, p, "caw_user", {})
        /\ UNCHANGED <<mem, dur, issued, known>> /\ calls' \in 0..MaxCalls
    BY <1>0, <1>4, BeginEffect DEF Caw, PCs
  <2> QED BY <1>0, <2>1, BeginsTyped
<1>5. ASSUME NEW id \in known \cup {BadId}, Read(t, id) PROVE Typed'
  <2>1. CawsBelow(dur, id) \in SUBSET Ids
    BY DEF CawsBelow
  <2>2. /\ Begins(t, "Read", id, NoCaw, "read_check", CawsBelow(dur, id))
        /\ UNCHANGED <<mem, dur, issued, known>> /\ calls' \in 0..MaxCalls
    BY <1>0, <1>5, <2>1, BeginEffect DEF Read, PCs
  <2> QED BY <1>0, <2>1, <2>2, BeginsTyped DEF Typed
<1> QED BY <1>1, <1>2, <1>3, <1>4, <1>5 DEF Event

LEMMA StepTyped ==
  ASSUME Typed, NEW t \in Threads, Step(t)
  PROVE  Typed'
<1> DEFINE a == call[t].a
           b == call[t].b
<1>0. CallOK(call[t])
  BY DEF Typed
<1>w. \A s \in {"OK", "NOT_FOUND", "ALREADY_EXISTS", "UNAVAILABLE"} :
        Answer(s) \in Where /\ Fitting(t, Answer(s))
  BY WheresTyped DEF Fitting, Answer, Statuses
<1>c. \A pc \in PCs \ {"done"} : Continue(pc) \in Where
  BY WheresTyped
<1>1. CASE RegisterCheck(t)
  <2>1. call[t].op = "RegisterUser" /\ a \in Users
    BY <1>0, <1>1 DEF RegisterCheck, Check, CallOK
  <2>2. Fitting(t, Continue("register_put"))
    BY <2>1 DEF Fitting, Continue
  <2> QED BY <1>1, <1>w, <1>c, <2>1, <2>2, CheckTyped, KeysInStore DEF RegisterCheck, PCs
<1>2. CASE RegisterPut(t)
  <2>1. a \in Users
    BY <1>0, <1>2 DEF RegisterPut, Store, CallOK
  <2> QED BY <1>2, <1>w, <2>1, StoreTyped, KeysInStore, UserPutsFit DEF RegisterPut, PCs
<1>3. CASE FollowCheckUser(t) \/ FollowCheckOther(t) \/ FollowCheckPair(t)
  <2>1. call[t].op = "Follow" /\ a \in Users /\ b \in Users
    BY <1>0, <1>3 DEF FollowCheckUser, FollowCheckOther, FollowCheckPair, Check, CallOK
  <2>2. /\ Fitting(t, Continue("follow_other")) /\ Fitting(t, Continue("follow_pair"))
        /\ Fitting(t, Continue("follow_put_pair"))
    BY <2>1 DEF Fitting, Continue
  <2>3. CASE FollowCheckUser(t)
    BY <2>3, <1>w, <1>c, <2>1, <2>2, CheckTyped, KeysInStore DEF FollowCheckUser, PCs
  <2>4. CASE FollowCheckOther(t)
    BY <2>4, <1>w, <1>c, <2>1, <2>2, CheckTyped, KeysInStore DEF FollowCheckOther, PCs
  <2>5. CASE FollowCheckPair(t)
    BY <2>5, <1>w, <1>c, <2>1, <2>2, CheckTyped, KeysInStore DEF FollowCheckPair, PCs
  <2> QED BY <1>3, <2>3, <2>4, <2>5
<1>4. CASE FollowPutPair(t) \/ FollowPutFollowing(t) \/ FollowPutFollower(t)
  <2>1. call[t].op = "Follow" /\ a \in Users /\ b \in Users
    BY <1>0, <1>4 DEF FollowPutPair, FollowPutFollowing, FollowPutFollower, Store, CallOK
  <2>2. /\ Fitting(t, Continue("follow_put_following"))
        /\ Fitting(t, Continue("follow_put_follower"))
    BY <2>1 DEF Fitting, Continue
  <2>3. CASE FollowPutPair(t)
    BY <2>3, <1>c, <2>1, <2>2, StoreTyped, KeysInStore, UserPutsFit DEF FollowPutPair, PCs
  <2>4. CASE FollowPutFollowing(t)
    BY <2>4, <1>c, <2>1, <2>2, StoreTyped, KeysInStore, UserPutsFit
       DEF FollowPutFollowing, PCs
  <2>5. CASE FollowPutFollower(t)
    BY <2>5, <1>w, <2>1, <2>2, StoreTyped, KeysInStore, UserPutsFit
       DEF FollowPutFollower, PCs
  <2> QED BY <1>4, <2>3, <2>4, <2>5
<1>5. CASE ProfileCheckUser(t)
  <2>1. call[t].op = "Profile" /\ a \in Users
    BY <1>0, <1>5 DEF ProfileCheckUser, Check, CallOK
  <2>2. Fitting(t, Continue("profile_followings"))
    BY <2>1 DEF Fitting, Continue
  <2> QED BY <1>5, <1>w, <1>c, <2>1, <2>2, CheckTyped, KeysInStore DEF ProfileCheckUser, PCs
<1>6. CASE ProfileGetFollowings(t)
  <2>1. a \in Users
    BY <1>0, <1>6 DEF ProfileGetFollowings, ProfileGet, CallOK
  <2>2. FollowingsKey(a) \in StoreKeys /\ mem[FollowingsKey(a)] \in Seq(Users)
    BY <2>1, KeysInStore DEF Typed, StoreOK
  <2> QED BY <1>6, <1>c, <2>2, ProfileGetTyped DEF ProfileGetFollowings, PCs
<1>7. CASE ProfileGetFollowers(t)
  <2>1. a \in Users
    BY <1>0, <1>7 DEF ProfileGetFollowers, ProfileGet, CallOK
  <2>2. FollowersKey(a) \in StoreKeys /\ mem[FollowersKey(a)] \in Seq(Users)
    BY <2>1, KeysInStore DEF Typed, StoreOK
  <2> QED BY <1>7, <1>w, <2>2, ProfileGetTyped DEF ProfileGetFollowers
<1>8. CASE CawCheckUser(t)
  <2>1. call[t].op = "Caw" /\ a \in Users
    BY <1>0, <1>8 DEF CawCheckUser, Check, CallOK
  <2>2. Fitting(t, Continue(IF b = NoCaw THEN "caw_put" ELSE "caw_parent"))
    BY <2>1, NoCawAssumption DEF Fitting, Continue
  <2>3. Continue(IF b = NoCaw THEN "caw_put" ELSE "caw_parent") \in Where
    BY <1>c DEF PCs
  <2> QED BY <1>8, <1>w, <2>1, <2>2, <2>3, CheckTyped, KeysInStore DEF CawCheckUser, PCs
<1>9. CASE CawCheckParent(t)
  <2>1. b \in Ids \cup {BadId} /\ call[t].op = "Caw"
    BY <1>0, <1>9 DEF CawCheckParent, Check, CallOK
  <2>2. CawKey(b) \in StoreKeys
    BY <2>1, KeysInStore
  <2>3. mem[CawKey(b)] # <<>> => Fitting(t, Continue("caw_put"))
    BY <2>1 DEF Fitting, Continue, Typed, StoreOK
  <2> QED BY <1>9, <1>w, <1>c, <2>2, <2>3, CheckTyped DEF CawCheckParent, PCs
<1>10. CASE CawPut(t)
  <2>1. /\ call[t].pc = "caw_put" /\ call[t].op = "Caw"
        /\ b \in Ids \cup {NoCaw} /\ calls' = calls
    BY <1>10, CawPutEffect
  <2>2. PICK id \in Ids, ok \in BOOLEAN :
          /\ issued' \in [Ids -> 0..2]
          /\ Fits(CawKey(id), [user |-> a, parent |-> b])
          /\ Adds(CawKey(id), [user |-> a, parent |-> b], ok)
          /\ Goes(t, AfterPut(ok, IF b = NoCaw THEN Answer("OK")
                                  ELSE Continue("caw_put_reply")))
          /\ call'[t].id = id
          /\ call'[t].queue = call[t].queue /\ call'[t].out = call[t].out
          /\ known' = IF ok /\ b = NoCaw THEN known \cup {id} ELSE known
    BY <1>10, CawPutEffect
  <2>3. StoreOK(mem') /\ StoreOK(dur') /\ Ahead'
    BY <2>2, AddsStoreOK, KeysInStore DEF Typed
  <2>4. \/ call'[t].pc = "done" /\ call'[t].status # "NONE"
        \/ call'[t].pc = "caw_put_reply" /\ call'[t].status = "NONE" /\ b # NoCaw
    BY <2>2 DEF Goes, AfterPut, Answer, Continue
  <2>5. CallOK(call'[t])
    BY <1>0, <2>1, <2>2, <2>4 DEF CallOK, Goes
  <2>6. \A s \in Threads : CallOK(call'[s])
    BY <2>2, <2>5 DEF Typed, Goes
  <2> QED BY <2>1, <2>2, <2>3, <2>6 DEF Typed, Goes
<1>11. CASE CawPutReply(t)
  <2>1. /\ call[t].pc = "caw_put_reply" /\ call[t].op = "Caw"
        /\ b \in Ids /\ call[t].id \in Ids
        /\ UNCHANGED <<issued, mishaps, calls>>
        /\ Fits(ReplyKey(b), call[t].id)
    BY <1>11, CawPutReplyEffect
  <2>2. PICK ok \in BOOLEAN :
          /\ Adds(ReplyKey(b), call[t].id, ok)
          /\ Moves(t, AfterPut(ok, Answer("OK")))
          /\ known' = IF ok THEN known \cup {call[t].id} ELSE known
    BY <1>11, CawPutReplyEffect
  <2>3. StoreOK(mem') /\ StoreOK(dur') /\ Ahead'
    BY <2>1, <2>2, AddsStoreOK, KeysInStore DEF Typed
  <2>4. Fitting(t, AfterPut(ok, Answer("OK")))
    BY <1>w DEF AfterPut
  <2>5. \A s \in Threads : CallOK(call'[s])
    BY <2>1, <2>2, <2>4, MovesCallOK
  <2> QED BY <2>1, <2>2, <2>3, <2>5 DEF Typed, Goes, Moves
<1>12. CASE ReadCheck(t)
  <2>1. /\ call[t].pc = "read_check" /\ call[t].op = "Read"
        /\ UNCHANGED <<mem, dur, issued, known, mishaps, calls>>
    BY <1>12, ReadCheckEffect
  <2>2. CASE Moves(t, Answer("NOT_FOUND"))
    BY <1>0, <2>1, <2>2, GoesTyped DEF CallOK, Moves, Goes, Answer, Typed
  <2>3. CASE /\ Goes(t, Continue("read_caw"))
             /\ call'[t].out = call[t].out /\ call'[t].queue = <<a>>
    <3>1. call'[t].queue # <<>>
      BY <2>3
    <3>2. CallOK(call'[t])
      BY <1>0, <2>1, <2>3, <3>1 DEF CallOK, Goes, Continue
    <3> QED BY <2>1, <2>3, <3>2, GoesTyped DEF Typed
  <2> QED BY <1>12, <2>2, <2>3, ReadCheckEffect
<1>13. CASE ReadCaw(t)
  <2>1. /\ call[t].pc = "read_caw" /\ call[t].op = "Read"
        /\ call[t].queue # <<>> /\ Head(call[t].queue) \in Ids
        /\ UNCHANGED <<mem, dur, issued, known, mishaps, calls>>
    BY <1>13, ReadCawEffect
  <2>2. CASE Moves(t, Answer("UNAVAILABLE"))
    BY <1>0, <2>1, <2>2, GoesTyped DEF CallOK, Moves, Goes, Answer, Typed
  <2>3. CASE /\ Goes(t, Continue("read_replies"))
             /\ call'[t].queue = call[t].queue
             /\ call'[t].out = Append(call[t].out, Head(call[t].queue))
    <3>1. call'[t].out \in Seq(Ids)
      BY <1>0, <2>1, <2>3, AppendFacts DEF CallOK
    <3>2. CallOK(call'[t])
      BY <1>0, <2>1, <2>3, <3>1 DEF CallOK, Goes, Continue
    <3> QED BY <2>1, <2>3, <3>2, GoesTyped DEF Typed
  <2> QED BY <1>13, <2>2, <2>3, ReadCawEffect
<1>14. CASE ReadReplies(t)
  <2>1. /\ call[t].pc = "read_replies" /\ call[t].op = "Read"
        /\ UNCHANGED <<mem, dur, issued, mishaps, calls>>
    BY <1>14, ReadRepliesEffect
  <2>2. PICK rest \in Seq(Ids) :
          /\ Goes(t, IF rest = <<>> THEN Answer("OK") ELSE Continue("read_caw"))
          /\ call'[t].out = call[t].out /\ call'[t].queue = rest
          /\ known' = IF rest = <<>> THEN known \cup Range(call[t].out) ELSE known
    BY <1>14, ReadRepliesEffect
  <2>3. CallOK(call'[t])
    BY <1>0, <2>1, <2>2 DEF CallOK, Goes, Continue, Answer
  <2>4. known' \subseteq Ids
    BY <1>0, <2>1, <2>2, RangeFacts DEF Typed, CallOK
  <2> QED BY <2>1, <2>2, <2>3, <2>4, GoesTyped
<1>15. CASE PutOutlivesCall(t)
  <2>1. Outlives(t)
    BY <1>15, OutlivesEffect
  <2>2. CallOK(call'[t])
    BY <1>0, <2>1 DEF CallOK, Outlives, Moves, Goes, Putting
  <2> QED BY <2>1, <2>2, GoesTyped DEF Outlives, Moves, Typed
<1> QED BY <1>1, <1>2, <1>3, <1>4, <1>5, <1>6, <1>7, <1>8, <1>9, <1>10, <1>11, <1>12,
           <1>13, <1>14, <1>15 DEF Step

LEMMA RestartTyped ==
  ASSUME Typed, KvRestart \/ FazCrash \/ UNCHANGED vars
  PROVE  Typed'
<1>1. CASE KvRestart
  <2>1. mem' = dur /\ UNCHANGED <<dur, call, issued, known, mishaps, calls>>
    BY <1>1 DEF KvRestart
  <2>2. Ahead'
    <3>1. \A k \in StoreKeys : Len(dur[k]) \in Nat
      BY DEF Typed, StoreOK
    <3> QED BY <2>1, <3>1 DEF Ahead
  <2> QED BY <2>1, <2>2 DEF Typed, StoreOK
<1>2. CASE FazCrash
  <2>1. /\ call' = [t \in Threads |-> IF Live(t) THEN Died(call[t]) ELSE call[t]]
        /\ UNCHANGED <<mem, dur, issued, known, calls>>
    BY <1>2 DEF FazCrash, FazDies
  <2>2. ASSUME NEW t \in Threads
        PROVE  call'[t] \in CallRecord /\ CallOK(call'[t])
    <3>1. call[t] \in CallRecord /\ CallOK(call[t])
      BY DEF Typed
    <3>2. CASE ~Live(t)
      BY <2>1, <3>1, <3>2
    <3>3. CASE Live(t)
      <4> DEFINE c == call[t]
                 d == [[c EXCEPT !.pc = "done"] EXCEPT !.status = "DIED"]
      <4>1. /\ d \in CallRecord
            /\ d.pc = "done" /\ d.status = "DIED"
            /\ d.op = c.op /\ d.a = c.a /\ d.b = c.b /\ d.id = c.id
            /\ d.queue = c.queue /\ d.out = c.out /\ d.must = c.must
        BY <3>1 DEF CallRecord, PCs, Statuses
      <4>2. call'[t] = d
        BY <2>1, <3>3 DEF Died
      <4> HIDE DEF d
      <4> QED BY <3>1, <3>3, <4>1, <4>2 DEF CallOK, Live, Done
    <3> QED BY <3>2, <3>3
  <2>3. call' \in [Threads -> CallRecord]
    BY <2>1, <2>2
  <2> QED BY <2>1, <2>2, <2>3 DEF Typed, StoreOK, Ahead
<1>3. CASE UNCHANGED vars
  BY <1>3 DEF vars, Typed, StoreOK, Ahead
<1> QED BY <1>1, <1>2, <1>3

LEMMA NextTyped == Typed /\ [Next]_vars => Typed'
BY EventTyped, StepTyped, RestartTyped DEF Next

-----------------------------------------------------------------------------
(* What a step leaves alone.                                               *)

\* The steps of the calls that are about users, and of those that are about caws.
UserStep(t) ==
  \/ RegisterCheck(t) \/ RegisterPut(t)
  \/ FollowCheckUser(t) \/ FollowCheckOther(t) \/ FollowCheckPair(t)
  \/ FollowPutPair(t) \/ FollowPutFollowing(t) \/ FollowPutFollower(t)
  \/ ProfileCheckUser(t) \/ ProfileGetFollowings(t) \/ ProfileGetFollowers(t)

CawStep(t) ==
  \/ CawCheckUser(t) \/ CawCheckParent(t) \/ CawPut(t) \/ CawPutReply(t)
  \/ ReadCheck(t) \/ ReadCaw(t) \/ ReadReplies(t)

UserOps == {"RegisterUser", "Follow", "Profile"}

IsUserKey(key) ==
  \/ \E u \in Users : key \in {UserKey(u), FollowingsKey(u), FollowersKey(u)}
  \/ \E u, v \in Users : key = PairKey(u, v)

IsCawKey(key) == \E id \in Ids : key \in {CawKey(id), ReplyKey(id)}

LEMMA KeyKinds ==
  /\ \A key : ~(IsUserKey(key) /\ IsCawKey(key))
  /\ \A key : IsUserKey(key) \/ IsCawKey(key) => key \in StoreKeys
BY KeysDiffer, KeysInStore DEF IsUserKey, IsCawKey

\* A thread goes on with a call about users.
UserMove(t) ==
  /\ call[t].op \in UserOps /\ call[t].pc # "done"
  /\ \E where : Goes(t, where)
  /\ call'[t].id = call[t].id /\ call'[t].queue = call[t].queue
  /\ UNCHANGED <<issued, known, calls>>
  /\ \/ UNCHANGED <<mem, dur>>
     \/ \E key, value, ok : IsUserKey(key) /\ Adds(key, value, ok)

LEMMA UserStepEffect ==
  ASSUME Typed, NEW t \in Threads, UserStep(t)
  PROVE  UserMove(t)
<1> DEFINE a == call[t].a
           b == call[t].b
<1>0. CallOK(call[t])
  BY DEF Typed
<1>w. /\ \A s \in {"OK", "NOT_FOUND", "ALREADY_EXISTS", "UNAVAILABLE"} : Answer(s) \in Where
      /\ \A pc \in PCs : Continue(pc) \in Where
      /\ "" \in Entries /\ \A u \in Users : u \in Entries
  BY WheresTyped DEF Statuses, Entries
<1>c. ASSUME NEW pc \in PCs \ {"done"}, NEW key \in StoreKeys, NEW ifNone \in Where,
             NEW ifSome \in Where, Check(t, pc, key, ifNone, ifSome),
             call[t].op \in UserOps
      PROVE  UserMove(t)
  BY <1>c, CheckEffect DEF Moves, UserMove
<1>s. ASSUME NEW pc \in PCs \ {"done"}, NEW key, IsUserKey(key), NEW value \in Entries,
             NEW then \in Where, Store(t, pc, key, value, then), call[t].op \in UserOps
      PROVE  UserMove(t)
  <2>1. key \in StoreKeys
    BY <1>s, KeyKinds
  <2>2. PICK ok \in BOOLEAN : Adds(key, value, ok) /\ Moves(t, AfterPut(ok, then))
    BY <1>s, <2>1, StoreEffect
  <2>3. call[t].pc = pc /\ UNCHANGED <<issued, known, calls>>
    BY <1>s, <2>1, StoreEffect
  <2> QED BY <1>s, <2>2, <2>3 DEF Moves, UserMove
<1>g. ASSUME NEW pc \in {"profile_followings", "profile_followers"},
             NEW key \in StoreKeys, mem[key] \in Seq(Users), NEW then \in Where,
             ProfileGet(t, pc, key, then), call[t].op \in UserOps
      PROVE  UserMove(t)
  <2>1. /\ call[t].pc = pc
        /\ UNCHANGED <<mem, dur, issued, known, mishaps, calls>>
        /\ Goes(t, then)
        /\ call'[t].id = call[t].id /\ call'[t].queue = call[t].queue
    BY <1>g, ProfileGetEffect
  <2> QED BY <1>g, <2>1 DEF UserMove
<1>1. CASE RegisterCheck(t)
  <2>1. call[t].op \in UserOps /\ a \in Users
    BY <1>0, <1>1 DEF RegisterCheck, Check, CallOK, UserOps
  <2> QED BY <1>1, <1>c, <1>w, <2>1, KeysInStore DEF RegisterCheck, PCs
<1>2. CASE RegisterPut(t)
  <2>1. call[t].op \in UserOps /\ a \in Users
    BY <1>0, <1>2 DEF RegisterPut, Store, CallOK, UserOps
  <2>2. IsUserKey(UserKey(a))
    BY <2>1 DEF IsUserKey
  <2> QED BY <1>2, <1>s, <1>w, <2>1, <2>2 DEF RegisterPut, PCs
<1>3. CASE FollowCheckUser(t) \/ FollowCheckOther(t) \/ FollowCheckPair(t)
  <2>1. call[t].op \in UserOps /\ a \in Users /\ b \in Users
    BY <1>0, <1>3 DEF FollowCheckUser, FollowCheckOther, FollowCheckPair, Check, CallOK,
                      UserOps
  <2>2. CASE FollowCheckUser(t)
    BY <2>2, <1>c, <1>w, <2>1, KeysInStore DEF FollowCheckUser, PCs
  <2>3. CASE FollowCheckOther(t)
    BY <2>3, <1>c, <1>w, <2>1, KeysInStore DEF FollowCheckOther, PCs
  <2>4. CASE FollowCheckPair(t)
    BY <2>4, <1>c, <1>w, <2>1, KeysInStore DEF FollowCheckPair, PCs
  <2> QED BY <1>3, <2>2, <2>3, <2>4
<1>4. CASE FollowPutPair(t) \/ FollowPutFollowing(t) \/ FollowPutFollower(t)
  <2>1. call[t].op \in UserOps /\ a \in Users /\ b \in Users
    BY <1>0, <1>4 DEF FollowPutPair, FollowPutFollowing, FollowPutFollower, Store, CallOK,
                      UserOps
  <2>2. IsUserKey(PairKey(a, b)) /\ IsUserKey(FollowingsKey(a)) /\ IsUserKey(FollowersKey(b))
    BY <2>1 DEF IsUserKey
  <2>3. CASE FollowPutPair(t)
    BY <2>3, <1>s, <1>w, <2>1, <2>2 DEF FollowPutPair, PCs
  <2>4. CASE FollowPutFollowing(t)
    BY <2>4, <1>s, <1>w, <2>1, <2>2 DEF FollowPutFollowing, PCs
  <2>5. CASE FollowPutFollower(t)
    BY <2>5, <1>s, <1>w, <2>1, <2>2 DEF FollowPutFollower, PCs
  <2> QED BY <1>4, <2>3, <2>4, <2>5
<1>5. CASE ProfileCheckUser(t)
  <2>1. call[t].op \in UserOps /\ a \in Users
    BY <1>0, <1>5 DEF ProfileCheckUser, Check, CallOK, UserOps
  <2> QED BY <1>5, <1>c, <1>w, <2>1, KeysInStore DEF ProfileCheckUser, PCs
<1>6. CASE ProfileGetFollowings(t) \/ ProfileGetFollowers(t)
  <2>1. call[t].op \in UserOps /\ a \in Users
    BY <1>0, <1>6 DEF ProfileGetFollowings, ProfileGetFollowers, ProfileGet, CallOK, UserOps
  <2>2. /\ FollowingsKey(a) \in StoreKeys /\ mem[FollowingsKey(a)] \in Seq(Users)
        /\ FollowersKey(a) \in StoreKeys /\ mem[FollowersKey(a)] \in Seq(Users)
    BY <2>1, KeysInStore DEF Typed, StoreOK
  <2>3. CASE ProfileGetFollowings(t)
    BY <2>3, <1>g, <1>w, <2>1, <2>2 DEF ProfileGetFollowings, PCs
  <2>4. CASE ProfileGetFollowers(t)
    BY <2>4, <1>g, <1>w, <2>1, <2>2 DEF ProfileGetFollowers
  <2> QED BY <1>6, <2>3, <2>4
<1> QED BY <1>1, <1>2, <1>3, <1>4, <1>5, <1>6 DEF UserStep

LEMMA CawCheckEffect ==
  ASSUME Typed, NEW t \in Threads, CawCheckUser(t) \/ CawCheckParent(t)
  PROVE  /\ call[t].op = "Caw" /\ call[t].pc \in {"caw_user", "caw_parent"}
         /\ UNCHANGED <<mem, dur, issued, known, mishaps, calls>>
         /\ \E where : /\ Moves(t, where)
                       /\ where.pc \in {"done", "caw_put", "caw_parent"}
                       /\ where.status \in {"NONE", "NOT_FOUND"}
<1>0. call[t].op = "Caw" => Blinds(t) = {}
  BY DEF Blinds, Notes
<1>1. CASE CawCheckUser(t)
  <2>1. call[t].op = "Caw" /\ call[t].a \in Users /\ call[t].pc = "caw_user"
    BY <1>1 DEF CawCheckUser, Check, Typed, CallOK
  <2>2. /\ Continue(IF call[t].b = NoCaw THEN "caw_put" ELSE "caw_parent") \in Where
        /\ Answer("NOT_FOUND") \in Where
    BY WheresTyped DEF PCs, Statuses
  <2>3. /\ UNCHANGED <<mem, dur, issued, known, calls>>
        /\ mishaps' = mishaps \/ mishaps' = mishaps \cup Blinds(t)
        /\ \/ Moves(t, Answer("NOT_FOUND"))
           \/ Moves(t, Continue(IF call[t].b = NoCaw THEN "caw_put" ELSE "caw_parent"))
    BY <1>1, <2>1, <2>2, CheckEffect, KeysInStore DEF CawCheckUser, PCs
  <2> QED BY <1>0, <2>1, <2>3 DEF Answer, Continue
<1>2. CASE CawCheckParent(t)
  <2>1. /\ call[t].op = "Caw" /\ call[t].b \in Ids \cup {BadId}
        /\ call[t].pc = "caw_parent"
    BY <1>2 DEF CawCheckParent, Check, Typed, CallOK
  <2>2. Continue("caw_put") \in Where /\ Answer("NOT_FOUND") \in Where
    BY WheresTyped DEF PCs, Statuses
  <2>3. CawKey(call[t].b) \in StoreKeys
    BY <2>1, KeysInStore
  <2>4. /\ UNCHANGED <<mem, dur, issued, known, calls>>
        /\ mishaps' = mishaps \/ mishaps' = mishaps \cup Blinds(t)
        /\ Moves(t, Answer("NOT_FOUND")) \/ Moves(t, Continue("caw_put"))
    BY <1>2, <2>2, <2>3, CheckEffect DEF CawCheckParent, PCs
  <2> QED BY <1>0, <2>1, <2>4 DEF Answer, Continue
<1> QED BY <1>1, <1>2

\* A Put, Get or answer that keeps the stores, but for one entry at the end of a list.
LEMMA CawStepEffect ==
  ASSUME Typed, NEW t \in Threads, CawStep(t)
  PROVE  /\ call[t].op \in {"Caw", "Read"} /\ call[t].pc # "done"
         /\ \E where : Goes(t, where)
         /\ UNCHANGED <<mishaps, calls>>
         /\ \/ UNCHANGED <<mem, dur>>
            \/ \E key, value, ok : IsCawKey(key) /\ Adds(key, value, ok)
<1>1. CASE CawCheckUser(t) \/ CawCheckParent(t)
  <2>1. call[t].op = "Caw" /\ call[t].pc \in {"caw_user", "caw_parent"}
        /\ UNCHANGED <<mem, dur, mishaps, calls>> /\ \E where : Moves(t, where)
    BY <1>1, CawCheckEffect
  <2> QED BY <2>1 DEF Moves
<1>3. CASE CawPut(t)
  <2>1. PICK id \in Ids, ok \in BOOLEAN :
          /\ Adds(CawKey(id), [user |-> call[t].a, parent |-> call[t].b], ok)
          /\ Goes(t, AfterPut(ok, IF call[t].b = NoCaw THEN Answer("OK")
                                  ELSE Continue("caw_put_reply")))
    BY <1>3, CawPutEffect
  <2>2. IsCawKey(CawKey(id))
    BY DEF IsCawKey
  <2>3. call[t].pc = "caw_put" /\ call[t].op = "Caw" /\ UNCHANGED <<mishaps, calls>>
    BY <1>3, CawPutEffect
  <2> QED BY <2>1, <2>2, <2>3
<1>4. CASE CawPutReply(t)
  <2>1. PICK ok \in BOOLEAN : /\ Adds(ReplyKey(call[t].b), call[t].id, ok)
                              /\ Moves(t, AfterPut(ok, Answer("OK")))
    BY <1>4, CawPutReplyEffect
  <2>2. /\ call[t].pc = "caw_put_reply" /\ call[t].op = "Caw" /\ call[t].b \in Ids
        /\ UNCHANGED <<mishaps, calls>>
    BY <1>4, CawPutReplyEffect
  <2>3. IsCawKey(ReplyKey(call[t].b))
    BY <2>2 DEF IsCawKey
  <2> QED BY <2>1, <2>2, <2>3 DEF Moves
<1>5. CASE ReadCheck(t)
  BY <1>5, ReadCheckEffect DEF Moves
<1>6. CASE ReadCaw(t)
  BY <1>6, ReadCawEffect DEF Moves
<1>7. CASE ReadReplies(t)
  BY <1>7, ReadRepliesEffect
<1> QED BY <1>1, <1>3, <1>4, <1>5, <1>6, <1>7 DEF CawStep

LEMMA EventEffect ==
  ASSUME Typed, NEW t \in Threads, Event(t)
  PROVE  /\ UNCHANGED <<mem, dur, issued, known>>
         /\ \/ \E u \in Users :
                 \/ Begins(t, "RegisterUser", u, NoCaw, "register_check", {})
                 \/ Begins(t, "Profile", u, NoCaw, "profile_user",
                           <<Range(dur[FollowingsKey(u)]), Range(dur[FollowersKey(u)])>>)
                 \/ \E v \in Users : Begins(t, "Follow", u, v, "follow_user", {})
                 \/ \E p \in known \cup {NoCaw, BadId} :
                      Begins(t, "Caw", u, p, "caw_user", {})
            \/ \E id \in known \cup {BadId} :
                 Begins(t, "Read", id, NoCaw, "read_check", CawsBelow(dur, id))
<1> DEFINE Musts == (SUBSET Ids) \cup ((SUBSET Users) \X (SUBSET Users))
<1>0. {} \in Musts /\ (\A u \in Users : u \in Args)
      /\ (\A p \in known \cup {NoCaw, BadId} : p \in Args)
  BY DEF Args, Typed
<1>1. ASSUME NEW u \in Users, RegisterUser(t, u)
      PROVE  /\ UNCHANGED <<mem, dur, issued, known>>
             /\ Begins(t, "RegisterUser", u, NoCaw, "register_check", {})
  BY <1>0, <1>1, BeginEffect DEF RegisterUser, PCs
<1>2. ASSUME NEW u \in Users, Profile(t, u)
      PROVE  /\ UNCHANGED <<mem, dur, issued, known>>
             /\ Begins(t, "Profile", u, NoCaw, "profile_user",
                       <<Range(dur[FollowingsKey(u)]), Range(dur[FollowersKey(u)])>>)
  <2> DEFINE must == <<Range(dur[FollowingsKey(u)]), Range(dur[FollowersKey(u)])>>
  <2>1. must \in (SUBSET Users) \X (SUBSET Users)
    BY RangeFacts DEF Typed, StoreOK
  <2> QED BY <1>0, <1>2, <2>1, BeginEffect DEF Profile, PCs
<1>3. ASSUME NEW u \in Users, NEW v \in Users, Follow(t, u, v)
      PROVE  /\ UNCHANGED <<mem, dur, issued, known>>
             /\ Begins(t, "Follow", u, v, "follow_user", {})
  BY <1>0, <1>3, BeginEffect DEF Follow, PCs
<1>4. ASSUME NEW u \in Users, NEW p \in known \cup {NoCaw, BadId}, Caw(t, u, p)
      PROVE  /\ UNCHANGED <<mem, dur, issued, known>>
             /\ Begins(t, "Caw", u, p, "caw_user", {})
  BY <1>0, <1>4, BeginEffect DEF Caw, PCs
<1>5. ASSUME NEW id \in known \cup {BadId}, Read(t, id)
      PROVE  /\ UNCHANGED <<mem, dur, issued, known>>
             /\ Begins(t, "Read", id, NoCaw, "read_check", CawsBelow(dur, id))
  <2>1. CawsBelow(dur, id) \in SUBSET Ids
    BY DEF CawsBelow
  <2> QED BY <1>0, <1>5, <2>1, BeginEffect DEF Read, PCs
<1> QED BY <1>1, <1>2, <1>3, <1>4, <1>5 DEF Event

LEMMA FazCrashEffect ==
  ASSUME Typed, FazCrash
  PROVE  /\ UNCHANGED <<mem, dur, issued, known, calls>>
         /\ call' \in [Threads -> CallRecord]
         /\ \A t \in Threads :
              IF ~Live(t) THEN call'[t] = call[t]
              ELSE /\ call'[t].pc = "done" /\ call'[t].status = "DIED"
                   /\ call'[t].op = call[t].op /\ call'[t].a = call[t].a
                   /\ call'[t].b = call[t].b /\ call'[t].id = call[t].id
                   /\ call'[t].queue = call[t].queue /\ call'[t].out = call[t].out
                   /\ call'[t].must = call[t].must
<1>1. /\ call' = [t \in Threads |-> IF Live(t) THEN Died(call[t]) ELSE call[t]]
      /\ UNCHANGED <<mem, dur, issued, known, calls>>
  BY DEF FazCrash, FazDies
<1>2. ASSUME NEW t \in Threads, Live(t)
      PROVE  /\ call'[t].pc = "done" /\ call'[t].status = "DIED"
             /\ call'[t].op = call[t].op /\ call'[t].a = call[t].a
             /\ call'[t].b = call[t].b /\ call'[t].id = call[t].id
             /\ call'[t].queue = call[t].queue /\ call'[t].out = call[t].out
             /\ call'[t].must = call[t].must
  <2> DEFINE c == call[t]
             d == [[c EXCEPT !.pc = "done"] EXCEPT !.status = "DIED"]
  <2>1. call[t] \in CallRecord
    BY DEF Typed
  <2>2. /\ d.pc = "done" /\ d.status = "DIED"
        /\ d.op = c.op /\ d.a = c.a /\ d.b = c.b /\ d.id = c.id
        /\ d.queue = c.queue /\ d.out = c.out /\ d.must = c.must
    BY <2>1 DEF CallRecord
  <2>3. call'[t] = d
    BY <1>1, <1>2 DEF Died
  <2> HIDE DEF d
  <2> QED BY <2>2, <2>3
<1>3. call' \in [Threads -> CallRecord]
  BY NextTyped DEF Next, Typed
<1> QED BY <1>1, <1>2, <1>3

\* The log only grows: it keeps what it has, where it is.
Grows ==
  \A k \in StoreKeys : /\ Len(dur[k]) <= Len(dur'[k])
                       /\ Range(dur[k]) \subseteq Range(dur'[k])
                       /\ \A i \in 1..Len(dur[k]) : dur'[k][i] = dur[k][i]

LEMMA AddsGrows ==
  ASSUME Typed, NEW key \in StoreKeys, NEW value, NEW ok, Adds(key, value, ok)
  PROVE  Grows
<1>1. SUFFICES ASSUME NEW k \in StoreKeys
               PROVE  /\ Len(dur[k]) <= Len(dur'[k])
                      /\ Range(dur[k]) \subseteq Range(dur'[k])
                      /\ \A i \in 1..Len(dur[k]) : dur'[k][i] = dur[k][i]
  BY DEF Grows
<1>2. dur[k] \in Seq(Entries) /\ Len(dur[k]) \in Nat
  BY DEF Typed, StoreOK
<1>3. CASE dur'[k] = dur[k]
  BY <1>2, <1>3
<1>4. CASE dur'[k] = Append(dur[k], value)
  <2>1. dur[k] \in Seq(Entries \cup {value})
    BY <1>2
  <2> QED BY <2>1, <1>4, AppendFacts
<1> QED BY <1>3, <1>4 DEF Adds

LEMMA NextGrows == Typed /\ [Next]_vars => Grows
<1> SUFFICES ASSUME Typed, [Next]_vars PROVE Grows
  OBVIOUS
<1>1. ASSUME dur' = dur PROVE Grows
  <2>1. \A k \in StoreKeys : Len(dur[k]) \in Nat
    BY DEF Typed, StoreOK
  <2> QED BY <1>1, <2>1 DEF Grows
<1>2. ASSUME NEW t \in Threads, Event(t) PROVE Grows
  BY <1>1, <1>2, EventEffect
<1>3. ASSUME NEW t \in Threads, Step(t) PROVE Grows
  <2>1. \/ UNCHANGED <<mem, dur>>
        \/ \E key, value, ok : (IsUserKey(key) \/ IsCawKey(key)) /\ Adds(key, value, ok)
    BY <1>3, UserStepEffect, CawStepEffect, OutlivesEffect
       DEF Step, UserStep, CawStep, UserMove, Outlives
  <2> QED BY <1>1, <2>1, KeyKinds, AddsGrows
<1>4. CASE KvRestart \/ FazCrash \/ UNCHANGED vars
  BY <1>1, <1>4 DEF KvRestart, FazCrash, FazDies, vars
<1> QED BY <1>2, <1>3, <1>4 DEF Next

-----------------------------------------------------------------------------
(* Caws in the store: what clients, reads and replies name is stored.      *)

Stored(id) == dur[CawKey(id)] # <<>>

\* The parent of a caw that is about to be listed as a reply is the one listed.
StoredUnder(id, p) == \E c \in Range(dur[CawKey(id)]) : c.parent = p

CallStored(t) ==
  /\ call[t].op = "Read" =>
       /\ call[t].a \in known \cup {BadId}
       /\ \A id \in Range(call[t].queue) \cup Range(call[t].out) : Stored(id)
  /\ call[t].op = "Caw" => call[t].b \in known \cup {NoCaw, BadId}
  /\ call[t].pc = "caw_put_reply" => StoredUnder(call[t].id, call[t].b)

CawsStored ==
  /\ \A id \in Ids : Len(mem[CawKey(id)]) <= issued[id]
  /\ \A id \in known : Stored(id)
  /\ \A t \in Threads : CallStored(t)
  /\ \A id \in Ids : \A c \in Range(mem[CawKey(id)]) : c.parent = NoCaw \/ Stored(c.parent)
  /\ NoDanglingReply

\* A step that has nothing to do with caws.
CawQuiet ==
  /\ \A id \in Ids :
       /\ mem'[CawKey(id)] = mem[CawKey(id)] /\ dur'[CawKey(id)] = dur[CawKey(id)]
       /\ mem'[ReplyKey(id)] = mem[ReplyKey(id)] /\ dur'[ReplyKey(id)] = dur[ReplyKey(id)]
  /\ UNCHANGED <<issued, known>>
  /\ \A s \in Threads :
       call'[s] = call[s] \/ (call'[s].op \in UserOps /\ call'[s].pc # "read_replies")

LEMMA CawCases ==
  ASSUME Typed, [Next]_vars
  PROVE  \/ CawQuiet
         \/ /\ UNCHANGED <<mem, dur, issued, known>>
            /\ \E t \in Threads, u \in Users, p \in known \cup {NoCaw, BadId} :
                 Begins(t, "Caw", u, p, "caw_user", {})
         \/ /\ UNCHANGED <<mem, dur, issued, known>>
            /\ \E t \in Threads, id \in known \cup {BadId} :
                 Begins(t, "Read", id, NoCaw, "read_check", CawsBelow(dur, id))
         \/ \E t \in Threads : CawStep(t)
         \/ \E t \in Threads : Outlives(t)
         \/ KvRestart
         \/ FazCrash
<1>0. Typed'
  BY NextTyped
<1>1. ASSUME NEW t \in Threads, NEW op \in UserOps, NEW a, NEW b, NEW pc, NEW must,
             UNCHANGED <<mem, dur, issued, known>>, Begins(t, op, a, b, pc, must)
      PROVE  CawQuiet
  <2>1. call'[t].op \in UserOps /\ CallOK(call'[t])
    BY <1>0, <1>1 DEF Begins, Typed
  <2>2. call'[t].pc # "read_replies"
    BY <2>1 DEF CallOK, UserOps
  <2> QED BY <1>1, <2>1, <2>2 DEF CawQuiet, Begins
<1>2. ASSUME NEW t \in Threads, UserStep(t)
      PROVE  CawQuiet
  <2>1. UserMove(t)
    BY <1>2, UserStepEffect
  <2>2. CallOK(call'[t]) /\ call'[t].op \in UserOps
    BY <1>0, <2>1 DEF Typed, UserMove, Goes
  <2>3. call'[t].pc # "read_replies"
    BY <2>2 DEF CallOK, UserOps
  <2>4. \A k \in StoreKeys : IsCawKey(k) => mem'[k] = mem[k] /\ dur'[k] = dur[k]
    BY <2>1, KeyKinds DEF UserMove, Adds
  <2>5. \A id \in Ids : IsCawKey(CawKey(id)) /\ IsCawKey(ReplyKey(id))
    BY DEF IsCawKey
  <2> QED BY <2>1, <2>2, <2>3, <2>4, <2>5, KeysInStore DEF CawQuiet, UserMove, Goes
<1>3. ASSUME NEW t \in Threads, Event(t)
      PROVE  \/ CawQuiet
             \/ /\ UNCHANGED <<mem, dur, issued, known>>
                /\ \E u \in Users, p \in known \cup {NoCaw, BadId} :
                     Begins(t, "Caw", u, p, "caw_user", {})
             \/ /\ UNCHANGED <<mem, dur, issued, known>>
                /\ \E id \in known \cup {BadId} :
                     Begins(t, "Read", id, NoCaw, "read_check", CawsBelow(dur, id))
  BY <1>1, <1>3, EventEffect DEF UserOps
<1>4. CASE UNCHANGED vars
  BY <1>4 DEF CawQuiet, vars
<1>5. ASSUME NEW t \in Threads, Step(t)
      PROVE  CawQuiet \/ CawStep(t) \/ Outlives(t)
  BY <1>2, <1>5, OutlivesEffect DEF Step, UserStep, CawStep
<1> QED BY <1>3, <1>4, <1>5 DEF Next

LEMMA ParentTypes ==
  ASSUME Typed, NEW id \in Ids, NEW c \in Range(mem[CawKey(id)]) \cup Range(dur[CawKey(id)])
  PROVE  c \in Caws /\ c.parent \in Ids \cup {NoCaw}
<1>1. mem[CawKey(id)] \in Seq(Caws) /\ dur[CawKey(id)] \in Seq(Caws)
  BY DEF Typed, StoreOK
<1>2. c \in Caws
  BY <1>1, RangeFacts
<1> QED BY <1>2 DEF Caws

\* What is stored stays stored.
LEMMA StoredStays ==
  ASSUME Typed, [Next]_vars
  PROVE  /\ Typed' /\ Grows
         /\ \A id \in Ids : Stored(id) => Stored(id)'
         /\ \A id \in Ids : \A p : StoredUnder(id, p) => StoredUnder(id, p)'
         /\ known \subseteq Ids /\ ~Stored(BadId)
<1>1. Typed' /\ Grows
  BY NextTyped, NextGrows
<1>2. \A id \in Ids : dur[CawKey(id)] \in Seq(Caws) /\ dur'[CawKey(id)] \in Seq(Caws)
  BY <1>1 DEF Typed, StoreOK
<1>3. \A id \in Ids : Stored(id) => Stored(id)'
  BY <1>1, <1>2, KeysInStore, RangeFacts DEF Stored, Grows
<1>4. \A id \in Ids : \A p : StoredUnder(id, p) => StoredUnder(id, p)'
  BY <1>1, KeysInStore DEF StoredUnder, Grows
<1>5. known \subseteq Ids /\ ~Stored(BadId)
  BY DEF Typed, StoreOK, Stored
<1> QED BY <1>1, <1>3, <1>4, <1>5

LEMMA InitStored == Init => CawsStored
<1> SUFFICES ASSUME Init PROVE CawsStored
  OBVIOUS
<1>1. \A id \in Ids : mem[CawKey(id)] = <<>> /\ mem[ReplyKey(id)] = <<>>
  BY KeysInStore, KeysDiffer DEF Init
<1>2. Range(<<>>) = {}
  BY RangeFacts, EmptySeq
<1>3. issued = [id \in Ids |-> 0] /\ known = {}
  BY DEF Init
<1>4. \A t \in Threads : CallStored(t)
  BY DEF Init, NoCall, CallStored
<1> QED BY <1>1, <1>2, <1>3, <1>4 DEF CawsStored, NoDanglingReply

\* The part about a thread, when the step adds no caw that clients do not know.
LEMMA CallStoredStays ==
  ASSUME Typed, [Next]_vars, CawsStored, known \subseteq known',
         NEW s \in Threads,
         call'[s] = call[s] \/ (call'[s].op \in UserOps)
  PROVE  CallStored(s)'
<1>1. CASE call'[s] = call[s]
  <2>1. CallOK(call[s]) /\ call[s] \in CallRecord
    BY DEF Typed
  <2>2. Range(call[s].queue) \subseteq Ids
    BY <2>1, RangeFacts DEF CallRecord
  <2>3. call[s].op = "Read" => Range(call[s].out) \subseteq Ids
    BY <2>1, RangeFacts DEF CallOK
  <2> QED BY <1>1, <2>1, <2>2, <2>3, StoredStays DEF CallStored, CawsStored, CallOK
<1>2. CASE call'[s].op \in UserOps
  <2>1. CallOK(call'[s])
    BY NextTyped DEF Typed
  <2> QED BY <1>2, <2>1 DEF CallStored, UserOps, CallOK
<1> QED BY <1>1, <1>2

\* The part about the stores, when no caw and no reply is stored.
LEMMA CawListsStay ==
  ASSUME Typed, [Next]_vars, CawsStored, UNCHANGED <<mem, issued>>
  PROVE  /\ \A id \in Ids : Len(mem'[CawKey(id)]) <= issued'[id]
         /\ \A id \in known : Stored(id)'
         /\ \A id \in Ids : \A c \in Range(mem'[CawKey(id)]) :
              c.parent = NoCaw \/ Stored(c.parent)'
         /\ NoDanglingReply'
<1>1. \A id \in known : Stored(id)'
  BY StoredStays DEF CawsStored
<1>2. ASSUME NEW id \in Ids, NEW c \in Range(mem[CawKey(id)]), c.parent # NoCaw
      PROVE  Stored(c.parent)'
  <2>2. c.parent \in Ids
    BY <1>2, ParentTypes
  <2> QED BY <1>2, <2>2, StoredStays DEF CawsStored
<1>3. NoDanglingReply'
  <2>1. SUFFICES ASSUME NEW p \in Ids, NEW c \in Range(mem[ReplyKey(p)])
                 PROVE  StoredUnder(c, p)'
    BY DEF NoDanglingReply, StoredUnder
  <2>2. c \in Ids
    BY <2>1, RangeFacts DEF Typed, StoreOK
  <2>3. StoredUnder(c, p)
    BY <2>1 DEF CawsStored, NoDanglingReply, StoredUnder
  <2> QED BY <2>2, <2>3, StoredStays
<1> QED BY <1>1, <1>2, <1>3 DEF CawsStored

LEMMA CawPutStored ==
  ASSUME Typed, [Next]_vars, CawsStored, NEW t \in Threads, CawPut(t)
  PROVE  CawsStored'
<1> DEFINE a == call[t].a
           b == call[t].b
           caw == [user |-> a, parent |-> b]
<1>1. PICK id \in Ids, ok \in BOOLEAN :
        /\ issued' = [issued EXCEPT ![id] = issued[id] + 1]
        /\ Fits(CawKey(id), caw)
        /\ Adds(CawKey(id), caw, ok)
        /\ Goes(t, AfterPut(ok, IF b = NoCaw THEN Answer("OK")
                                ELSE Continue("caw_put_reply")))
        /\ call'[t].id = id
        /\ known' = IF ok /\ b = NoCaw THEN known \cup {id} ELSE known
  BY CawPutEffect
<1>2. call[t].op = "Caw" /\ a \in Users /\ b \in Ids \cup {NoCaw}
  BY CawPutEffect
<1>3. /\ mem[CawKey(id)] \in Seq(Caws) /\ dur[CawKey(id)] \in Seq(Caws) /\ caw \in Caws
      /\ CawKey(id) \in StoreKeys
  BY <1>2, KeysInStore DEF Typed, StoreOK, Caws
<1>4. mem'[CawKey(id)] \in {mem[CawKey(id)], Append(mem[CawKey(id)], caw)}
  BY <1>1 DEF Adds
<1>5. /\ Len(Append(mem[CawKey(id)], caw)) = Len(mem[CawKey(id)]) + 1
      /\ Len(mem[CawKey(id)]) \in Nat
      /\ Range(Append(mem[CawKey(id)], caw)) = Range(mem[CawKey(id)]) \cup {caw}
  BY <1>3, AppendFacts
<1>6. ok => dur'[CawKey(id)] # <<>> /\ \E c \in Range(dur'[CawKey(id)]) : c.parent = b
  <2>1. SUFFICES ASSUME ok
                 PROVE  /\ dur'[CawKey(id)] # <<>>
                        /\ \E c \in Range(dur'[CawKey(id)]) : c.parent = b
    OBVIOUS
  <2>2. dur'[CawKey(id)] = Append(dur[CawKey(id)], caw)
    BY <1>1, <2>1 DEF Adds
  <2>3. caw \in Range(Append(dur[CawKey(id)], caw)) /\ Append(dur[CawKey(id)], caw) # <<>>
    BY <1>3, AppendFacts
  <2>4. caw.parent = b
    OBVIOUS
  <2> QED BY <2>2, <2>3, <2>4
<1>7. ASSUME NEW i \in Ids
      PROVE  /\ i # id => mem'[CawKey(i)] = mem[CawKey(i)]
             /\ mem'[ReplyKey(i)] = mem[ReplyKey(i)]
  BY <1>1, KeysInStore, KeysDiffer DEF Adds
<1>8. \A i \in Ids : Len(mem'[CawKey(i)]) <= issued'[i]
  <2>1. SUFFICES ASSUME NEW i \in Ids PROVE Len(mem'[CawKey(i)]) <= issued'[i]
    OBVIOUS
  <2>2. issued \in [Ids -> 0..2] /\ Len(mem[CawKey(i)]) <= issued[i]
    BY DEF Typed, CawsStored
  <2>3. CASE i = id
    BY <1>1, <1>4, <1>5, <2>2, <2>3
  <2>4. CASE i # id
    BY <1>1, <1>7, <2>2, <2>4
  <2> QED BY <2>3, <2>4
<1>9. \A i \in known' : Stored(i)'
  BY <1>1, <1>6, StoredStays DEF CawsStored, Stored
<1>10. \A s \in Threads : CallStored(s)'
  <2>1. ASSUME NEW s \in Threads, s # t PROVE CallStored(s)'
    <3>1. known \subseteq known' /\ call'[s] = call[s]
      BY <1>1, <2>1 DEF Goes
    <3> QED BY <3>1, CallStoredStays
  <2>2. CallStored(t)'
    <3>1. call'[t].op = "Caw" /\ call'[t].b = b /\ known \subseteq known'
      BY <1>1, <1>2 DEF Goes
    <3>2. call'[t].pc = "caw_put_reply" => ok
      BY <1>1 DEF Goes, AfterPut, Answer
    <3>3. b \in known \cup {NoCaw, BadId}
      BY <1>2 DEF CawsStored, CallStored
    <3> QED BY <1>1, <1>6, <3>1, <3>2, <3>3 DEF CallStored, StoredUnder
  <2> QED BY <2>1, <2>2
<1>11. \A i \in Ids : \A c \in Range(mem'[CawKey(i)]) : c.parent = NoCaw \/ Stored(c.parent)'
  <2>1. SUFFICES ASSUME NEW i \in Ids, NEW c \in Range(mem'[CawKey(i)]), c.parent # NoCaw
                 PROVE  Stored(c.parent)'
    OBVIOUS
  <2>2. CASE c \in Range(mem[CawKey(i)])
    <3>1. c.parent \in Ids
      BY <2>1, <2>2, ParentTypes
    <3> QED BY <2>1, <2>2, <3>1, StoredStays DEF CawsStored
  <2>3. CASE c = caw
    <3>1. b \in known
      BY <1>2, <2>1, <2>3, NoCawAssumption DEF CawsStored, CallStored
    <3> QED BY <2>3, <3>1, StoredStays DEF CawsStored
  <2> QED BY <1>4, <1>5, <1>7, <2>1, <2>2, <2>3
<1>12. NoDanglingReply'
  <2>1. SUFFICES ASSUME NEW p \in Ids, NEW c \in Range(mem[ReplyKey(p)])
                 PROVE  StoredUnder(c, p)'
    BY <1>7 DEF NoDanglingReply, StoredUnder
  <2>2. c \in Ids
    BY <2>1, RangeFacts DEF Typed, StoreOK
  <2>3. StoredUnder(c, p)
    BY <2>1 DEF CawsStored, NoDanglingReply, StoredUnder
  <2> QED BY <2>2, <2>3, StoredStays
<1> QED BY <1>8, <1>9, <1>10, <1>11, <1>12 DEF CawsStored

LEMMA CawPutReplyStored ==
  ASSUME Typed, [Next]_vars, CawsStored, NEW t \in Threads, CawPutReply(t)
  PROVE  CawsStored'
<1> DEFINE b == call[t].b
           id == call[t].id
<1>1. PICK ok \in BOOLEAN : /\ Adds(ReplyKey(b), id, ok)
                            /\ Moves(t, AfterPut(ok, Answer("OK")))
                            /\ known' = IF ok THEN known \cup {id} ELSE known
  BY CawPutReplyEffect
<1>2. /\ call[t].op = "Caw" /\ b \in Ids /\ id \in Ids /\ issued' = issued
      /\ call[t].pc = "caw_put_reply"
  BY CawPutReplyEffect
<1>3. StoredUnder(id, b) /\ Stored(id)
  <2>1. StoredUnder(id, b)
    BY <1>2 DEF CawsStored, CallStored
  <2>2. dur[CawKey(id)] \in Seq(Caws)
    BY <1>2 DEF Typed, StoreOK
  <2> QED BY <2>1, <2>2, RangeFacts DEF StoredUnder, Stored
<1>4. \A i \in Ids : mem'[CawKey(i)] = mem[CawKey(i)]
  <2>1. \A i \in Ids : CawKey(i) \in StoreKeys \ {ReplyKey(b)}
    BY KeysInStore, KeysDiffer
  <2> QED BY <1>1, <2>1 DEF Adds
<1>5. \A i \in known' : Stored(i)'
  BY <1>1, <1>2, <1>3, StoredStays DEF CawsStored
<1>6. \A s \in Threads : CallStored(s)'
  <2>1. ASSUME NEW s \in Threads, s # t PROVE CallStored(s)'
    <3>1. known \subseteq known' /\ call'[s] = call[s]
      BY <1>1, <2>1 DEF Goes, Moves
    <3> QED BY <3>1, CallStoredStays
  <2>2. CallStored(t)'
    <3>1. call'[t].op = "Caw" /\ call'[t].b = b /\ known \subseteq known'
          /\ call'[t].pc = "done"
      BY <1>1, <1>2 DEF Goes, Moves, AfterPut, Answer
    <3>2. b \in known \cup {NoCaw, BadId}
      BY <1>2 DEF CawsStored, CallStored
    <3> QED BY <3>1, <3>2 DEF CallStored
  <2> QED BY <2>1, <2>2
<1>7. \A i \in Ids : \A c \in Range(mem'[CawKey(i)]) : c.parent = NoCaw \/ Stored(c.parent)'
  <2>1. SUFFICES ASSUME NEW i \in Ids, NEW c \in Range(mem[CawKey(i)]), c.parent # NoCaw
                 PROVE  Stored(c.parent)'
    BY <1>4
  <2>2. c.parent \in Ids
    BY <2>1, ParentTypes
  <2> QED BY <2>1, <2>2, StoredStays DEF CawsStored
<1>8. NoDanglingReply'
  <2>1. SUFFICES ASSUME NEW p \in Ids, NEW c \in Range(mem'[ReplyKey(p)])
                 PROVE  StoredUnder(c, p)'
    BY DEF NoDanglingReply, StoredUnder
  <2>2. CASE c \in Range(mem[ReplyKey(p)])
    <3>1. c \in Ids
      BY <2>2, RangeFacts DEF Typed, StoreOK
    <3>2. StoredUnder(c, p)
      BY <2>2 DEF CawsStored, NoDanglingReply, StoredUnder
    <3> QED BY <3>1, <3>2, StoredStays
  <2>3. CASE c \notin Range(mem[ReplyKey(p)])
    <3>1. p = b /\ mem'[ReplyKey(b)] = Append(mem[ReplyKey(b)], id)
      BY <1>1, <2>1, <2>3, KeysInStore, KeysDiffer DEF Adds
    <3>2. mem[ReplyKey(b)] \in Seq(Ids)
      BY <1>2 DEF Typed, StoreOK
    <3>3. c = id
      BY <1>2, <2>1, <2>3, <3>1, <3>2, AppendFacts
    <3> QED BY <1>2, <1>3, <3>1, <3>3, StoredStays
  <2> QED BY <2>2, <2>3
<1> QED BY <1>2, <1>4, <1>5, <1>6, <1>7, <1>8 DEF CawsStored

LEMMA ReadsStored ==
  ASSUME Typed, [Next]_vars, CawsStored, NEW t \in Threads,
         ReadCheck(t) \/ ReadCaw(t) \/ ReadReplies(t)
  PROVE  CawsStored'
<1>0. call[t] \in CallRecord /\ CallOK(call[t])
  BY DEF Typed
<1>1. call[t].op = "Read" /\ UNCHANGED <<mem, dur, issued>>
  BY ReadCheckEffect, ReadCawEffect, ReadRepliesEffect
<1>2. /\ call[t].queue \in Seq(Ids) /\ call[t].out \in Seq(Ids)
      /\ call[t].a \in known \cup {BadId}
      /\ \A id \in Range(call[t].queue) \cup Range(call[t].out) : Stored(id)
  BY <1>0, <1>1 DEF CallRecord, CallOK, CawsStored, CallStored
<1>3. \A id : Stored(id) => Stored(id)'
  BY <1>1 DEF Stored
<1>4. ASSUME CallStored(t)', known \subseteq known', \A id \in known' : Stored(id),
             \E where : Goes(t, where)
      PROVE  CawsStored'
  <2>1. ASSUME NEW s \in Threads, s # t PROVE CallStored(s)'
    <3>1. call'[s] = call[s]
      BY <1>4, <2>1 DEF Goes
    <3> QED BY <1>4, <3>1, CallStoredStays
  <2>2. /\ \A id \in Ids : Len(mem'[CawKey(id)]) <= issued'[id]
        /\ \A id \in Ids : \A c \in Range(mem'[CawKey(id)]) :
             c.parent = NoCaw \/ Stored(c.parent)'
        /\ NoDanglingReply'
    BY <1>1, CawListsStay
  <2> QED BY <1>3, <1>4, <2>1, <2>2 DEF CawsStored
<1>5. \A id \in known : Stored(id)
  BY DEF CawsStored
<1>6. CASE ReadCheck(t)
  <2>1. /\ call[t].pc = "read_check" /\ known' = known
        /\ \/ Moves(t, Answer("NOT_FOUND"))
           \/ /\ Goes(t, Continue("read_caw")) /\ call[t].a \in Ids
              /\ call'[t].out = call[t].out /\ call'[t].queue = <<call[t].a>>
    BY <1>6, ReadCheckEffect
  <2>2. CASE Moves(t, Answer("NOT_FOUND"))
    <3>1. CallStored(t)'
      BY <1>1, <1>2, <1>3, <2>1, <2>2 DEF CallStored, Moves, Goes, Answer
    <3> QED BY <1>4, <1>5, <2>1, <2>2, <3>1 DEF Moves
  <2>3. CASE /\ Goes(t, Continue("read_caw")) /\ call[t].a \in Ids
             /\ call'[t].out = call[t].out /\ call'[t].queue = <<call[t].a>>
    <3>1. Range(<<call[t].a>>) = {call[t].a}
      BY DEF Range
    <3>2. Stored(call[t].a)
      BY <1>2, <2>3, NoCawAssumption DEF CawsStored
    <3>3. CallStored(t)'
      BY <1>1, <1>2, <1>3, <2>1, <2>3, <3>1, <3>2 DEF CallStored, Goes, Continue
    <3> QED BY <1>4, <1>5, <2>1, <2>3, <3>3
  <2> QED BY <2>1, <2>2, <2>3
<1>7. CASE ReadCaw(t)
  <2>1. /\ known' = known /\ call[t].queue # <<>>
        /\ \/ Moves(t, Answer("UNAVAILABLE"))
           \/ /\ Goes(t, Continue("read_replies"))
              /\ call'[t].queue = call[t].queue
              /\ call'[t].out = Append(call[t].out, Head(call[t].queue))
    BY <1>7, ReadCawEffect
  <2>2. CASE Moves(t, Answer("UNAVAILABLE"))
    <3>1. CallStored(t)'
      BY <1>1, <1>2, <1>3, <2>1, <2>2 DEF CallStored, Moves, Goes, Answer
    <3> QED BY <1>4, <1>5, <2>1, <2>2, <3>1 DEF Moves
  <2>3. CASE /\ Goes(t, Continue("read_replies"))
             /\ call'[t].queue = call[t].queue
             /\ call'[t].out = Append(call[t].out, Head(call[t].queue))
    <3>1. Head(call[t].queue) = call[t].queue[1] /\ 1 \in 1..Len(call[t].queue)
          /\ Head(call[t].queue) \in Ids
      BY <1>2, <2>1
    <3>2. Head(call[t].queue) \in Range(call[t].queue)
      BY <1>2, <3>1, RangeFacts
    <3>3. Range(call'[t].out) = Range(call[t].out) \cup {Head(call[t].queue)}
      BY <1>2, <2>3, <3>1, AppendFacts
    <3>4. CallStored(t)'
      BY <1>1, <1>2, <1>3, <2>1, <2>3, <3>2, <3>3 DEF CallStored, Goes, Continue
    <3> QED BY <1>4, <1>5, <2>1, <2>3, <3>4
  <2> QED BY <2>1, <2>2, <2>3
<1>8. CASE ReadReplies(t)
  <2>1. PICK values \in Gets(ReplyKey(Head(call[t].queue))) :
          LET rest == Tail(call[t].queue) \o values IN
            /\ values \in Seq(Ids)
            /\ Goes(t, IF rest = <<>> THEN Answer("OK") ELSE Continue("read_caw"))
            /\ call'[t].out = call[t].out /\ call'[t].queue = rest
            /\ known' = IF rest = <<>> THEN known \cup Range(call[t].out) ELSE known
    BY <1>8, ReadRepliesEffect
  <2>2. /\ call[t].queue # <<>> /\ Head(call[t].queue) \in Ids
        /\ Tail(call[t].queue) \in Seq(Ids)
        /\ Range(Tail(call[t].queue)) \subseteq Range(call[t].queue)
    <3>1. call[t].queue # <<>> /\ Head(call[t].queue) \in Ids
      BY <1>8, ReadRepliesEffect
    <3> QED BY <1>2, <3>1 DEF Range
  <2>3. Range(values) \subseteq Range(mem[ReplyKey(Head(call[t].queue))])
    BY <2>2, <2>1, GetsInRange, KeysInStore DEF Typed, StoreOK
  <2>4. ASSUME NEW id \in Range(values) PROVE Stored(id)
    <3>1. StoredUnder(id, Head(call[t].queue))
      BY <2>2, <2>3 DEF CawsStored, NoDanglingReply, StoredUnder
    <3>2. id \in Ids
      BY <2>1, RangeFacts
    <3> QED BY <3>1, <3>2, RangeFacts DEF StoredUnder, Stored, Typed, StoreOK
  <2>5. Range(call'[t].queue) \subseteq Range(call[t].queue) \cup Range(values)
    <3>1. Range(Tail(call[t].queue) \o values)
            = Range(Tail(call[t].queue)) \cup Range(values)
      <4>1. values \in Seq(Ids) /\ Tail(call[t].queue) \in Seq(Ids)
        BY <2>1, <2>2
      <4> HIDE <2>1
      <4> QED BY <4>1, RangeConcat
    <3> QED BY <2>1, <2>2, <3>1
  <2>6. CallStored(t)'
    BY <1>1, <1>2, <1>3, <2>1, <2>4, <2>5 DEF CallStored, Goes, Continue, Answer
  <2>7. known \subseteq known' /\ \A id \in known' : Stored(id)
    BY <1>2, <1>5, <2>1
  <2> QED BY <1>4, <2>1, <2>6, <2>7
<1> QED BY <1>6, <1>7, <1>8

LEMMA NextStored == Typed /\ CawsStored /\ [Next]_vars => CawsStored'
<1> SUFFICES ASSUME Typed, CawsStored, [Next]_vars PROVE CawsStored'
  OBVIOUS
<1>1. CASE CawQuiet
  <2>1. \A s \in Threads : CallStored(s)'
    BY <1>1, CallStoredStays DEF CawQuiet
  <2>2. NoDanglingReply'
    <3>1. SUFFICES ASSUME NEW p \in Ids, NEW c \in Range(mem[ReplyKey(p)])
                   PROVE  StoredUnder(c, p)'
      BY <1>1 DEF NoDanglingReply, StoredUnder, CawQuiet
    <3>2. c \in Ids
      BY <3>1, RangeFacts DEF Typed, StoreOK
    <3>3. StoredUnder(c, p)
      BY <3>1 DEF CawsStored, NoDanglingReply, StoredUnder
    <3> QED BY <3>2, <3>3, StoredStays
  <2>3. ASSUME NEW id \in Ids, NEW c \in Range(mem'[CawKey(id)]), c.parent # NoCaw
        PROVE  Stored(c.parent)'
    <3>1. c \in Range(mem[CawKey(id)])
      BY <1>1, <2>3 DEF CawQuiet
    <3>2. c.parent \in Ids
      BY <2>3, <3>1, ParentTypes
    <3> QED BY <2>3, <3>1, <3>2, StoredStays DEF CawsStored
  <2>4. /\ \A id \in Ids : Len(mem'[CawKey(id)]) <= issued'[id]
        /\ \A id \in known' : Stored(id)'
    BY <1>1, StoredStays DEF CawQuiet, CawsStored
  <2> QED BY <2>1, <2>2, <2>3, <2>4 DEF CawsStored
<1>2. ASSUME UNCHANGED <<mem, dur, issued, known>>, \A s \in Threads : CallStored(s)'
      PROVE  CawsStored'
  BY <1>2, CawListsStay DEF CawsStored
<1>3. ASSUME NEW t \in Threads, NEW u \in Users, NEW p \in known \cup {NoCaw, BadId},
             UNCHANGED <<mem, dur, issued, known>>, Begins(t, "Caw", u, p, "caw_user", {})
      PROVE  CawsStored'
  <2>1. CallStored(t)'
    BY <1>3 DEF Begins, CallStored
  <2>2. ASSUME NEW s \in Threads, s # t PROVE CallStored(s)'
    BY <1>3, <2>2, CallStoredStays DEF Begins
  <2> QED BY <1>2, <1>3, <2>1, <2>2
<1>4. ASSUME NEW t \in Threads, NEW id \in known \cup {BadId},
             UNCHANGED <<mem, dur, issued, known>>,
             Begins(t, "Read", id, NoCaw, "read_check", CawsBelow(dur, id))
      PROVE  CawsStored'
  <2>1. Range(<<>>) = {}
    BY RangeFacts, EmptySeq
  <2>2. CallStored(t)'
    BY <1>4, <2>1 DEF Begins, CallStored
  <2>3. ASSUME NEW s \in Threads, s # t PROVE CallStored(s)'
    BY <1>4, <2>3, CallStoredStays DEF Begins
  <2> QED BY <1>2, <1>4, <2>2, <2>3
<1>5. ASSUME NEW t \in Threads, CawCheckUser(t) \/ CawCheckParent(t)
      PROVE  CawsStored'
  <2>1. PICK where :
          /\ Moves(t, where) /\ UNCHANGED <<mem, dur, issued, known>>
          /\ where.pc \in {"done", "caw_put", "caw_parent"}
          /\ call[t].op = "Caw"
    BY <1>5, CawCheckEffect
  <2>2. CallStored(t)'
    BY <2>1 DEF Moves, Goes, CallStored, CawsStored
  <2>3. ASSUME NEW s \in Threads, s # t PROVE CallStored(s)'
    BY <2>1, <2>3, CallStoredStays DEF Moves, Goes
  <2> QED BY <1>2, <2>1, <2>2, <2>3
<1>6. ASSUME NEW t \in Threads, CawStep(t)
      PROVE  CawsStored'
  BY <1>5, <1>6, CawPutStored, CawPutReplyStored, ReadsStored DEF CawStep
<1>7. CASE KvRestart
  <2>1. mem' = dur /\ UNCHANGED <<dur, call, issued, known>>
    BY <1>7 DEF KvRestart
  <2>2. ASSUME NEW id \in Ids
        PROVE  /\ Len(dur[CawKey(id)]) <= issued[id]
               /\ Range(dur[CawKey(id)]) \subseteq Range(mem[CawKey(id)])
               /\ Range(dur[ReplyKey(id)]) \subseteq Range(mem[ReplyKey(id)])
    <3>1. CawKey(id) \in StoreKeys /\ ReplyKey(id) \in StoreKeys
      BY KeysInStore
    <3>2. /\ Len(dur[CawKey(id)]) \in Nat /\ Len(mem[CawKey(id)]) \in Nat
          /\ issued[id] \in 0..2 /\ Len(mem[CawKey(id)]) <= issued[id]
      BY <3>1 DEF Typed, StoreOK, CawsStored
    <3>3. /\ Len(dur[CawKey(id)]) <= Len(mem[CawKey(id)])
          /\ Range(dur[CawKey(id)]) \subseteq Range(mem[CawKey(id)])
          /\ Range(dur[ReplyKey(id)]) \subseteq Range(mem[ReplyKey(id)])
      BY <3>1 DEF Typed, Ahead
    <3> QED BY <3>2, <3>3
  <2>3. NoDanglingReply'
    BY <2>1, <2>2 DEF CawsStored, NoDanglingReply
  <2>4. \A s \in Threads : CallStored(s)'
    BY <2>1, CallStoredStays
  <2> QED BY <2>1, <2>2, <2>3, <2>4 DEF CawsStored, Stored
<1>8. CASE FazCrash
  <2>1. UNCHANGED <<mem, dur, issued, known>>
    BY <1>8, FazCrashEffect
  <2>2. ASSUME NEW s \in Threads PROVE CallStored(s)'
    <3>1. CASE ~Live(s)
      BY <1>8, <2>1, <3>1, FazCrashEffect, CallStoredStays
    <3>2. CASE Live(s)
      <4>1. /\ call'[s].pc = "done" /\ call'[s].op = call[s].op /\ call'[s].a = call[s].a
            /\ call'[s].b = call[s].b /\ call'[s].queue = call[s].queue
            /\ call'[s].out = call[s].out
        BY <1>8, <3>2, FazCrashEffect
      <4>2. CallStored(s) /\ \A id : Stored(id) => Stored(id)'
        BY <2>1 DEF CawsStored, Stored
      <4> QED BY <2>1, <4>1, <4>2 DEF CallStored
    <3> QED BY <3>1, <3>2
  <2> QED BY <1>2, <2>1, <2>2
<1>9. ASSUME NEW t \in Threads, Outlives(t)
      PROVE  CawsStored'
  <2>1. UNCHANGED <<mem, dur, issued, known>> /\ \A s \in Threads \ {t} : call'[s] = call[s]
    BY <1>9 DEF Outlives, Moves, Goes
  <2>2. CallStored(t)'
    <3>1. /\ call'[t].op = call[t].op /\ call'[t].pc = call[t].pc /\ call'[t].b = call[t].b
          /\ call'[t].id = call[t].id /\ call[t].op # "Read"
      BY <1>9 DEF Outlives, Moves, Goes
    <3>2. CallStored(t)
      BY DEF CawsStored
    <3> QED BY <2>1, <3>1, <3>2 DEF CallStored, StoredUnder
  <2>3. ASSUME NEW s \in Threads, s # t PROVE CallStored(s)'
    BY <2>1, <2>3, CallStoredStays
  <2> QED BY <1>2, <2>1, <2>2, <2>3
<1> QED BY <1>1, <1>3, <1>4, <1>6, <1>7, <1>8, <1>9, CawCases

\* Once seen, a caw is under its key as often as its id was given, or less often.
LEMMA StoredSeen == Typed /\ CawsStored => SeenCawsLast
<1> SUFFICES ASSUME Typed, CawsStored, NEW c \in known
             PROVE  \A m \in {mem, dur} : Len(m[CawKey(c)]) \in 1..issued[c]
  BY DEF SeenCawsLast
<1>1. c \in Ids /\ Stored(c)
  BY DEF Typed, CawsStored
<1>2. /\ dur[CawKey(c)] \in Seq(Caws) /\ mem[CawKey(c)] \in Seq(Caws)
      /\ Len(dur[CawKey(c)]) <= Len(mem[CawKey(c)])
      /\ Len(mem[CawKey(c)]) <= issued[c] /\ issued[c] \in 0..2
  BY <1>1, KeysInStore DEF Typed, StoreOK, CawsStored, Ahead
<1>3. /\ Len(dur[CawKey(c)]) # 0 /\ Len(dur[CawKey(c)]) \in Nat
      /\ Len(mem[CawKey(c)]) \in Nat
  BY <1>1, <1>2, RangeFacts DEF Stored
<1>4. Len(dur[CawKey(c)]) \in 1..issued[c] /\ Len(mem[CawKey(c)]) \in 1..issued[c]
  BY <1>2, <1>3
<1> QED BY <1>4

LEMMA StoredTypeOK == Typed /\ CawsStored => TypeOK
<1> SUFFICES ASSUME Typed, CawsStored PROVE TypeOK
  OBVIOUS
<1>1. ASSUME NEW id \in known PROVE id \in Ids /\ issued[id] > 0
  <2>1. id \in Ids /\ issued[id] \in 0..2
    BY DEF Typed
  <2>2. Len(mem[CawKey(id)]) \in 1..issued[id]
    BY StoredSeen DEF SeenCawsLast
  <2> QED BY <2>1, <2>2
<1>2. ASSUME NEW t \in Threads
      PROVE  /\ call[t].status \in Statuses
             /\ Done(t) => (call[t].op = "none" <=> call[t].status = "NONE")
             /\ ~Done(t) => \/ Live(t)
                            \/ call[t].pc \in Putting /\ call[t].status = "UNAVAILABLE"
             /\ Range(call[t].queue) \subseteq known \cup Ids
  <2>1. call[t] \in CallRecord /\ CallOK(call[t])
    BY DEF Typed
  <2>2. call[t].queue \in Seq(Ids) /\ call[t].status \in Statuses
    BY <2>1 DEF CallRecord
  <2>3. Range(call[t].queue) \subseteq Ids
    BY <2>2, RangeFacts
  <2> QED BY <2>1, <2>2, <2>3 DEF CallOK, Done, Live
<1>3. /\ DOMAIN mem = StoreKeys /\ DOMAIN dur = StoreKeys
      /\ \A id \in Ids : issued[id] \in 0..2
      /\ calls \in 0..MaxCalls
  BY DEF Typed, StoreOK
<1> QED BY <1>1, <1>2, <1>3 DEF TypeOK

-----------------------------------------------------------------------------
(* The theorems.                                                           *)

\* In every state the stores, the calls and the counters have their types, and the
\* caws that clients, threads and replies name are stored.
THEOREM TypesHold == Spec => [](Typed /\ CawsStored)
<1>1. Init => Typed /\ CawsStored
  BY InitTyped, InitStored
<1>2. Typed /\ CawsStored /\ [Next]_vars => (Typed /\ CawsStored)'
  BY NextTyped, NextStored
<1> QED BY <1>1, <1>2, PTL DEF Spec

\* Type correctness; in particular the ids that clients know are ids that were given.
THEOREM TypeCorrect == Spec => []TypeOK
BY TypesHold, StoredTypeOK, PTL

\* Caw puts the caw before the reply, and a Put that did not answer OK ends the call:
\* no reply list ever names a caw that the log does not have as a reply to it.
THEOREM RepliesLeadToCaws == Spec => []NoDanglingReply
<1>1. CawsStored => NoDanglingReply
  BY DEF CawsStored
<1> QED BY <1>1, TypesHold, PTL

\* A caw that any client has seen is in the log, and with it in memory, and no more
\* often than its id was given.
THEOREM SeenCawsAreKept == Spec => []SeenCawsLast
BY TypesHold, StoredSeen, PTL

=============================================================================
