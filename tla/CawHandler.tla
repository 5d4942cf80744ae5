----------------------------- MODULE CawHandler ------------------------------
(***************************************************************************)
(* The Caw functions (cpp/caw/caw_handler.cc) as the Faz server runs them: *)
(* each event is handled by a gRPC thread of its own, which makes one      *)
(* call after another to the key-value store through KVStoreClient         *)
(* (cpp/kvstore/kvstore_client.cc).  The calls of different threads        *)
(* interleave; each takes effect in one step, as the KVStore module shows  *)
(* of the store.                                                           *)
(*                                                                         *)
(* What can go wrong with a call, and with the processes, is in Faults:    *)
(*   refused      the store answers UNAVAILABLE to a Put: its log did not  *)
(*                take the value, which stays in memory until it restarts  *)
(*   unreachable  a Put does not reach the store                           *)
(*   lost         a Put is done, and the answer is lost                    *)
(*   late         a Put is still on its way when its call fails: it is     *)
(*                done at some later time, or never                        *)
(*   cut          the stream of a Get ends before its last value           *)
(*   kvrestart    the store dies and is started again                      *)
(*   fazcrash     the Faz server dies, with the calls it is handling       *)
(*   collide      a new caw is given the id of another                     *)
(*                                                                         *)
(* issued counts how often an id was given; known, mishaps and the field   *)
(* must of a call are history.                                             *)
(***************************************************************************)
EXTENDS Integers, Sequences, FiniteSets, Functions

CONSTANTS
  Users,       \* user names
  Registered,  \* users that were registered before
  Ids,         \* caw ids
  NoCaw,       \* the empty parent_id: the caw is not a reply
  BadId,       \* an id that no caw ever gets
  Threads,     \* threads of the Faz server
  Ops,         \* operations the clients call
  Faults,      \* what can go wrong, see above
  MaxCalls     \* bound: calls made

ASSUME RegisteredAssumption == Registered \subseteq Users
ASSUME NoCawAssumption == NoCaw \notin Ids /\ BadId \notin Ids /\ BadId # NoCaw
ASSUME ThreadsAssumption == IsFiniteSet(Threads)
ASSUME MaxCallsAssumption == MaxCalls \in Nat

VARIABLES
  mem,      \* what Get returns: the values under each key
  dur,      \* what the store's log holds
  call,     \* what each thread is doing, with its Put on its way, or has answered last
  issued,   \* how many caws each id was given to
  known,    \* ids that clients have seen in an answer
  mishaps,  \* what happened to the calls that register and follow, see Notes
  calls     \* calls made so far

vars == <<mem, dur, call, issued, known, mishaps, calls>>

-----------------------------------------------------------------------------
(* The keys that the handlers use (the k...Prefix constants).              *)

UserKey(u)       == <<"user", u>>
FollowingsKey(u) == <<"user_followings", u>>
FollowersKey(u)  == <<"user_followers", u>>
PairKey(u, v)    == <<"following_pair", u, v>>
CawKey(id)       == <<"caw", id>>
ReplyKey(id)     == <<"caw_reply", id>>

StoreKeys ==
  {UserKey(u) : u \in Users} \cup {FollowingsKey(u) : u \in Users}
    \cup {FollowersKey(u) : u \in Users}
    \cup {PairKey(u, v) : u \in Users, v \in Users}
    \cup {CawKey(id) : id \in Ids \cup {BadId}} \cup {ReplyKey(id) : id \in Ids}

\* KVStoreClient::Get: the values streamed before the stream ends, for whatever
\* reason it does.
Gets(key) ==
  {mem[key]} \cup IF "cut" \in Faults
                  THEN {SubSeq(mem[key], 1, n) : n \in 0..Len(mem[key])}
                  ELSE {}

\* KVStoreClient::Put: ok is whether the call returned OK.
Puts(key, value, ok) ==
  LET Added(m) == [m EXCEPT ![key] = Append(@, value)] IN
  \/ ok /\ mem' = Added(mem) /\ dur' = Added(dur)
  \/ ~ok /\ "refused" \in Faults /\ mem' = Added(mem) /\ dur' = dur
  \/ ~ok /\ {"unreachable", "late"} \cap Faults # {} /\ mem' = mem /\ dur' = dur
  \/ ~ok /\ "lost" \in Faults /\ mem' = Added(mem) /\ dur' = Added(dur)

-----------------------------------------------------------------------------
(* Threads.                                                                *)

\* A thread that has answered, of which nothing is on its way to the store: free
\* for the next call.
Done(t) == call[t].pc = "done"

\* The call of the thread is being handled.
Live(t) == ~Done(t) /\ call[t].status = "NONE"

\* Mutant of Answer: an error is not returned.
AnswerOnlyOK(s) == [pc |-> "done", status |-> IF s = "OK" THEN s ELSE "NONE"]

\* Where a step leaves a thread: at its next call to the store, or done.
Continue(pc) == [pc |-> pc, status |-> "NONE"]
Answer(s)    == [pc |-> "done", status |-> s]

Leaves(t, where) ==
  [call EXCEPT ![t].pc = where.pc, ![t].status = where.status]

\* What is noted of a call that registers or follows: "raced", there were two of
\* it at a time; "failed", a Put of it did; "blind", it did not see in the store
\* what it is going to store.
Notes(op, a, b, what) ==
  IF op \in {"RegisterUser", "Follow"} THEN {<<op, a, b, what>>} ELSE {}

Fails(t) == Notes(call[t].op, call[t].a, call[t].b, "failed")

\* Thread t asks for a key at pc, and goes on by whether it has values.
Check(t, pc, key, ifNone, ifSome) ==
  /\ call[t].pc = pc
  /\ \E values \in Gets(key) :
       /\ call' = Leaves(t, IF values = <<>> THEN ifNone ELSE ifSome)
       /\ mishaps' = mishaps \cup
            IF values = <<>> /\ mem[key] # <<>> /\ ifNone.status = "NONE"
            THEN Notes(call[t].op, call[t].a, call[t].b, "blind") ELSE {}
  /\ UNCHANGED <<mem, dur, issued, known, calls>>

\* Mutant of AfterPut: the result of Put is not looked at.
AfterPutAnyway(ok, then) == then

\* A Put that is not OK ends the call.
AfterPut(ok, then) == IF ok THEN then ELSE Answer("UNAVAILABLE")

\* Whether the thread learns that its Put succeeded: not when the call has failed
\* and the Put was only on its way.
Heard(t, ok) == ok /\ call[t].status = "NONE"

\* Thread t puts a value at pc.
Store(t, pc, key, value, then) ==
  /\ call[t].pc = pc
  /\ \E ok \in BOOLEAN :
       /\ Puts(key, value, ok)
       /\ call' = Leaves(t, AfterPut(Heard(t, ok), then))
       /\ mishaps' = mishaps \cup IF Heard(t, ok) THEN {} ELSE Fails(t)
  /\ UNCHANGED <<issued, known, calls>>

\* Where a call has a Put to make.
Putting ==
  {"register_put", "follow_put_pair", "follow_put_following", "follow_put_follower",
   "caw_put", "caw_put_reply"}

\* The call is given up while its Put is on its way, because the connection to the
\* store breaks or the Faz server dies (FazDies): the client is told that it
\* failed, and the Put stays to be done.
PutOutlivesCall(t) ==
  /\ "late" \in Faults
  /\ Live(t) /\ call[t].pc \in Putting
  /\ call' = Leaves(t, [pc |-> call[t].pc, status |-> "UNAVAILABLE"])
  /\ mishaps' = mishaps \cup Fails(t)
  /\ UNCHANGED <<mem, dur, issued, known, calls>>

\* The caws of the thread that starts at caw id, in store m.
CawsBelow(m, id) ==
  {x \in Ids : \A S \in SUBSET Ids :
                 (id \in S /\ \A y \in S : Range(m[ReplyKey(y)]) \subseteq S) => x \in S}

Same(t, op, a, b) == ~Done(t) /\ call[t].op = op /\ call[t].a = a /\ call[t].b = b

NoCall == [op |-> "none", a |-> NoCaw, b |-> NoCaw, pc |-> "done", status |-> "NONE",
           id |-> NoCaw, queue |-> <<>>, out |-> <<>>, must |-> {}]

\* A call begins; must is what the log holds of its answer.
Begin(t, op, a, b, pc, must) ==
  /\ op \in Ops
  /\ calls < MaxCalls
  /\ calls' = calls + 1
  /\ Done(t)
  /\ call' = [call EXCEPT ![t] =
       [NoCall EXCEPT !.op = op, !.a = a, !.b = b, !.pc = pc, !.must = must]]
  /\ mishaps' = mishaps \cup IF \E s \in Threads : Same(s, op, a, b)
                            THEN Notes(op, a, b, "raced") ELSE {}
  /\ UNCHANGED <<mem, dur, issued, known>>

Init ==
  /\ mem = [k \in StoreKeys |-> IF \E u \in Registered : k = UserKey(u)
                                THEN <<"">> ELSE <<>>]
  /\ dur = mem
  /\ call = [t \in Threads |-> NoCall]
  /\ issued = [id \in Ids |-> 0]
  /\ known = {}
  /\ mishaps = {}
  /\ calls = 0

-----------------------------------------------------------------------------
(* RegisterUser(a).                                                        *)

RegisterUser(t, u) == Begin(t, "RegisterUser", u, NoCaw, "register_check", {})

RegisterCheck(t) ==
  Check(t, "register_check", UserKey(call[t].a),
        Continue("register_put"), Answer("ALREADY_EXISTS"))

RegisterPut(t) ==
  Store(t, "register_put", UserKey(call[t].a), "", Answer("OK"))

-----------------------------------------------------------------------------
(* Follow(a, b).                                                           *)

Follow(t, u, v) == Begin(t, "Follow", u, v, "follow_user", {})

FollowCheckUser(t) ==
  Check(t, "follow_user", UserKey(call[t].a),
        Answer("NOT_FOUND"), Continue("follow_other"))

\* Mutant of FollowCheckOther: only the follower has to exist.
FollowCheckSameUser(t) ==
  Check(t, "follow_other", UserKey(call[t].a),
        Answer("NOT_FOUND"), Continue("follow_pair"))

FollowCheckOther(t) ==
  Check(t, "follow_other", UserKey(call[t].b),
        Answer("NOT_FOUND"), Continue("follow_pair"))

\* Mutant of FollowCheckPair: a pair that is there is only not stored again.
FollowCheckPairGoesOn(t) ==
  Check(t, "follow_pair", PairKey(call[t].a, call[t].b),
        Continue("follow_put_pair"), Continue("follow_put_following"))

\* Mutant of FollowCheckPair: the pair the other way round is looked for.
FollowCheckPairReversed(t) ==
  Check(t, "follow_pair", PairKey(call[t].b, call[t].a),
        Continue("follow_put_pair"), Answer("ALREADY_EXISTS"))

FollowCheckPair(t) ==
  Check(t, "follow_pair", PairKey(call[t].a, call[t].b),
        Continue("follow_put_pair"), Answer("ALREADY_EXISTS"))

FollowPutPair(t) ==
  Store(t, "follow_put_pair", PairKey(call[t].a, call[t].b), "",
        Continue("follow_put_following"))

FollowPutFollowing(t) ==
  Store(t, "follow_put_following", FollowingsKey(call[t].a), call[t].b,
        Continue("follow_put_follower"))

FollowPutFollower(t) ==
  Store(t, "follow_put_follower", FollowersKey(call[t].b), call[t].a, Answer("OK"))

-----------------------------------------------------------------------------
(* Profile(a); the answer is the followings and the followers.             *)

Profile(t, u) ==
  Begin(t, "Profile", u, NoCaw, "profile_user",
        <<Range(dur[FollowingsKey(u)]), Range(dur[FollowersKey(u)])>>)

ProfileCheckUser(t) ==
  Check(t, "profile_user", UserKey(call[t].a),
        Answer("NOT_FOUND"), Continue("profile_followings"))

ProfileGet(t, pc, key, then) ==
  /\ call[t].pc = pc
  /\ \E values \in Gets(key) :
       call' = [Leaves(t, then) EXCEPT ![t].out = Append(@, values)]
  /\ UNCHANGED <<mem, dur, issued, known, mishaps, calls>>

ProfileGetFollowings(t) ==
  ProfileGet(t, "profile_followings", FollowingsKey(call[t].a),
             Continue("profile_followers"))

\* Mutant of ProfileGetFollowers: the key is not changed.
ProfileGetFollowingsAgain(t) ==
  ProfileGet(t, "profile_followers", FollowingsKey(call[t].a), Answer("OK"))

ProfileGetFollowers(t) ==
  ProfileGet(t, "profile_followers", FollowersKey(call[t].a), Answer("OK"))

-----------------------------------------------------------------------------
(* Caw(a), or Caw(a) in reply to b.                                        *)

Caw(t, u, p) == Begin(t, "Caw", u, p, "caw_user", {})

CawCheckUser(t) ==
  Check(t, "caw_user", UserKey(call[t].a), Answer("NOT_FOUND"),
        Continue(IF call[t].b = NoCaw THEN "caw_put" ELSE "caw_parent"))

CawCheckParent(t) ==
  Check(t, "caw_parent", CawKey(call[t].b), Answer("NOT_FOUND"), Continue("caw_put"))

\* The id is made of the time in microseconds and four random digits.
NewIds ==
  {id \in Ids : issued[id] < (IF "collide" \in Faults THEN 2 ELSE 1)}

CawPut(t) ==
  /\ call[t].pc = "caw_put"
  /\ \E id \in NewIds, ok \in BOOLEAN :
       LET where == AfterPut(Heard(t, ok), IF call[t].b = NoCaw THEN Answer("OK")
                                           ELSE Continue("caw_put_reply")) IN
       /\ issued' = [issued EXCEPT ![id] = @ + 1]
       /\ Puts(CawKey(id), [user |-> call[t].a, parent |-> call[t].b], ok)
       /\ call' = [Leaves(t, where) EXCEPT ![t].id = id]
       /\ known' = IF where.status = "OK" THEN known \cup {id} ELSE known
  /\ UNCHANGED <<mishaps, calls>>

CawPutReply(t) ==
  /\ call[t].pc = "caw_put_reply"
  /\ \E ok \in BOOLEAN :
       /\ Puts(ReplyKey(call[t].b), call[t].id, ok)
       /\ call' = Leaves(t, AfterPut(Heard(t, ok), Answer("OK")))
       /\ known' = IF Heard(t, ok) THEN known \cup {call[t].id} ELSE known
  /\ UNCHANGED <<issued, mishaps, calls>>

-----------------------------------------------------------------------------
(* Read(a), breadth first; the answer is the caws in the order found.      *)

Read(t, id) == Begin(t, "Read", id, NoCaw, "read_check", CawsBelow(dur, id))

ReadCheck(t) ==
  /\ call[t].pc = "read_check"
  /\ \E values \in Gets(CawKey(call[t].a)) :
       call' = IF values = <<>> THEN Leaves(t, Answer("NOT_FOUND"))
               ELSE [Leaves(t, Continue("read_caw")) EXCEPT ![t].queue = <<call[t].a>>]
  /\ UNCHANGED <<mem, dur, issued, known, mishaps, calls>>

\* The caw at the front of the queue, which has to be there exactly once.
ReadCaw(t) ==
  /\ call[t].pc = "read_caw"
  /\ \E values \in Gets(CawKey(Head(call[t].queue))) :
       call' = IF Len(values) # 1 THEN Leaves(t, Answer("UNAVAILABLE"))
               ELSE [Leaves(t, Continue("read_replies")) EXCEPT
                       ![t].out = Append(@, Head(call[t].queue))]
  /\ UNCHANGED <<mem, dur, issued, known, mishaps, calls>>

\* Mutant of Enqueued: of the replies only the first is read.
EnqueuedFirst(queue, values) ==
  Tail(queue) \o SubSeq(values, 1, IF values = <<>> THEN 0 ELSE 1)

\* Mutant of Enqueued: the caw stays in the queue.
EnqueuedNoPop(queue, values) == queue \o values

\* The replies of the caw at the front go to the end of the queue.
Enqueued(queue, values) == Tail(queue) \o values

\* An empty queue ends the loop.
ReadReplies(t) ==
  /\ call[t].pc = "read_replies"
  /\ \E values \in Gets(ReplyKey(Head(call[t].queue))) :
       LET rest == Enqueued(call[t].queue, values) IN
       /\ call' = [Leaves(t, IF rest = <<>> THEN Answer("OK") ELSE Continue("read_caw"))
                     EXCEPT ![t].queue = rest]
       /\ known' = IF rest = <<>> THEN known \cup Range(call[t].out) ELSE known
  /\ UNCHANGED <<mem, dur, issued, mishaps, calls>>

-----------------------------------------------------------------------------
(* Restarts.                                                               *)

\* No Put that is on its way outlives the store: each is done, or is not, before.
KvRestart ==
  /\ "kvrestart" \in Faults
  /\ mem # dur
  /\ \A t \in Threads : Done(t) \/ Live(t)
  /\ mem' = dur
  /\ UNCHANGED <<dur, call, issued, known, mishaps, calls>>

Died(c) == [c EXCEPT !.pc = "done", !.status = "DIED"]

\* The calls end; a Put that is on its way outlives them (PutOutlivesCall, unseen by
\* the client, comes before).
FazDies ==
  /\ "fazcrash" \in Faults
  /\ call' = [t \in Threads |-> IF Live(t) THEN Died(call[t]) ELSE call[t]]
  /\ mishaps' = mishaps \cup UNION {Fails(t) : t \in {s \in Threads : Live(s)}}
  /\ UNCHANGED <<mem, dur, issued, known, calls>>

FazCrash == (\E t \in Threads : Live(t)) /\ FazDies

-----------------------------------------------------------------------------

\* The thread goes on with the call that it is handling, or its Put does.
Step(t) ==
  \/ RegisterCheck(t) \/ RegisterPut(t)
  \/ FollowCheckUser(t) \/ FollowCheckOther(t) \/ FollowCheckPair(t)
  \/ FollowPutPair(t) \/ FollowPutFollowing(t) \/ FollowPutFollower(t)
  \/ ProfileCheckUser(t) \/ ProfileGetFollowings(t) \/ ProfileGetFollowers(t)
  \/ CawCheckUser(t) \/ CawCheckParent(t) \/ CawPut(t) \/ CawPutReply(t)
  \/ ReadCheck(t) \/ ReadCaw(t) \/ ReadReplies(t)
  \/ PutOutlivesCall(t)

\* A client's event makes the thread begin a call.
Event(t) ==
  \/ \E u \in Users : \/ RegisterUser(t, u)
                      \/ Profile(t, u)
                      \/ \E v \in Users : Follow(t, u, v)
                      \/ \E p \in known \cup {NoCaw, BadId} : Caw(t, u, p)
  \/ \E id \in known \cup {BadId} : Read(t, id)

Next ==
  \/ \E t \in Threads : Event(t) \/ Step(t)
  \/ KvRestart
  \/ FazCrash

Spec == Init /\ [][Next]_vars

-----------------------------------------------------------------------------
(* Properties.                                                             *)

Statuses == {"NONE", "OK", "NOT_FOUND", "ALREADY_EXISTS", "UNAVAILABLE", "DIED"}

TypeOK ==
  /\ DOMAIN mem = StoreKeys
  /\ DOMAIN dur = StoreKeys
  /\ \A id \in Ids : issued[id] \in 0..2
  /\ known \subseteq {id \in Ids : issued[id] > 0}
  /\ calls \in 0..MaxCalls
  /\ \A t \in Threads :
       /\ call[t].status \in Statuses
       /\ Done(t) => (call[t].op = "none" <=> call[t].status = "NONE")
       /\ ~Done(t) => \/ Live(t)
                      \/ call[t].pc \in Putting /\ call[t].status = "UNAVAILABLE"
       /\ Range(call[t].queue) \subseteq known \cup Ids

Occurrences(x, s) == Cardinality({i \in DOMAIN s : s[i] = x})

\* A reply list only ever names caws that are stored for good, as replies to the
\* caw whose list it is: whatever fails, and whenever the store restarts, no
\* thread leads to a caw that is not there (Caw puts the caw before the reply).
NoDanglingReply ==
  \A p \in Ids : \A c \in Range(mem[ReplyKey(p)]) :
    \E stored \in Range(dur[CawKey(c)]) : stored.parent = p

\* A caw whose id any client has seen is never lost again, and stays the only one
\* under its key unless its id was given twice.
SeenCawsLast ==
  \A c \in known : \A m \in {mem, dur} :
    Len(m[CawKey(c)]) \in 1..issued[c]

\* What was answered OK is in the store for good, in every key it belongs to,
\* after any later failure and restart (RegisterUser, Follow, Caw).
AnsweredOkLasts ==
  \A t \in Threads : Done(t) /\ call[t].status = "OK" =>
    LET a == call[t].a
        b == call[t].b IN
    CASE call[t].op = "RegisterUser" -> dur[UserKey(a)] # <<>>
      [] call[t].op = "Follow" -> /\ dur[PairKey(a, b)] # <<>>
                                  /\ b \in Range(dur[FollowingsKey(a)])
                                  /\ a \in Range(dur[FollowersKey(b)])
      [] call[t].op = "Caw" -> /\ dur[CawKey(call[t].id)] # <<>>
                               /\ b # NoCaw => call[t].id \in Range(dur[ReplyKey(b)])
      [] OTHER -> TRUE

\* No list has an entry that the key written before it does not back, in memory
\* or after a restart: a follower in a profile is one whose own profile lists
\* the user, and the pair that stops a second Follow is there (Follow).
FollowInOrder ==
  \A u, v \in Users : \A m \in {mem, dur} :
    /\ Occurrences(u, m[FollowersKey(v)]) <= Occurrences(v, m[FollowingsKey(u)])
    /\ Occurrences(v, m[FollowingsKey(u)]) <= Len(m[PairKey(u, v)])

\* The three keys of a relationship agree whenever no Follow of it is under way,
\* however many of it there were at a time, unless one of them failed (Follow).
ListsAgree ==
  \A u, v \in Users :
    \/ <<"Follow", u, v, "failed">> \in mishaps
    \/ \E t \in Threads : Same(t, "Follow", u, v)
    \/ /\ Occurrences(u, mem[FollowersKey(v)]) = Len(mem[PairKey(u, v)])
       /\ Occurrences(v, mem[FollowingsKey(u)]) = Len(mem[PairKey(u, v)])

\* A user or a relationship is stored twice only in one of two ways: a second call
\* for it begins while one is under way, or has failed with its Put still on its
\* way; or a Get that breaks hides from the second what the first has stored.  A
\* retry that is neither never stores it again, whatever failed or restarted before
\* (the checks in RegisterUser and Follow).
StoredOnce ==
  \A m \in {mem, dur}, u \in Users :
    /\ \/ \E what \in {"raced", "blind"} :
              <<"RegisterUser", u, NoCaw, what>> \in mishaps
       \/ Len(m[UserKey(u)]) <= 1
    /\ \A v \in Users :
         \/ \E what \in {"raced", "blind"} : <<"Follow", u, v, what>> \in mishaps
         \/ Len(m[PairKey(u, v)]) <= 1

\* A thread that is read is whole: it has every caw that was stored for good when
\* the read began, the caw asked for first and every other one after the caw that
\* it replies to (Read).
ReadWhole ==
  \A t \in Threads : Done(t) /\ call[t].op = "Read" /\ call[t].status = "OK" =>
    LET out == call[t].out IN
    /\ call[t].must \subseteq Range(out)
    /\ out[1] = call[t].a
    /\ \A i \in 2..Len(out) : \E j \in 1..(i - 1) :
         \E stored \in Range(dur[CawKey(out[i])]) : stored.parent = out[j]

\* A read of a caw that a client has seen finds it, and every caw its thread
\* leads to, whatever else is being posted, has failed or was restarted; the only
\* thread that cannot be read is one with an id that was given twice (Read).
ReadFinds ==
  \A t \in Threads : Done(t) /\ call[t].op = "Read" /\ call[t].a # BadId =>
    \/ call[t].status \in {"OK", "DIED"}
    \/ call[t].status = "UNAVAILABLE" /\ issued[Head(call[t].queue)] = 2

\* A profile shows at least what was stored for good when it was asked for,
\* in each of its two lists (Profile).
ProfileWhole ==
  \A t \in Threads : Done(t) /\ call[t].op = "Profile" /\ call[t].status = "OK" =>
    \A i \in 1..2 : call[t].must[i] \subseteq Range(call[t].out[i])

\* No caw is read twice, so that Read's loop ends: neither a reply put at any time
\* nor an id given twice makes a thread lead back to where it was (Caw, Read).
ReadNeverRepeats ==
  \A t \in Threads : call[t].pc = "read_replies" => IsInjective(call[t].out)

\* Whoever is named in a follow list is a registered user, unless the registration
\* was one that failed (RegisterUser, Follow).
NamesAreUsers ==
  \A u, v \in Users : \A x \in {u, v} :
    v \in Range(mem[FollowingsKey(u)]) \/ u \in Range(mem[FollowersKey(v)]) =>
      \/ mem[UserKey(x)] # <<>>
      \/ <<"RegisterUser", x, NoCaw, "failed">> \in mishaps

\* A Follow that is told "User is already following the followee", when no
\* other Follow is under way: the followee's profile has the follower.
AlreadyMeansFollowing ==
  \A t \in Threads :
    /\ call[t].op = "Follow" /\ call[t].status = "ALREADY_EXISTS"
    /\ \A s \in Threads : Done(s)
    => call[t].a \in Range(mem[FollowersKey(call[t].b)])
=============================================================================
