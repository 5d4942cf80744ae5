--------------------------- MODULE CawFollowProofs ---------------------------
(***************************************************************************)
(* Proofs about the calls of CawHandler that register, follow and show a   *)
(* profile, and about what an answer OK stands for.                        *)
(***************************************************************************)
EXTENDS CawHandlerProofs, FiniteSetTheorems

-----------------------------------------------------------------------------
(* The invariants.                                                         *)

\* Of a Follow of v by u, the puts that are done, and a call that was answered OK.
Kept(t) ==
  LET a == call[t].a
      b == call[t].b IN
  /\ call[t].pc \in {"follow_put_following", "follow_put_follower"} =>
       dur[PairKey(a, b)] # <<>>
  /\ call[t].pc = "follow_put_follower" => b \in Range(dur[FollowingsKey(a)])
  /\ call[t].status = "OK" =>
       /\ call[t].op = "RegisterUser" => dur[UserKey(a)] # <<>>
       /\ call[t].op = "Follow" => /\ dur[PairKey(a, b)] # <<>>
                                   /\ b \in Range(dur[FollowingsKey(a)])
                                   /\ a \in Range(dur[FollowersKey(b)])
       /\ call[t].op = "Caw" => /\ call[t].id \in Ids /\ Stored(call[t].id)
                                /\ b # NoCaw => /\ b \in Ids
                                                /\ call[t].id \in Range(dur[ReplyKey(b)])

AllKept == \A t \in Threads : Kept(t)

\* The threads at a stage of following v as u.
At(pc, u, v) == {t \in Threads : call[t].pc = pc /\ call[t].a = u /\ call[t].b = v}

Pairs(m, u, v)      == Len(m[PairKey(u, v)])
Followings(m, u, v) == Occurrences(v, m[FollowingsKey(u)])
Followers(m, u, v)  == Occurrences(u, m[FollowersKey(v)])
ToFollowings(u, v)  == Cardinality(At("follow_put_following", u, v))
ToFollowers(u, v)   == Cardinality(At("follow_put_follower", u, v))

\* The entries of each list, and the threads that have still to put one there,
\* are counted by those of the key that is written before it.
Counts(m, u, v) ==
  /\ Followings(m, u, v) + ToFollowings(u, v) <= Pairs(m, u, v)
  /\ Followers(m, u, v) + ToFollowers(u, v) <= Followings(m, u, v)
  /\ \/ <<"Follow", u, v, "failed">> \in mishaps
     \/ /\ Followings(m, u, v) + ToFollowings(u, v) = Pairs(m, u, v)
        /\ Followers(m, u, v) + ToFollowers(u, v) = Followings(m, u, v)

AllCounted == \A u, v \in Users : Counts(mem, u, v) /\ Counts(dur, u, v)

\* A call of which there never were two at a time is alone, and, when no Get has
\* hidden it, puts what is not there.
Alone(op, u, v, put, key) ==
  (\E what \in {"raced", "blind"} : <<op, u, v, what>> \in mishaps) \/
    /\ \A s, t \in Threads : Same(s, op, u, v) /\ Same(t, op, u, v) => s = t
    /\ \A t \in Threads : Same(t, op, u, v) /\ call[t].pc = put => mem[key] = <<>>
    /\ Len(mem[key]) <= 1

AllAlone ==
  \A u \in Users :
    /\ Alone("RegisterUser", u, NoCaw, "register_put", UserKey(u))
    /\ \A v \in Users : Alone("Follow", u, v, "follow_put_pair", PairKey(u, v))

\* x is a user, or its registration was one that failed.
Known(x) ==
  \/ mem[UserKey(x)] # <<>>
  \/ <<"RegisterUser", x, NoCaw, "failed">> \in mishaps

\* A registration that is lost when the store restarts is one that failed.
KnownKept(x) ==
  \/ <<"RegisterUser", x, NoCaw, "failed">> \in mishaps
  \/ mem[UserKey(x)] # <<>> => dur[UserKey(x)] # <<>>

\* A Follow goes on with the users that it has found.
KnownCall(t) ==
  /\ call[t].pc \in {"follow_other", "follow_pair", "follow_put_pair",
                     "follow_put_following", "follow_put_follower"} => Known(call[t].a)
  /\ call[t].pc \in {"follow_pair", "follow_put_pair", "follow_put_following",
                     "follow_put_follower"} => Known(call[t].b)

KnownListed(u) ==
  \A x \in Range(mem[FollowingsKey(u)]) \cup Range(mem[FollowersKey(u)]) :
    Known(u) /\ Known(x)

AllKnown ==
  /\ \A x \in Users : KnownKept(x)
  /\ \A t \in Threads : KnownCall(t)
  /\ \A u \in Users : KnownListed(u)

\* What a profile has to show is in the log, and what was shown of it is in the answer.
Whole(t) ==
  call[t].op = "Profile" =>
    LET must == call[t].must
        out  == call[t].out IN
    /\ must[1] \subseteq Range(dur[FollowingsKey(call[t].a)])
    /\ must[2] \subseteq Range(dur[FollowersKey(call[t].a)])
    /\ call[t].pc \in {"profile_user", "profile_followings"} => out = <<>>
    /\ call[t].pc = "profile_followers" => Len(out) = 1 /\ must[1] \subseteq Range(out[1])
    /\ call[t].status = "OK" => /\ Len(out) = 2
                                /\ must[1] \subseteq Range(out[1])
                                /\ must[2] \subseteq Range(out[2])

AllWhole == \A t \in Threads : Whole(t)

-----------------------------------------------------------------------------
(* What the steps of these calls do.                                       *)

\* Thread t, at pc in a call of op, has asked for key, and goes on.
Checked(t, pc, op, key, ifNone, ifSome) ==
  /\ call[t].pc = pc /\ call[t].op = op /\ call[t].a \in Users
  /\ op = "Follow" => call[t].b \in Users
  /\ UNCHANGED <<mem, dur, issued, known, calls>>
  /\ \/ /\ Moves(t, ifNone)
        /\ \/ mishaps' = mishaps /\ (mem[key] = <<>> \/ ifNone.status # "NONE")
           \/ mishaps' = mishaps \cup Blinds(t)
     \/ Moves(t, ifSome) /\ mem[key] # <<>> /\ mishaps' = mishaps

\* Thread t, at pc in a call of op, has put value under key, and goes on to then.
Put(t, pc, op, key, value, then) ==
  /\ call[t].pc = pc /\ call[t].op = op /\ call[t].a \in Users
  /\ op = "Follow" => call[t].b \in Users
  /\ op = "RegisterUser" => call[t].b = NoCaw
  /\ UNCHANGED <<issued, known, calls>>
  /\ key \in StoreKeys /\ value \in Entries
  /\ \E ok \in BOOLEAN :
       /\ Adds(key, value, ok)
       /\ Moves(t, IF ok THEN then ELSE Answer("UNAVAILABLE"))
       /\ mishaps' = IF ok THEN mishaps
                     ELSE mishaps \cup {<<op, call[t].a, call[t].b, "failed">>}

LEMMA UserChecks ==
  ASSUME Typed, NEW t \in Threads
  PROVE  /\ RegisterCheck(t) =>
              Checked(t, "register_check", "RegisterUser", UserKey(call[t].a),
                      Continue("register_put"), Answer("ALREADY_EXISTS"))
         /\ FollowCheckUser(t) =>
              Checked(t, "follow_user", "Follow", UserKey(call[t].a),
                      Answer("NOT_FOUND"), Continue("follow_other"))
         /\ FollowCheckOther(t) =>
              Checked(t, "follow_other", "Follow", UserKey(call[t].b),
                      Answer("NOT_FOUND"), Continue("follow_pair"))
         /\ FollowCheckPair(t) =>
              Checked(t, "follow_pair", "Follow", PairKey(call[t].a, call[t].b),
                      Continue("follow_put_pair"), Answer("ALREADY_EXISTS"))
         /\ ProfileCheckUser(t) =>
              Checked(t, "profile_user", "Profile", UserKey(call[t].a),
                      Answer("NOT_FOUND"), Continue("profile_followings"))
<1> DEFINE a == call[t].a
           b == call[t].b
<1>0. CallOK(call[t])
  BY DEF Typed
<1>w. /\ \A s \in {"NOT_FOUND", "ALREADY_EXISTS"} : Answer(s) \in Where
      /\ \A pc \in PCs : Continue(pc) \in Where
  BY WheresTyped DEF Statuses
<1>1. CASE RegisterCheck(t)
  <2>1. call[t].op = "RegisterUser" /\ a \in Users /\ UserKey(a) \in StoreKeys
    BY <1>0, <1>1, KeysInStore DEF RegisterCheck, Check, CallOK
  <2>2. Checked(t, "register_check", "RegisterUser", UserKey(a),
                Continue("register_put"), Answer("ALREADY_EXISTS"))
    BY <1>1, <1>w, <2>1, CheckEffect DEF RegisterCheck, PCs, Checked
  <2> QED BY <1>1, <2>2 DEF RegisterCheck, FollowCheckUser, FollowCheckOther,
                            FollowCheckPair, ProfileCheckUser, Check
<1>2. CASE FollowCheckUser(t)
  <2>1. call[t].op = "Follow" /\ a \in Users /\ b \in Users /\ UserKey(a) \in StoreKeys
    BY <1>0, <1>2, KeysInStore DEF FollowCheckUser, Check, CallOK
  <2>2. Checked(t, "follow_user", "Follow", UserKey(a),
                Answer("NOT_FOUND"), Continue("follow_other"))
    BY <1>2, <1>w, <2>1, CheckEffect DEF FollowCheckUser, PCs, Checked
  <2> QED BY <1>2, <2>2 DEF RegisterCheck, FollowCheckUser, FollowCheckOther,
                            FollowCheckPair, ProfileCheckUser, Check
<1>3. CASE FollowCheckOther(t)
  <2>1. call[t].op = "Follow" /\ a \in Users /\ b \in Users /\ UserKey(b) \in StoreKeys
    BY <1>0, <1>3, KeysInStore DEF FollowCheckOther, Check, CallOK
  <2>2. Checked(t, "follow_other", "Follow", UserKey(b),
                Answer("NOT_FOUND"), Continue("follow_pair"))
    BY <1>3, <1>w, <2>1, CheckEffect DEF FollowCheckOther, PCs, Checked
  <2> QED BY <1>3, <2>2 DEF RegisterCheck, FollowCheckUser, FollowCheckOther,
                            FollowCheckPair, ProfileCheckUser, Check
<1>4. CASE FollowCheckPair(t)
  <2>1. call[t].op = "Follow" /\ a \in Users /\ b \in Users /\ PairKey(a, b) \in StoreKeys
    BY <1>0, <1>4, KeysInStore DEF FollowCheckPair, Check, CallOK
  <2>2. Checked(t, "follow_pair", "Follow", PairKey(a, b),
                Continue("follow_put_pair"), Answer("ALREADY_EXISTS"))
    BY <1>4, <1>w, <2>1, CheckEffect DEF FollowCheckPair, PCs, Checked
  <2> QED BY <1>4, <2>2 DEF RegisterCheck, FollowCheckUser, FollowCheckOther,
                            FollowCheckPair, ProfileCheckUser, Check
<1>5. CASE ProfileCheckUser(t)
  <2>1. call[t].op = "Profile" /\ a \in Users /\ UserKey(a) \in StoreKeys
    BY <1>0, <1>5, KeysInStore DEF ProfileCheckUser, Check, CallOK
  <2>2. Checked(t, "profile_user", "Profile", UserKey(a),
                Answer("NOT_FOUND"), Continue("profile_followings"))
    BY <1>5, <1>w, <2>1, CheckEffect DEF ProfileCheckUser, PCs, Checked
  <2> QED BY <1>5, <2>2 DEF RegisterCheck, FollowCheckUser, FollowCheckOther,
                            FollowCheckPair, ProfileCheckUser, Check
<1> QED BY <1>1, <1>2, <1>3, <1>4, <1>5

LEMMA UserPuts ==
  ASSUME Typed, NEW t \in Threads
  PROVE  /\ RegisterPut(t) =>
              Put(t, "register_put", "RegisterUser", UserKey(call[t].a), "", Answer("OK"))
         /\ FollowPutPair(t) =>
              Put(t, "follow_put_pair", "Follow", PairKey(call[t].a, call[t].b), "",
                  Continue("follow_put_following"))
         /\ FollowPutFollowing(t) =>
              Put(t, "follow_put_following", "Follow", FollowingsKey(call[t].a),
                  call[t].b, Continue("follow_put_follower"))
         /\ FollowPutFollower(t) =>
              Put(t, "follow_put_follower", "Follow", FollowersKey(call[t].b),
                  call[t].a, Answer("OK"))
<1> DEFINE a == call[t].a
           b == call[t].b
<1>0. CallOK(call[t])
  BY DEF Typed
<1>w. /\ Answer("OK") \in Where
      /\ \A pc \in PCs : Continue(pc) \in Where
      /\ "" \in Entries /\ \A u \in Users : u \in Entries
  BY WheresTyped DEF Statuses, Entries
<1>p. ASSUME NEW pc, NEW op \in {"RegisterUser", "Follow"}, NEW key \in StoreKeys,
             NEW value \in Entries, NEW then \in Where, Store(t, pc, key, value, then),
             call[t].op = op, a \in Users, op = "Follow" => b \in Users,
             op = "RegisterUser" => b = NoCaw
      PROVE  Put(t, pc, op, key, value, then)
  <2>1. PICK ok \in BOOLEAN :
          /\ Adds(key, value, ok)
          /\ Moves(t, AfterPut(ok, then))
          /\ mishaps' = mishaps \cup IF ok THEN {} ELSE Fails(t)
    BY <1>p, StoreEffect
  <2>2. call[t].pc = pc /\ UNCHANGED <<issued, known, calls>>
    BY <1>p, StoreEffect
  <2>3. Fails(t) = {<<op, a, b, "failed">>}
    BY <1>p DEF Fails, Notes
  <2>4. AfterPut(ok, then) = IF ok THEN then ELSE Answer("UNAVAILABLE")
    BY DEF AfterPut
  <2> QED BY <1>p, <2>1, <2>2, <2>3, <2>4 DEF Put
<1>1. CASE RegisterPut(t)
  <2>1. call[t].op = "RegisterUser" /\ a \in Users /\ b = NoCaw /\ UserKey(a) \in StoreKeys
    BY <1>0, <1>1, KeysInStore DEF RegisterPut, Store, CallOK
  <2>2. Put(t, "register_put", "RegisterUser", UserKey(a), "", Answer("OK"))
    BY <1>1, <1>w, <1>p, <2>1 DEF RegisterPut
  <2> QED BY <1>1, <2>2 DEF RegisterPut, FollowPutPair, FollowPutFollowing,
                            FollowPutFollower, Store
<1>2. CASE FollowPutPair(t) \/ FollowPutFollowing(t) \/ FollowPutFollower(t)
  <2>1. /\ call[t].op = "Follow" /\ a \in Users /\ b \in Users
        /\ PairKey(a, b) \in StoreKeys /\ FollowingsKey(a) \in StoreKeys
        /\ FollowersKey(b) \in StoreKeys
    BY <1>0, <1>2, KeysInStore
       DEF FollowPutPair, FollowPutFollowing, FollowPutFollower, Store, CallOK
  <2>2. FollowPutPair(t) => Put(t, "follow_put_pair", "Follow", PairKey(a, b), "",
                                Continue("follow_put_following"))
    BY <1>w, <1>p, <2>1 DEF FollowPutPair, PCs
  <2>3. FollowPutFollowing(t) =>
          Put(t, "follow_put_following", "Follow", FollowingsKey(a), b,
              Continue("follow_put_follower"))
    BY <1>w, <1>p, <2>1 DEF FollowPutFollowing, PCs
  <2>4. FollowPutFollower(t) =>
          Put(t, "follow_put_follower", "Follow", FollowersKey(b), a, Answer("OK"))
    BY <1>w, <1>p, <2>1 DEF FollowPutFollower
  <2>5. ~RegisterPut(t)
    BY <1>2 DEF RegisterPut, FollowPutPair, FollowPutFollowing, FollowPutFollower, Store
  <2> QED BY <2>2, <2>3, <2>4, <2>5
<1> QED BY <1>1, <1>2

LEMMA ProfileGets ==
  ASSUME Typed, NEW t \in Threads, NEW key, NEW then, NEW pc,
         \/ /\ ProfileGetFollowings(t) /\ pc = "profile_followings"
            /\ key = FollowingsKey(call[t].a) /\ then = Continue("profile_followers")
         \/ /\ ProfileGetFollowers(t) /\ pc = "profile_followers"
            /\ key = FollowersKey(call[t].a) /\ then = Answer("OK")
  PROVE  /\ call[t].op = "Profile" /\ call[t].pc = pc /\ call[t].a \in Users
         /\ call[t].out \in Seq(Seq(Users))
         /\ key \in StoreKeys /\ mem[key] \in Seq(Users)
         /\ UNCHANGED <<mem, dur, issued, known, mishaps, calls>>
         /\ Goes(t, then)
         /\ call'[t].id = call[t].id /\ call'[t].queue = call[t].queue
         /\ \E values \in Gets(key) : /\ values \in Seq(Users)
                                      /\ call'[t].out = Append(call[t].out, values)
<1>1. ProfileGet(t, pc, key, then)
  BY DEF ProfileGetFollowings, ProfileGetFollowers
<1>2. call[t].op = "Profile" /\ call[t].a \in Users /\ call[t].out \in Seq(Seq(Users))
  BY <1>1 DEF ProfileGet, Typed, CallOK
<1>3. key \in StoreKeys /\ mem[key] \in Seq(Users)
  BY <1>2, KeysInStore DEF Typed, StoreOK
<1>4. then \in Where
  BY WheresTyped DEF Statuses, PCs
<1> QED BY <1>1, <1>2, <1>3, <1>4, ProfileGetEffect

-----------------------------------------------------------------------------
(* What is answered OK lasts.                                              *)

LEMMA KeptStays ==
  ASSUME Typed, [Next]_vars, NEW s \in Threads, Kept(s), call'[s] = call[s]
  PROVE  Kept(s)'
<1>1. /\ Grows
      /\ \A id \in Ids : Stored(id) => Stored(id)'
  BY StoredStays
<1>2. ASSUME NEW k \in StoreKeys, dur[k] # <<>> PROVE dur'[k] # <<>>
  <2>1. dur[k] \in Seq(Entries) /\ dur'[k] \in Seq(Entries)
    BY NextTyped DEF Typed, StoreOK
  <2> QED BY <1>1, <1>2, <2>1, RangeFacts DEF Grows
<1>3. \A k \in StoreKeys : Range(dur[k]) \subseteq Range(dur'[k])
  BY <1>1 DEF Grows
<1>4. CallOK(call[s])
  BY DEF Typed
<1> DEFINE a == call[s].a
           b == call[s].b
<1>5. call[s].op = "RegisterUser" => UserKey(a) \in StoreKeys
  BY <1>4, KeysInStore DEF CallOK
<1>6. call[s].op = "Follow" => /\ PairKey(a, b) \in StoreKeys
                               /\ FollowingsKey(a) \in StoreKeys
                               /\ FollowersKey(b) \in StoreKeys
  BY <1>4, KeysInStore DEF CallOK
<1>7. b \in Ids => ReplyKey(b) \in StoreKeys
  BY KeysInStore
<1>8. call[s].pc \in {"follow_put_following", "follow_put_follower"} => call[s].op = "Follow"
  BY <1>4 DEF CallOK
<1> QED BY <1>1, <1>2, <1>3, <1>5, <1>6, <1>7, <1>8 DEF Kept

\* A thread that is about to put nothing more, and has not answered OK.
LEMMA KeptOther ==
  ASSUME NEW s \in Threads,
         call'[s].pc \notin {"follow_put_following", "follow_put_follower"},
         call'[s].status # "OK" \/ call'[s].op \in {"Profile", "Read"}
  PROVE  Kept(s)'
BY DEF Kept

LEMMA InitIdle ==
  ASSUME Init, NEW t \in Threads
  PROVE  /\ call[t].op = "none" /\ call[t].pc = "done" /\ call[t].status = "NONE"
         /\ call[t].out = <<>>
BY DEF Init, NoCall

LEMMA InitKept == Init => AllKept
BY InitIdle DEF AllKept, Kept

LEMMA UserPutsKept ==
  ASSUME Typed, [Next]_vars, AllKept, NEW t \in Threads,
         RegisterPut(t) \/ FollowPutPair(t) \/ FollowPutFollowing(t) \/ FollowPutFollower(t)
  PROVE  Kept(t)'
<1> DEFINE a == call[t].a
           b == call[t].b
<1>1. Kept(t) /\ Typed' /\ Grows
  BY NextTyped, NextGrows DEF AllKept
<1>2. ASSUME NEW pc, NEW op, NEW key, NEW value, NEW then, Put(t, pc, op, key, value, then),
             ~(call'[t].pc = then.pc /\ call'[t].status = then.status
                 /\ dur'[key] # <<>> /\ value \in Range(dur'[key]))
      PROVE  Kept(t)'
  <2>1. PICK ok \in BOOLEAN :
          /\ Adds(key, value, ok)
          /\ Moves(t, IF ok THEN then ELSE Answer("UNAVAILABLE"))
    BY <1>2 DEF Put
  <2>2. CASE ok
    <3>1. dur'[key] = Append(dur[key], value) /\ dur[key] \in Seq(Entries)
      BY <1>2, <2>1, <2>2 DEF Adds, Put, Typed, StoreOK
    <3>2. dur'[key] # <<>> /\ value \in Range(dur'[key])
      BY <1>2, <3>1, AppendFacts DEF Put
    <3> QED BY <1>2, <2>1, <2>2, <3>2 DEF Moves, Goes
  <2>3. CASE ~ok
    BY <2>1, <2>3, KeptOther DEF Moves, Goes, Answer
  <2> QED BY <2>2, <2>3
<1>3. CASE RegisterPut(t)
  <2>1. Put(t, "register_put", "RegisterUser", UserKey(a), "", Answer("OK"))
    BY <1>3, UserPuts
  <2>2. call'[t].op = "RegisterUser" /\ call'[t].a = a
    BY <2>1 DEF Put, Moves, Goes
  <2>3. CASE call'[t].pc = "done" /\ dur'[UserKey(a)] # <<>>
    BY <2>2, <2>3 DEF Kept
  <2> QED BY <1>2, <2>1, <2>3 DEF Answer
<1>4. CASE FollowPutPair(t)
  <2>1. Put(t, "follow_put_pair", "Follow", PairKey(a, b), "", Continue("follow_put_following"))
    BY <1>4, UserPuts
  <2>2. call'[t].op = "Follow" /\ call'[t].a = a /\ call'[t].b = b
    BY <2>1 DEF Put, Moves, Goes
  <2>3. CASE call'[t].pc = "follow_put_following" /\ call'[t].status = "NONE"
             /\ dur'[PairKey(a, b)] # <<>>
    BY <2>2, <2>3 DEF Kept
  <2> QED BY <1>2, <2>1, <2>3 DEF Continue
<1>5. CASE FollowPutFollowing(t)
  <2>1. Put(t, "follow_put_following", "Follow", FollowingsKey(a), b,
            Continue("follow_put_follower"))
    BY <1>5, UserPuts
  <2>2. call'[t].op = "Follow" /\ call'[t].a = a /\ call'[t].b = b
    BY <2>1 DEF Put, Moves, Goes
  <2>3. dur'[PairKey(a, b)] # <<>>
    <3>1. dur[PairKey(a, b)] # <<>> /\ a \in Users /\ b \in Users
      BY <1>1, <2>1 DEF Kept, Put
    <3>2. PairKey(a, b) \in StoreKeys
      BY <3>1, KeysInStore
    <3>3. dur[PairKey(a, b)] \in Seq(Entries) /\ dur'[PairKey(a, b)] \in Seq(Entries)
      BY <1>1, <3>2 DEF Typed, StoreOK
    <3> QED BY <1>1, <3>1, <3>2, <3>3, RangeFacts DEF Grows
  <2>4. CASE call'[t].pc = "follow_put_follower" /\ call'[t].status = "NONE"
             /\ b \in Range(dur'[FollowingsKey(a)])
    BY <2>2, <2>3, <2>4 DEF Kept
  <2> QED BY <1>2, <2>1, <2>4 DEF Continue
<1>6. CASE FollowPutFollower(t)
  <2>1. Put(t, "follow_put_follower", "Follow", FollowersKey(b), a, Answer("OK"))
    BY <1>6, UserPuts
  <2>2. call'[t].op = "Follow" /\ call'[t].a = a /\ call'[t].b = b
    BY <2>1 DEF Put, Moves, Goes
  <2>3. dur'[PairKey(a, b)] # <<>> /\ b \in Range(dur'[FollowingsKey(a)])
    <3>1. /\ dur[PairKey(a, b)] # <<>> /\ b \in Range(dur[FollowingsKey(a)])
          /\ a \in Users /\ b \in Users
      BY <1>1, <2>1 DEF Kept, Put
    <3>2. PairKey(a, b) \in StoreKeys /\ FollowingsKey(a) \in StoreKeys
      BY <3>1, KeysInStore
    <3>3. dur[PairKey(a, b)] \in Seq(Entries) /\ dur'[PairKey(a, b)] \in Seq(Entries)
      BY <1>1, <3>2 DEF Typed, StoreOK
    <3>4. dur'[PairKey(a, b)] # <<>>
      BY <1>1, <3>1, <3>2, <3>3, RangeFacts DEF Grows
    <3>5. b \in Range(dur'[FollowingsKey(a)])
      BY <1>1, <3>1, <3>2 DEF Grows
    <3> QED BY <3>4, <3>5
  <2>4. CASE call'[t].pc = "done" /\ a \in Range(dur'[FollowersKey(b)])
    BY <2>2, <2>3, <2>4 DEF Kept
  <2> QED BY <1>2, <2>1, <2>4 DEF Answer
<1> QED BY <1>3, <1>4, <1>5, <1>6

LEMMA CawPutsKept ==
  ASSUME Typed, CawsStored, [Next]_vars, NEW t \in Threads, CawPut(t) \/ CawPutReply(t)
  PROVE  Kept(t)'
<1> DEFINE b == call[t].b
<1>1. CASE CawPut(t)
  <2>1. PICK id \in Ids, ok \in BOOLEAN :
          /\ Adds(CawKey(id), [user |-> call[t].a, parent |-> b], ok)
          /\ Fits(CawKey(id), [user |-> call[t].a, parent |-> b])
          /\ Goes(t, AfterPut(ok, IF b = NoCaw THEN Answer("OK")
                                  ELSE Continue("caw_put_reply")))
          /\ call'[t].id = id
    BY <1>1, CawPutEffect
  <2>2. call[t].op = "Caw"
    BY <1>1, CawPutEffect
  <2>3. /\ call'[t].op = "Caw" /\ call'[t].b = b
        /\ call'[t].pc \notin {"follow_put_following", "follow_put_follower"}
        /\ call'[t].status = "OK" => ok /\ b = NoCaw
    BY <2>1, <2>2 DEF Goes, AfterPut, Answer, Continue
  <2>4. ok => dur'[CawKey(id)] # <<>>
    <3>1. SUFFICES ASSUME ok PROVE dur'[CawKey(id)] # <<>>
      OBVIOUS
    <3>2. dur'[CawKey(id)] = Append(dur[CawKey(id)], [user |-> call[t].a, parent |-> b])
      BY <2>1, <3>1 DEF Adds
    <3>3. dur[CawKey(id)] \in Seq(Entries)
      BY KeysInStore DEF Typed, StoreOK
    <3> QED BY <2>1, <3>2, <3>3, AppendFacts DEF Fits
  <2> QED BY <2>1, <2>3, <2>4 DEF Kept, Stored
<1>2. CASE CawPutReply(t)
  <2> DEFINE id == call[t].id
  <2>1. PICK ok \in BOOLEAN : /\ Adds(ReplyKey(b), id, ok)
                              /\ Moves(t, AfterPut(ok, Answer("OK")))
    BY <1>2, CawPutReplyEffect
  <2>2. /\ call[t].op = "Caw" /\ call[t].pc = "caw_put_reply" /\ b \in Ids /\ id \in Ids
    BY <1>2, CawPutReplyEffect
  <2>3. /\ call'[t].op = "Caw" /\ call'[t].b = b /\ call'[t].id = id
        /\ call'[t].pc = "done"
        /\ call'[t].status = "OK" => ok
    BY <2>1, <2>2 DEF Moves, Goes, AfterPut, Answer
  <2>4. dur'[CawKey(id)] # <<>>
    <3>1. StoredUnder(id, b)
      BY <2>2 DEF CawsStored, CallStored
    <3>2. dur[CawKey(id)] \in Seq(Caws)
      BY <2>2 DEF Typed, StoreOK
    <3>3. Stored(id)
      BY <3>1, <3>2, RangeFacts DEF StoredUnder, Stored
    <3>4. \A i \in Ids : Stored(i) => dur'[CawKey(i)] # <<>>
      BY StoredStays DEF Stored
    <3> QED BY <2>2, <3>3, <3>4
  <2>5. ok => id \in Range(dur'[ReplyKey(b)])
    <3>1. SUFFICES ASSUME ok PROVE id \in Range(dur'[ReplyKey(b)])
      OBVIOUS
    <3>2. dur'[ReplyKey(b)] = Append(dur[ReplyKey(b)], id)
      BY <2>1, <3>1 DEF Adds
    <3>3. dur[ReplyKey(b)] \in Seq(Ids)
      BY <2>2 DEF Typed, StoreOK
    <3> QED BY <2>2, <3>2, <3>3, AppendFacts
  <2> QED BY <2>2, <2>3, <2>4, <2>5 DEF Kept, Stored
<1> QED BY <1>1, <1>2

LEMMA NextKept == Typed /\ CawsStored /\ AllKept /\ [Next]_vars => AllKept'
<1> SUFFICES ASSUME Typed, CawsStored, AllKept, [Next]_vars PROVE AllKept'
  OBVIOUS
<1>1. ASSUME NEW s \in Threads, call'[s] = call[s] PROVE Kept(s)'
  BY <1>1, KeptStays DEF AllKept
<1>2. ASSUME NEW t \in Threads, Kept(t)', \A s \in Threads \ {t} : call'[s] = call[s]
      PROVE  AllKept'
  BY <1>1, <1>2 DEF AllKept
<1>3. ASSUME NEW t \in Threads, Event(t) PROVE AllKept'
  <2>1. /\ call'[t].status = "NONE"
        /\ call'[t].pc \notin {"follow_put_following", "follow_put_follower"}
        /\ \A s \in Threads \ {t} : call'[s] = call[s]
    BY <1>3, EventEffect DEF Begins
  <2> QED BY <1>2, <2>1, KeptOther
<1>4. ASSUME NEW t \in Threads, Step(t) PROVE AllKept'
  <2>1. \A s \in Threads \ {t} : call'[s] = call[s]
    BY <1>4, UserStepEffect, CawStepEffect, OutlivesEffect
       DEF Step, UserStep, CawStep, UserMove, Outlives, Moves, Goes
  <2>2. CASE \/ RegisterCheck(t) \/ FollowCheckUser(t) \/ FollowCheckOther(t)
             \/ FollowCheckPair(t) \/ ProfileCheckUser(t)
    <3>1. /\ call'[t].status # "OK"
          /\ call'[t].pc \notin {"follow_put_following", "follow_put_follower"}
      BY <2>2, UserChecks DEF Checked, Moves, Goes, Answer, Continue
    <3> QED BY <1>2, <2>1, <3>1, KeptOther
  <2>3. CASE \/ RegisterPut(t) \/ FollowPutPair(t) \/ FollowPutFollowing(t)
             \/ FollowPutFollower(t)
    BY <1>2, <2>1, <2>3, UserPutsKept
  <2>4. CASE ProfileGetFollowings(t) \/ ProfileGetFollowers(t)
    <3>1. /\ call'[t].op = "Profile"
          /\ call'[t].pc \notin {"follow_put_following", "follow_put_follower"}
      <4>1. CASE ProfileGetFollowings(t)
        <5>1. call[t].op = "Profile" /\ Goes(t, Continue("profile_followers"))
          BY <4>1, ProfileGets
        <5> QED BY <5>1 DEF Goes, Continue
      <4>2. CASE ProfileGetFollowers(t)
        <5>1. call[t].op = "Profile" /\ Goes(t, Answer("OK"))
          BY <4>2, ProfileGets
        <5> QED BY <5>1 DEF Goes, Answer
      <4> QED BY <2>4, <4>1, <4>2
    <3> QED BY <1>2, <2>1, <3>1, KeptOther
  <2>5. CASE CawCheckUser(t) \/ CawCheckParent(t)
    <3>1. /\ call'[t].status # "OK"
          /\ call'[t].pc \notin {"follow_put_following", "follow_put_follower"}
      BY <2>5, CawCheckEffect DEF Moves, Goes
    <3> QED BY <1>2, <2>1, <3>1, KeptOther
  <2>6. CASE CawPut(t) \/ CawPutReply(t)
    BY <1>2, <2>1, <2>6, CawPutsKept
  <2>7. CASE ReadCheck(t) \/ ReadCaw(t) \/ ReadReplies(t)
    <3>1. call[t].op = "Read" /\ call'[t].op = call[t].op
      BY <2>7, ReadCheckEffect, ReadCawEffect, ReadRepliesEffect DEF Moves, Goes
    <3>2. CallOK(call'[t])
      BY NextTyped DEF Typed
    <3>3. call'[t].pc \notin {"follow_put_following", "follow_put_follower"}
      BY <3>1, <3>2 DEF CallOK
    <3> QED BY <1>2, <2>1, <3>1, <3>3, KeptOther
  <2>8. CASE PutOutlivesCall(t)
    <3>1. /\ call'[t].op = call[t].op /\ call'[t].a = call[t].a /\ call'[t].b = call[t].b
          /\ call'[t].pc = call[t].pc /\ call'[t].status = "UNAVAILABLE" /\ dur' = dur
      BY <2>8, OutlivesEffect DEF Outlives, Moves, Goes
    <3>2. Kept(t)
      BY DEF AllKept
    <3>3. Kept(t)'
      BY <3>1, <3>2 DEF Kept
    <3> QED BY <1>2, <2>1, <3>3
  <2> QED BY <1>4, <2>2, <2>3, <2>4, <2>5, <2>6, <2>7, <2>8 DEF Step
<1>5. CASE KvRestart \/ UNCHANGED vars
  BY <1>1, <1>5 DEF KvRestart, vars, AllKept
<1>6. CASE FazCrash
  <2>1. ASSUME NEW s \in Threads PROVE Kept(s)'
    BY <1>1, <1>6, FazCrashEffect, KeptOther
  <2> QED BY <2>1 DEF AllKept
<1> QED BY <1>3, <1>4, <1>5, <1>6 DEF Next

\* What the property asks of a call is what is kept of it.
LEMMA KeptAnswered == AllKept => AnsweredOkLasts
<1> SUFFICES ASSUME AllKept, NEW t \in Threads, call[t].status = "OK"
             PROVE  LET a == call[t].a
                        b == call[t].b IN
                    CASE call[t].op = "RegisterUser" -> dur[UserKey(a)] # <<>>
                      [] call[t].op = "Follow" -> /\ dur[PairKey(a, b)] # <<>>
                                                  /\ b \in Range(dur[FollowingsKey(a)])
                                                  /\ a \in Range(dur[FollowersKey(b)])
                      [] call[t].op = "Caw" ->
                           /\ dur[CawKey(call[t].id)] # <<>>
                           /\ b # NoCaw => call[t].id \in Range(dur[ReplyKey(b)])
                      [] OTHER -> TRUE
  BY DEF AnsweredOkLasts
<1>1. Kept(t)
  BY DEF AllKept
<1> QED BY <1>1 DEF Kept, Stored

-----------------------------------------------------------------------------
(* Counting entries and threads.                                           *)

LEMMA OccurrencesType ==
  ASSUME NEW T, NEW s \in Seq(T), NEW x
  PROVE  /\ IsFiniteSet({i \in DOMAIN s : s[i] = x})
         /\ Occurrences(x, s) \in Nat
<1>1. IsFiniteSet(1..Len(s)) /\ DOMAIN s = 1..Len(s)
  BY FS_Interval
<1>2. IsFiniteSet({i \in DOMAIN s : s[i] = x})
  BY <1>1, FS_Subset
<1> QED BY <1>2, FS_CardinalityType DEF Occurrences

LEMMA OccurrencesAppend ==
  ASSUME NEW T, NEW s \in Seq(T), NEW e \in T, NEW x
  PROVE  Occurrences(x, Append(s, e)) = Occurrences(x, s) + IF e = x THEN 1 ELSE 0
<1> DEFINE Places(r) == {i \in DOMAIN r : r[i] = x}
           r == Append(s, e)
           n == Len(s) + 1
<1>1. /\ r \in Seq(T) /\ DOMAIN s = 1..Len(s) /\ DOMAIN r = 1..n /\ Len(s) \in Nat
      /\ \A i \in 1..Len(s) : r[i] = s[i]
      /\ r[n] = e
  BY AppendFacts
<1>2. IsFiniteSet(Places(s))
  BY OccurrencesType
<1>3. n \notin Places(s)
  BY <1>1
<1>4. CASE e = x
  <2>1. Places(r) = Places(s) \cup {n}
    BY <1>1, <1>4
  <2>2. Cardinality(Places(s) \cup {n}) = Cardinality(Places(s)) + 1
    BY <1>2, <1>3, FS_AddElement
  <2>3. /\ Occurrences(x, r) = Cardinality(Places(r))
        /\ Occurrences(x, s) = Cardinality(Places(s))
    BY DEF Occurrences
  <2> HIDE DEF Places, r
  <2>4. Occurrences(x, r) = Occurrences(x, s) + 1
    BY <2>1, <2>2, <2>3
  <2>5. (IF e = x THEN 1 ELSE 0) = 1
    BY <1>4
  <2> QED BY <2>4, <2>5 DEF r
<1>5. CASE e # x
  <2>1. Places(r) = Places(s)
    BY <1>1, <1>5
  <2>2. Occurrences(x, s) \in Nat
    BY OccurrencesType
  <2>3. Occurrences(x, r) = Occurrences(x, s)
    BY <2>1 DEF Occurrences
  <2>4. (IF e = x THEN 1 ELSE 0) = 0
    BY <1>5
  <2> HIDE DEF r
  <2>5. Occurrences(x, r) = Occurrences(x, s) + 0
    BY <2>2, <2>3
  <2> QED BY <2>4, <2>5 DEF r
<1> QED BY <1>4, <1>5

LEMMA OccurrencesEmpty ==
  ASSUME NEW x
  PROVE  Occurrences(x, <<>>) = 0
<1>1. {i \in DOMAIN <<>> : <<>>[i] = x} = {}
  OBVIOUS
<1> QED BY <1>1, FS_EmptySet DEF Occurrences

LEMMA AtType ==
  ASSUME NEW pc, NEW u, NEW v
  PROVE  /\ IsFiniteSet(At(pc, u, v)) /\ Cardinality(At(pc, u, v)) \in Nat
         /\ At(pc, u, v) = {} => Cardinality(At(pc, u, v)) = 0
<1>1. At(pc, u, v) \subseteq Threads
  BY DEF At
<1>2. IsFiniteSet(At(pc, u, v))
  BY <1>1, ThreadsAssumption, FS_Subset
<1> QED BY <1>2, FS_CardinalityType, FS_EmptySet

\* A step of one thread changes the count at a stage by that thread.
LEMMA AtChanges ==
  ASSUME NEW t \in Threads, \A s \in Threads \ {t} : call'[s] = call[s],
         NEW pc, NEW u, NEW v
  PROVE  Cardinality(At(pc, u, v)') + (IF t \in At(pc, u, v) THEN 1 ELSE 0)
           = Cardinality(At(pc, u, v)) + (IF t \in At(pc, u, v)' THEN 1 ELSE 0)
<1> DEFINE A == At(pc, u, v)
           B == At(pc, u, v)'
<1>1. IsFiniteSet(A) /\ Cardinality(A) \in Nat
  BY AtType
<1>2. B \subseteq Threads
  BY DEF At
<1>3. IsFiniteSet(B)
  BY <1>2, ThreadsAssumption, FS_Subset
<1>4. Cardinality(B) \in Nat
  BY <1>3, FS_CardinalityType
<1>5. \A s \in Threads \ {t} : s \in A <=> s \in B
  BY DEF At
<1>6. A \subseteq Threads
  BY DEF At
<1> HIDE DEF A, B
<1>7. CASE t \in A /\ t \in B
  <2>1. A = B
    BY <1>2, <1>5, <1>6, <1>7
  <2> QED BY <1>1, <1>7, <2>1 DEF A, B
<1>8. CASE t \notin A /\ t \notin B
  <2>1. A = B
    BY <1>2, <1>5, <1>6, <1>8
  <2> QED BY <1>1, <1>8, <2>1 DEF A, B
<1>9. CASE t \in A /\ t \notin B
  <2>1. A = B \cup {t}
    BY <1>2, <1>5, <1>6, <1>9
  <2>2. Cardinality(A) = Cardinality(B) + 1
    BY <1>3, <1>9, <2>1, FS_AddElement
  <2> QED BY <1>4, <1>9, <2>2 DEF A, B
<1>10. CASE t \notin A /\ t \in B
  <2>1. B = A \cup {t}
    BY <1>2, <1>5, <1>6, <1>10
  <2>2. Cardinality(B) = Cardinality(A) + 1
    BY <1>1, <1>10, <2>1, FS_AddElement
  <2> QED BY <1>1, <1>10, <2>2 DEF A, B
<1> QED BY <1>7, <1>8, <1>9, <1>10

LEMMA NumbersType ==
  ASSUME NEW m, StoreOK(m), NEW u \in Users, NEW v \in Users
  PROVE  /\ Pairs(m, u, v) \in Nat /\ Followings(m, u, v) \in Nat
         /\ Followers(m, u, v) \in Nat
         /\ ToFollowings(u, v) \in Nat /\ ToFollowers(u, v) \in Nat
<1>1. m[PairKey(u, v)] \in Seq(Entries)
  BY KeysInStore DEF StoreOK
<1>2. m[FollowingsKey(u)] \in Seq(Users) /\ m[FollowersKey(v)] \in Seq(Users)
  BY DEF StoreOK
<1>3. Pairs(m, u, v) \in Nat
  BY <1>1 DEF Pairs
<1> QED BY <1>2, <1>3, OccurrencesType, AtType
        DEF Followings, Followers, ToFollowings, ToFollowers

\* Store n is m, with value put under key if plus.
Extends(m, n, key, value, plus) ==
  /\ \A k \in StoreKeys \ {key} : n[k] = m[k]
  /\ n[key] = IF plus THEN Append(m[key], value) ELSE m[key]

LEMMA AddsExtends ==
  ASSUME NEW key, NEW value, NEW ok, Adds(key, value, ok)
  PROVE  \E p, q \in BOOLEAN : /\ Extends(mem, mem', key, value, p)
                               /\ Extends(dur, dur', key, value, q)
                               /\ ok => p /\ q
<1>1. CASE mem'[key] = Append(mem[key], value) /\ dur'[key] = Append(dur[key], value)
  <2>1. Extends(mem, mem', key, value, TRUE) /\ Extends(dur, dur', key, value, TRUE)
    BY <1>1 DEF Adds, Extends
  <2> QED BY <2>1
<1>2. CASE ~ok /\ mem'[key] = Append(mem[key], value) /\ dur'[key] = dur[key]
  <2>1. Extends(mem, mem', key, value, TRUE) /\ Extends(dur, dur', key, value, FALSE)
    BY <1>2 DEF Adds, Extends
  <2> QED BY <1>2, <2>1
<1>3. CASE ~ok /\ mem'[key] = mem[key] /\ dur'[key] = dur[key]
  <2>1. Extends(mem, mem', key, value, FALSE) /\ Extends(dur, dur', key, value, FALSE)
    BY <1>3 DEF Adds, Extends
  <2> QED BY <1>3, <2>1
<1> QED BY <1>1, <1>2, <1>3 DEF Adds

\* A pair that is put counts one more pair, and changes no other number.
LEMMA PairNumbers ==
  ASSUME NEW m, NEW n, StoreOK(m), NEW a \in Users, NEW b \in Users, NEW plus \in BOOLEAN,
         NEW e \in Entries, Extends(m, n, PairKey(a, b), e, plus),
         NEW u \in Users, NEW v \in Users
  PROVE  /\ plus /\ u = a /\ v = b => Pairs(n, u, v) = Pairs(m, u, v) + 1
         /\ ~(plus /\ u = a /\ v = b) => Pairs(n, u, v) = Pairs(m, u, v)
         /\ Followings(n, u, v) = Followings(m, u, v)
         /\ Followers(n, u, v) = Followers(m, u, v)
<1>1. /\ FollowingsKey(u) \in StoreKeys \ {PairKey(a, b)}
      /\ FollowersKey(v) \in StoreKeys \ {PairKey(a, b)}
      /\ PairKey(u, v) \in StoreKeys
      /\ PairKey(u, v) = PairKey(a, b) => u = a /\ v = b
  BY KeysInStore, KeysDiffer
<1>2. m[PairKey(u, v)] \in Seq(Entries)
  BY <1>1 DEF StoreOK
<1>3. Len(Append(m[PairKey(u, v)], e)) = Len(m[PairKey(u, v)]) + 1
  BY <1>2, AppendFacts
<1>4. Followings(n, u, v) = Followings(m, u, v) /\ Followers(n, u, v) = Followers(m, u, v)
  BY <1>1 DEF Extends, Followings, Followers
<1>5. CASE plus /\ u = a /\ v = b
  BY <1>3, <1>4, <1>5 DEF Extends, Pairs
<1>6. CASE ~(plus /\ u = a /\ v = b)
  <2>1. n[PairKey(u, v)] = m[PairKey(u, v)]
    BY <1>1, <1>6 DEF Extends
  <2> QED BY <1>4, <1>6, <2>1 DEF Pairs
<1> QED BY <1>5, <1>6

LEMMA FollowingNumbers ==
  ASSUME NEW m, NEW n, StoreOK(m), NEW a \in Users, NEW b \in Users, NEW plus \in BOOLEAN,
         Extends(m, n, FollowingsKey(a), b, plus), NEW u \in Users, NEW v \in Users
  PROVE  /\ plus /\ u = a /\ v = b => Followings(n, u, v) = Followings(m, u, v) + 1
         /\ ~(plus /\ u = a /\ v = b) => Followings(n, u, v) = Followings(m, u, v)
         /\ Pairs(n, u, v) = Pairs(m, u, v)
         /\ Followers(n, u, v) = Followers(m, u, v)
<1>1. /\ PairKey(u, v) \in StoreKeys \ {FollowingsKey(a)}
      /\ FollowersKey(v) \in StoreKeys \ {FollowingsKey(a)}
      /\ FollowingsKey(u) \in StoreKeys
      /\ FollowingsKey(u) = FollowingsKey(a) => u = a
  BY KeysInStore, KeysDiffer
<1>2. m[FollowingsKey(a)] \in Seq(Users)
  BY DEF StoreOK
<1>3. /\ b = v => Occurrences(v, Append(m[FollowingsKey(a)], b))
                    = Occurrences(v, m[FollowingsKey(a)]) + 1
      /\ b # v => Occurrences(v, Append(m[FollowingsKey(a)], b))
                    = Occurrences(v, m[FollowingsKey(a)])
  <2>1. Occurrences(v, m[FollowingsKey(a)]) \in Nat
    BY <1>2, OccurrencesType
  <2> QED BY <1>2, <2>1, OccurrencesAppend
<1>4. Pairs(n, u, v) = Pairs(m, u, v) /\ Followers(n, u, v) = Followers(m, u, v)
  BY <1>1 DEF Extends, Pairs, Followers
<1>5. CASE u = a
  BY <1>3, <1>4, <1>5 DEF Extends, Followings
<1>6. CASE u # a
  <2>1. n[FollowingsKey(u)] = m[FollowingsKey(u)]
    BY <1>1, <1>6 DEF Extends
  <2> QED BY <1>4, <1>6, <2>1 DEF Followings
<1> QED BY <1>5, <1>6

LEMMA FollowerNumbers ==
  ASSUME NEW m, NEW n, StoreOK(m), NEW a \in Users, NEW b \in Users, NEW plus \in BOOLEAN,
         Extends(m, n, FollowersKey(b), a, plus), NEW u \in Users, NEW v \in Users
  PROVE  /\ plus /\ u = a /\ v = b => Followers(n, u, v) = Followers(m, u, v) + 1
         /\ ~(plus /\ u = a /\ v = b) => Followers(n, u, v) = Followers(m, u, v)
         /\ Pairs(n, u, v) = Pairs(m, u, v)
         /\ Followings(n, u, v) = Followings(m, u, v)
<1>1. /\ PairKey(u, v) \in StoreKeys \ {FollowersKey(b)}
      /\ FollowingsKey(u) \in StoreKeys \ {FollowersKey(b)}
      /\ FollowersKey(v) \in StoreKeys
      /\ FollowersKey(v) = FollowersKey(b) => v = b
  BY KeysInStore, KeysDiffer
<1>2. m[FollowersKey(b)] \in Seq(Users)
  BY DEF StoreOK
<1>3. /\ a = u => Occurrences(u, Append(m[FollowersKey(b)], a))
                    = Occurrences(u, m[FollowersKey(b)]) + 1
      /\ a # u => Occurrences(u, Append(m[FollowersKey(b)], a))
                    = Occurrences(u, m[FollowersKey(b)])
  <2>1. Occurrences(u, m[FollowersKey(b)]) \in Nat
    BY <1>2, OccurrencesType
  <2> QED BY <1>2, <2>1, OccurrencesAppend
<1>4. Pairs(n, u, v) = Pairs(m, u, v) /\ Followings(n, u, v) = Followings(m, u, v)
  BY <1>1 DEF Extends, Pairs, Followings
<1>5. CASE v = b
  BY <1>3, <1>4, <1>5 DEF Extends, Followers
<1>6. CASE v # b
  <2>1. n[FollowersKey(v)] = m[FollowersKey(v)]
    BY <1>1, <1>6 DEF Extends
  <2> QED BY <1>4, <1>6, <2>1 DEF Followers
<1> QED BY <1>5, <1>6

-----------------------------------------------------------------------------
(* Steps that leave the keys of users alone.                               *)

UserKeysStay ==
  \A key : IsUserKey(key) => mem'[key] = mem[key] /\ dur'[key] = dur[key]

\* Every thread other than t stays where it was.
OthersStay(t) == \A s \in Threads \ {t} : call'[s] = call[s]

LEMMA UserKeysAre ==
  /\ \A u \in Users : /\ IsUserKey(UserKey(u)) /\ IsUserKey(FollowingsKey(u))
                      /\ IsUserKey(FollowersKey(u))
  /\ \A u, v \in Users : IsUserKey(PairKey(u, v))
BY DEF IsUserKey

LEMMA CawStepQuiet ==
  ASSUME Typed, NEW t \in Threads, CawStep(t)
  PROVE  /\ UserKeysStay /\ mishaps' = mishaps /\ OthersStay(t)
         /\ call'[t].op = call[t].op /\ call[t].op \in {"Caw", "Read"}
<1>1. UserKeysStay
  <2>1. CASE UNCHANGED <<mem, dur>>
    BY <2>1 DEF UserKeysStay
  <2>2. CASE \E key, value, ok : IsCawKey(key) /\ Adds(key, value, ok)
    <3>1. PICK key, value, ok : IsCawKey(key) /\ Adds(key, value, ok)
      BY <2>2
    <3>2. \A k : IsUserKey(k) => k \in StoreKeys \ {key}
      BY <3>1, KeyKinds
    <3> QED BY <3>1, <3>2 DEF Adds, UserKeysStay
  <2> QED BY <2>1, <2>2, CawStepEffect
<1> QED BY <1>1, CawStepEffect DEF OthersStay, Goes

LEMMA EventQuiet ==
  ASSUME Typed, NEW t \in Threads, Event(t)
  PROVE  /\ UserKeysStay /\ UNCHANGED <<mem, dur>> /\ OthersStay(t)
         /\ call[t].pc = "done" /\ call'[t].status = "NONE"
         /\ call'[t].pc \in {"register_check", "follow_user", "profile_user",
                             "caw_user", "read_check"}
BY EventEffect DEF Begins, UserKeysStay, OthersStay

LEMMA MishapsStay == [Next]_vars => mishaps \subseteq mishaps'
<1> SUFFICES ASSUME [Next]_vars PROVE mishaps \subseteq mishaps'
  OBVIOUS
<1>1. ASSUME NEW t \in Threads, Event(t) PROVE mishaps \subseteq mishaps'
  BY <1>1 DEF Event, RegisterUser, Profile, Follow, Caw, Read, Begin
<1>2. ASSUME NEW t \in Threads, Step(t) PROVE mishaps \subseteq mishaps'
  <2>1. CASE \/ RegisterCheck(t) \/ FollowCheckUser(t) \/ FollowCheckOther(t)
             \/ FollowCheckPair(t) \/ ProfileCheckUser(t) \/ CawCheckUser(t)
             \/ CawCheckParent(t)
    BY <2>1 DEF RegisterCheck, FollowCheckUser, FollowCheckOther, FollowCheckPair,
                ProfileCheckUser, CawCheckUser, CawCheckParent, Check
  <2>2. CASE \/ RegisterPut(t) \/ FollowPutPair(t) \/ FollowPutFollowing(t)
             \/ FollowPutFollower(t)
    BY <2>2 DEF RegisterPut, FollowPutPair, FollowPutFollowing, FollowPutFollower, Store
  <2>3. CASE ProfileGetFollowings(t) \/ ProfileGetFollowers(t)
    BY <2>3 DEF ProfileGetFollowings, ProfileGetFollowers, ProfileGet
  <2>4. CASE \/ CawPut(t) \/ CawPutReply(t) \/ ReadCheck(t) \/ ReadCaw(t) \/ ReadReplies(t)
    BY <2>4 DEF CawPut, CawPutReply, ReadCheck, ReadCaw, ReadReplies
  <2>5. CASE PutOutlivesCall(t)
    BY <2>5 DEF PutOutlivesCall
  <2> QED BY <1>2, <2>1, <2>2, <2>3, <2>4, <2>5 DEF Step
<1>3. CASE KvRestart \/ FazCrash \/ UNCHANGED vars
  BY <1>3 DEF KvRestart, FazCrash, FazDies, vars
<1> QED BY <1>1, <1>2, <1>3 DEF Next

\* The call of thread t, which a crash of the Faz server ends.
LEMMA CrashNoted ==
  ASSUME FazCrash, NEW t \in Threads, Live(t),
         call[t].op \in {"RegisterUser", "Follow"}
  PROVE  <<call[t].op, call[t].a, call[t].b, "failed">> \in mishaps'
<1>1. <<call[t].op, call[t].a, call[t].b, "failed">> \in Fails(t)
  BY DEF Fails, Notes
<1> QED BY <1>1 DEF FazCrash, FazDies

\* A call begins that another thread is handling.
LEMMA RaceNoted ==
  ASSUME NEW t \in Threads, Event(t), Typed,
         call'[t].op \in {"RegisterUser", "Follow"},
         NEW s \in Threads, Same(s, call'[t].op, call'[t].a, call'[t].b)
  PROVE  <<call'[t].op, call'[t].a, call'[t].b, "raced">> \in mishaps'
<1>1. \A u \in Users : RegisterUser(t, u) =>
        <<call'[t].op, call'[t].a, call'[t].b, "raced">> \in mishaps'
  <2>1. SUFFICES ASSUME NEW u \in Users, RegisterUser(t, u)
                 PROVE  <<call'[t].op, call'[t].a, call'[t].b, "raced">> \in mishaps'
    OBVIOUS
  <2>2. Begin(t, "RegisterUser", u, NoCaw, "register_check", {})
    BY <2>1 DEF RegisterUser
  <2>3. /\ Begins(t, "RegisterUser", u, NoCaw, "register_check", {})
        /\ mishaps' = mishaps \cup IF \E r \in Threads : Same(r, "RegisterUser", u, NoCaw)
                                   THEN Notes("RegisterUser", u, NoCaw, "raced") ELSE {}
    BY <2>2, BeginEffect DEF Args, PCs
  <2> QED BY <2>3 DEF Begins, Notes
<1>2. \A u, v \in Users : Follow(t, u, v) =>
        <<call'[t].op, call'[t].a, call'[t].b, "raced">> \in mishaps'
  <2>1. SUFFICES ASSUME NEW u \in Users, NEW v \in Users, Follow(t, u, v)
                 PROVE  <<call'[t].op, call'[t].a, call'[t].b, "raced">> \in mishaps'
    OBVIOUS
  <2>2. Begin(t, "Follow", u, v, "follow_user", {})
    BY <2>1 DEF Follow
  <2>3. /\ Begins(t, "Follow", u, v, "follow_user", {})
        /\ mishaps' = mishaps \cup IF \E r \in Threads : Same(r, "Follow", u, v)
                                   THEN Notes("Follow", u, v, "raced") ELSE {}
    BY <2>2, BeginEffect DEF Args, PCs
  <2> QED BY <2>3 DEF Begins, Notes
<1>3. ASSUME NEW op, NEW a, NEW b, NEW pc, NEW must, Begin(t, op, a, b, pc, must)
      PROVE  call'[t].op = op
  <2>1. call \in [Threads -> CallRecord]
    BY DEF Typed
  <2>2. call'[t] = [NoCall EXCEPT !.op = op, !.a = a, !.b = b, !.pc = pc, !.must = must]
    BY <1>3, <2>1 DEF Begin
  <2> QED BY <2>2 DEF NoCall
<1>4. /\ \A u \in Users : ~Profile(t, u)
      /\ \A u, p : ~Caw(t, u, p)
      /\ \A id : ~Read(t, id)
  BY <1>3 DEF Profile, Caw, Read
<1> QED BY <1>1, <1>2, <1>4 DEF Event

-----------------------------------------------------------------------------
(* The lists of a relationship are written in order.                       *)

LEMMA InitCounted == Init => AllCounted
<1> SUFFICES ASSUME Init, NEW u \in Users, NEW v \in Users
             PROVE  Counts(mem, u, v) /\ Counts(dur, u, v)
  BY DEF AllCounted
<1>1. At("follow_put_following", u, v) = {} /\ At("follow_put_follower", u, v) = {}
  BY InitIdle DEF At
<1>2. ToFollowings(u, v) = 0 /\ ToFollowers(u, v) = 0
  BY <1>1, AtType DEF ToFollowings, ToFollowers
<1>3. /\ PairKey(u, v) \in StoreKeys /\ FollowingsKey(u) \in StoreKeys
      /\ FollowersKey(v) \in StoreKeys
      /\ \A x : /\ PairKey(u, v) # UserKey(x) /\ FollowingsKey(u) # UserKey(x)
                /\ FollowersKey(v) # UserKey(x)
  BY KeysInStore, KeysDiffer
<1>4. /\ mem[PairKey(u, v)] = <<>> /\ mem[FollowingsKey(u)] = <<>>
      /\ mem[FollowersKey(v)] = <<>> /\ dur = mem
  BY <1>3 DEF Init
<1>5. /\ Pairs(mem, u, v) = 0 /\ Followings(mem, u, v) = 0 /\ Followers(mem, u, v) = 0
      /\ Pairs(dur, u, v) = 0 /\ Followings(dur, u, v) = 0 /\ Followers(dur, u, v) = 0
  BY <1>4, OccurrencesEmpty DEF Pairs, Followings, Followers
<1> QED BY <1>2, <1>5 DEF Counts

ListsStay ==
  \A u, v \in Users :
    /\ mem'[PairKey(u, v)] = mem[PairKey(u, v)]
    /\ mem'[FollowingsKey(u)] = mem[FollowingsKey(u)]
    /\ mem'[FollowersKey(v)] = mem[FollowersKey(v)]
    /\ dur'[PairKey(u, v)] = dur[PairKey(u, v)]
    /\ dur'[FollowingsKey(u)] = dur[FollowingsKey(u)]
    /\ dur'[FollowersKey(v)] = dur[FollowersKey(v)]

LEMMA UserKeysListsStay == UserKeysStay => ListsStay
BY UserKeysAre DEF UserKeysStay, ListsStay

\* A thread that does not come to or leave a stage of Follow counts nothing.
LEMMA CountedStays ==
  ASSUME Typed, AllCounted, [Next]_vars, ListsStay,
         \A s \in Threads :
           \/ /\ call'[s].pc = call[s].pc /\ call'[s].a = call[s].a
              /\ call'[s].b = call[s].b
           \/ /\ call[s].pc \notin {"follow_put_following", "follow_put_follower"}
              /\ call'[s].pc \notin {"follow_put_following", "follow_put_follower"}
  PROVE  AllCounted'
<1> SUFFICES ASSUME NEW u \in Users, NEW v \in Users
             PROVE  Counts(mem, u, v)' /\ Counts(dur, u, v)'
  BY DEF AllCounted
<1>1. Counts(mem, u, v) /\ Counts(dur, u, v)
  BY DEF AllCounted
<1>2. /\ mem'[PairKey(u, v)] = mem[PairKey(u, v)]
      /\ mem'[FollowingsKey(u)] = mem[FollowingsKey(u)]
      /\ mem'[FollowersKey(v)] = mem[FollowersKey(v)]
      /\ dur'[PairKey(u, v)] = dur[PairKey(u, v)]
      /\ dur'[FollowingsKey(u)] = dur[FollowingsKey(u)]
      /\ dur'[FollowersKey(v)] = dur[FollowersKey(v)]
  BY DEF ListsStay
<1>3. /\ At("follow_put_following", u, v)' = At("follow_put_following", u, v)
      /\ At("follow_put_follower", u, v)' = At("follow_put_follower", u, v)
  BY DEF At
<1>4. ToFollowings(u, v)' = ToFollowings(u, v) /\ ToFollowers(u, v)' = ToFollowers(u, v)
  BY <1>3 DEF ToFollowings, ToFollowers
<1>5. mishaps \subseteq mishaps'
  BY MishapsStay
<1>6. /\ Pairs(mem', u, v) = Pairs(mem, u, v) /\ Pairs(dur', u, v) = Pairs(dur, u, v)
      /\ Followings(mem', u, v) = Followings(mem, u, v)
      /\ Followings(dur', u, v) = Followings(dur, u, v)
      /\ Followers(mem', u, v) = Followers(mem, u, v)
      /\ Followers(dur', u, v) = Followers(dur, u, v)
  BY <1>2 DEF Pairs, Followings, Followers
<1> QED BY <1>1, <1>4, <1>5, <1>6 DEF Counts

\* The thread that puts moves from stage to stage.
LEMMA StageChanges ==
  ASSUME NEW t \in Threads, OthersStay(t), NEW u \in Users, NEW v \in Users, NEW a, NEW b,
         call[t].a = a, call[t].b = b, call'[t].a = a, call'[t].b = b
  PROVE  /\ ToFollowings(u, v) \in Nat /\ ToFollowings(u, v)' \in Nat
         /\ ToFollowers(u, v) \in Nat /\ ToFollowers(u, v)' \in Nat
         /\ ToFollowings(u, v)'
              + (IF call[t].pc = "follow_put_following" /\ u = a /\ v = b THEN 1 ELSE 0)
              = ToFollowings(u, v)
              + (IF call'[t].pc = "follow_put_following" /\ u = a /\ v = b THEN 1 ELSE 0)
         /\ ToFollowers(u, v)'
              + (IF call[t].pc = "follow_put_follower" /\ u = a /\ v = b THEN 1 ELSE 0)
              = ToFollowers(u, v)
              + (IF call'[t].pc = "follow_put_follower" /\ u = a /\ v = b THEN 1 ELSE 0)
<1>1. \A pc : /\ t \in At(pc, u, v) <=> call[t].pc = pc /\ u = a /\ v = b
              /\ t \in At(pc, u, v)' <=> call'[t].pc = pc /\ u = a /\ v = b
  BY DEF At
<1>2. \A s \in Threads \ {t} : call'[s] = call[s]
  BY DEF OthersStay
<1>3. Cardinality(At("follow_put_following", u, v)')
        + (IF t \in At("follow_put_following", u, v) THEN 1 ELSE 0)
        = Cardinality(At("follow_put_following", u, v))
        + (IF t \in At("follow_put_following", u, v)' THEN 1 ELSE 0)
  BY <1>2, AtChanges
<1>4. Cardinality(At("follow_put_follower", u, v)')
        + (IF t \in At("follow_put_follower", u, v) THEN 1 ELSE 0)
        = Cardinality(At("follow_put_follower", u, v))
        + (IF t \in At("follow_put_follower", u, v)' THEN 1 ELSE 0)
  BY <1>2, AtChanges
<1>5. /\ ToFollowings(u, v) \in Nat /\ ToFollowers(u, v) \in Nat
  BY AtType DEF ToFollowings, ToFollowers
<1>6. /\ At("follow_put_following", u, v)' \subseteq Threads
      /\ At("follow_put_follower", u, v)' \subseteq Threads
  BY DEF At
<1>7. /\ ToFollowings(u, v)' \in Nat /\ ToFollowers(u, v)' \in Nat
  BY <1>6, ThreadsAssumption, FS_Subset, FS_CardinalityType DEF ToFollowings, ToFollowers
<1> QED BY <1>1, <1>3, <1>4, <1>5, <1>7 DEF ToFollowings, ToFollowers

\* The pair is put: the thread has a following to put.
LEMMA CountedPair ==
  ASSUME Typed, AllCounted, [Next]_vars, NEW t \in Threads, FollowPutPair(t)
  PROVE  AllCounted'
<1> DEFINE a == call[t].a
           b == call[t].b
<1>1. PICK blank \in Entries :
        Put(t, "follow_put_pair", "Follow", PairKey(a, b), blank,
            Continue("follow_put_following"))
  <2>1. "" \in Entries
    BY DEF Entries
  <2>2. Put(t, "follow_put_pair", "Follow", PairKey(a, b), "",
            Continue("follow_put_following"))
    BY UserPuts
  <2> QED BY <2>1, <2>2
<1>2. PICK ok \in BOOLEAN :
        /\ Adds(PairKey(a, b), blank, ok)
        /\ Moves(t, IF ok THEN Continue("follow_put_following") ELSE Answer("UNAVAILABLE"))
        /\ mishaps' = IF ok THEN mishaps
                      ELSE mishaps \cup {<<"Follow", a, b, "failed">>}
  BY <1>1 DEF Put
<1>3. PICK p, q \in BOOLEAN : /\ Extends(mem, mem', PairKey(a, b), blank, p)
                              /\ Extends(dur, dur', PairKey(a, b), blank, q)
                              /\ ok => p /\ q
  BY <1>2, AddsExtends
<1>4. /\ call[t].pc = "follow_put_pair" /\ a \in Users /\ b \in Users
      /\ call'[t].pc = IF ok THEN "follow_put_following" ELSE "done"
      /\ call'[t].a = a /\ call'[t].b = b /\ OthersStay(t)
  BY <1>1, <1>2 DEF Put, Moves, Goes, OthersStay, Answer, Continue
<1> SUFFICES ASSUME NEW u \in Users, NEW v \in Users
             PROVE  Counts(mem, u, v)' /\ Counts(dur, u, v)'
  BY DEF AllCounted
<1>5. /\ Counts(mem, u, v) /\ Counts(dur, u, v)
      /\ mishaps \subseteq mishaps'
      /\ ok \/ u # a \/ v # b \/ <<"Follow", u, v, "failed">> \in mishaps'
  BY <1>2 DEF AllCounted
<1>6. StoreOK(mem) /\ StoreOK(dur) /\ StoreOK(mem') /\ StoreOK(dur')
  BY NextTyped DEF Typed
<1>7. /\ Pairs(mem, u, v) \in Nat /\ Followings(mem, u, v) \in Nat
      /\ Followers(mem, u, v) \in Nat
      /\ Pairs(dur, u, v) \in Nat /\ Followings(dur, u, v) \in Nat
      /\ Followers(dur, u, v) \in Nat
  BY <1>6, NumbersType
<1>8. /\ ToFollowings(u, v) \in Nat /\ ToFollowings(u, v)' \in Nat
      /\ ToFollowers(u, v) \in Nat /\ ToFollowers(u, v)' \in Nat
      /\ ToFollowings(u, v)'
           = ToFollowings(u, v) + (IF ok /\ u = a /\ v = b THEN 1 ELSE 0)
      /\ ToFollowers(u, v)' = ToFollowers(u, v)
  BY <1>4, StageChanges
<1>9. /\ p /\ u = a /\ v = b => Pairs(mem', u, v) = Pairs(mem, u, v) + 1
      /\ ~(p /\ u = a /\ v = b) => Pairs(mem', u, v) = Pairs(mem, u, v)
      /\ Followings(mem', u, v) = Followings(mem, u, v)
      /\ Followers(mem', u, v) = Followers(mem, u, v)
  BY <1>3, <1>4, <1>6, PairNumbers
<1>10. /\ q /\ u = a /\ v = b => Pairs(dur', u, v) = Pairs(dur, u, v) + 1
       /\ ~(q /\ u = a /\ v = b) => Pairs(dur', u, v) = Pairs(dur, u, v)
       /\ Followings(dur', u, v) = Followings(dur, u, v)
       /\ Followers(dur', u, v) = Followers(dur, u, v)
  BY <1>3, <1>4, <1>6, PairNumbers
<1>11. CASE u = a /\ v = b
  <2>1. CASE ok
    <3>1. /\ Pairs(mem', u, v) = Pairs(mem, u, v) + 1
          /\ Pairs(dur', u, v) = Pairs(dur, u, v) + 1
      BY <1>3, <1>9, <1>10, <1>11, <2>1
    <3>2. ToFollowings(u, v)' = ToFollowings(u, v) + 1
      BY <1>8, <1>11, <2>1
    <3> QED BY <1>5, <1>7, <1>8, <1>9, <1>10, <3>1, <3>2 DEF Counts
  <2>2. CASE ~ok
    BY <1>5, <1>7, <1>8, <1>9, <1>10, <1>11, <2>2 DEF Counts
  <2> QED BY <2>1, <2>2
<1>12. CASE ~(u = a /\ v = b)
  BY <1>5, <1>7, <1>8, <1>9, <1>10, <1>12 DEF Counts
<1> QED BY <1>11, <1>12

\* The following is put: the thread has a follower to put.
LEMMA CountedFollowing ==
  ASSUME Typed, AllCounted, [Next]_vars, NEW t \in Threads, FollowPutFollowing(t)
  PROVE  AllCounted'
<1> DEFINE a == call[t].a
           b == call[t].b
<1>1. Put(t, "follow_put_following", "Follow", FollowingsKey(a), b,
          Continue("follow_put_follower"))
  BY UserPuts
<1>2. PICK ok \in BOOLEAN :
        /\ Adds(FollowingsKey(a), b, ok)
        /\ Moves(t, IF ok THEN Continue("follow_put_follower") ELSE Answer("UNAVAILABLE"))
        /\ mishaps' = IF ok THEN mishaps
                      ELSE mishaps \cup {<<"Follow", a, b, "failed">>}
  BY <1>1 DEF Put
<1>3. PICK p, q \in BOOLEAN : /\ Extends(mem, mem', FollowingsKey(a), b, p)
                              /\ Extends(dur, dur', FollowingsKey(a), b, q)
                              /\ ok => p /\ q
  BY <1>2, AddsExtends
<1>4. /\ call[t].pc = "follow_put_following" /\ a \in Users /\ b \in Users
      /\ call'[t].pc = IF ok THEN "follow_put_follower" ELSE "done"
      /\ call'[t].a = a /\ call'[t].b = b /\ OthersStay(t)
  BY <1>1, <1>2 DEF Put, Moves, Goes, OthersStay, Answer, Continue
<1> SUFFICES ASSUME NEW u \in Users, NEW v \in Users
             PROVE  Counts(mem, u, v)' /\ Counts(dur, u, v)'
  BY DEF AllCounted
<1>5. /\ Counts(mem, u, v) /\ Counts(dur, u, v)
      /\ mishaps \subseteq mishaps'
      /\ ok \/ u # a \/ v # b \/ <<"Follow", u, v, "failed">> \in mishaps'
  BY <1>2 DEF AllCounted
<1>6. StoreOK(mem) /\ StoreOK(dur) /\ StoreOK(mem') /\ StoreOK(dur')
  BY NextTyped DEF Typed
<1>7. /\ Pairs(mem, u, v) \in Nat /\ Followings(mem, u, v) \in Nat
      /\ Followers(mem, u, v) \in Nat
      /\ Pairs(dur, u, v) \in Nat /\ Followings(dur, u, v) \in Nat
      /\ Followers(dur, u, v) \in Nat
  BY <1>6, NumbersType
<1>8. /\ ToFollowings(u, v) \in Nat /\ ToFollowings(u, v)' \in Nat
      /\ ToFollowers(u, v) \in Nat /\ ToFollowers(u, v)' \in Nat
      /\ ToFollowings(u, v)' + (IF u = a /\ v = b THEN 1 ELSE 0) = ToFollowings(u, v)
      /\ ToFollowers(u, v)'
           = ToFollowers(u, v) + (IF ok /\ u = a /\ v = b THEN 1 ELSE 0)
  BY <1>4, StageChanges
<1>9. /\ Pairs(mem', u, v) = Pairs(mem, u, v)
      /\ p /\ u = a /\ v = b => Followings(mem', u, v) = Followings(mem, u, v) + 1
      /\ ~(p /\ u = a /\ v = b) => Followings(mem', u, v) = Followings(mem, u, v)
      /\ Followers(mem', u, v) = Followers(mem, u, v)
  BY <1>3, <1>4, <1>6, FollowingNumbers
<1>10. /\ Pairs(dur', u, v) = Pairs(dur, u, v)
       /\ q /\ u = a /\ v = b => Followings(dur', u, v) = Followings(dur, u, v) + 1
       /\ ~(q /\ u = a /\ v = b) => Followings(dur', u, v) = Followings(dur, u, v)
       /\ Followers(dur', u, v) = Followers(dur, u, v)
  BY <1>3, <1>4, <1>6, FollowingNumbers
<1>11. CASE u = a /\ v = b
  <2>1. CASE ok
    BY <1>3, <1>5, <1>7, <1>8, <1>9, <1>10, <1>11, <2>1 DEF Counts
  <2>2. CASE ~ok
    BY <1>5, <1>7, <1>8, <1>9, <1>10, <1>11, <2>2 DEF Counts
  <2> QED BY <2>1, <2>2
<1>12. CASE ~(u = a /\ v = b)
  BY <1>5, <1>7, <1>8, <1>9, <1>10, <1>12 DEF Counts
<1> QED BY <1>11, <1>12

\* The follower is put.
LEMMA CountedFollower ==
  ASSUME Typed, AllCounted, [Next]_vars, NEW t \in Threads, FollowPutFollower(t)
  PROVE  AllCounted'
<1> DEFINE a == call[t].a
           b == call[t].b
<1>1. Put(t, "follow_put_follower", "Follow", FollowersKey(b), a,
          Answer("OK"))
  BY UserPuts
<1>2. PICK ok \in BOOLEAN :
        /\ Adds(FollowersKey(b), a, ok)
        /\ Moves(t, IF ok THEN Answer("OK") ELSE Answer("UNAVAILABLE"))
        /\ mishaps' = IF ok THEN mishaps
                      ELSE mishaps \cup {<<"Follow", a, b, "failed">>}
  BY <1>1 DEF Put
<1>3. PICK p, q \in BOOLEAN : /\ Extends(mem, mem', FollowersKey(b), a, p)
                              /\ Extends(dur, dur', FollowersKey(b), a, q)
                              /\ ok => p /\ q
  BY <1>2, AddsExtends
<1>4. /\ call[t].pc = "follow_put_follower" /\ a \in Users /\ b \in Users
      /\ call'[t].pc = IF ok THEN "done" ELSE "done"
      /\ call'[t].a = a /\ call'[t].b = b /\ OthersStay(t)
  BY <1>1, <1>2 DEF Put, Moves, Goes, OthersStay, Answer, Continue
<1> SUFFICES ASSUME NEW u \in Users, NEW v \in Users
             PROVE  Counts(mem, u, v)' /\ Counts(dur, u, v)'
  BY DEF AllCounted
<1>5. /\ Counts(mem, u, v) /\ Counts(dur, u, v)
      /\ mishaps \subseteq mishaps'
      /\ ok \/ u # a \/ v # b \/ <<"Follow", u, v, "failed">> \in mishaps'
  BY <1>2 DEF AllCounted
<1>6. StoreOK(mem) /\ StoreOK(dur) /\ StoreOK(mem') /\ StoreOK(dur')
  BY NextTyped DEF Typed
<1>7. /\ Pairs(mem, u, v) \in Nat /\ Followings(mem, u, v) \in Nat
      /\ Followers(mem, u, v) \in Nat
      /\ Pairs(dur, u, v) \in Nat /\ Followings(dur, u, v) \in Nat
      /\ Followers(dur, u, v) \in Nat
  BY <1>6, NumbersType
<1>8. /\ ToFollowings(u, v) \in Nat /\ ToFollowings(u, v)' \in Nat
      /\ ToFollowers(u, v) \in Nat /\ ToFollowers(u, v)' \in Nat
      /\ ToFollowings(u, v)' = ToFollowings(u, v)
      /\ ToFollowers(u, v)' + (IF u = a /\ v = b THEN 1 ELSE 0) = ToFollowers(u, v)
  BY <1>4, StageChanges
<1>9. /\ Pairs(mem', u, v) = Pairs(mem, u, v)
      /\ Followings(mem', u, v) = Followings(mem, u, v)
      /\ p /\ u = a /\ v = b => Followers(mem', u, v) = Followers(mem, u, v) + 1
      /\ ~(p /\ u = a /\ v = b) => Followers(mem', u, v) = Followers(mem, u, v)
  BY <1>3, <1>4, <1>6, FollowerNumbers
<1>10. /\ Pairs(dur', u, v) = Pairs(dur, u, v)
       /\ Followings(dur', u, v) = Followings(dur, u, v)
       /\ q /\ u = a /\ v = b => Followers(dur', u, v) = Followers(dur, u, v) + 1
       /\ ~(q /\ u = a /\ v = b) => Followers(dur', u, v) = Followers(dur, u, v)
  BY <1>3, <1>4, <1>6, FollowerNumbers
<1>11. CASE u = a /\ v = b
  <2>1. CASE ok
    BY <1>3, <1>5, <1>7, <1>8, <1>9, <1>10, <1>11, <2>1 DEF Counts
  <2>2. CASE ~ok
    BY <1>5, <1>7, <1>8, <1>9, <1>10, <1>11, <2>2 DEF Counts
  <2> QED BY <2>1, <2>2
<1>12. CASE ~(u = a /\ v = b)
  BY <1>5, <1>7, <1>8, <1>9, <1>10, <1>12 DEF Counts
<1> QED BY <1>11, <1>12

LEMMA RestartCounted ==
  ASSUME AllCounted, KvRestart
  PROVE  AllCounted'
<1> SUFFICES ASSUME NEW u \in Users, NEW v \in Users
             PROVE  Counts(mem, u, v)' /\ Counts(dur, u, v)'
  BY DEF AllCounted
<1>1. mem' = dur /\ dur' = dur /\ call' = call /\ mishaps' = mishaps
  BY DEF KvRestart
<1>2. ToFollowings(u, v)' = ToFollowings(u, v) /\ ToFollowers(u, v)' = ToFollowers(u, v)
  BY <1>1 DEF ToFollowings, ToFollowers, At
<1>3. Counts(dur, u, v)
  BY DEF AllCounted
<1> QED BY <1>1, <1>2, <1>3 DEF Counts

\* A crash ends every Follow but one whose Put is on its way: one that was between
\* its puts has failed.
LEMMA CrashCounted ==
  ASSUME Typed, AllCounted, [Next]_vars, FazCrash
  PROVE  AllCounted'
<1> SUFFICES ASSUME NEW u \in Users, NEW v \in Users
             PROVE  Counts(mem, u, v)' /\ Counts(dur, u, v)'
  BY DEF AllCounted
<1> DEFINE F == At("follow_put_following", u, v)
           G == At("follow_put_follower", u, v)
<1>1. Counts(mem, u, v) /\ Counts(dur, u, v) /\ mem' = mem /\ dur' = dur
  BY FazCrashEffect DEF AllCounted
<1>2. \A t \in Threads : /\ ~Live(t) => call'[t] = call[t]
                         /\ Live(t) => call'[t].pc = "done"
  BY FazCrashEffect
<1>3. F' \subseteq F /\ G' \subseteq G
  BY <1>2 DEF At
<1>4. StoreOK(mem) /\ StoreOK(dur)
  BY DEF Typed
<1>5. /\ Pairs(mem, u, v) \in Nat /\ Followings(mem, u, v) \in Nat
      /\ Followers(mem, u, v) \in Nat
      /\ Pairs(dur, u, v) \in Nat /\ Followings(dur, u, v) \in Nat
      /\ Followers(dur, u, v) \in Nat
      /\ ToFollowings(u, v) \in Nat /\ ToFollowers(u, v) \in Nat
  BY <1>4, NumbersType
<1>6. CASE \A t \in F \cup G : ~Live(t)
  <2>1. F' = F /\ G' = G
    BY <1>2, <1>3, <1>6 DEF At
  <2>2. ToFollowings(u, v)' = ToFollowings(u, v) /\ ToFollowers(u, v)' = ToFollowers(u, v)
    BY <2>1 DEF ToFollowings, ToFollowers
  <2>3. mishaps \subseteq mishaps'
    BY MishapsStay
  <2> HIDE DEF F, G
  <2> QED BY <1>1, <2>2, <2>3 DEF Counts, Pairs, Followings, Followers
<1>7. CASE \E t \in F \cup G : Live(t)
  <2>1. PICK t \in Threads : /\ Live(t) /\ call[t].a = u /\ call[t].b = v
                             /\ call[t].pc \in {"follow_put_following", "follow_put_follower"}
    BY <1>7 DEF At
  <2>2. call[t].op = "Follow"
    BY <2>1 DEF Typed, CallOK
  <2>3. <<"Follow", u, v, "failed">> \in mishaps'
    BY <2>1, <2>2, CrashNoted
  <2>4. IsFiniteSet(F) /\ IsFiniteSet(G)
    BY AtType
  <2>5. /\ IsFiniteSet(F') /\ Cardinality(F') <= Cardinality(F)
        /\ IsFiniteSet(G') /\ Cardinality(G') <= Cardinality(G)
    BY <1>3, <2>4, FS_Subset
  <2>6. Cardinality(F') \in Nat /\ Cardinality(G') \in Nat
    BY <2>5, FS_CardinalityType
  <2>7. /\ ToFollowings(u, v)' \in Nat /\ ToFollowings(u, v)' <= ToFollowings(u, v)
        /\ ToFollowers(u, v)' \in Nat /\ ToFollowers(u, v)' <= ToFollowers(u, v)
    BY <2>5, <2>6 DEF ToFollowings, ToFollowers
  <2> HIDE DEF F, G
  <2>8. /\ Pairs(mem', u, v) = Pairs(mem, u, v) /\ Pairs(dur', u, v) = Pairs(dur, u, v)
        /\ Followings(mem', u, v) = Followings(mem, u, v)
        /\ Followings(dur', u, v) = Followings(dur, u, v)
        /\ Followers(mem', u, v) = Followers(mem, u, v)
        /\ Followers(dur', u, v) = Followers(dur, u, v)
    BY <1>1
  <2> QED BY <1>1, <1>5, <2>3, <2>7, <2>8 DEF Counts
<1> QED BY <1>6, <1>7

LEMMA NextCounted == Typed /\ AllCounted /\ [Next]_vars => AllCounted'
<1> SUFFICES ASSUME Typed, AllCounted, [Next]_vars PROVE AllCounted'
  OBVIOUS
<1>1. ASSUME NEW t \in Threads, Event(t) PROVE AllCounted'
  <2>1. ListsStay
    BY <1>1, EventQuiet, UserKeysListsStay
  <2>2. /\ OthersStay(t)
        /\ call[t].pc \notin {"follow_put_following", "follow_put_follower"}
        /\ call'[t].pc \notin {"follow_put_following", "follow_put_follower"}
    BY <1>1, EventQuiet
  <2> QED BY <2>1, <2>2, CountedStays DEF OthersStay
<1>2. ASSUME NEW t \in Threads, Step(t) PROVE AllCounted'
  <2>1. CASE \/ RegisterCheck(t) \/ FollowCheckUser(t) \/ FollowCheckOther(t)
             \/ FollowCheckPair(t) \/ ProfileCheckUser(t)
    <3>1. ListsStay
      BY <2>1, UserChecks DEF Checked, ListsStay
    <3>2. /\ OthersStay(t)
          /\ call[t].pc \notin {"follow_put_following", "follow_put_follower"}
          /\ call'[t].pc \notin {"follow_put_following", "follow_put_follower"}
      BY <2>1, UserChecks DEF Checked, Moves, Goes, Answer, Continue, OthersStay
    <3> QED BY <3>1, <3>2, CountedStays DEF OthersStay
  <2>2. CASE RegisterPut(t)
    <3>1. Put(t, "register_put", "RegisterUser", UserKey(call[t].a), "", Answer("OK"))
      BY <2>2, UserPuts
    <3>2. PICK ok \in BOOLEAN : /\ Adds(UserKey(call[t].a), "", ok)
                               /\ Moves(t, IF ok THEN Answer("OK") ELSE Answer("UNAVAILABLE"))
      BY <3>1 DEF Put
    <3>3. ListsStay
      <4>1. \A u, v \in Users : /\ PairKey(u, v) \in StoreKeys \ {UserKey(call[t].a)}
                                /\ FollowingsKey(u) \in StoreKeys \ {UserKey(call[t].a)}
                                /\ FollowersKey(v) \in StoreKeys \ {UserKey(call[t].a)}
        BY KeysInStore, KeysDiffer
      <4> QED BY <3>2, <4>1 DEF Adds, ListsStay
    <3>4. /\ OthersStay(t)
          /\ call[t].pc \notin {"follow_put_following", "follow_put_follower"}
          /\ call'[t].pc \notin {"follow_put_following", "follow_put_follower"}
      BY <3>1, <3>2 DEF Put, Moves, Goes, Answer, OthersStay
    <3> QED BY <3>3, <3>4, CountedStays DEF OthersStay
  <2>3. CASE FollowPutPair(t) \/ FollowPutFollowing(t) \/ FollowPutFollower(t)
    BY <2>3, CountedPair, CountedFollowing, CountedFollower
  <2>4. CASE ProfileGetFollowings(t) \/ ProfileGetFollowers(t)
    <3>1. /\ UNCHANGED <<mem, dur>> /\ OthersStay(t)
          /\ call[t].pc \notin {"follow_put_following", "follow_put_follower"}
          /\ call'[t].pc \notin {"follow_put_following", "follow_put_follower"}
      <4>1. CASE ProfileGetFollowings(t)
        <5>1. /\ call[t].pc = "profile_followings" /\ UNCHANGED <<mem, dur>>
              /\ Goes(t, Continue("profile_followers"))
          BY <4>1, ProfileGets
        <5> QED BY <5>1 DEF Goes, Continue, OthersStay
      <4>2. CASE ProfileGetFollowers(t)
        <5>1. /\ call[t].pc = "profile_followers" /\ UNCHANGED <<mem, dur>>
              /\ Goes(t, Answer("OK"))
          BY <4>2, ProfileGets
        <5> QED BY <5>1 DEF Goes, Answer, OthersStay
      <4> QED BY <2>4, <4>1, <4>2
    <3>2. ListsStay
      BY <3>1 DEF ListsStay
    <3> QED BY <3>1, <3>2, CountedStays DEF OthersStay
  <2>5. CASE CawStep(t)
    <3>1. /\ UserKeysStay /\ OthersStay(t) /\ call'[t].op = call[t].op
          /\ call[t].op \in {"Caw", "Read"} /\ Typed'
      BY <2>5, CawStepQuiet, NextTyped
    <3>2. /\ call[t].pc \notin {"follow_put_following", "follow_put_follower"}
          /\ call'[t].pc \notin {"follow_put_following", "follow_put_follower"}
      BY <3>1 DEF Typed, CallOK
    <3> QED BY <3>1, <3>2, UserKeysListsStay, CountedStays DEF OthersStay
  <2>6. CASE PutOutlivesCall(t)
    <3>1. /\ UNCHANGED <<mem, dur>> /\ OthersStay(t) /\ call'[t].pc = call[t].pc
          /\ call'[t].a = call[t].a /\ call'[t].b = call[t].b
      BY <2>6, OutlivesEffect DEF Outlives, Moves, Goes, OthersStay
    <3>2. ListsStay
      BY <3>1 DEF ListsStay
    <3> QED BY <3>1, <3>2, CountedStays DEF OthersStay
  <2> QED BY <1>2, <2>1, <2>2, <2>3, <2>4, <2>5, <2>6 DEF Step, CawStep
<1>3. CASE UNCHANGED vars
  <2>1. ListsStay /\ \A s \in Threads : call'[s] = call[s]
    BY <1>3 DEF ListsStay, vars
  <2> QED BY <2>1, CountedStays
<1> QED BY <1>1, <1>2, <1>3, RestartCounted, CrashCounted DEF Next

LEMMA CountedInOrder == Typed /\ AllCounted => FollowInOrder
<1> SUFFICES ASSUME Typed, AllCounted, NEW u \in Users, NEW v \in Users,
                    NEW m \in {mem, dur}
             PROVE  /\ Occurrences(u, m[FollowersKey(v)])
                          <= Occurrences(v, m[FollowingsKey(u)])
                    /\ Occurrences(v, m[FollowingsKey(u)]) <= Len(m[PairKey(u, v)])
  BY DEF FollowInOrder
<1>1. Counts(m, u, v) /\ StoreOK(m)
  BY DEF AllCounted, Typed
<1>2. /\ Pairs(m, u, v) \in Nat /\ Followings(m, u, v) \in Nat
      /\ Followers(m, u, v) \in Nat
      /\ ToFollowings(u, v) \in Nat /\ ToFollowers(u, v) \in Nat
  BY <1>1, NumbersType
<1>3. Followers(m, u, v) <= Followings(m, u, v) /\ Followings(m, u, v) <= Pairs(m, u, v)
  BY <1>1, <1>2 DEF Counts
<1> QED BY <1>3 DEF Followers, Followings, Pairs

LEMMA CountedAgree == Typed /\ AllCounted => ListsAgree
<1> SUFFICES ASSUME Typed, AllCounted, NEW u \in Users, NEW v \in Users,
                    <<"Follow", u, v, "failed">> \notin mishaps,
                    ~\E t \in Threads : Same(t, "Follow", u, v)
             PROVE  /\ Occurrences(u, mem[FollowersKey(v)]) = Len(mem[PairKey(u, v)])
                    /\ Occurrences(v, mem[FollowingsKey(u)]) = Len(mem[PairKey(u, v)])
  BY DEF ListsAgree
<1>1. Counts(mem, u, v) /\ StoreOK(mem)
  BY DEF AllCounted, Typed
<1>2. /\ Pairs(mem, u, v) \in Nat /\ Followings(mem, u, v) \in Nat
      /\ Followers(mem, u, v) \in Nat
  BY <1>1, NumbersType
<1>3. At("follow_put_following", u, v) = {} /\ At("follow_put_follower", u, v) = {}
  BY DEF At, Same, Done, Typed, CallOK
<1>4. ToFollowings(u, v) = 0 /\ ToFollowers(u, v) = 0
  BY <1>3, AtType DEF ToFollowings, ToFollowers
<1>5. Followers(mem, u, v) = Pairs(mem, u, v) /\ Followings(mem, u, v) = Pairs(mem, u, v)
  BY <1>1, <1>2, <1>4 DEF Counts
<1> QED BY <1>5 DEF Followers, Followings, Pairs

-----------------------------------------------------------------------------
(* Who is named in a list is a user.                                       *)

\* A key about users changes when the store restarts, or by one of the four puts.
PutsUnder(t, key) ==
  \/ RegisterPut(t) /\ key = UserKey(call[t].a)
  \/ FollowPutPair(t) /\ key = PairKey(call[t].a, call[t].b)
  \/ FollowPutFollowing(t) /\ key = FollowingsKey(call[t].a)
  \/ FollowPutFollower(t) /\ key = FollowersKey(call[t].b)

LEMMA UserKeyCases ==
  ASSUME Typed, [Next]_vars, NEW key, IsUserKey(key)
  PROVE  \/ mem'[key] = mem[key] /\ dur'[key] = dur[key]
         \/ KvRestart
         \/ \E t \in Threads : PutsUnder(t, key)
<1>0. key \in StoreKeys
  BY KeyKinds
<1>1. ASSUME NEW t \in Threads, Event(t) PROVE mem'[key] = mem[key] /\ dur'[key] = dur[key]
  BY <1>1, EventQuiet
<1>2. ASSUME NEW t \in Threads, Step(t)
      PROVE  (mem'[key] = mem[key] /\ dur'[key] = dur[key]) \/ PutsUnder(t, key)
  <2>0. ASSUME NEW pc, NEW op, NEW k, NEW value, NEW then, Put(t, pc, op, k, value, then)
        PROVE  (mem'[key] = mem[key] /\ dur'[key] = dur[key]) \/ key = k
    BY <1>0, <2>0 DEF Put, Adds
  <2>1. CASE \/ RegisterCheck(t) \/ FollowCheckUser(t) \/ FollowCheckOther(t)
             \/ FollowCheckPair(t) \/ ProfileCheckUser(t)
    BY <2>1, UserChecks DEF Checked
  <2>2. CASE \/ RegisterPut(t) \/ FollowPutPair(t) \/ FollowPutFollowing(t)
             \/ FollowPutFollower(t)
    BY <2>0, <2>2, UserPuts DEF PutsUnder
  <2>3. CASE ProfileGetFollowings(t) \/ ProfileGetFollowers(t)
    BY <2>3 DEF ProfileGetFollowings, ProfileGetFollowers, ProfileGet
  <2>4. CASE CawStep(t)
    BY <2>4, CawStepQuiet DEF UserKeysStay
  <2>5. CASE PutOutlivesCall(t)
    BY <2>5, OutlivesEffect DEF Outlives
  <2> QED BY <1>2, <2>1, <2>2, <2>3, <2>4, <2>5 DEF Step, CawStep
<1>3. CASE FazCrash \/ UNCHANGED vars
  BY <1>3 DEF FazCrash, FazDies, vars
<1> QED BY <1>1, <1>2, <1>3 DEF Next

LEMMA KeptKnown ==
  ASSUME Typed, AllKnown, [Next]_vars, NEW x \in Users
  PROVE  KnownKept(x)' /\ (Known(x) => Known(x)')
<1> DEFINE key == UserKey(x)
           failed == <<"RegisterUser", x, NoCaw, "failed">>
<1>1. /\ KnownKept(x) /\ mishaps \subseteq mishaps' /\ Typed'
      /\ IsUserKey(key) /\ key \in StoreKeys
  BY MishapsStay, NextTyped, UserKeysAre, KeysInStore DEF AllKnown
<1>2. CASE mem'[key] = mem[key] /\ dur'[key] = dur[key]
  BY <1>1, <1>2 DEF KnownKept, Known
<1>3. CASE KvRestart
  BY <1>1, <1>3 DEF KnownKept, Known, KvRestart
<1>4. ASSUME NEW t \in Threads, PutsUnder(t, key) PROVE KnownKept(x)' /\ (Known(x) => Known(x)')
  <2>1. RegisterPut(t) /\ call[t].a = x
    BY <1>4, KeysDiffer DEF PutsUnder
  <2>2. PICK blank \in Entries :
          Put(t, "register_put", "RegisterUser", key, blank, Answer("OK"))
    <3>1. "" \in Entries
      BY DEF Entries
    <3>2. Put(t, "register_put", "RegisterUser", key, "", Answer("OK"))
      BY <2>1, UserPuts
    <3> QED BY <3>1, <3>2
  <2>3. PICK ok \in BOOLEAN :
          /\ Adds(key, blank, ok)
          /\ mishaps' = IF ok THEN mishaps
                        ELSE mishaps \cup {<<"RegisterUser", call[t].a, call[t].b, "failed">>}
    BY <2>2 DEF Put
  <2>4. mem[key] \in Seq(Entries) /\ dur[key] \in Seq(Entries)
    BY <1>1 DEF Typed, StoreOK
  <2>5. Append(mem[key], blank) # <<>> /\ Append(dur[key], blank) # <<>>
    BY <2>4, AppendFacts
  <2>6. mem[key] # <<>> => mem'[key] # <<>>
    BY <2>3, <2>5 DEF Adds
  <2>7. CASE ok
    <3>1. dur'[key] # <<>>
      BY <2>3, <2>5, <2>7 DEF Adds
    <3> QED BY <1>1, <2>6, <3>1 DEF KnownKept, Known
  <2>8. CASE ~ok
    <3>1. failed \in mishaps'
      BY <2>1, <2>2, <2>3, <2>8 DEF Put
    <3> QED BY <1>1, <2>6, <3>1 DEF KnownKept, Known
  <2> QED BY <2>7, <2>8
<1> QED BY <1>1, <1>2, <1>3, <1>4, UserKeyCases

\* What a step can add to a list of users.
LEMMA ListedKnown ==
  ASSUME Typed, AllKnown, [Next]_vars, NEW u \in Users
  PROVE  KnownListed(u)'
<1> SUFFICES ASSUME NEW x \in Range(mem'[FollowingsKey(u)]) \cup Range(mem'[FollowersKey(u)])
             PROVE  Known(u)' /\ Known(x)'
  BY DEF KnownListed
<1>1. /\ FollowingsKey(u) \in StoreKeys /\ FollowersKey(u) \in StoreKeys
      /\ IsUserKey(FollowingsKey(u)) /\ IsUserKey(FollowersKey(u))
  BY KeysInStore, UserKeysAre
<1>2. \A y \in Users : Known(y) => Known(y)'
  BY KeptKnown
<1>3. \A key \in StoreKeys : Range(dur[key]) \subseteq Range(mem[key])
  BY DEF Typed, Ahead
<1>4. CASE x \in Range(mem[FollowingsKey(u)]) \cup Range(mem[FollowersKey(u)])
  <2>1. Known(u) /\ Known(x)
    BY <1>4 DEF AllKnown, KnownListed
  <2>2. mem[FollowingsKey(u)] \in Seq(Users) /\ mem[FollowersKey(u)] \in Seq(Users)
    BY DEF Typed, StoreOK
  <2>3. x \in Users
    BY <1>4, <2>2, RangeFacts
  <2> QED BY <1>2, <2>1, <2>3
<1>5. ASSUME NEW key, key \in {FollowingsKey(u), FollowersKey(u)},
             x \in Range(mem'[key]), x \notin Range(mem[key])
      PROVE  Known(u)' /\ Known(x)'
  <2>1. key \in StoreKeys /\ IsUserKey(key)
    BY <1>1, <1>5
  <2>2. ~KvRestart
    BY <1>3, <1>5, <2>1 DEF KvRestart
  <2>3. PICK t \in Threads : PutsUnder(t, key)
    BY <1>5, <2>1, <2>2, UserKeyCases
  <2>4. \/ FollowPutFollowing(t) /\ key = FollowingsKey(call[t].a)
        \/ FollowPutFollower(t) /\ key = FollowersKey(call[t].b)
    BY <1>5, <2>3, KeysDiffer DEF PutsUnder
  <2>5. PICK a \in Users, b \in Users : call[t].a = a /\ call[t].b = b
    BY <2>4, UserPuts DEF Put
  <2>6. Known(a)' /\ Known(b)'
    <3>1. call[t].pc \in {"follow_put_following", "follow_put_follower"}
      BY <2>4, UserPuts DEF Put
    <3>2. Known(a) /\ Known(b)
      BY <2>5, <3>1 DEF AllKnown, KnownCall
    <3> QED BY <1>2, <3>2
  <2>7. ASSUME NEW pc, NEW op, NEW value \in Users, NEW then,
               Put(t, pc, op, key, value, then)
        PROVE  x = value
    <3>1. mem'[key] = mem[key] \/ mem'[key] = Append(mem[key], value)
      BY <2>7 DEF Put, Adds
    <3>2. mem[key] \in Seq(Users)
      BY <1>5 DEF Typed, StoreOK
    <3>3. Range(Append(mem[key], value)) = Range(mem[key]) \cup {value}
      BY <3>2, AppendFacts
    <3>4. x \in Range(mem'[key]) /\ x \notin Range(mem[key])
      BY <1>5
    <3> QED BY <3>1, <3>3, <3>4
  <2>8. CASE FollowPutFollowing(t) /\ key = FollowingsKey(call[t].a)
    <3>1. x = b
      BY <2>5, <2>7, <2>8, UserPuts
    <3>2. u = a
      BY <1>5, <2>5, <2>8, KeysDiffer
    <3> QED BY <2>6, <3>1, <3>2
  <2>9. CASE FollowPutFollower(t) /\ key = FollowersKey(call[t].b)
    <3>1. x = a
      BY <2>5, <2>7, <2>9, UserPuts
    <3>2. u = b
      BY <1>5, <2>5, <2>9, KeysDiffer
    <3> QED BY <2>6, <3>1, <3>2
  <2> QED BY <2>4, <2>8, <2>9
<1> QED BY <1>4, <1>5

FollowStages ==
  {"follow_other", "follow_pair", "follow_put_pair", "follow_put_following",
   "follow_put_follower"}

LEMMA CallKnown ==
  ASSUME Typed, AllKnown, [Next]_vars
  PROVE  \A t \in Threads : KnownCall(t)'
<1>1. \A y \in Users : Known(y) => Known(y)'
  BY KeptKnown
<1>2. ASSUME NEW s \in Threads, call'[s] = call[s] PROVE KnownCall(s)'
  <2>1. call[s].pc \in FollowStages => call[s].a \in Users /\ call[s].b \in Users
    BY DEF Typed, CallOK, FollowStages
  <2> QED BY <1>1, <1>2, <2>1 DEF AllKnown, KnownCall, FollowStages
<1>3. ASSUME NEW s \in Threads, call'[s].pc \notin FollowStages PROVE KnownCall(s)'
  BY <1>3 DEF KnownCall, FollowStages
<1>4. ASSUME NEW t \in Threads, OthersStay(t), KnownCall(t)'
      PROVE  \A s \in Threads : KnownCall(s)'
  BY <1>2, <1>4 DEF OthersStay
<1>5. ASSUME NEW t \in Threads, Event(t) PROVE \A s \in Threads : KnownCall(s)'
  BY <1>3, <1>4, <1>5, EventQuiet DEF FollowStages
<1>6. ASSUME NEW t \in Threads, Step(t) PROVE \A s \in Threads : KnownCall(s)'
  <2> DEFINE a == call[t].a
             b == call[t].b
  <2>1. CASE RegisterCheck(t) \/ ProfileCheckUser(t)
    <3>1. OthersStay(t) /\ call'[t].pc \notin FollowStages
      BY <2>1, UserChecks DEF Checked, Moves, Goes, Answer, Continue, OthersStay, FollowStages
    <3> QED BY <1>3, <1>4, <3>1
  <2>2. CASE FollowCheckUser(t)
    <3>1. Checked(t, "follow_user", "Follow", UserKey(a),
                  Answer("NOT_FOUND"), Continue("follow_other"))
      BY <2>2, UserChecks
    <3>2. /\ OthersStay(t) /\ a \in Users
          /\ call'[t].pc = "done" \/ (call'[t].pc = "follow_other" /\ mem[UserKey(a)] # <<>>)
          /\ call'[t].a = a /\ call'[t].b = b
      BY <3>1 DEF Checked, Moves, Goes, Answer, Continue, OthersStay
    <3>3. mem[UserKey(a)] # <<>> => Known(a)'
      BY <1>1, <3>2 DEF Known
    <3>4. KnownCall(t)'
      BY <3>2, <3>3 DEF KnownCall
    <3> QED BY <1>4, <3>2, <3>4
  <2>3. CASE FollowCheckOther(t)
    <3>1. Checked(t, "follow_other", "Follow", UserKey(b),
                  Answer("NOT_FOUND"), Continue("follow_pair"))
      BY <2>3, UserChecks
    <3>2. /\ OthersStay(t) /\ a \in Users /\ b \in Users /\ call[t].pc = "follow_other"
          /\ call'[t].pc = "done" \/ (call'[t].pc = "follow_pair" /\ mem[UserKey(b)] # <<>>)
          /\ call'[t].a = a /\ call'[t].b = b
      BY <3>1 DEF Checked, Moves, Goes, Answer, Continue, OthersStay
    <3>3. mem[UserKey(b)] # <<>> => Known(b)'
      BY <1>1, <3>2 DEF Known
    <3>4. Known(a)'
      BY <1>1, <3>2 DEF AllKnown, KnownCall
    <3>5. KnownCall(t)'
      BY <3>2, <3>3, <3>4 DEF KnownCall
    <3> QED BY <1>4, <3>2, <3>5
  <2>4. CASE \/ FollowCheckPair(t) \/ FollowPutPair(t) \/ FollowPutFollowing(t)
             \/ FollowPutFollower(t)
    <3>1. /\ call[t].pc \in FollowStages \ {"follow_other"} /\ call[t].op = "Follow"
          /\ \E where : Goes(t, where)
      BY <2>4, UserChecks, UserPuts DEF Checked, Put, Moves, FollowStages
    <3>2. /\ OthersStay(t) /\ a \in Users /\ b \in Users
          /\ call'[t].a = a /\ call'[t].b = b
      BY <3>1 DEF Goes, OthersStay, Typed, CallOK
    <3>3. Known(a) /\ Known(b)
      BY <3>1 DEF AllKnown, KnownCall, FollowStages
    <3>4. KnownCall(t)'
      BY <1>1, <3>2, <3>3 DEF KnownCall
    <3> QED BY <1>4, <3>2, <3>4
  <2>5. CASE RegisterPut(t) \/ ProfileGetFollowings(t) \/ ProfileGetFollowers(t)
    <3>1. /\ call[t].op \in {"RegisterUser", "Profile"} /\ \E where : Goes(t, where)
      <4>1. UserMove(t)
        BY <2>5, UserStepEffect DEF UserStep
      <4>2. call[t].op \in {"RegisterUser", "Profile"}
        BY <2>5 DEF RegisterPut, Store, ProfileGetFollowings, ProfileGetFollowers,
                    ProfileGet, Typed, CallOK
      <4> QED BY <4>1, <4>2 DEF UserMove
    <3>2. OthersStay(t) /\ call'[t].op \in {"RegisterUser", "Profile"} /\ CallOK(call'[t])
      BY <3>1, NextTyped DEF Goes, OthersStay, Typed
    <3> QED BY <1>3, <1>4, <3>2 DEF CallOK, FollowStages
  <2>6. CASE CawStep(t)
    <3>1. /\ OthersStay(t) /\ call'[t].op \in {"Caw", "Read"} /\ CallOK(call'[t])
      BY <2>6, CawStepQuiet, NextTyped DEF Typed
    <3> QED BY <1>3, <1>4, <3>1 DEF CallOK, FollowStages
  <2>7. CASE PutOutlivesCall(t)
    <3>1. /\ OthersStay(t) /\ call'[t].pc = call[t].pc
          /\ call'[t].a = a /\ call'[t].b = b
      BY <2>7, OutlivesEffect DEF Outlives, Moves, Goes, OthersStay
    <3>2. call[t].pc \in FollowStages => a \in Users /\ b \in Users
      BY DEF Typed, CallOK, FollowStages
    <3>3. KnownCall(t)'
      BY <1>1, <3>1, <3>2 DEF AllKnown, KnownCall, FollowStages
    <3> QED BY <1>4, <3>1, <3>3
  <2> QED BY <1>6, <2>1, <2>2, <2>3, <2>4, <2>5, <2>6, <2>7 DEF Step, CawStep
<1>7. CASE KvRestart \/ UNCHANGED vars
  BY <1>2, <1>7 DEF KvRestart, vars
<1>8. CASE FazCrash
  BY <1>3, <1>8, <1>2, FazCrashEffect DEF FollowStages
<1> QED BY <1>5, <1>6, <1>7, <1>8 DEF Next

LEMMA InitKnown == Init => AllKnown
<1> SUFFICES ASSUME Init PROVE AllKnown
  OBVIOUS
<1>1. \A x \in Users : KnownKept(x)
  BY DEF Init, KnownKept
<1>2. \A t \in Threads : KnownCall(t)
  BY InitIdle DEF KnownCall
<1>3. ASSUME NEW u \in Users PROVE KnownListed(u)
  <2>1. /\ FollowingsKey(u) \in StoreKeys /\ FollowersKey(u) \in StoreKeys
        /\ \A x : FollowingsKey(u) # UserKey(x) /\ FollowersKey(u) # UserKey(x)
    BY KeysInStore, KeysDiffer
  <2>2. mem[FollowingsKey(u)] = <<>> /\ mem[FollowersKey(u)] = <<>>
    BY <2>1 DEF Init
  <2>3. Range(<<>>) = {}
    BY DEF Range
  <2> QED BY <2>2, <2>3 DEF KnownListed
<1> QED BY <1>1, <1>2, <1>3 DEF AllKnown

LEMMA NextKnown == Typed /\ AllKnown /\ [Next]_vars => AllKnown'
<1> SUFFICES ASSUME Typed, AllKnown, [Next]_vars PROVE AllKnown'
  OBVIOUS
<1>1. \A x \in Users : KnownKept(x)'
  BY KeptKnown
<1>2. \A u \in Users : KnownListed(u)'
  BY ListedKnown
<1> QED BY <1>1, <1>2, CallKnown DEF AllKnown

LEMMA KnownNames == AllKnown => NamesAreUsers
<1> SUFFICES ASSUME AllKnown, NEW u \in Users, NEW v \in Users, NEW x \in {u, v},
                    v \in Range(mem[FollowingsKey(u)]) \/ u \in Range(mem[FollowersKey(v)])
             PROVE  Known(x)
  BY DEF NamesAreUsers, Known
<1>1. Known(u) /\ Known(v)
  BY DEF AllKnown, KnownListed
<1> QED BY <1>1

-----------------------------------------------------------------------------
(* What is stored once.                                                    *)

LEMMA PutArrivals ==
  ASSUME Typed, [Next]_vars, NEW t \in Threads, Step(t)
  PROVE  /\ call'[t].pc = "register_put" => RegisterCheck(t) \/ PutOutlivesCall(t)
         /\ call'[t].pc = "follow_put_pair" => FollowCheckPair(t) \/ PutOutlivesCall(t)
<1> DEFINE Puts2 == {"register_put", "follow_put_pair"}
<1>1. CASE RegisterCheck(t) \/ FollowCheckPair(t)
  BY <1>1, UserChecks DEF Checked, Moves, Goes, Answer, Continue
<1>2. CASE FollowCheckUser(t) \/ FollowCheckOther(t) \/ ProfileCheckUser(t)
  <2>1. call'[t].pc \notin Puts2
    BY <1>2, UserChecks DEF Checked, Moves, Goes, Answer, Continue
  <2> QED BY <2>1
<1>3. CASE \/ RegisterPut(t) \/ FollowPutPair(t) \/ FollowPutFollowing(t)
           \/ FollowPutFollower(t)
  <2>1. call'[t].pc \notin Puts2
    BY <1>3, UserPuts DEF Put, Moves, Goes, Answer, Continue
  <2> QED BY <2>1
<1>4. CASE ProfileGetFollowings(t) \/ ProfileGetFollowers(t) \/ CawStep(t)
  <2>1. call'[t].op = call[t].op /\ call[t].op \in {"Profile", "Caw", "Read"}
    <3>1. CASE ProfileGetFollowings(t) \/ ProfileGetFollowers(t)
      <4>1. UserMove(t)
        BY <3>1, UserStepEffect DEF UserStep
      <4>2. call[t].op = "Profile"
        BY <3>1 DEF ProfileGetFollowings, ProfileGetFollowers, ProfileGet, Typed, CallOK
      <4> QED BY <4>1, <4>2 DEF UserMove, Goes
    <3>2. CASE CawStep(t)
      BY <3>2, CawStepQuiet
    <3> QED BY <1>4, <3>1, <3>2
  <2>2. CallOK(call'[t])
    BY NextTyped DEF Typed
  <2> QED BY <2>1, <2>2 DEF CallOK
<1> QED BY <1>1, <1>2, <1>3, <1>4 DEF Step, CawStep

\* A thread that goes on is one that was handling the same call.
LEMMA SameBefore ==
  ASSUME Typed, NEW t \in Threads, Step(t), NEW op, NEW u, NEW v
  PROVE  /\ OthersStay(t)
         /\ \A s \in Threads : Same(s, op, u, v)' => Same(s, op, u, v)
<1>1. call[t].pc # "done" /\ \E where : Goes(t, where)
  BY UserStepEffect, CawStepEffect, OutlivesEffect
     DEF Step, UserStep, CawStep, UserMove, Outlives, Moves, Putting
<1> QED BY <1>1 DEF Goes, Same, Done, OthersStay

LEMMA AloneStays ==
  ASSUME Typed, [Next]_vars,
         NEW op \in {"RegisterUser", "Follow"}, NEW u \in Users, NEW v, NEW put, NEW key,
         \/ /\ op = "RegisterUser" /\ v = NoCaw
            /\ put = "register_put" /\ key = UserKey(u)
         \/ /\ op = "Follow" /\ v \in Users
            /\ put = "follow_put_pair" /\ key = PairKey(u, v),
         Alone(op, u, v, put, key)
  PROVE  Alone(op, u, v, put, key)'
<1> SUFFICES ASSUME <<op, u, v, "raced">> \notin mishaps',
                    <<op, u, v, "blind">> \notin mishaps'
             PROVE  /\ \A s, t \in Threads :
                         Same(s, op, u, v)' /\ Same(t, op, u, v)' => s = t
                    /\ \A t \in Threads :
                         Same(t, op, u, v)' /\ call'[t].pc = put => mem'[key] = <<>>
                    /\ Len(mem'[key]) <= 1
  BY DEF Alone
<1>1. /\ \A s, t \in Threads : Same(s, op, u, v) /\ Same(t, op, u, v) => s = t
      /\ \A t \in Threads : Same(t, op, u, v) /\ call[t].pc = put => mem[key] = <<>>
      /\ Len(mem[key]) <= 1
  BY MishapsStay DEF Alone
<1>2. /\ key \in StoreKeys /\ IsUserKey(key)
      /\ mem[key] \in Seq(Entries) /\ dur[key] \in Seq(Entries)
  <2>1. key \in StoreKeys /\ IsUserKey(key)
    BY KeysInStore, UserKeysAre
  <2> QED BY <2>1 DEF Typed, StoreOK
<1>3. ASSUME NEW t \in Threads, Event(t)
      PROVE  /\ \A s, r \in Threads : Same(s, op, u, v)' /\ Same(r, op, u, v)' => s = r
             /\ \A s \in Threads : Same(s, op, u, v)' /\ call'[s].pc = put => mem'[key] = <<>>
             /\ Len(mem'[key]) <= 1
  <2>1. /\ mem' = mem /\ OthersStay(t)
        /\ call'[t].pc \in {"register_check", "follow_user", "profile_user",
                            "caw_user", "read_check"}
    BY <1>3, EventQuiet
  <2>2. \A s \in Threads \ {t} : Same(s, op, u, v)' => Same(s, op, u, v)
    BY <2>1 DEF OthersStay, Same, Done
  <2>3. Same(t, op, u, v)' => \A s \in Threads : ~Same(s, op, u, v)
    <3>1. SUFFICES ASSUME Same(t, op, u, v)', NEW s \in Threads, Same(s, op, u, v)
                   PROVE  FALSE
      OBVIOUS
    <3>2. call'[t].op = op /\ call'[t].a = u /\ call'[t].b = v
      BY <3>1 DEF Same
    <3>3. Same(s, call'[t].op, call'[t].a, call'[t].b)
      BY <3>1, <3>2
    <3>4. <<call'[t].op, call'[t].a, call'[t].b, "raced">> \in mishaps'
      BY <1>3, <3>2, <3>3, RaceNoted
    <3> QED BY <3>2, <3>4
  <2>4. \A s, r \in Threads : Same(s, op, u, v)' /\ Same(r, op, u, v)' => s = r
    BY <1>1, <2>2, <2>3
  <2>5. \A s \in Threads : Same(s, op, u, v)' /\ call'[s].pc = put => mem'[key] = <<>>
    BY <1>1, <2>1, <2>2 DEF OthersStay
  <2> QED BY <1>1, <2>1, <2>4, <2>5
<1>4. ASSUME NEW t \in Threads, Step(t), ~PutsUnder(t, key)
      PROVE  /\ \A s, r \in Threads : Same(s, op, u, v)' /\ Same(r, op, u, v)' => s = r
             /\ \A s \in Threads : Same(s, op, u, v)' /\ call'[s].pc = put => mem'[key] = <<>>
             /\ Len(mem'[key]) <= 1
  <2>1. /\ OthersStay(t)
        /\ \A s \in Threads : Same(s, op, u, v)' => Same(s, op, u, v)
    BY <1>4, SameBefore
  <2>2. mem'[key] = mem[key]
    <3>1. UserStep(t) \/ CawStep(t) \/ PutOutlivesCall(t)
      BY <1>4 DEF Step, UserStep, CawStep
    <3>2. CASE CawStep(t)
      BY <1>2, <3>2, CawStepQuiet DEF UserKeysStay
    <3>6. CASE PutOutlivesCall(t)
      BY <3>6, OutlivesEffect DEF Outlives
    <3>3. CASE \/ RegisterPut(t) \/ FollowPutPair(t) \/ FollowPutFollowing(t)
               \/ FollowPutFollower(t)
      <4>1. ASSUME NEW pc, NEW o, NEW k, NEW value, NEW then, k # key,
                   Put(t, pc, o, k, value, then)
            PROVE  mem'[key] = mem[key]
        BY <1>2, <4>1 DEF Put, Adds
      <4> QED BY <1>4, <3>3, <4>1, UserPuts DEF PutsUnder
    <3>4. CASE \/ RegisterCheck(t) \/ FollowCheckUser(t) \/ FollowCheckOther(t)
               \/ FollowCheckPair(t) \/ ProfileCheckUser(t)
      BY <3>4, UserChecks DEF Checked
    <3>5. CASE ProfileGetFollowings(t) \/ ProfileGetFollowers(t)
      BY <3>5 DEF ProfileGetFollowings, ProfileGetFollowers, ProfileGet
    <3> QED BY <3>1, <3>2, <3>3, <3>4, <3>5, <3>6 DEF UserStep
  <2>3. ASSUME Same(t, op, u, v)', call'[t].pc = put PROVE mem[key] = <<>>
    <3>1. Same(t, op, u, v) /\ call[t].a = u /\ call[t].b = v
      BY <2>1, <2>3 DEF Same
    <3>5. op \in {"RegisterUser", "Follow"} /\ Blinds(t) = {<<op, u, v, "blind">>}
      BY <3>1 DEF Same, Blinds, Notes
    <3>6. CASE PutOutlivesCall(t)
      <4>1. call[t].pc = put
        BY <2>3, <3>6, OutlivesEffect DEF Outlives
      <4> QED BY <1>1, <3>1, <4>1
    <3>2. CASE ~PutOutlivesCall(t) /\ put = "register_put" /\ key = UserKey(u)
      <4>1. RegisterCheck(t)
        BY <1>4, <2>3, <3>2, PutArrivals
      <4>2. Checked(t, "register_check", "RegisterUser", key,
                    Continue("register_put"), Answer("ALREADY_EXISTS"))
        BY <3>1, <3>2, <4>1, UserChecks
      <4> QED BY <2>3, <3>2, <3>5, <4>2 DEF Checked, Moves, Goes, Answer, Continue
    <3>3. CASE ~PutOutlivesCall(t) /\ put = "follow_put_pair" /\ key = PairKey(u, v)
      <4>1. FollowCheckPair(t)
        BY <1>4, <2>3, <3>3, PutArrivals
      <4>2. Checked(t, "follow_pair", "Follow", key,
                    Continue("follow_put_pair"), Answer("ALREADY_EXISTS"))
        BY <3>1, <3>3, <4>1, UserChecks
      <4> QED BY <2>3, <3>3, <3>5, <4>2 DEF Checked, Moves, Goes, Answer, Continue
    <3> QED BY <3>2, <3>3, <3>6
  <2> QED BY <1>1, <2>1, <2>2, <2>3 DEF OthersStay
<1>5. ASSUME NEW t \in Threads, PutsUnder(t, key), OthersStay(t),
             \A s \in Threads : Same(s, op, u, v)' => Same(s, op, u, v)
      PROVE  /\ \A s, r \in Threads : Same(s, op, u, v)' /\ Same(r, op, u, v)' => s = r
             /\ \A s \in Threads : Same(s, op, u, v)' /\ call'[s].pc = put => mem'[key] = <<>>
             /\ Len(mem'[key]) <= 1
  <2>1. \/ /\ op = "RegisterUser" /\ v = NoCaw /\ put = "register_put"
           /\ RegisterPut(t) /\ u = call[t].a
        \/ /\ op = "Follow" /\ put = "follow_put_pair"
           /\ FollowPutPair(t) /\ u = call[t].a /\ v = call[t].b
    BY <1>5, KeysDiffer DEF PutsUnder
  <2>2. PICK value \in Entries,
             then \in {Answer("OK"), Continue("follow_put_following")} :
          Put(t, put, op, key, value, then)
    <3>1. "" \in Entries
      BY DEF Entries
    <3>2. CASE op = "RegisterUser"
      <4>1. RegisterPut(t) /\ key = UserKey(call[t].a) /\ put = "register_put"
        BY <2>1, <3>2
      <4>2. Put(t, put, op, key, "", Answer("OK"))
        BY <3>2, <4>1, UserPuts
      <4> QED BY <3>1, <4>2
    <3>3. CASE op = "Follow"
      <4>1. FollowPutPair(t) /\ key = PairKey(call[t].a, call[t].b) /\ put = "follow_put_pair"
        BY <2>1, <3>3
      <4>2. Put(t, put, op, key, "", Continue("follow_put_following"))
        BY <3>3, <4>1, UserPuts
      <4> QED BY <3>1, <4>2
    <3> QED BY <3>2, <3>3
  <2>3. /\ call[t].pc = put /\ call[t].op = op /\ call[t].a = u /\ call[t].b = v
        /\ call'[t].pc # put
    <3>1. call'[t].pc \in {"done", "follow_put_following"}
      BY <2>2 DEF Put, Moves, Goes, Answer, Continue
    <3> QED BY <2>1, <2>2, <3>1 DEF Put
  <2>4. Same(t, op, u, v)
    BY <2>1, <2>3 DEF Same, Done
  <2>5. mem[key] = <<>>
    BY <1>1, <2>3, <2>4
  <2>6. Len(mem'[key]) <= 1
    <3>1. mem'[key] = mem[key] \/ mem'[key] = Append(mem[key], value)
      BY <2>2 DEF Put, Adds
    <3>2. Len(Append(mem[key], value)) = Len(mem[key]) + 1 /\ Len(mem[key]) = 0
      BY <1>2, <2>5, AppendFacts, RangeFacts
    <3> QED BY <3>1, <3>2
  <2>7. \A s \in Threads : Same(s, op, u, v)' => s = t
    BY <1>1, <1>5, <2>4
  <2> QED BY <2>3, <2>6, <2>7
<1>6. ASSUME NEW t \in Threads, Step(t)
      PROVE  /\ \A s, r \in Threads : Same(s, op, u, v)' /\ Same(r, op, u, v)' => s = r
             /\ \A s \in Threads : Same(s, op, u, v)' /\ call'[s].pc = put => mem'[key] = <<>>
             /\ Len(mem'[key]) <= 1
  BY <1>4, <1>5, <1>6, SameBefore
<1>7. CASE KvRestart \/ UNCHANGED vars
  <2>1. call' = call /\ (mem' = mem \/ mem' = dur)
    BY <1>7 DEF KvRestart, vars
  <2>2. Len(dur[key]) <= Len(mem[key])
    BY <1>2 DEF Typed, Ahead
  <2>3. Len(mem'[key]) <= 1 /\ (mem[key] = <<>> => mem'[key] = <<>>)
    BY <1>1, <1>2, <2>1, <2>2, RangeFacts
  <2>4. \A s \in Threads : Same(s, op, u, v)' => Same(s, op, u, v)
    BY <2>1 DEF Same, Done
  <2> QED BY <1>1, <2>1, <2>3, <2>4
<1>8. CASE FazCrash
  <2>1. mem' = mem /\ \A s \in Threads : call'[s] = call[s] \/ call'[s].pc = "done"
    BY <1>8, FazCrashEffect
  <2>2. \A s \in Threads : Same(s, op, u, v)' => Same(s, op, u, v) /\ call'[s] = call[s]
    BY <2>1 DEF Same, Done
  <2> QED BY <1>1, <2>1, <2>2
<1> QED BY <1>3, <1>6, <1>7, <1>8 DEF Next

LEMMA InitAlone == Init => AllAlone
<1> SUFFICES ASSUME Init PROVE AllAlone
  OBVIOUS
<1>1. ASSUME NEW op, NEW u, NEW v, NEW put, NEW key \in StoreKeys
      PROVE  Alone(op, u, v, put, key)
  <2>1. \A t \in Threads : ~Same(t, op, u, v)
    BY InitIdle DEF Same, Done
  <2>2. PICK value : mem[key] = <<>> \/ mem[key] = <<value>>
    BY DEF Init
  <2>3. Len(<<value>>) <= 1 /\ Len(<<>>) <= 1
    OBVIOUS
  <2>4. Len(mem[key]) <= 1
    BY <2>2, <2>3, Zenon
  <2>5. /\ \A s, t \in Threads : Same(s, op, u, v) /\ Same(t, op, u, v) => s = t
        /\ \A t \in Threads : Same(t, op, u, v) /\ call[t].pc = put => mem[key] = <<>>
    BY <2>1
  <2> QED BY <2>4, <2>5, Zenon DEF Alone
<1> QED BY <1>1, KeysInStore DEF AllAlone

LEMMA NextAlone == Typed /\ AllAlone /\ [Next]_vars => AllAlone'
<1> SUFFICES ASSUME Typed, AllAlone, [Next]_vars, NEW u \in Users
             PROVE  /\ Alone("RegisterUser", u, NoCaw, "register_put", UserKey(u))'
                    /\ \A v \in Users : Alone("Follow", u, v, "follow_put_pair", PairKey(u, v))'
  BY DEF AllAlone
<1>1. /\ Alone("RegisterUser", u, NoCaw, "register_put", UserKey(u))
      /\ \A v \in Users : Alone("Follow", u, v, "follow_put_pair", PairKey(u, v))
  BY DEF AllAlone
<1>2. Alone("RegisterUser", u, NoCaw, "register_put", UserKey(u))'
  BY <1>1, AloneStays
<1>3. ASSUME NEW v \in Users
      PROVE  Alone("Follow", u, v, "follow_put_pair", PairKey(u, v))'
  BY <1>1, AloneStays
<1> QED BY <1>2, <1>3

LEMMA AloneOnce == Typed /\ AllAlone => StoredOnce
<1> SUFFICES ASSUME Typed, AllAlone, NEW m \in {mem, dur}, NEW u \in Users
             PROVE  /\ \/ \E what \in {"raced", "blind"} :
                               <<"RegisterUser", u, NoCaw, what>> \in mishaps
                       \/ Len(m[UserKey(u)]) <= 1
                    /\ \A v \in Users :
                         \/ \E what \in {"raced", "blind"} : <<"Follow", u, v, what>> \in mishaps
                         \/ Len(m[PairKey(u, v)]) <= 1
  BY DEF StoredOnce
<1>1. ASSUME NEW key \in StoreKeys, Len(mem[key]) <= 1 PROVE Len(m[key]) <= 1
  <2>1. Len(dur[key]) <= Len(mem[key])
    BY DEF Typed, Ahead
  <2>2. Len(dur[key]) \in Nat /\ Len(mem[key]) \in Nat
    BY DEF Typed, StoreOK
  <2> QED BY <1>1, <2>1, <2>2
<1> QED BY <1>1, KeysInStore DEF AllAlone, Alone

-----------------------------------------------------------------------------
(* What a profile shows.  Here a Get is taken to be whole: one that ends   *)
(* before its last value shows too little.                                 *)

LEMMA WholeStays ==
  ASSUME Typed, [Next]_vars, NEW s \in Threads, Whole(s),
         call'[s].op = call[s].op, call'[s].a = call[s].a, call'[s].must = call[s].must,
         call'[s].out = call[s].out,
         \/ call'[s].pc = call[s].pc /\ call'[s].status = call[s].status
         \/ call'[s].pc = "done" /\ call'[s].status # "OK"
         \/ /\ call[s].pc = "profile_user" /\ call'[s].pc = "profile_followings"
            /\ call'[s].status = "NONE"
  PROVE  Whole(s)'
<1> SUFFICES ASSUME call[s].op = "Profile" PROVE Whole(s)'
  BY DEF Whole
<1>1. PICK a \in Users : call[s].a = a
  BY DEF Typed, CallOK
<1>2. FollowingsKey(a) \in StoreKeys /\ FollowersKey(a) \in StoreKeys
  BY KeysInStore
<1>3. /\ Range(dur[FollowingsKey(a)]) \subseteq Range(dur'[FollowingsKey(a)])
      /\ Range(dur[FollowersKey(a)]) \subseteq Range(dur'[FollowersKey(a)])
  BY <1>2, NextGrows DEF Grows
<1> QED BY <1>1, <1>3 DEF Whole

LEMMA ProfileGetsWhole ==
  ASSUME Typed, [Next]_vars, "cut" \notin Faults, NEW t \in Threads, Whole(t),
         ProfileGetFollowings(t) \/ ProfileGetFollowers(t)
  PROVE  Whole(t)'
<1> DEFINE must == call[t].must
           out  == call[t].out
<1>1. PICK a \in Users : call[t].a = a
  BY ProfileGets
<1>2. FollowingsKey(a) \in StoreKeys /\ FollowersKey(a) \in StoreKeys
  BY KeysInStore
<1>3. /\ Range(dur[FollowingsKey(a)]) \subseteq Range(mem[FollowingsKey(a)])
      /\ Range(dur[FollowersKey(a)]) \subseteq Range(mem[FollowersKey(a)])
      /\ mem \in [StoreKeys -> Seq(Entries)]
  BY <1>2 DEF Typed, Ahead, StoreOK
<1>4. CASE ProfileGetFollowings(t)
  <2>1. /\ call[t].op = "Profile" /\ call[t].pc = "profile_followings"
        /\ out \in Seq(Seq(Users)) /\ dur' = dur
    BY <1>4, ProfileGets
  <2>g. Goes(t, Continue("profile_followers"))
    BY <1>4, ProfileGets
  <2>v. \E values \in Gets(FollowingsKey(call[t].a)) : /\ values \in Seq(Users)
                                              /\ call'[t].out = Append(out, values)
    BY <1>4, ProfileGets
  <2>2. PICK values \in Seq(Users) : /\ values = mem[FollowingsKey(a)]
                                     /\ call'[t].out = Append(out, values)
    BY <1>1, <1>2, <1>3, <2>v, GetsFacts
  <2>3. /\ out = <<>> /\ must[1] \subseteq Range(dur[FollowingsKey(a)])
        /\ must[2] \subseteq Range(dur[FollowersKey(a)])
    BY <1>1, <2>1 DEF Whole
  <2>4. Len(out) = 0
    BY <2>1, <2>3, RangeFacts
  <2>5. Len(call'[t].out) = 1 /\ call'[t].out[1] = values
    BY <2>1, <2>2, <2>4, AppendFacts
  <2>6. /\ call'[t].op = "Profile" /\ call'[t].a = a /\ call'[t].must = must
        /\ call'[t].pc = "profile_followers" /\ call'[t].status = "NONE"
    BY <1>1, <2>1, <2>g DEF Goes, Continue
  <2>7. must[1] \subseteq Range(call'[t].out[1])
    BY <1>3, <2>2, <2>3, <2>5
  <2> QED BY <2>1, <2>3, <2>5, <2>6, <2>7 DEF Whole
<1>5. CASE ProfileGetFollowers(t)
  <2>1. /\ call[t].op = "Profile" /\ call[t].pc = "profile_followers"
        /\ out \in Seq(Seq(Users)) /\ dur' = dur
        /\ Goes(t, Answer("OK"))
    BY <1>5, ProfileGets
  <2>v. \E values \in Gets(FollowersKey(call[t].a)) : /\ values \in Seq(Users)
                                              /\ call'[t].out = Append(out, values)
    BY <1>5, ProfileGets
  <2>2. PICK values \in Seq(Users) : /\ values = mem[FollowersKey(a)]
                                     /\ call'[t].out = Append(out, values)
    BY <1>1, <1>2, <1>3, <2>v, GetsFacts
  <2>3. /\ Len(out) = 1 /\ must[1] \subseteq Range(out[1])
        /\ must[1] \subseteq Range(dur[FollowingsKey(a)])
        /\ must[2] \subseteq Range(dur[FollowersKey(a)])
    BY <1>1, <2>1 DEF Whole
  <2>4. /\ Len(call'[t].out) = 2 /\ call'[t].out[1] = out[1]
        /\ call'[t].out[2] = values
    <3>1. \A i \in 1..Len(out) : Append(out, values)[i] = out[i]
      BY <2>1, AppendFacts
    <3>2. /\ Len(Append(out, values)) = Len(out) + 1
          /\ Append(out, values)[Len(out) + 1] = values
      BY <2>1, AppendFacts
    <3> QED BY <2>2, <2>3, <3>1, <3>2
  <2>5. /\ call'[t].op = "Profile" /\ call'[t].a = a /\ call'[t].must = must
        /\ call'[t].pc = "done"
    BY <1>1, <2>1 DEF Goes, Answer
  <2>6. must[1] \subseteq Range(call'[t].out[1]) /\ must[2] \subseteq Range(call'[t].out[2])
    BY <1>3, <2>2, <2>3, <2>4
  <2> QED BY <2>1, <2>3, <2>4, <2>5, <2>6 DEF Whole
<1> QED BY <1>4, <1>5

LEMMA NextWhole ==
  ASSUME "cut" \notin Faults
  PROVE  Typed /\ AllWhole /\ [Next]_vars => AllWhole'
<1> SUFFICES ASSUME Typed, AllWhole, [Next]_vars PROVE AllWhole'
  OBVIOUS
<1>1. ASSUME NEW s \in Threads, call'[s] = call[s] PROVE Whole(s)'
  BY <1>1, WholeStays DEF AllWhole
<1>2. ASSUME NEW t \in Threads, OthersStay(t), Whole(t)' PROVE AllWhole'
  BY <1>1, <1>2 DEF OthersStay, AllWhole
<1>3. ASSUME NEW s \in Threads, call'[s].op # "Profile" PROVE Whole(s)'
  BY <1>3 DEF Whole
<1>4. ASSUME NEW t \in Threads, Event(t) PROVE AllWhole'
  <2>1. OthersStay(t) /\ dur' = dur
    BY <1>4, EventQuiet
  <2>2. ASSUME NEW u \in Users,
               Begins(t, "Profile", u, NoCaw, "profile_user",
                      <<Range(dur[FollowingsKey(u)]), Range(dur[FollowersKey(u)])>>)
        PROVE  Whole(t)'
    <3>1. /\ call'[t].a = u /\ call'[t].pc = "profile_user" /\ call'[t].status = "NONE"
          /\ call'[t].out = <<>>
          /\ call'[t].must[1] = Range(dur[FollowingsKey(u)])
          /\ call'[t].must[2] = Range(dur[FollowersKey(u)])
      BY <2>2 DEF Begins
    <3> QED BY <2>1, <3>1 DEF Whole
  <2>3. \/ \E u \in Users :
             Begins(t, "Profile", u, NoCaw, "profile_user",
                    <<Range(dur[FollowingsKey(u)]), Range(dur[FollowersKey(u)])>>)
        \/ call'[t].op # "Profile"
    BY <1>4, EventEffect DEF Begins
  <2> QED BY <1>2, <1>3, <2>1, <2>2, <2>3
<1>5. ASSUME NEW t \in Threads, Step(t) PROVE AllWhole'
  <2>1. CASE ProfileGetFollowings(t) \/ ProfileGetFollowers(t)
    <3>1. OthersStay(t)
      BY <2>1, UserStepEffect DEF UserStep, UserMove, Goes, OthersStay
    <3> QED BY <1>2, <2>1, <3>1, ProfileGetsWhole DEF AllWhole
  <2>2. CASE ProfileCheckUser(t)
    <3>1. Checked(t, "profile_user", "Profile", UserKey(call[t].a),
                  Answer("NOT_FOUND"), Continue("profile_followings"))
      BY <2>2, UserChecks
    <3>2. /\ OthersStay(t) /\ call[t].pc = "profile_user"
          /\ call'[t].op = call[t].op /\ call'[t].a = call[t].a
          /\ call'[t].must = call[t].must /\ call'[t].out = call[t].out
          /\ \/ call'[t].pc = "done" /\ call'[t].status = "NOT_FOUND"
             \/ call'[t].pc = "profile_followings" /\ call'[t].status = "NONE"
      BY <3>1 DEF Checked, Moves, Goes, Answer, Continue, OthersStay
    <3>3. Whole(t)'
      BY <3>2, WholeStays DEF AllWhole
    <3> QED BY <1>2, <3>2, <3>3
  <2>3. CASE \/ RegisterCheck(t) \/ RegisterPut(t) \/ FollowCheckUser(t)
             \/ FollowCheckOther(t) \/ FollowCheckPair(t) \/ FollowPutPair(t)
             \/ FollowPutFollowing(t) \/ FollowPutFollower(t)
    <3>1. OthersStay(t) /\ call'[t].op # "Profile"
      BY <2>3, UserChecks, UserPuts DEF Checked, Put, Moves, Goes, OthersStay
    <3> QED BY <1>2, <1>3, <3>1
  <2>4. CASE CawStep(t)
    <3>1. OthersStay(t) /\ call'[t].op # "Profile"
      BY <2>4, CawStepQuiet
    <3> QED BY <1>2, <1>3, <3>1
  <2>5. CASE PutOutlivesCall(t)
    <3>1. OthersStay(t) /\ call'[t].op # "Profile"
      BY <2>5, OutlivesEffect DEF Outlives, Moves, Goes, OthersStay
    <3> QED BY <1>2, <1>3, <3>1
  <2> QED BY <1>5, <2>1, <2>2, <2>3, <2>4, <2>5 DEF Step, CawStep
<1>6. CASE KvRestart \/ UNCHANGED vars
  BY <1>1, <1>6 DEF KvRestart, vars, AllWhole
<1>7. CASE FazCrash
  <2>1. ASSUME NEW s \in Threads PROVE Whole(s)'
    BY <1>1, <1>7, FazCrashEffect, WholeStays DEF AllWhole
  <2> QED BY <2>1 DEF AllWhole
<1> QED BY <1>4, <1>5, <1>6, <1>7 DEF Next

LEMMA WholeShown == AllWhole => ProfileWhole
<1> SUFFICES ASSUME AllWhole, NEW t \in Threads, call[t].op = "Profile",
                    call[t].status = "OK", NEW i \in 1..2
             PROVE  call[t].must[i] \subseteq Range(call[t].out[i])
  BY DEF ProfileWhole
<1>1. Whole(t)
  BY DEF AllWhole
<1>2. i = 1 \/ i = 2
  OBVIOUS
<1> QED BY <1>1, <1>2 DEF Whole

-----------------------------------------------------------------------------
(* The theorems.                                                           *)

\* What RegisterUser, Follow or Caw answered OK is in the log under every key
\* that it belongs to, and no later failure or restart takes it away.
THEOREM AnswersLast == Spec => []AnsweredOkLasts
<1>1. Init => AllKept
  BY InitKept
<1>2. Typed /\ CawsStored /\ AllKept /\ [Next]_vars => AllKept'
  BY NextKept
<1> QED BY <1>1, <1>2, TypesHold, KeptAnswered, PTL DEF Spec

\* Follow writes its three keys in order: at any moment, in memory and in the
\* log, no list has more entries for a relationship than the one written before it.
THEOREM ListsAreOrdered == Spec => []FollowInOrder
<1>1. Init => AllCounted
  BY InitCounted
<1>2. Typed /\ AllCounted /\ [Next]_vars => AllCounted'
  BY NextCounted
<1> QED BY <1>1, <1>2, TypesHold, CountedInOrder, PTL DEF Spec

\* The three keys of a relationship agree whenever no Follow of it is under way
\* and none of them failed, however many were under way at a time.
THEOREM ListsComeToAgree == Spec => []ListsAgree
<1>1. Init => AllCounted
  BY InitCounted
<1>2. Typed /\ AllCounted /\ [Next]_vars => AllCounted'
  BY NextCounted
<1> QED BY <1>1, <1>2, TypesHold, CountedAgree, PTL DEF Spec

\* Whoever is named in a follow list is a registered user, unless the
\* registration was one that failed.
THEOREM ListsNameUsers == Spec => []NamesAreUsers
<1>1. Init => AllKnown
  BY InitKnown
<1>2. Typed /\ AllKnown /\ [Next]_vars => AllKnown'
  BY NextKnown
<1> QED BY <1>1, <1>2, TypesHold, KnownNames, PTL DEF Spec

\* Whatever fails, RegisterUser and Follow store a user or a relationship a second
\* time only if one call for it began while another was under way, or had failed with
\* its Put on its way, or if a Get that broke hid from one what another had stored.
THEOREM RetriesStoreOnce == Spec => []StoredOnce
<1>1. Init => AllAlone
  BY InitAlone
<1>2. Typed /\ AllAlone /\ [Next]_vars => AllAlone'
  BY NextAlone
<1> QED BY <1>1, <1>2, TypesHold, AloneOnce, PTL DEF Spec

\* If the values of a Get always arrive, a profile shows at least what was in
\* the log when it was asked for, in each of its two lists.
THEOREM ProfilesAreWhole ==
  ASSUME "cut" \notin Faults
  PROVE  Spec => []ProfileWhole
<1>1. Init => AllWhole
  BY InitIdle DEF AllWhole, Whole
<1>2. Typed /\ AllWhole /\ [Next]_vars => AllWhole'
  BY NextWhole
<1> QED BY <1>1, <1>2, TypesHold, WholeShown, PTL DEF Spec

=============================================================================
