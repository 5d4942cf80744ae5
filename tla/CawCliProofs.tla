----------------------------- MODULE CawCliProofs -----------------------------
(***************************************************************************)
(* Proofs about the whole platform of CawCli: that the handlers keep in it *)
(* what is proved of them alone, and that the tools report what is so.     *)
(***************************************************************************)
EXTENDS CawCli, CawFollowProofs

-----------------------------------------------------------------------------
(* The invariants.                                                         *)

Flags == {"hook_all", "registeruser", "follow", "profile", "caw", "read", "unhook_all"}

RequestRecord ==
  [op : {"none", "hook", "unhook", "event"}, type : Events \cup {NoCaw},
   ran : Ops \cup {NoCaw}, gone : BOOLEAN, may : SUBSET Ops,
   status : Statuses \cup {"UNKNOWN"}]

\* An event whose type was not unhooked runs the function of its type.
Requests ==
  {r \in RequestRecord : ~r.gone => r.may = {} /\ r.ran \in {NoCaw, r.type}}

CliRecord ==
  [line : Nat, dialing : BOOLEAN, flags : SUBSET Flags, todo : SUBSET Ops,
   thread : Threads \cup {NoCaw}, success : BOOLEAN, reported : SUBSET Flags,
   good : SUBSET Flags, shown : Seq(Seq(Users)), spared : BOOLEAN]

\* The arguments are those of event e.
Suits(e, args) ==
  /\ e \in {"RegisterUser", "Follow", "Profile", "Caw"} => args[1] \in Users
  /\ e = "Follow" => args[2] \in Users
  /\ e = "Caw" => args[2] \in known \cup {NoCaw, BadId}
  /\ e = "Read" => args[1] \in known \cup {BadId}

\* A request is of one type, and the thread of one that has a function handles its call.
RequestOK(t) ==
  /\ req[t].op \in {"hook", "unhook"} => req[t].type \in Ops
  /\ req[t].op = "event" /\ req[t].ran = NoCaw => Suits(req[t].type, payload[t])
  /\ req[t].ran # NoCaw => req[t].op = "event" /\ call[t].op = req[t].ran

\* A tool is in one of its lines, and has each flag still before it or behind it.
LineOK(c) ==
  /\ cli[c].line \in 0..Len(Lines[c])
  /\ cli[c].flags \cup cli[c].good # {} =>
       /\ cli[c].line \in 1..Len(Lines[c])
       /\ cli[c].flags \cup cli[c].good \subseteq Line(c).flags
       /\ {Line(c).reply, Line(c).read} \subseteq known \cup {NoCaw, BadId}
  /\ cli[c].flags \cap cli[c].good = {}
  /\ "profile" \in cli[c].good => "follow" \notin cli[c].flags

\* A tool that waits has sent what its flag asks for, and the thread that has taken
\* it runs that, for this tool only.
WaitOK(c) ==
  Waits(c) =>
    LET t == cli[c].thread
        f == Flag(c) IN
    /\ cli[c].flags # {}
    /\ f \in LoginFlags => Line(c).user # Nobody
    /\ \A d \in Clis : cli[d].thread = t => d = c
    /\ f = "hook_all" => req[t].op = "hook"
    /\ f = "unhook_all" => req[t].op = "unhook"
    /\ f \in DOMAIN EventOf =>
         /\ req[t].op = "event" /\ req[t].type = EventOf[f]
         /\ req[t].ran = NoCaw => payload[t] = Arguments(Line(c), f)
         /\ req[t].ran = req[t].type =>
              /\ call[t].a = Arguments(Line(c), f)[1]
              /\ call[t].b = Arguments(Line(c), f)[2]

PlatformTyped ==
  /\ on \subseteq Ops
  /\ req \in [Threads -> Requests]
  /\ payload \in [Threads -> Args \X Args]
  /\ cli \in [Clis -> CliRecord]

AllServed ==
  /\ \A t \in Threads : RequestOK(t)
  /\ \A c \in Clis : LineOK(c) /\ WaitOK(c)

\* What a tool was told of registering and following is in the log.
GoodKept(c) == InStore(c, cli[c].good)

\* A profile that comes after a follow in the line has to show it.
GoodShown(c) ==
  "follow" \in cli[c].good =>
    /\ "profile" \in cli[c].good => Line(c).follow \in Range(cli[c].shown[1])
    /\ Waits(c) /\ Flag(c) = "profile" /\ req[cli[c].thread].ran = "Profile" =>
         Line(c).follow \in call[cli[c].thread].must[1]

\* Tool c has a line that hooks or unhooks.
Hooker(c) == \E n \in 1..Len(Lines[c]) : Lines[c][n].flags \cap HookFlags # {}

OneHooker ==
  /\ \A c, d \in Clis : Hooker(c) /\ Hooker(d) => c = d
  /\ \A c \in Clis : Hooker(c) => c \notin GoTools

\* Hooks and unhooks are those of the tool that waits for them.
HooksAwaited ==
  \A t \in Threads : req[t].op \in {"hook", "unhook"} => \E c \in Clis : cli[c].thread = t

\* What a tool is through with when it hooks is hooked.
HookedOK(c) ==
  /\ cli[c].spared /\ cli[c].success /\ "hook_all" \in cli[c].flags =>
       \A e \in Ops : \/ e \in cli[c].todo \cup on
                      \/ Waits(c) /\ req[cli[c].thread].type = e
  /\ cli[c].spared /\ "hook_all" \in cli[c].good => on = Ops
  /\ Waits(c) /\ Flag(c) = "unhook_all" => ~cli[c].spared

AllHooked == HooksAwaited /\ \A c \in Clis : HookedOK(c)

-----------------------------------------------------------------------------
(* Flags, lines and requests.                                              *)

LEMMA FlagsAre == Range(Order) = Flags
<1>1. DOMAIN Order = 1..7
  BY DEF Order
<1>2. Range(Order) = {Order[i] : i \in 1..7}
  BY <1>1 DEF Range
<1> QED BY <1>2 DEF Order, Flags

LEMMA ForemostFacts ==
  ASSUME NEW F \in SUBSET Flags, F # {}
  PROVE  /\ Foremost(F) \in F
         /\ "hook_all" \in F => Foremost(F) = "hook_all"
         /\ Foremost(F) = "profile" => "follow" \notin F
<1> DEFINE P(i) == Order[i] \in F /\ \A j \in 1..(i - 1) : Order[j] \notin F
           k == CHOOSE i \in 1..7 : P(i)
<1>1. Len(Order) = 7
  BY DEF Order
<1>2. \E i \in 1..7 : P(i)
  <2>1. CASE "hook_all" \in F
    BY <2>1 DEF Order
  <2>2. CASE "hook_all" \notin F /\ "registeruser" \in F
    BY <2>2 DEF Order
  <2>3. CASE {"hook_all", "registeruser"} \cap F = {} /\ "follow" \in F
    BY <2>3 DEF Order
  <2>4. CASE {"hook_all", "registeruser", "follow"} \cap F = {} /\ "profile" \in F
    BY <2>4 DEF Order
  <2>5. CASE {"hook_all", "registeruser", "follow", "profile"} \cap F = {} /\ "caw" \in F
    BY <2>5 DEF Order
  <2>6. CASE /\ {"hook_all", "registeruser", "follow", "profile", "caw"} \cap F = {}
             /\ "read" \in F
    BY <2>6 DEF Order
  <2>7. CASE F = {"unhook_all"}
    BY <2>7 DEF Order
  <2> QED BY <2>1, <2>2, <2>3, <2>4, <2>5, <2>6, <2>7 DEF Flags
<1>3. k \in 1..7 /\ P(k)
  BY <1>2
<1>4. Foremost(F) = Order[k]
  BY <1>1 DEF Foremost
<1> HIDE DEF k
<1>5. "hook_all" \in F => Order[k] = "hook_all"
  <2>1. Order[1] = "hook_all"
    BY DEF Order
  <2>2. k = 1 \/ 1 \in 1..(k - 1)
    BY <1>3
  <2> QED BY <1>3, <2>1, <2>2
<1>6. Order[k] = "profile" => "follow" \notin F
  <2>1. Order[3] = "follow"
    BY DEF Order
  <2>2. ASSUME Order[k] = "profile" PROVE k = 4
    BY <1>3, <2>2 DEF Order
  <2>3. k = 4 => 3 \in 1..(k - 1)
    BY <1>3
  <2> QED BY <1>3, <2>1, <2>2, <2>3
<1> QED BY <1>3, <1>4, <1>5, <1>6

\* The flag that a tool with flags is at, and what it asks for.
LEMMA FlagFacts ==
  ASSUME PlatformTyped, NEW c \in Clis, cli[c].flags # {}
  PROVE  /\ Flag(c) \in cli[c].flags /\ Flag(c) \in Flags
         /\ "hook_all" \in cli[c].flags => Flag(c) = "hook_all"
         /\ Flag(c) = "profile" => "follow" \notin cli[c].flags
         /\ Flag(c) \in HookFlags \/ Flag(c) \in DOMAIN EventOf
<1>1. cli[c].flags \in SUBSET Flags
  BY DEF PlatformTyped, CliRecord
<1>2. DOMAIN EventOf = {"registeruser", "follow", "profile", "caw", "read"}
  BY DEF EventOf
<1> QED BY <1>1, <1>2, ForemostFacts DEF Flag, Flags, HookFlags

\* A line that a tool was given.
LEMMA LineFacts ==
  ASSUME NEW c \in Clis, NEW n \in 1..Len(Lines[c])
  PROVE  /\ Lines[c] \in Seq(CommandLines) /\ Lines[c][n] \in CommandLines
         /\ Lines[c][n].flags \in SUBSET Flags
         /\ Lines[c][n].registeruser \in Users /\ Lines[c][n].user \in Users
         /\ Lines[c][n].follow \in Users
         /\ Lines[c][n].reply \in Ids \cup {NoCaw, BadId}
         /\ Lines[c][n].read \in Ids \cup {BadId}
<1>1. Lines[c] \in Seq(CommandLines)
  BY LinesAssumption
<1>2. Lines[c][n] \in CommandLines
  BY <1>1
<1> QED BY <1>1, <1>2, FlagsAre DEF CommandLines

\* The request of thread t begins; nobody else's changes.
Takes(t, op, e) ==
  /\ req' \in [Threads -> Requests] /\ on' = on
  /\ req[t].op = "none"
  /\ req'[t].op = op /\ req'[t].type = e /\ req'[t].ran = NoCaw /\ ~req'[t].gone
  /\ \A s \in Threads \ {t} : /\ req'[s].op = req[s].op /\ req'[s].type = req[s].type
                              /\ req'[s].ran = req[s].ran /\ req'[s].gone = req[s].gone

LEMMA TakeEffect ==
  ASSUME PlatformTyped, NEW t \in Threads, NEW op \in {"hook", "unhook", "event"},
         NEW e \in Events, Table!Take(t, op, e)
  PROVE  Takes(t, op, e)
<1> DEFINE new == [Table!NoReq EXCEPT !.op = op, !.type = e]
<1>1. ASSUME NEW r, r = new
      PROVE  r \in Requests /\ r.op = op /\ r.type = e /\ r.ran = NoCaw /\ ~r.gone
  BY <1>1 DEF Requests, RequestRecord, Statuses, Table!NoReq
<1>2. req[t].op = "none" /\ on' = on /\ req' = [req EXCEPT ![t] = new]
  BY DEF Table!Take, Table!Runs
<1> HIDE DEF new
<1>3. /\ req' \in [Threads -> Requests] /\ req'[t] = new
      /\ \A s \in Threads \ {t} : req'[s] = req[s]
  BY <1>1, <1>2 DEF PlatformTyped
<1> QED BY <1>1, <1>2, <1>3 DEF Takes

\* The request of thread s asks for the same as before, and runs the same.
SameCall(s) ==
  req'[s].op = req[s].op /\ req'[s].type = req[s].type /\ req'[s].ran = req[s].ran

\* Thread t has answered its request; others only learn that their type was unhooked.
Frees(t) ==
  /\ req' \in [Threads -> Requests]
  /\ req'[t].op = "none" /\ req'[t].ran = NoCaw /\ ~req'[t].gone
  /\ \A s \in Threads \ {t} : SameCall(s)
  /\ req[t].op # "unhook" => \A s \in Threads \ {t} : req'[s].gone = req[s].gone

LEMMA AnswerEffect ==
  ASSUME PlatformTyped, NEW t \in Threads, NEW status \in Statuses \cup {"UNKNOWN"},
         NEW reqs \in [Threads -> Requests], req' = Table!Answered(reqs, t, status),
         \A s \in Threads : /\ reqs[s].op = req[s].op /\ reqs[s].type = req[s].type
                            /\ reqs[s].ran = req[s].ran,
         req[t].op # "unhook" => \A s \in Threads : reqs[s].gone = req[s].gone
  PROVE  Frees(t) /\ req'[t].status = status
<1> DEFINE new == [Table!NoReq EXCEPT !.status = status]
<1>1. ASSUME NEW r, r = new
      PROVE  /\ r \in Requests
             /\ r.op = "none" /\ r.ran = NoCaw /\ ~r.gone /\ r.status = status
  BY <1>1 DEF Requests, RequestRecord, Table!NoReq
<1>2. req' = [reqs EXCEPT ![t] = new]
  BY DEF Table!Answered
<1> HIDE DEF new
<1>3. /\ req' \in [Threads -> Requests] /\ req'[t] = new
      /\ \A s \in Threads \ {t} : req'[s] = reqs[s]
  BY <1>1, <1>2
<1> QED BY <1>1, <1>3 DEF Frees, SameCall

\* What happens to the others when a type is hooked or unhooked.
LEMMA MarkEffect ==
  ASSUME PlatformTyped, NEW s \in Threads, NEW e \in Ops, NEW r,
         \/ r = [req[s] EXCEPT !.may = @ \cup {e}] /\ req[s].gone
         \/ r = [req[s] EXCEPT !.gone = TRUE]
         \/ r = req[s]
  PROVE  /\ r \in Requests
         /\ r.op = req[s].op /\ r.type = req[s].type /\ r.ran = req[s].ran
<1>1. req[s] \in RequestRecord /\ req[s] \in Requests
  BY DEF PlatformTyped, Requests
<1> PICK may \in SUBSET Ops : may = req[s].may \cup {e}
  BY <1>1 DEF RequestRecord
<1>2. CASE r = [req[s] EXCEPT !.may = @ \cup {e}] /\ req[s].gone
  <2>1. r = [req[s] EXCEPT !.may = may]
    BY <1>2
  <2>2. /\ r \in RequestRecord
        /\ r.op = req[s].op /\ r.type = req[s].type
        /\ r.ran = req[s].ran /\ r.gone = req[s].gone
    BY <1>1, <2>1 DEF RequestRecord
  <2> QED BY <1>2, <2>2 DEF Requests
<1>3. CASE r = [req[s] EXCEPT !.gone = TRUE]
  <2>1. /\ r \in RequestRecord /\ r.gone
        /\ r.op = req[s].op /\ r.type = req[s].type /\ r.ran = req[s].ran
    BY <1>1, <1>3 DEF RequestRecord
  <2> QED BY <1>3, <2>1 DEF Requests
<1>4. CASE r = req[s]
  BY <1>1, <1>4
<1> QED BY <1>2, <1>3, <1>4

LEMMA HookEffect ==
  ASSUME PlatformTyped, NEW t \in Threads, req[t].type \in Ops, Table!Hook(t)
  PROVE  Frees(t) /\ on' = on \cup {req[t].type} /\ req[t].op = "hook"
<1> PICK e \in Ops : e = req[t].type
  OBVIOUS
<1> DEFINE reqs == [s \in Threads |-> IF Table!Looks(s) /\ req[s].gone
                                      THEN [req[s] EXCEPT !.may = @ \cup {e}] ELSE req[s]]
<1>1. req[t].op = "hook" /\ on' = on \cup {e} /\ req' = Table!Answered(reqs, t, "OK")
  BY DEF Table!Hook, Table!Runs
<1>2. ASSUME NEW s \in Threads
      PROVE  /\ reqs[s] \in Requests
             /\ reqs[s].op = req[s].op /\ reqs[s].type = req[s].type
             /\ reqs[s].ran = req[s].ran /\ reqs[s].gone = req[s].gone
  <2>1. CASE Table!Looks(s) /\ req[s].gone
    <3> PICK r : r = [req[s] EXCEPT !.may = @ \cup {e}]
      OBVIOUS
    <3>1. reqs[s] = r
      BY <2>1
    <3>2. r.gone = req[s].gone
      <4>1. req[s] \in RequestRecord
        BY DEF PlatformTyped, Requests
      <4> QED BY <4>1 DEF RequestRecord
    <3>3. /\ r \in Requests
          /\ r.op = req[s].op /\ r.type = req[s].type /\ r.ran = req[s].ran
      BY <2>1, MarkEffect
    <3> QED BY <3>1, <3>2, <3>3
  <2>2. CASE ~(Table!Looks(s) /\ req[s].gone)
    BY <2>2 DEF PlatformTyped
  <2> QED BY <2>1, <2>2
<1>3. reqs \in [Threads -> Requests]
  BY <1>2
<1> HIDE DEF reqs
<1> QED BY <1>1, <1>2, <1>3, AnswerEffect DEF Statuses

LEMMA UnhookEffect ==
  ASSUME PlatformTyped, NEW t \in Threads, req[t].type \in Ops, Table!Unhook(t)
  PROVE  Frees(t) /\ on' = on \ {req[t].type} /\ req[t].op = "unhook"
<1> PICK e \in Ops : e = req[t].type
  OBVIOUS
<1> DEFINE reqs == [s \in Threads |-> IF Table!Looks(s) /\ req[s].type = e
                                      THEN [req[s] EXCEPT !.gone = TRUE] ELSE req[s]]
<1>1. req[t].op = "unhook" /\ on' = on \ {e} /\ req' = Table!Answered(reqs, t, "OK")
  BY DEF Table!Unhook, Table!Runs
<1>2. ASSUME NEW s \in Threads
      PROVE  /\ reqs[s] \in Requests
             /\ reqs[s].op = req[s].op /\ reqs[s].type = req[s].type
             /\ reqs[s].ran = req[s].ran
  <2> PICK r : r = reqs[s]
    OBVIOUS
  <2>1. r = [req[s] EXCEPT !.gone = TRUE] \/ r = req[s]
    OBVIOUS
  <2> QED BY <2>1, MarkEffect
<1>3. reqs \in [Threads -> Requests]
  BY <1>2
<1> HIDE DEF reqs
<1> QED BY <1>1, <1>2, <1>3, AnswerEffect DEF Statuses

LEMMA RunEffect ==
  ASSUME PlatformTyped, NEW t \in Threads, NEW f \in Ops, Table!Run(t, f)
  PROVE  /\ req' \in [Threads -> Requests] /\ on' = on
         /\ req[t].op = "event" /\ req[t].ran = NoCaw
         /\ req'[t].op = "event" /\ req'[t].type = req[t].type /\ req'[t].ran = f
         /\ req'[t].gone = req[t].gone
         /\ \A s \in Threads \ {t} : req'[s] = req[s]
<1>2. /\ req[t].op = "event" /\ req[t].ran = NoCaw /\ on' = on
      /\ f = req[t].type \/ f \in req[t].may
      /\ req' = [req EXCEPT ![t].ran = f]
  BY DEF Table!Run, Table!Looks, Table!Runs
<1>1. ASSUME NEW r, r = [req[t] EXCEPT !.ran = f]
      PROVE  /\ r \in Requests /\ r.op = req[t].op /\ r.type = req[t].type
             /\ r.ran = f /\ r.gone = req[t].gone
  <2>1. req[t] \in RequestRecord /\ (~req[t].gone => req[t].may = {})
    BY DEF PlatformTyped, Requests
  <2>2. /\ r \in RequestRecord /\ r.op = req[t].op /\ r.type = req[t].type
        /\ r.ran = f /\ r.gone = req[t].gone /\ r.may = req[t].may
    BY <1>1, <2>1 DEF RequestRecord
  <2> QED BY <1>2, <2>1, <2>2 DEF Requests
<1>3. req' = [req EXCEPT ![t] = [req[t] EXCEPT !.ran = f]]
  BY <1>2
<1>4. req'[t] = [req[t] EXCEPT !.ran = f] /\ \A s \in Threads \ {t} : req'[s] = req[s]
  BY <1>3 DEF PlatformTyped
<1>5. req' \in [Threads -> Requests]
  BY <1>1, <1>3 DEF PlatformTyped
<1> QED BY <1>1, <1>2, <1>4, <1>5

\* A free thread.
LEMMA TakerFree == \A t \in Taker : t \in Threads /\ req[t].op = "none"
<1> DEFINE free == {t \in Threads : req[t].op = "none" /\ Done(t)}
<1>1. free # {} => (CHOOSE t \in free : TRUE) \in free
  OBVIOUS
<1> QED BY <1>1 DEF Taker

-----------------------------------------------------------------------------
(* The handlers in the platform.                                           *)

\* A thread that has answered is no longer doing anything.
Forgets(t) ==
  /\ Done(t) /\ call' = [call EXCEPT ![t] = NoCall]
  /\ UNCHANGED <<mem, dur, issued, known, mishaps, calls>>

\* The calls go on, keeping what they were begun with.
CallsGoOn ==
  \A s \in Threads : /\ call'[s].op = call[s].op /\ call'[s].a = call[s].a
                     /\ call'[s].b = call[s].b /\ call'[s].must = call[s].must

LEMMA StepGoesOn ==
  ASSUME Typed, NEW t \in Threads, Step(t)
  PROVE  CallsGoOn
<1>3. CASE PutOutlivesCall(t)
  BY <1>3, OutlivesEffect DEF Outlives, Moves, Goes, CallsGoOn
<1>1. CASE UserStep(t)
  BY <1>1, UserStepEffect DEF UserMove, Goes, CallsGoOn
<1>2. CASE CawStep(t)
  BY <1>2, CawStepEffect DEF Goes, CallsGoOn
<1> QED BY <1>1, <1>2, <1>3 DEF Step, UserStep, CawStep

LEMMA DiesGoesOn ==
  ASSUME Typed, FazDies
  PROVE  [Next]_vars /\ CallsGoOn /\ UNCHANGED <<mem, dur, issued, known, calls>>
<1>1. CASE FazCrash
  BY <1>1, FazCrashEffect DEF Next, CallsGoOn
<1>2. CASE ~FazCrash
  <2>1. \A t \in Threads : ~Live(t)
    BY <1>2 DEF FazCrash
  <2>2. call' = [t \in Threads |-> call[t]] /\ mishaps' = mishaps
    BY <2>1 DEF FazDies
  <2>3. call' = call
    BY <2>2 DEF Typed
  <2> QED BY <2>2, <2>3 DEF FazDies, vars, CallsGoOn
<1> QED BY <1>1, <1>2

\* Thread t begins to handle event f with the arguments.
Handles(t, f, args) ==
  /\ call' \in [Threads -> CallRecord]
  /\ \A s \in Threads \ {t} : call'[s] = call[s]
  /\ call'[t].op = f /\ call'[t].a = args[1]
  /\ call'[t].b = IF f \in {"Follow", "Caw"} THEN args[2] ELSE NoCaw
  /\ f = "Profile" => call'[t].must[1] = Range(dur[FollowingsKey(args[1])])
  /\ UNCHANGED <<mem, dur, issued, known>>

LEMMA HandleEffect ==
  ASSUME Typed, NEW t \in Threads, NEW f \in Ops, NEW args, Suits(f, args),
         Handle(t, f, args)
  PROVE  Event(t) /\ Handles(t, f, args)
<1> DEFINE Musts == (SUBSET Ids) \cup ((SUBSET Users) \X (SUBSET Users))
<1>0. /\ f \in {"RegisterUser", "Follow", "Profile", "Caw", "Read"}
      /\ {} \in Musts /\ (\A u \in Users : u \in Args)
      /\ (\A p \in known \cup {NoCaw, BadId} : p \in Args)
  BY OpsAssumption DEF Events, Args, Typed
<1>1. CASE f = "RegisterUser"
  <2>1. RegisterUser(t, args[1]) /\ args[1] \in Users
    BY <1>1 DEF Handle, Suits
  <2>2. /\ Begins(t, "RegisterUser", args[1], NoCaw, "register_check", {})
        /\ UNCHANGED <<mem, dur, issued, known>>
    <3>1. Begin(t, "RegisterUser", args[1], NoCaw, "register_check", {})
      BY <2>1 DEF RegisterUser
    <3>2. {} \in Musts /\ args[1] \in Args /\ NoCaw \in Args
      BY <1>0, <2>1
    <3>3. "register_check" \in PCs
      BY DEF PCs
    <3> QED BY <3>1, <3>2, <3>3, BeginEffect
  <2> QED BY <1>1, <2>1, <2>2 DEF Begins, Handles, Event
<1>2. CASE f = "Follow"
  <2>1. Follow(t, args[1], args[2]) /\ args[1] \in Users /\ args[2] \in Users
    BY <1>2 DEF Handle, Suits
  <2>2. /\ Begins(t, "Follow", args[1], args[2], "follow_user", {})
        /\ UNCHANGED <<mem, dur, issued, known>>
    <3>1. Begin(t, "Follow", args[1], args[2], "follow_user", {})
      BY <2>1 DEF Follow
    <3>2. {} \in Musts /\ args[1] \in Args /\ args[2] \in Args
      BY <1>0, <2>1
    <3>3. "follow_user" \in PCs
      BY DEF PCs
    <3> QED BY <3>1, <3>2, <3>3, BeginEffect
  <2> QED BY <1>2, <2>1, <2>2 DEF Begins, Handles, Event
<1>3. CASE f = "Profile"
  <2> DEFINE must == <<Range(dur[FollowingsKey(args[1])]), Range(dur[FollowersKey(args[1])])>>
  <2>1. Profile(t, args[1]) /\ args[1] \in Users
    BY <1>3 DEF Handle, Suits
  <2>2. must \in (SUBSET Users) \X (SUBSET Users)
    BY <2>1, RangeFacts DEF Typed, StoreOK
  <2>3. /\ Begins(t, "Profile", args[1], NoCaw, "profile_user", must)
        /\ UNCHANGED <<mem, dur, issued, known>>
    <3>1. Begin(t, "Profile", args[1], NoCaw, "profile_user", must)
      BY <2>1 DEF Profile
    <3>2. must \in Musts /\ args[1] \in Args /\ NoCaw \in Args
      BY <1>0, <2>1, <2>2
    <3>3. "profile_user" \in PCs
      BY DEF PCs
    <3> HIDE DEF must
    <3> QED BY <3>1, <3>2, <3>3, BeginEffect
  <2>4. must[1] = Range(dur[FollowingsKey(args[1])])
    OBVIOUS
  <2> HIDE DEF must
  <2> QED BY <1>3, <2>1, <2>3, <2>4 DEF Begins, Handles, Event
<1>4. CASE f = "Caw"
  <2>1. /\ Caw(t, args[1], args[2])
        /\ args[1] \in Users /\ args[2] \in known \cup {NoCaw, BadId}
    BY <1>4 DEF Handle, Suits
  <2>2. /\ Begins(t, "Caw", args[1], args[2], "caw_user", {})
        /\ UNCHANGED <<mem, dur, issued, known>>
    <3>1. Begin(t, "Caw", args[1], args[2], "caw_user", {})
      BY <2>1 DEF Caw
    <3>2. {} \in Musts /\ args[1] \in Args /\ args[2] \in Args
      BY <1>0, <2>1
    <3>3. "caw_user" \in PCs
      BY DEF PCs
    <3> QED BY <3>1, <3>2, <3>3, BeginEffect
  <2> QED BY <1>4, <2>1, <2>2 DEF Begins, Handles, Event
<1>5. CASE f = "Read"
  <2>1. Read(t, args[1]) /\ args[1] \in known \cup {BadId}
    BY <1>5 DEF Handle, Suits
  <2>2. CawsBelow(dur, args[1]) \in SUBSET Ids
    BY DEF CawsBelow
  <2>3. /\ Begins(t, "Read", args[1], NoCaw, "read_check", CawsBelow(dur, args[1]))
        /\ UNCHANGED <<mem, dur, issued, known>>
    <3>1. Begin(t, "Read", args[1], NoCaw, "read_check", CawsBelow(dur, args[1]))
      BY <2>1 DEF Read
    <3>2. CawsBelow(dur, args[1]) \in Musts /\ args[1] \in Args /\ NoCaw \in Args
      BY <1>0, <2>1, <2>2
    <3>3. "read_check" \in PCs
      BY DEF PCs
    <3> QED BY <3>1, <3>2, <3>3, BeginEffect
  <2> QED BY <1>5, <2>1, <2>3 DEF Begins, Handles, Event
<1> QED BY <1>0, <1>1, <1>2, <1>3, <1>4, <1>5

\* A request that cannot be unpacked is still one of its event.
LEMMA EmptySuits == \A f \in Ops : Suits(f, Empty(f))
<1> SUFFICES ASSUME NEW f \in Ops PROVE Suits(f, Empty(f))
  OBVIOUS
<1>1. f \in {"RegisterUser", "Follow", "Profile", "Caw", "Read"}
  BY OpsAssumption DEF Events
<1> QED BY <1>1, NobodyAssumption DEF Empty, Suits

\* What is said of the handlers alone.
HandlersOK == Typed /\ CawsStored /\ AllKept /\ AllKnown

LEMMA ForgetsTyped ==
  ASSUME Typed, NEW t \in Threads, Forgets(t)
  PROVE  /\ Typed'
         /\ \A s \in Threads \ {t} : call'[s] = call[s]
         /\ call'[t].op = "none" /\ call'[t].pc = "done" /\ call'[t].status = "NONE"
<1>1. /\ NoCall \in CallRecord /\ CallOK(NoCall)
      /\ NoCall.op = "none" /\ NoCall.pc = "done" /\ NoCall.status = "NONE"
  BY DEF NoCall, CallRecord, CallOK, Args, PCs, Statuses
<1>2. /\ call' \in [Threads -> CallRecord] /\ call'[t] = NoCall
      /\ \A s \in Threads \ {t} : call'[s] = call[s]
  BY <1>1 DEF Forgets, Typed
<1>3. \A s \in Threads : CallOK(call'[s])
  BY <1>1, <1>2 DEF Typed
<1> QED BY <1>1, <1>2, <1>3 DEF Forgets, Typed, Ahead, StoreOK

LEMMA ForgetsOK ==
  ASSUME HandlersOK, NEW t \in Threads, Forgets(t)
  PROVE  HandlersOK' /\ (AllWhole => AllWhole')
<1>1. /\ Typed' /\ \A s \in Threads \ {t} : call'[s] = call[s]
      /\ call'[t].op = "none" /\ call'[t].pc = "done" /\ call'[t].status = "NONE"
      /\ UNCHANGED <<mem, dur, issued, known, mishaps, calls>>
  BY ForgetsTyped DEF HandlersOK, Forgets
<1>2. CawsStored'
  <2>1. ASSUME NEW s \in Threads PROVE CallStored(s)'
    BY <1>1 DEF HandlersOK, CawsStored, CallStored, Stored, StoredUnder
  <2> QED BY <1>1, <2>1 DEF HandlersOK, CawsStored, Stored, NoDanglingReply
<1>3. AllKept'
  <2>1. ASSUME NEW s \in Threads PROVE Kept(s)'
    BY <1>1 DEF HandlersOK, AllKept, Kept, Stored
  <2> QED BY <2>1 DEF AllKept
<1>4. AllKnown'
  <2>1. ASSUME NEW s \in Threads PROVE KnownCall(s)'
    BY <1>1 DEF HandlersOK, AllKnown, KnownCall, Known
  <2> QED BY <1>1, <2>1 DEF HandlersOK, AllKnown, KnownKept, KnownListed, Known
<1>5. ASSUME AllWhole PROVE AllWhole'
  <2>1. ASSUME NEW s \in Threads PROVE Whole(s)'
    BY <1>1, <1>5 DEF AllWhole, Whole
  <2> QED BY <2>1 DEF AllWhole
<1> QED BY <1>1, <1>2, <1>3, <1>4, <1>5 DEF HandlersOK

\* The ids that were seen stay so.
LEMMA KnownGrows ==
  ASSUME Typed, [Next]_vars
  PROVE  known \subseteq known'
<1>1. ASSUME NEW t \in Threads, Event(t) PROVE known \subseteq known'
  BY <1>1, EventEffect
<1>2. ASSUME NEW t \in Threads, UserStep(t) PROVE known \subseteq known'
  BY <1>2, UserStepEffect DEF UserMove
<1>3. ASSUME NEW t \in Threads, CawStep(t) PROVE known \subseteq known'
  BY <1>3 DEF CawStep, CawCheckUser, CawCheckParent, CawPut, CawPutReply, ReadCheck, ReadCaw,
              ReadReplies, Check
<1>4. CASE KvRestart \/ FazCrash \/ UNCHANGED vars
  BY <1>4 DEF KvRestart, FazCrash, FazDies, vars
<1>5. ASSUME NEW t \in Threads, PutOutlivesCall(t) PROVE known \subseteq known'
  BY <1>5 DEF PutOutlivesCall
<1> QED BY <1>1, <1>2, <1>3, <1>4, <1>5 DEF Next, Step, UserStep, CawStep

\* Whatever happens in the platform, the handlers make a step of their own or none, or
\* one of them is forgotten.
LEMMA HandlersGoOn ==
  ASSUME HandlersOK, [Next]_vars \/ \E t \in Threads : Forgets(t)
  PROVE  /\ HandlersOK' /\ Grows /\ known \subseteq known'
         /\ "cut" \notin Faults => (AllWhole => AllWhole')
<1>1. CASE [Next]_vars
  BY <1>1, NextTyped, NextStored, NextKept, NextKnown, NextGrows, NextWhole, KnownGrows
     DEF HandlersOK
<1>2. ASSUME NEW t \in Threads, Forgets(t)
      PROVE  /\ HandlersOK' /\ Grows /\ known \subseteq known'
             /\ "cut" \notin Faults => (AllWhole => AllWhole')
  <2>1. \A k \in StoreKeys : Len(dur[k]) \in Nat
    BY DEF HandlersOK, Typed, StoreOK
  <2>2. dur' = dur /\ known' = known
    BY <1>2 DEF Forgets
  <2> QED BY <1>2, <2>1, <2>2, ForgetsOK DEF Grows
<1> QED BY <1>1, <1>2

-----------------------------------------------------------------------------
(* What the steps of the tools do.                                         *)

\* Tool c goes on as before; only that it is no longer spared may happen to it.
SameTool(c) ==
  /\ cli'[c].line = cli[c].line /\ cli'[c].flags = cli[c].flags
  /\ cli'[c].todo = cli[c].todo /\ cli'[c].thread = cli[c].thread
  /\ cli'[c].success = cli[c].success /\ cli'[c].reported = cli[c].reported
  /\ cli'[c].good = cli[c].good /\ cli'[c].shown = cli[c].shown
  /\ cli'[c].spared => cli[c].spared

OthersSame(c) == \A d \in Clis \ {c} : cli'[d] = cli[d]

\* An answer is that of the tool's own function if this was not unhooked.
IsReply(reply) ==
  /\ reply.ok \in BOOLEAN /\ reply.own \in BOOLEAN /\ reply.kept \in BOOLEAN
  /\ reply.kept => reply.own

\* Whatever tool c reports is good.
Honest(c) == cli[c].reported \subseteq cli[c].good

\* Where the answer leaves tool c, with todo left to be called.
Tells(c, todo, reply, r) ==
  /\ r.line = cli[c].line
  /\ r.thread = NoCaw
  /\ r.spared => cli[c].spared
  /\ (reply.ok => reply.kept) /\ Honest(c) => r.reported \subseteq r.good
  /\ Over(c, todo, reply) =>
       /\ r.flags = cli[c].flags \ {Flag(c)}
       /\ r.todo = Ops
       /\ r.good = IF cli[c].success /\ reply.ok /\ reply.kept
                   THEN cli[c].good \cup {Flag(c)} ELSE cli[c].good
       /\ IF Flag(c) = "profile"
          THEN cli[c].success /\ reply.ok /\ reply.kept => r.shown = reply.out
          ELSE r.shown = cli[c].shown
  /\ ~Over(c, todo, reply) =>
       /\ r.flags = cli[c].flags /\ r.todo = todo
       /\ r.success => cli[c].success /\ reply.ok
       /\ r.good = cli[c].good /\ r.shown = cli[c].shown

\* Tool c has the answer that it waited for.
WasTold(c, reply) == Tells(c, cli[c].todo, reply, cli'[c])

LEMMA ToldEffect ==
  ASSUME PlatformTyped, NEW c \in Clis, cli[c].flags # {}, NEW todo \in SUBSET Ops,
         NEW reply, IsReply(reply),
         Flag(c) = "profile" /\ reply.ok /\ reply.own => reply.out \in Seq(Seq(Users)),
         NEW r, r = Told(c, todo, reply)
  PROVE  r \in CliRecord /\ r.thread = NoCaw /\ Tells(c, todo, reply, r)
<1> PICK f \in Flags : f = Flag(c)
  BY FlagFacts
<1> PICK counts \in BOOLEAN : counts = Succeeds(c, LooksOK(c, reply))
  BY DEF Succeeds
<1> DEFINE reported == cli[c].reported \cup {g \in {f} : counts}
           good == cli[c].good \cup {g \in {f} : counts /\ reply.kept}
           shown == IF f = "profile" /\ counts
                    THEN IF reply.own THEN reply.out ELSE <<<<>>, <<>>>>
                    ELSE cli[c].shown
<1>1. cli[c] \in CliRecord
  BY DEF PlatformTyped
<1>2. /\ counts => cli[c].success /\ reply.ok
      /\ cli[c].success /\ reply.ok /\ reply.own => counts
  BY DEF Succeeds, LooksOK
<1>3. reply.kept => reply.own
  BY DEF IsReply
<1>4. /\ reported \in SUBSET Flags /\ good \in SUBSET Flags
      /\ good = IF cli[c].success /\ reply.ok /\ reply.kept THEN cli[c].good \cup {f}
                ELSE cli[c].good
      /\ (reply.ok => reply.kept) /\ Honest(c) => reported \subseteq good
  BY <1>1, <1>2, <1>3 DEF CliRecord, Honest
<1>5. /\ shown \in Seq(Seq(Users))
      /\ f = "profile" /\ cli[c].success /\ reply.ok /\ reply.kept => shown = reply.out
      /\ f # "profile" => shown = cli[c].shown
  <2>1. <<<<>>, <<>>>> \in Seq(Seq(Users)) /\ cli[c].shown \in Seq(Seq(Users))
    BY <1>1 DEF CliRecord
  <2> QED BY <1>2, <1>3, <2>1
<1>6. CASE Over(c, todo, reply)
  <2>1. r = [cli[c] EXCEPT !.flags = @ \ {f}, !.todo = Ops, !.thread = NoCaw,
                           !.success = TRUE, !.reported = reported, !.good = good,
                           !.shown = shown]
    BY <1>6 DEF Told, Funcs
  <2> HIDE DEF reported, good, shown
  <2> PICK flags \in SUBSET Flags : flags = cli[c].flags \ {f}
    BY <1>1 DEF CliRecord
  <2>2. r = [cli[c] EXCEPT !.flags = flags, !.todo = Ops, !.thread = NoCaw,
                           !.success = TRUE, !.reported = reported, !.good = good,
                           !.shown = shown]
    BY <2>1
  <2>3. r \in CliRecord
    <3>1. r = [line |-> cli[c].line, dialing |-> cli[c].dialing, flags |-> flags,
               todo |-> Ops, thread |-> NoCaw, success |-> TRUE, reported |-> reported,
               good |-> good, shown |-> shown, spared |-> cli[c].spared]
      BY <1>1, <2>2 DEF CliRecord
    <3>2. cli[c].line \in Nat /\ cli[c].dialing \in BOOLEAN /\ cli[c].spared \in BOOLEAN
      BY <1>1 DEF CliRecord
    <3> QED BY <1>4, <1>5, <3>1, <3>2 DEF CliRecord
  <2>4. /\ r.line = cli[c].line /\ r.thread = NoCaw /\ r.spared = cli[c].spared
        /\ r.flags = flags /\ r.todo = Ops /\ r.reported = reported
        /\ r.good = good /\ r.shown = shown
    BY <1>1, <2>2 DEF CliRecord
  <2> QED BY <1>4, <1>5, <1>6, <2>3, <2>4 DEF Tells
<1>7. CASE ~Over(c, todo, reply)
  <2> PICK success \in BOOLEAN : success = Succeeds(c, reply.ok)
    BY DEF Succeeds
  <2>1. r = [cli[c] EXCEPT !.todo = todo, !.thread = NoCaw, !.success = success]
    BY <1>7 DEF Told
  <2> HIDE DEF reported, good, shown
  <2>2. /\ r \in CliRecord
        /\ r.line = cli[c].line /\ r.thread = NoCaw /\ r.spared = cli[c].spared
        /\ r.flags = cli[c].flags /\ r.todo = todo /\ r.success = success
        /\ r.reported = cli[c].reported
        /\ r.good = cli[c].good /\ r.shown = cli[c].shown
    BY <1>1, <2>1 DEF CliRecord
  <2>3. success => cli[c].success /\ reply.ok
    BY DEF Succeeds
  <2> QED BY <1>7, <2>2, <2>3 DEF Tells, Honest
<1> QED BY <1>6, <1>7

\* The answer of a call that fails.
LEMMA LostReply == IsReply(Lost) /\ ~Lost.ok
BY DEF IsReply, Lost

LEMMA GiveEffect ==
  ASSUME PlatformTyped, NEW c \in Clis, Give(c)
  PROVE  /\ cli' \in [Clis -> CliRecord] /\ OthersSame(c)
         /\ cli[c].flags = {}
         /\ cli'[c].line \in 1..Len(Lines[c])
         /\ cli'[c].flags = Lines[c][cli'[c].line].flags
         /\ {Lines[c][cli'[c].line].reply, Lines[c][cli'[c].line].read}
              \subseteq known \cup {NoCaw, BadId}
         /\ cli'[c].todo = Ops /\ cli'[c].thread = NoCaw
         /\ cli'[c].reported = {} /\ cli'[c].good = {}
<1>d. (c \in GoTools) \in BOOLEAN
  OBVIOUS
<1> PICK dialing : dialing = (c \in GoTools)
  OBVIOUS
<1> DEFINE n == cli[c].line + 1
           new == [line |-> n, dialing |-> dialing, flags |-> Lines[c][n].flags,
                   todo |-> Funcs, thread |-> NoCaw, success |-> TRUE, reported |-> {},
                   good |-> {}, shown |-> <<>>, spared |-> TRUE]
<1>1. cli[c].line \in Nat /\ cli[c].line < Len(Lines[c]) /\ Len(Lines[c]) \in Nat
  BY LinesAssumption DEF Give, PlatformTyped, CliRecord
<1>2. n \in 1..Len(Lines[c])
  BY <1>1
<1>3. Lines[c][n].flags \in SUBSET Flags
  BY <1>2, LineFacts
<1>4. /\ new \in CliRecord /\ new.line = n /\ new.flags = Lines[c][n].flags
      /\ new.todo = Ops /\ new.thread = NoCaw /\ new.reported = {} /\ new.good = {}
  BY <1>d, <1>2, <1>3 DEF CliRecord, Funcs
<1>5. /\ cli' = [cli EXCEPT ![c] = new] /\ cli[c].flags = {}
      /\ {Lines[c][n].reply, Lines[c][n].read} \subseteq known \cup {NoCaw, BadId}
  BY DEF Give, Idle
<1> HIDE DEF new
<1>6. /\ cli' \in [Clis -> CliRecord] /\ cli'[c] = new
      /\ \A d \in Clis \ {c} : cli'[d] = cli[d]
  BY <1>4, <1>5 DEF PlatformTyped
<1> QED BY <1>2, <1>4, <1>5, <1>6 DEF OthersSame

\* The connection changes nothing that the tool does.
LEMMA DialEffect ==
  ASSUME PlatformTyped, NEW c \in Clis, Dial(c)
  PROVE  /\ cli' \in [Clis -> CliRecord]
         /\ \A d \in Clis : SameTool(d)
<1> DEFINE new == [cli[c] EXCEPT !.dialing = FALSE]
<1>1. ASSUME NEW r, r = new
      PROVE  /\ r \in CliRecord /\ r.flags = cli[c].flags
             /\ r.line = cli[c].line /\ r.todo = cli[c].todo
             /\ r.thread = cli[c].thread /\ r.spared = cli[c].spared
             /\ r.success = cli[c].success /\ r.reported = cli[c].reported
             /\ r.good = cli[c].good /\ r.shown = cli[c].shown
  BY <1>1 DEF PlatformTyped, CliRecord
<1>2. cli' = [cli EXCEPT ![c] = new]
  BY DEF Dial
<1> HIDE DEF new
<1>3. /\ cli' \in [Clis -> CliRecord] /\ cli'[c] = new
      /\ \A d \in Clis \ {c} : cli'[d] = cli[d]
  BY <1>1, <1>2 DEF PlatformTyped
<1> QED BY <1>1, <1>3 DEF SameTool

LEMMA RefuseEffect ==
  ASSUME PlatformTyped, NEW c \in Clis, Refuse(c)
  PROVE  /\ cli' \in [Clis -> CliRecord] /\ OthersSame(c)
         /\ cli[c].flags # {}
         /\ Flag(c) \in LoginFlags /\ Line(c).user = Nobody
         /\ cli'[c].flags = cli[c].flags \ {Flag(c)}
         /\ cli'[c].line = cli[c].line /\ cli'[c].todo = cli[c].todo
         /\ cli'[c].thread = cli[c].thread /\ cli'[c].spared = cli[c].spared
         /\ cli'[c].success = cli[c].success /\ cli'[c].reported = cli[c].reported
         /\ cli'[c].good = cli[c].good /\ cli'[c].shown = cli[c].shown
<1> DEFINE new == [cli[c] EXCEPT !.flags = @ \ {Flag(c)}]
<1>1. ASSUME NEW r, r = new
      PROVE  /\ r \in CliRecord /\ r.flags = cli[c].flags \ {Flag(c)}
             /\ r.line = cli[c].line /\ r.todo = cli[c].todo
             /\ r.thread = cli[c].thread /\ r.spared = cli[c].spared
             /\ r.success = cli[c].success /\ r.reported = cli[c].reported
             /\ r.good = cli[c].good /\ r.shown = cli[c].shown
  BY <1>1 DEF PlatformTyped, CliRecord
<1>2. cli' = [cli EXCEPT ![c] = new]
  BY DEF Refuse
<1>3. cli[c].flags # {} /\ Flag(c) \in LoginFlags /\ Line(c).user = Nobody
  BY DEF Refuse, Ready, LoggedIn
<1> HIDE DEF new
<1>4. /\ cli' \in [Clis -> CliRecord] /\ cli'[c] = new
      /\ \A d \in Clis \ {c} : cli'[d] = cli[d]
  BY <1>1, <1>2 DEF PlatformTyped
<1> QED BY <1>1, <1>3, <1>4 DEF OthersSame

\* What CallHook does with function e and thread t.
HookCalled(c, e, t) ==
  /\ cli' \in [Clis -> CliRecord]
  /\ cli[c].flags # {} /\ ~Waits(c) /\ Flag(c) \in HookFlags
  /\ e \in Ops
  /\ Takes(t, IF Flag(c) = "hook_all" THEN "hook" ELSE "unhook", e)
  /\ payload' = payload
  /\ \A d \in Clis \ {c} : SameTool(d)
  /\ \A d \in Clis : cli'[d].spared => cli[d].spared /\ Flag(c) = "hook_all"
  /\ cli'[c].line = cli[c].line /\ cli'[c].flags = cli[c].flags
  /\ cli'[c].todo = cli[c].todo \ {e} /\ cli'[c].thread = t
  /\ cli'[c].success = cli[c].success /\ cli'[c].reported = cli[c].reported
  /\ cli'[c].good = cli[c].good /\ cli'[c].shown = cli[c].shown

LEMMA CallHookEffect ==
  ASSUME PlatformTyped, NEW c \in Clis, CallHook(c)
  PROVE  \E e \in Ops, t \in Threads : HookCalled(c, e, t)
<1>0. /\ cli[c].flags # {} /\ ~Waits(c) /\ Flag(c) \in HookFlags
      /\ payload' = payload
  BY DEF CallHook, Ready, HookFlags
<1>1. PICK e \in cli[c].todo, t \in Taker :
        /\ Table!Take(t, IF Flag(c) = "hook_all" THEN "hook" ELSE "unhook", e)
        /\ cli' = [d \in Clis |->
             IF d = c THEN [cli[d] EXCEPT !.todo = @ \ {e}, !.thread = t,
                                          !.spared = @ /\ Flag(c) = "hook_all"]
             ELSE [cli[d] EXCEPT !.spared = @ /\ Flag(c) = "hook_all"]]
  BY DEF CallHook
<1>2. e \in Ops /\ t \in Threads
  BY TakerFree DEF PlatformTyped, CliRecord
<1>3. Takes(t, IF Flag(c) = "hook_all" THEN "hook" ELSE "unhook", e)
  <2> PICK op \in {"hook", "unhook", "event"} :
             op = IF Flag(c) = "hook_all" THEN "hook" ELSE "unhook"
    OBVIOUS
  <2> QED BY <1>1, <1>2, OpsAssumption, TakeEffect
<1> DEFINE new == [cli[c] EXCEPT !.todo = @ \ {e}, !.thread = t,
                                 !.spared = @ /\ Flag(c) = "hook_all"]
           old(d) == [cli[d] EXCEPT !.spared = @ /\ Flag(c) = "hook_all"]
<1>4. ASSUME NEW r, r = new
      PROVE  /\ r \in CliRecord /\ (r.spared => cli[c].spared /\ Flag(c) = "hook_all")
             /\ r.line = cli[c].line /\ r.flags = cli[c].flags
             /\ r.todo = cli[c].todo \ {e} /\ r.thread = t
             /\ r.success = cli[c].success /\ r.reported = cli[c].reported
             /\ r.good = cli[c].good /\ r.shown = cli[c].shown
  <2>1. cli[c] \in CliRecord
    BY DEF PlatformTyped
  <2> PICK b \in BOOLEAN : b = (cli[c].spared /\ Flag(c) = "hook_all")
    OBVIOUS
  <2>2. r = [cli[c] EXCEPT !.todo = @ \ {e}, !.thread = t, !.spared = b]
    BY <1>4
  <2> QED BY <1>2, <2>1, <2>2 DEF CliRecord
<1>5. ASSUME NEW d \in Clis, NEW r, r = old(d)
      PROVE  /\ r \in CliRecord /\ (r.spared => cli[d].spared /\ Flag(c) = "hook_all")
             /\ r.line = cli[d].line /\ r.flags = cli[d].flags
             /\ r.todo = cli[d].todo /\ r.thread = cli[d].thread
             /\ r.success = cli[d].success /\ r.reported = cli[d].reported
             /\ r.good = cli[d].good /\ r.shown = cli[d].shown
  <2>1. cli[d] \in CliRecord
    BY DEF PlatformTyped
  <2> PICK b \in BOOLEAN : b = (cli[d].spared /\ Flag(c) = "hook_all")
    OBVIOUS
  <2>2. r = [cli[d] EXCEPT !.spared = b]
    BY <1>5
  <2> QED BY <2>1, <2>2 DEF CliRecord
<1>6. cli' = [d \in Clis |-> IF d = c THEN new ELSE old(d)]
  BY <1>1
<1> HIDE DEF new, old
<1>7. cli'[c] = new /\ \A d \in Clis \ {c} : cli'[d] = old(d)
  BY <1>6
<1>8. cli' \in [Clis -> CliRecord]
  BY <1>4, <1>5, <1>6
<1>9. \A d \in Clis \ {c} : SameTool(d) /\ (cli'[d].spared => Flag(c) = "hook_all")
  BY <1>5, <1>7 DEF SameTool
<1>10. /\ (cli'[c].spared => cli[c].spared /\ Flag(c) = "hook_all")
       /\ cli'[c].line = cli[c].line /\ cli'[c].flags = cli[c].flags
       /\ cli'[c].todo = cli[c].todo \ {e} /\ cli'[c].thread = t
       /\ cli'[c].success = cli[c].success /\ cli'[c].reported = cli[c].reported
       /\ cli'[c].good = cli[c].good /\ cli'[c].shown = cli[c].shown
  BY <1>4, <1>7
<1>11. HookCalled(c, e, t)
  BY <1>0, <1>2, <1>3, <1>8, <1>9, <1>10 DEF HookCalled, SameTool
<1> QED BY <1>2, <1>11

\* What CallEvent does with thread t.
EventCalled(c, t) ==
  /\ cli' \in [Clis -> CliRecord] /\ OthersSame(c)
  /\ cli[c].flags # {} /\ ~Waits(c) /\ Flag(c) \in DOMAIN EventOf
  /\ Flag(c) \in LoginFlags => Line(c).user # Nobody
  /\ Takes(t, "event", EventOf[Flag(c)])
  /\ payload' = [payload EXCEPT ![t] = Arguments(Line(c), Flag(c))]
  /\ cli'[c].line = cli[c].line /\ cli'[c].flags = cli[c].flags
  /\ cli'[c].todo = cli[c].todo /\ cli'[c].thread = t
  /\ cli'[c].spared = cli[c].spared
  /\ cli'[c].success = cli[c].success /\ cli'[c].reported = cli[c].reported
  /\ cli'[c].good = cli[c].good /\ cli'[c].shown = cli[c].shown

LEMMA CallEventEffect ==
  ASSUME PlatformTyped, NEW c \in Clis, CallEvent(c)
  PROVE  \E t \in Threads : EventCalled(c, t)
<1>0. /\ cli[c].flags # {} /\ ~Waits(c) /\ Flag(c) \in DOMAIN EventOf
      /\ Flag(c) \in LoginFlags => Line(c).user # Nobody
  BY DEF CallEvent, Ready, LoggedIn
<1>1. PICK t \in Taker :
        /\ Table!Take(t, "event", EventOf[Flag(c)])
        /\ payload' = [payload EXCEPT ![t] = Arguments(Line(c), Flag(c))]
        /\ cli' = [cli EXCEPT ![c].thread = t]
  BY DEF CallEvent
<1>2. t \in Threads /\ EventOf[Flag(c)] \in Events
  BY <1>0, TakerFree DEF EventOf, Events
<1>3. Takes(t, "event", EventOf[Flag(c)])
  BY <1>1, <1>2, TakeEffect
<1> DEFINE new == [cli[c] EXCEPT !.thread = t]
<1>4. ASSUME NEW r, r = new
      PROVE  /\ r \in CliRecord /\ r.spared = cli[c].spared
             /\ r.line = cli[c].line /\ r.flags = cli[c].flags
             /\ r.todo = cli[c].todo /\ r.thread = t
             /\ r.success = cli[c].success /\ r.reported = cli[c].reported
             /\ r.good = cli[c].good /\ r.shown = cli[c].shown
  BY <1>2, <1>4 DEF PlatformTyped, CliRecord
<1>5. cli' = [cli EXCEPT ![c] = new]
  BY <1>1
<1> HIDE DEF new
<1>6. /\ cli' \in [Clis -> CliRecord] /\ cli'[c] = new
      /\ \A d \in Clis \ {c} : cli'[d] = cli[d]
  BY <1>4, <1>5 DEF PlatformTyped
<1>7. EventCalled(c, t)
  BY <1>0, <1>1, <1>3, <1>4, <1>6 DEF EventCalled, OthersSame
<1> QED BY <1>2, <1>7

\* A tool that waits has something to do.
Busy == \A c \in Clis : Waits(c) => cli[c].flags # {}

LEMMA GiveUpEffect ==
  ASSUME PlatformTyped, Busy, NEW c \in Clis, GiveUp(c)
  PROVE  /\ cli' \in [Clis -> CliRecord] /\ OthersSame(c)
         /\ Waits(c) /\ c \in GoTools
         /\ WasTold(c, Lost)
<1> PICK new : new = Told(c, cli[c].todo, Lost)
  OBVIOUS
<1>1. Waits(c) /\ c \in GoTools /\ cli' = [cli EXCEPT ![c] = new]
  BY DEF GiveUp
<1>2. cli[c].flags # {} /\ cli[c].todo \in SUBSET Ops
  BY <1>1 DEF Busy, PlatformTyped, CliRecord
<1>3. new \in CliRecord /\ Tells(c, cli[c].todo, Lost, new)
  BY <1>2, LostReply, ToldEffect
<1>4. cli' \in [Clis -> CliRecord] /\ OthersSame(c) /\ cli'[c] = new
  BY <1>1, <1>3 DEF PlatformTyped, OthersSame
<1> QED BY <1>1, <1>3, <1>4 DEF WasTold

\* What a call that does not reach the server does.
Failed(c, todo) ==
  /\ cli' \in [Clis -> CliRecord] /\ OthersSame(c)
  /\ cli[c].flags # {} /\ ~Waits(c)
  /\ Tells(c, todo, Lost, cli'[c])

LEMMA CallFailsEffect ==
  ASSUME PlatformTyped, NEW c \in Clis, CallFails(c)
  PROVE  \E todo \in SUBSET Ops : Failed(c, todo)
<1>1. PICK todo : /\ todo \in IF Flag(c) \in HookFlags
                              THEN {cli[c].todo \ {e} : e \in cli[c].todo}
                              ELSE {cli[c].todo}
                 /\ cli' = [cli EXCEPT ![c] = Told(c, todo, Lost)]
  BY DEF CallFails
<1> PICK new : new = Told(c, todo, Lost)
  OBVIOUS
<1>2. cli[c].flags # {} /\ ~Waits(c)
  BY DEF CallFails, Ready
<1>3. todo \in SUBSET Ops
  <2>1. cli[c].todo \in SUBSET Ops
    BY DEF PlatformTyped, CliRecord
  <2> QED BY <1>1, <2>1
<1>4. new \in CliRecord /\ Tells(c, todo, Lost, new)
  BY <1>2, <1>3, LostReply, ToldEffect
<1>5. cli' \in [Clis -> CliRecord] /\ OthersSame(c) /\ cli'[c] = new
  BY <1>1, <1>4 DEF PlatformTyped, OthersSame
<1>6. Failed(c, todo)
  BY <1>2, <1>4, <1>5 DEF Failed
<1> QED BY <1>3, <1>6

\* The tool that waits for thread t has its answer.
Answered(t, reply) ==
  /\ cli' \in [Clis -> CliRecord]
  /\ IsReply(reply)
  /\ \A c \in Clis : IF cli[c].thread = t THEN WasTold(c, reply)
                     ELSE cli'[c] = cli[c]

LEMMA AnswersEffect ==
  ASSUME PlatformTyped, Busy, NEW t \in Threads, NEW reply, IsReply(reply),
         Answers(t, reply),
         \A c \in Clis : cli[c].thread = t /\ Flag(c) = "profile" /\ reply.ok /\ reply.own =>
                           reply.out \in Seq(Seq(Users))
  PROVE  Answered(t, reply)
<1>1. cli' = [c \in Clis |-> IF cli[c].thread = t THEN Told(c, cli[c].todo, reply)
                             ELSE cli[c]]
  BY DEF Answers
<1>2. ASSUME NEW c \in Clis, cli[c].thread = t
      PROVE  cli'[c] \in CliRecord /\ WasTold(c, reply)
  <2>1. cli[c].flags # {} /\ cli[c].todo \in SUBSET Ops
    BY <1>2, NoEventAssumption DEF Busy, Waits, PlatformTyped, CliRecord
  <2>2. cli'[c] = Told(c, cli[c].todo, reply)
    BY <1>1, <1>2
  <2>3. Flag(c) = "profile" /\ reply.ok /\ reply.own => reply.out \in Seq(Seq(Users))
    BY <1>2
  <2> QED BY <2>1, <2>2, <2>3, ToldEffect DEF WasTold
<1>3. ASSUME NEW c \in Clis, cli[c].thread # t
      PROVE  cli'[c] \in CliRecord /\ cli'[c] = cli[c]
  BY <1>1, <1>3 DEF PlatformTyped
<1>4. cli' \in [Clis -> CliRecord]
  <2>1. \A c \in Clis : cli'[c] \in CliRecord
    BY <1>2, <1>3
  <2>2. cli' = [c \in Clis |-> cli'[c]]
    BY <1>1
  <2> QED BY <2>1, <2>2
<1> QED BY <1>2, <1>3, <1>4 DEF Answered

LEMMA HookOrUnhookEffect ==
  ASSUME PlatformTyped, Busy, NEW t \in Threads, RequestOK(t), HookOrUnhook(t)
  PROVE  /\ Frees(t) /\ UNCHANGED <<handlers, payload>>
         /\ req[t].op \in {"hook", "unhook"} /\ req[t].type \in Ops
         /\ on' = IF req[t].op = "hook" THEN on \cup {req[t].type} ELSE on \ {req[t].type}
         /\ \E reply : Answered(t, reply) /\ reply.kept
<1> DEFINE reply == [ok |-> req'[t].status = "OK", own |-> TRUE, kept |-> TRUE, out |-> <<>>]
<1>1. Answers(t, reply) /\ UNCHANGED <<handlers, payload>>
  BY DEF HookOrUnhook
<1>2. Answered(t, reply) /\ reply.kept
  <2>1. <<>> \in Seq(Seq(Users))
    OBVIOUS
  <2>2. IsReply(reply) /\ reply.kept /\ reply.out = <<>>
    BY DEF IsReply
  <2> HIDE DEF reply
  <2> QED BY <1>1, <2>1, <2>2, AnswersEffect
<1> HIDE DEF reply
<1>3. CASE Table!Hook(t)
  <2>1. req[t].type \in Ops
    BY <1>3 DEF Table!Hook, Table!Runs, RequestOK
  <2> QED BY <1>1, <1>2, <1>3, <2>1, HookEffect
<1>4. CASE Table!Unhook(t)
  <2>1. req[t].type \in Ops
    BY <1>4 DEF Table!Unhook, Table!Runs, RequestOK
  <2> QED BY <1>1, <1>2, <1>4, <2>1, UnhookEffect
<1>5. CASE Table!HookUnknown(t)
  BY <1>5 DEF Table!HookUnknown, Table!Runs, RequestOK
<1>6. CASE Table!UnhookMissing(t)
  <2>1. /\ req[t].op = "unhook" /\ on' = on /\ req[t].type \notin on
        /\ req' = Table!Answered(req, t, "NOT_FOUND")
    BY <1>6 DEF Table!UnhookMissing, Table!Runs
  <2>2. req[t].type \in Ops
    BY <2>1 DEF RequestOK
  <2>3. Frees(t)
    BY <2>1, AnswerEffect DEF Statuses, PlatformTyped
  <2> QED BY <1>1, <1>2, <2>1, <2>2, <2>3
<1> QED BY <1>3, <1>4, <1>5, <1>6 DEF HookOrUnhook

LEMMA MissEventEffect ==
  ASSUME PlatformTyped, Busy, NEW t \in Threads, MissEvent(t)
  PROVE  /\ Frees(t) /\ UNCHANGED <<handlers, on>>
         /\ req[t].op = "event"
         /\ payload' = [payload EXCEPT ![t] = <<NoCaw, NoCaw>>]
         /\ Answered(t, Lost)
<1>1. PICK status \in {"NOT_FOUND", "UNKNOWN"} :
        req[t].op = "event" /\ on' = on /\ req' = Table!Answered(req, t, status)
  BY DEF MissEvent, Table!Miss, Table!RunEmpty, Table!Looks, Table!Runs
<1>3. Frees(t)
  BY <1>1, AnswerEffect DEF Statuses, PlatformTyped
<1>4. Answered(t, Lost)
  <2>1. Answers(t, Lost)
    BY DEF MissEvent
  <2> QED BY <2>1, LostReply, AnswersEffect
<1> QED BY <1>1, <1>3, <1>4 DEF MissEvent

LEMMA RunEventEffect ==
  ASSUME Typed, PlatformTyped, NEW t \in Threads, RequestOK(t), RunEvent(t)
  PROVE  \E f \in Ops :
           /\ req' \in [Threads -> Requests] /\ UNCHANGED <<on, cli>>
           /\ req[t].op = "event" /\ req[t].ran = NoCaw
           /\ req'[t].op = "event" /\ req'[t].type = req[t].type /\ req'[t].ran = f
           /\ req'[t].gone = req[t].gone
           /\ \A s \in Threads \ {t} : req'[s] = req[s]
           /\ payload' = [payload EXCEPT ![t] = <<NoCaw, NoCaw>>]
           /\ Event(t)
           /\ Handles(t, f, IF f = req[t].type THEN payload[t] ELSE Empty(f))
<1>1. PICK f \in Ops :
        /\ Table!Run(t, f)
        /\ Handle(t, f, IF f = req[t].type THEN payload[t] ELSE Empty(f))
  BY DEF RunEvent
<1>2. /\ req' \in [Threads -> Requests] /\ on' = on
      /\ req[t].op = "event" /\ req[t].ran = NoCaw
      /\ req'[t].op = "event" /\ req'[t].type = req[t].type /\ req'[t].ran = f
      /\ req'[t].gone = req[t].gone
      /\ \A s \in Threads \ {t} : req'[s] = req[s]
  BY <1>1, RunEffect
<1>3. PICK args : args = IF f = req[t].type THEN payload[t] ELSE Empty(f)
  OBVIOUS
<1>4. Suits(f, args)
  BY <1>2, <1>3, EmptySuits DEF RequestOK
<1>5. Event(t) /\ Handles(t, f, args)
  BY <1>1, <1>3, <1>4, HandleEffect
<1>6. cli' = cli /\ payload' = [payload EXCEPT ![t] = <<NoCaw, NoCaw>>]
  BY DEF RunEvent
<1> QED BY <1>2, <1>3, <1>5, <1>6

LEMMA FinishEventEffect ==
  ASSUME Typed, PlatformTyped, Busy, NEW t \in Threads, RequestOK(t), FinishEvent(t),
         \A c \in Clis : cli[c].thread = t /\ Flag(c) = "profile" => req[t].type = "Profile"
  PROVE  /\ Frees(t) /\ UNCHANGED <<on, payload>>
         /\ Forgets(t) \/ UNCHANGED handlers
         /\ req[t].op = "event" /\ req[t].ran # NoCaw
         /\ \E reply :
              /\ reply.ok = (call[t].status = "OK") /\ reply.own = (req[t].ran = req[t].type)
              /\ reply.kept = ~req[t].gone /\ reply.out = call[t].out
              /\ Answered(t, reply)
<1> DEFINE reply == [ok |-> call[t].status = "OK", own |-> req[t].ran = req[t].type,
                     kept |-> ~req[t].gone, out |-> call[t].out]
<1>1. /\ Table!Finish(t, call[t].status) /\ payload' = payload
      /\ Answers(t, reply)
  BY DEF FinishEvent
<1>2. Forgets(t) \/ UNCHANGED handlers
  BY DEF FinishEvent, Forgets, handlers
<1>3. /\ req[t].op = "event" /\ req[t].ran # NoCaw /\ on' = on
      /\ req' = Table!Answered(req, t, call[t].status)
  BY <1>1 DEF Table!Finish, Table!Runs
<1>4. call[t].status \in Statuses
  BY DEF Typed, CallRecord
<1>5. Frees(t)
  <2> PICK status \in Statuses : status = call[t].status
    BY <1>4
  <2> QED BY <1>3, AnswerEffect DEF PlatformTyped
<1>6. req[t].gone \in BOOLEAN /\ (~req[t].gone => req[t].ran = req[t].type)
  BY <1>3 DEF PlatformTyped, Requests, RequestRecord
<1>7. /\ IsReply(reply)
      /\ reply.ok = (call[t].status = "OK") /\ reply.own = (req[t].ran = req[t].type)
      /\ reply.kept = ~req[t].gone /\ reply.out = call[t].out
  BY <1>6 DEF IsReply
<1> HIDE DEF reply
<1>8. ASSUME NEW c \in Clis, cli[c].thread = t, Flag(c) = "profile", reply.own
      PROVE  reply.out \in Seq(Seq(Users))
  <2>1. call[t].op = "Profile"
    BY <1>3, <1>7, <1>8 DEF RequestOK
  <2> QED BY <1>7, <2>1 DEF Typed, CallOK
<1>9. Answered(t, reply)
  BY <1>1, <1>7, <1>8, AnswersEffect
<1> QED BY <1>1, <1>2, <1>3, <1>5, <1>7, <1>9

LEMMA FazDownEffect ==
  ASSUME Typed, PlatformTyped, Busy, FazDown
  PROVE  /\ req' \in [Threads -> Requests] /\ on' = {}
         /\ \A t \in Threads : req'[t].op = "none" /\ req'[t].ran = NoCaw /\ ~req'[t].gone
         /\ payload' \in [Threads -> Args \X Args]
         /\ FazDies
         /\ cli' \in [Clis -> CliRecord]
         /\ \A c \in Clis : /\ ~cli'[c].spared /\ cli'[c].thread = NoCaw
                           /\ IF Waits(c) THEN WasTold(c, Lost) ELSE SameTool(c)
<1>1. ASSUME NEW r, r = Table!NoReq
      PROVE  r \in Requests /\ r.op = "none" /\ r.ran = NoCaw /\ ~r.gone
  BY <1>1 DEF Table!NoReq, Requests, RequestRecord, Statuses
<1>2. req' = [t \in Threads |-> Table!NoReq] /\ on' = {} /\ FazDies
  BY DEF FazDown, Table!Restart
<1>3. /\ req' \in [Threads -> Requests]
      /\ \A t \in Threads : req'[t].op = "none" /\ req'[t].ran = NoCaw /\ ~req'[t].gone
  BY <1>1, <1>2
<1>4. payload' \in [Threads -> Args \X Args]
  BY DEF FazDown, Args
<1>5. ASSUME NEW r \in CliRecord, NEW s, s = [r EXCEPT !.spared = FALSE]
      PROVE  /\ s \in CliRecord /\ s.spared = FALSE
             /\ s.line = r.line /\ s.flags = r.flags /\ s.todo = r.todo
             /\ s.thread = r.thread /\ s.success = r.success /\ s.reported = r.reported
             /\ s.good = r.good /\ s.shown = r.shown
  BY <1>5 DEF CliRecord
<1>6. cli' = [c \in Clis |-> [Parted(c) EXCEPT !.spared = FALSE]]
  BY DEF FazDown
<1>7. ASSUME NEW c \in Clis, Waits(c)
      PROVE  /\ cli'[c] \in CliRecord /\ ~cli'[c].spared /\ cli'[c].thread = NoCaw
             /\ WasTold(c, Lost)
  <2>1. cli[c].flags # {} /\ cli[c].todo \in SUBSET Ops
    BY <1>7 DEF Busy, PlatformTyped, CliRecord
  <2> PICK r : r = Told(c, cli[c].todo, Lost)
    OBVIOUS
  <2>2. cli'[c] = [r EXCEPT !.spared = FALSE]
    BY <1>6, <1>7 DEF Parted
  <2>3. r \in CliRecord /\ r.thread = NoCaw /\ Tells(c, cli[c].todo, Lost, r)
    BY <2>1, LostReply, ToldEffect
  <2>4. WasTold(c, Lost)
    <3>1. /\ ~cli'[c].spared
          /\ cli'[c].line = r.line /\ cli'[c].flags = r.flags /\ cli'[c].todo = r.todo
          /\ cli'[c].thread = r.thread /\ cli'[c].success = r.success
          /\ cli'[c].reported = r.reported
          /\ cli'[c].good = r.good /\ cli'[c].shown = r.shown
      BY <1>5, <2>2, <2>3
    <3> QED BY <2>3, <3>1 DEF WasTold, Tells
  <2> QED BY <1>5, <2>2, <2>3, <2>4
<1>8. ASSUME NEW c \in Clis, ~Waits(c)
      PROVE  /\ cli'[c] \in CliRecord /\ ~cli'[c].spared /\ cli'[c].thread = NoCaw
             /\ SameTool(c)
  <2>1. cli'[c] = [cli[c] EXCEPT !.spared = FALSE] /\ cli[c] \in CliRecord
    BY <1>6, <1>8 DEF Parted, PlatformTyped
  <2>2. cli[c].thread = NoCaw
    BY <1>8 DEF Waits
  <2>3. /\ cli'[c] \in CliRecord /\ ~cli'[c].spared
        /\ cli'[c].line = cli[c].line /\ cli'[c].flags = cli[c].flags
        /\ cli'[c].todo = cli[c].todo /\ cli'[c].thread = cli[c].thread
        /\ cli'[c].success = cli[c].success /\ cli'[c].reported = cli[c].reported
        /\ cli'[c].good = cli[c].good /\ cli'[c].shown = cli[c].shown
    BY <1>5, <2>1
  <2> QED BY <2>2, <2>3 DEF SameTool
<1>9. cli' \in [Clis -> CliRecord]
  BY <1>6, <1>7, <1>8
<1> QED BY <1>2, <1>3, <1>4, <1>7, <1>8, <1>9

-----------------------------------------------------------------------------
(* Requests and tools keep to each other.                                  *)

\* A tool that waits for thread t has a flag up that the thread's request is for.
LEMMA WaitFacts ==
  ASSUME PlatformTyped, NEW c \in Clis, WaitOK(c), Waits(c)
  PROVE  /\ cli[c].thread \in Threads /\ cli[c].flags # {}
         /\ Flag(c) \in cli[c].flags /\ Flag(c) \in Flags
         /\ req[cli[c].thread].op # "none"
         /\ req[cli[c].thread].op = "event" => Flag(c) \in DOMAIN EventOf
         /\ req[cli[c].thread].op = "hook" => Flag(c) = "hook_all"
         /\ req[cli[c].thread].op = "unhook" => Flag(c) = "unhook_all"
         /\ \A d \in Clis : cli[d].thread = cli[c].thread => d = c
<1>1. cli[c].thread \in Threads /\ cli[c].flags # {}
  BY DEF PlatformTyped, CliRecord, Waits, WaitOK
<1>2. /\ Flag(c) \in cli[c].flags /\ Flag(c) \in Flags
      /\ Flag(c) \in {"hook_all", "unhook_all"} \/ Flag(c) \in DOMAIN EventOf
  BY <1>1, FlagFacts DEF HookFlags
<1>3. /\ Flag(c) = "hook_all" => req[cli[c].thread].op = "hook"
      /\ Flag(c) = "unhook_all" => req[cli[c].thread].op = "unhook"
      /\ Flag(c) \in DOMAIN EventOf => req[cli[c].thread].op = "event"
      /\ \A d \in Clis : cli[d].thread = cli[c].thread => d = c
  BY DEF WaitOK
<1> QED BY <1>1, <1>2, <1>3

\* The request of thread t goes on as before, and so does its call.
SameRequest(t) ==
  /\ req'[t].op = req[t].op /\ req'[t].type = req[t].type /\ req'[t].ran = req[t].ran
  /\ payload'[t] = payload[t]
  /\ call'[t].op = call[t].op /\ call'[t].a = call[t].a /\ call'[t].b = call[t].b
  /\ call'[t].must = call[t].must

LEMMA RequestStays ==
  ASSUME NEW t \in Threads, RequestOK(t), SameRequest(t), known \subseteq known'
  PROVE  RequestOK(t)'
<1>1. Suits(req[t].type, payload[t]) => Suits(req[t].type, payload[t])'
  BY DEF SameRequest, Suits
<1> QED BY <1>1 DEF RequestOK, SameRequest, Suits

LEMMA FreeRequest ==
  ASSUME NEW t \in Threads, req'[t].op = "none", req'[t].ran = NoCaw
  PROVE  RequestOK(t)'
BY DEF RequestOK

LEMMA SameToolFacts ==
  ASSUME NEW c \in Clis, SameTool(c)
  PROVE  Line(c)' = Line(c) /\ Flag(c)' = Flag(c) /\ (Waits(c)' <=> Waits(c))
BY DEF SameTool, Line, Flag, Waits

LEMMA LineStays ==
  ASSUME NEW c \in Clis, SameTool(c), LineOK(c), known \subseteq known'
  PROVE  LineOK(c)'
BY SameToolFacts DEF LineOK, SameTool

\* No thread has got another tool that waits for it.
NoMoreWaiting(t) == \A d \in Clis : cli'[d].thread = t => cli[d].thread = t

LEMMA WaitStays ==
  ASSUME NEW c \in Clis, SameTool(c), WaitOK(c),
         Waits(c) => SameRequest(cli[c].thread) /\ NoMoreWaiting(cli[c].thread)
  PROVE  WaitOK(c)'
<1> SUFFICES ASSUME Waits(c)' PROVE WaitOK(c)'
  BY DEF WaitOK
<1> PICK t : t = cli[c].thread
  OBVIOUS
<1> PICK f : f = Flag(c)
  OBVIOUS
<1> PICK args : args = Arguments(Line(c), f)
  OBVIOUS
<1>1. /\ Waits(c) /\ Line(c)' = Line(c) /\ Flag(c)' = f /\ cli'[c].thread = t
      /\ cli'[c].flags = cli[c].flags
  BY SameToolFacts DEF SameTool
<1>2. SameRequest(t) /\ NoMoreWaiting(t)
  BY <1>1
<1>3. /\ cli[c].flags # {}
      /\ f \in LoginFlags => Line(c).user # Nobody
      /\ \A d \in Clis : cli[d].thread = t => d = c
      /\ f = "hook_all" => req[t].op = "hook"
      /\ f = "unhook_all" => req[t].op = "unhook"
      /\ f \in DOMAIN EventOf =>
           /\ req[t].op = "event" /\ req[t].type = EventOf[f]
           /\ req[t].ran = NoCaw => payload[t] = args
           /\ req[t].ran = req[t].type => call[t].a = args[1] /\ call[t].b = args[2]
  BY <1>1 DEF WaitOK
<1>4. Arguments(Line(c)', f) = args
  BY <1>1
<1>5. /\ \A d \in Clis : cli'[d].thread = t => d = c
      /\ f = "hook_all" => req'[t].op = "hook"
      /\ f = "unhook_all" => req'[t].op = "unhook"
      /\ f \in DOMAIN EventOf =>
           /\ req'[t].op = "event" /\ req'[t].type = EventOf[f]
           /\ req'[t].ran = NoCaw => payload'[t] = args
           /\ req'[t].ran = req'[t].type => call'[t].a = args[1] /\ call'[t].b = args[2]
  BY <1>2, <1>3 DEF SameRequest, NoMoreWaiting
<1> QED BY <1>1, <1>3, <1>4, <1>5 DEF WaitOK

LEMMA ToldServed ==
  ASSUME PlatformTyped, NEW c \in Clis, LineOK(c), cli[c].flags # {},
         NEW todo, NEW reply, Tells(c, todo, reply, cli'[c]), known \subseteq known'
  PROVE  LineOK(c)' /\ WaitOK(c)'
<1>1. ~Waits(c)' /\ Line(c)' = Line(c) /\ cli'[c].line = cli[c].line
  BY DEF Tells, Waits, Line
<1>2. /\ Flag(c) \in cli[c].flags
      /\ Flag(c) = "profile" => "follow" \notin cli[c].flags
  BY FlagFacts
<1>3. /\ cli'[c].flags \cup cli'[c].good \subseteq cli[c].flags \cup cli[c].good
      /\ cli'[c].flags \cap cli'[c].good = {}
      /\ "profile" \in cli'[c].good => "follow" \notin cli'[c].flags
  <2>1. CASE Over(c, todo, reply)
    <3>1. /\ cli'[c].flags = cli[c].flags \ {Flag(c)}
          /\ cli'[c].good \subseteq cli[c].good \cup {Flag(c)}
      BY <2>1 DEF Tells
    <3> QED BY <1>2, <3>1 DEF LineOK
  <2>2. CASE ~Over(c, todo, reply)
    <3>1. cli'[c].flags = cli[c].flags /\ cli'[c].good = cli[c].good
      BY <2>2 DEF Tells
    <3> QED BY <3>1 DEF LineOK
  <2> QED BY <2>1, <2>2
<1>4. LineOK(c)'
  BY <1>1, <1>3 DEF LineOK
<1> QED BY <1>1, <1>4 DEF WaitOK

\* What each step of the platform has to do.
Served == PlatformTyped /\ AllServed

LEMMA ServedBusy == Served => Busy
BY DEF Served, AllServed, Busy, WaitOK

LEMMA ArgumentsFit ==
  ASSUME Typed, PlatformTyped, NEW c \in Clis, LineOK(c), cli[c].flags # {},
         Flag(c) \in DOMAIN EventOf
  PROVE  /\ Arguments(Line(c), Flag(c)) \in Args \X Args
         /\ Suits(EventOf[Flag(c)], Arguments(Line(c), Flag(c)))
<1>1. /\ Line(c).registeruser \in Users /\ Line(c).user \in Users /\ Line(c).follow \in Users
      /\ Line(c).reply \in known \cup {NoCaw, BadId}
      /\ Line(c).read \in Ids \cup {BadId}
      /\ {Line(c).reply, Line(c).read} \subseteq known \cup {NoCaw, BadId}
  BY LineFacts DEF LineOK, Line
<1>2. known \subseteq Ids
  BY DEF Typed
<1>3. Line(c).read \in known \cup {BadId}
  BY <1>1, NoCawAssumption
<1>4. Flag(c) \in {"registeruser", "follow", "profile", "caw", "read"}
  BY DEF EventOf
<1> QED BY <1>1, <1>2, <1>3, <1>4 DEF Arguments, EventOf, Suits, Args

LEMMA InitServed == AllInit => Served
<1> SUFFICES ASSUME AllInit PROVE Served
  OBVIOUS
<1>1. ASSUME NEW c \in Clis
      PROVE  cli[c] \in CliRecord /\ cli[c].line = 0 /\ cli[c].flags = {}
             /\ cli[c].thread = NoCaw /\ cli[c].good = {}
  BY DEF AllInit, CliRecord, Funcs
<1>2. ASSUME NEW r, r = Table!NoReq
      PROVE  r \in Requests /\ r.op = "none" /\ r.ran = NoCaw
  BY <1>2 DEF Table!NoReq, Requests, RequestRecord, Statuses
<1>3. on = {} /\ req = [t \in Threads |-> Table!NoReq]
  BY DEF AllInit, Table!HookTableInit
<1>4. PlatformTyped
  <2>1. cli \in [Clis -> CliRecord]
    BY <1>1 DEF AllInit
  <2>2. payload \in [Threads -> Args \X Args]
    BY DEF AllInit, Args
  <2> QED BY <1>2, <1>3, <2>1, <2>2 DEF PlatformTyped
<1>5. \A t \in Threads : RequestOK(t)
  BY <1>2, <1>3 DEF RequestOK
<1>6. ASSUME NEW c \in Clis PROVE LineOK(c) /\ WaitOK(c)
  <2>1. Len(Lines[c]) \in Nat
    BY LinesAssumption
  <2> QED BY <1>1, <2>1 DEF LineOK, WaitOK, Waits
<1> QED BY <1>4, <1>5, <1>6 DEF Served, AllServed

\* A step that leaves the server alone.
ServerSame == UNCHANGED <<handlers, on, req, payload>>

LEMMA ServerSameFacts ==
  ASSUME ServerSame
  PROVE  /\ known' = known /\ dur' = dur /\ on' = on
         /\ \A t \in Threads : SameRequest(t)
BY DEF ServerSame, handlers, SameRequest

LEMMA GiveServed ==
  ASSUME Typed, Served, NEW c \in Clis, Give(c)
  PROVE  Served'
<1>0. ServerSame
  BY DEF Give, ServerSame
<1>1. /\ cli' \in [Clis -> CliRecord] /\ OthersSame(c)
      /\ cli[c].flags = {}
      /\ cli'[c].line \in 1..Len(Lines[c])
      /\ cli'[c].flags = Lines[c][cli'[c].line].flags
      /\ {Lines[c][cli'[c].line].reply, Lines[c][cli'[c].line].read}
           \subseteq known \cup {NoCaw, BadId}
      /\ cli'[c].todo = Ops /\ cli'[c].thread = NoCaw /\ cli'[c].good = {}
  BY GiveEffect DEF Served
<1>2. LineOK(c)' /\ WaitOK(c)'
  <2>1. known' = known
    BY <1>0, ServerSameFacts
  <2>2. Line(c)' = Lines[c][cli'[c].line]
    BY DEF Line
  <2>3. cli'[c].line \in 0..Len(Lines[c])
    BY <1>1
  <2>4. LineOK(c)'
    BY <1>1, <2>1, <2>2, <2>3 DEF LineOK
  <2> QED BY <1>1, <2>4 DEF WaitOK, Waits
<1>3. ASSUME NEW d \in Clis, d # c PROVE LineOK(d)' /\ WaitOK(d)'
  <2>1. SameTool(d)
    BY <1>1, <1>3 DEF OthersSame, SameTool
  <2>2. Waits(d) => cli[d].thread \in Threads /\ NoMoreWaiting(cli[d].thread)
    BY <1>1 DEF Served, PlatformTyped, CliRecord, Waits, OthersSame, NoMoreWaiting
  <2> QED BY <1>0, <2>1, <2>2, ServerSameFacts, LineStays, WaitStays DEF Served, AllServed
<1>4. \A t \in Threads : RequestOK(t)'
  BY <1>0, ServerSameFacts, RequestStays DEF Served, AllServed
<1>5. PlatformTyped'
  BY <1>0, <1>1 DEF Served, PlatformTyped, ServerSame
<1> QED BY <1>2, <1>3, <1>4, <1>5 DEF Served, AllServed

LEMMA RefuseServed ==
  ASSUME Typed, Served, NEW c \in Clis, Refuse(c)
  PROVE  Served' /\ ~Waits(c)
<1>0. ServerSame
  BY DEF Refuse, ServerSame
<1>1. /\ cli' \in [Clis -> CliRecord] /\ OthersSame(c)
      /\ cli[c].flags # {}
      /\ Flag(c) \in LoginFlags /\ Line(c).user = Nobody
      /\ cli'[c].flags = cli[c].flags \ {Flag(c)}
      /\ cli'[c].line = cli[c].line /\ cli'[c].thread = cli[c].thread
      /\ cli'[c].good = cli[c].good
  BY RefuseEffect DEF Served
<1>2. ~Waits(c) /\ ~Waits(c)'
  BY <1>1 DEF Served, AllServed, WaitOK, Waits
<1>3. LineOK(c)' /\ WaitOK(c)'
  <2>1. known' = known /\ Line(c)' = Line(c)
    BY <1>0, <1>1, ServerSameFacts DEF Line
  <2>2. LineOK(c)'
    BY <1>1, <2>1 DEF Served, AllServed, LineOK
  <2> QED BY <1>2, <2>2 DEF WaitOK
<1>4. ASSUME NEW d \in Clis, d # c PROVE LineOK(d)' /\ WaitOK(d)'
  <2>1. SameTool(d)
    BY <1>1, <1>4 DEF OthersSame, SameTool
  <2>2. Waits(d) => cli[d].thread \in Threads /\ NoMoreWaiting(cli[d].thread)
    BY <1>1 DEF Served, PlatformTyped, CliRecord, Waits, OthersSame, NoMoreWaiting
  <2> QED BY <1>0, <2>1, <2>2, ServerSameFacts, LineStays, WaitStays DEF Served, AllServed
<1>5. \A t \in Threads : RequestOK(t)'
  BY <1>0, ServerSameFacts, RequestStays DEF Served, AllServed
<1>6. PlatformTyped'
  BY <1>0, <1>1 DEF Served, PlatformTyped, ServerSame
<1> QED BY <1>2, <1>3, <1>4, <1>5, <1>6 DEF Served, AllServed

\* A tool that dials, or has a connection, does nothing else.
LEMMA DialServed ==
  ASSUME Typed, Served, NEW c \in Clis, Dial(c)
  PROVE  Served'
<1>0. ServerSame
  BY DEF Dial, ServerSame
<1>1. /\ cli' \in [Clis -> CliRecord]
      /\ \A d \in Clis : SameTool(d)
  BY DialEffect DEF Served
<1>2. ASSUME NEW d \in Clis PROVE LineOK(d)' /\ WaitOK(d)'
  <2>1. SameTool(d)
    BY <1>1
  <2>2. Waits(d) => cli[d].thread \in Threads /\ NoMoreWaiting(cli[d].thread)
    BY <1>1 DEF Served, PlatformTyped, CliRecord, Waits, SameTool, NoMoreWaiting
  <2> QED BY <1>0, <2>1, <2>2, ServerSameFacts, LineStays, WaitStays DEF Served, AllServed
<1>3. \A t \in Threads : RequestOK(t)'
  BY <1>0, ServerSameFacts, RequestStays DEF Served, AllServed
<1>4. PlatformTyped'
  BY <1>0, <1>1 DEF Served, PlatformTyped, ServerSame
<1> QED BY <1>2, <1>3, <1>4 DEF Served, AllServed

\* Nor does it when a call has failed, which it waited for or not.
LEMMA FailedServed ==
  ASSUME Typed, Served, NEW c \in Clis, GiveUp(c) \/ CallFails(c)
  PROVE  Served'
<1>0. ServerSame
  BY DEF GiveUp, CallFails, ServerSame
<1>1. /\ cli' \in [Clis -> CliRecord] /\ OthersSame(c) /\ cli[c].flags # {}
      /\ \E todo : Tells(c, todo, Lost, cli'[c])
  <2>1. CASE GiveUp(c)
    BY <2>1, GiveUpEffect, ServedBusy DEF Served, WasTold, Busy
  <2>2. CASE CallFails(c)
    BY <2>2, CallFailsEffect DEF Served, Failed
  <2> QED BY <2>1, <2>2
<1>2. LineOK(c)' /\ WaitOK(c)'
  <2>1. known' = known
    BY <1>0, ServerSameFacts
  <2> QED BY <1>1, <2>1, ToldServed DEF Served, AllServed
<1>3. ASSUME NEW d \in Clis, d # c PROVE LineOK(d)' /\ WaitOK(d)'
  <2>1. SameTool(d)
    BY <1>1, <1>3 DEF OthersSame, SameTool
  <2>2. cli'[c].thread = NoCaw
    BY <1>1 DEF Tells
  <2>3. Waits(d) => cli[d].thread \in Threads /\ NoMoreWaiting(cli[d].thread)
    BY <1>1, <2>2 DEF Served, PlatformTyped, CliRecord, Waits, OthersSame, NoMoreWaiting
  <2> QED BY <1>0, <2>1, <2>3, ServerSameFacts, LineStays, WaitStays DEF Served, AllServed
<1>4. \A t \in Threads : RequestOK(t)'
  BY <1>0, ServerSameFacts, RequestStays DEF Served, AllServed
<1>5. PlatformTyped'
  BY <1>0, <1>1 DEF Served, PlatformTyped, ServerSame
<1> QED BY <1>2, <1>3, <1>4, <1>5 DEF Served, AllServed

\* Nobody waits for a thread that is free.
LEMMA FreeAlone ==
  ASSUME Served, NEW t \in Threads, req[t].op = "none"
  PROVE  \A d \in Clis : cli[d].thread # t
<1> SUFFICES ASSUME NEW d \in Clis, cli[d].thread = t PROVE FALSE
  OBVIOUS
<1>1. Waits(d)
  BY NoEventAssumption DEF Waits
<1> QED BY <1>1, WaitFacts DEF Served, AllServed

\* When thread t takes a request from tool c, the others' requests go on.
LEMMA TakenServed ==
  ASSUME Served, NEW c \in Clis, NEW t \in Threads, NEW op, NEW e, Takes(t, op, e),
         \A s \in Threads \ {t} : payload'[s] = payload[s],
         UNCHANGED handlers,
         cli'[c].thread = t, \A d \in Clis \ {c} : SameTool(d), ~Waits(c)
  PROVE  /\ \A s \in Threads \ {t} : SameRequest(s) /\ RequestOK(s)'
         /\ \A d \in Clis \ {c} : /\ LineOK(d)' /\ WaitOK(d)'
                                  /\ Waits(d) => cli[d].thread \in Threads \ {t}
         /\ \A d \in Clis : cli'[d].thread = t => d = c
<1>1. /\ call' = call /\ known' = known
      /\ \A s \in Threads \ {t} : SameRequest(s)
  BY DEF handlers, Takes, SameRequest
<1>2. \A s \in Threads \ {t} : RequestOK(s)'
  BY <1>1, RequestStays DEF Served, AllServed
<1>3. \A d \in Clis : cli[d].thread # t
  BY FreeAlone DEF Takes
<1>4. ASSUME NEW d \in Clis \ {c}
      PROVE  LineOK(d)' /\ WaitOK(d)' /\ (Waits(d) => cli[d].thread \in Threads \ {t})
  <2>1. Waits(d) => cli[d].thread \in Threads \ {t}
    BY <1>3 DEF Served, PlatformTyped, CliRecord, Waits
  <2>2. SameTool(d)
    OBVIOUS
  <2>3. Waits(d) => NoMoreWaiting(cli[d].thread)
    BY <2>1 DEF SameTool, NoMoreWaiting
  <2> QED BY <1>1, <2>1, <2>2, <2>3, LineStays, WaitStays DEF Served, AllServed
<1>5. \A d \in Clis : cli'[d].thread = t => d = c
  BY <1>3 DEF SameTool
<1> QED BY <1>1, <1>2, <1>4, <1>5

LEMMA CallHookServed ==
  ASSUME Typed, Served, NEW c \in Clis, CallHook(c)
  PROVE  Served'
<1>0. UNCHANGED handlers
  BY DEF CallHook
<1> PICK e \in Ops, t \in Threads : HookCalled(c, e, t)
  BY CallHookEffect DEF Served
<1>1. /\ cli' \in [Clis -> CliRecord]
      /\ cli[c].flags # {} /\ ~Waits(c) /\ Flag(c) \in HookFlags
      /\ Takes(t, IF Flag(c) = "hook_all" THEN "hook" ELSE "unhook", e)
      /\ payload' = payload
      /\ \A d \in Clis \ {c} : SameTool(d)
      /\ cli'[c].line = cli[c].line /\ cli'[c].flags = cli[c].flags
      /\ cli'[c].thread = t /\ cli'[c].good = cli[c].good
  BY DEF HookCalled
<1>2. /\ \A s \in Threads \ {t} : RequestOK(s)'
      /\ \A d \in Clis \ {c} : LineOK(d)' /\ WaitOK(d)'
      /\ \A d \in Clis : cli'[d].thread = t => d = c
  BY <1>0, <1>1, TakenServed
<1>3. known' = known /\ Line(c)' = Line(c) /\ Flag(c)' = Flag(c)
  BY <1>0, <1>1 DEF handlers, Line, Flag
<1>4. LineOK(c)'
  BY <1>1, <1>3 DEF Served, AllServed, LineOK
<1>5. RequestOK(t)'
  BY <1>1 DEF Takes, RequestOK
<1>6. WaitOK(c)'
  <2>1. Flag(c) \notin LoginFlags /\ Flag(c) \notin DOMAIN EventOf
    BY <1>1 DEF HookFlags, LoginFlags, EventOf
  <2>2. /\ Flag(c) = "hook_all" => req'[t].op = "hook"
        /\ Flag(c) = "unhook_all" => req'[t].op = "unhook"
    BY <1>1 DEF Takes
  <2> QED BY <1>1, <1>2, <1>3, <2>1, <2>2 DEF WaitOK
<1>7. PlatformTyped'
  BY <1>1 DEF Served, PlatformTyped, Takes
<1> QED BY <1>2, <1>4, <1>5, <1>6, <1>7 DEF Served, AllServed

LEMMA CallEventServed ==
  ASSUME Typed, Served, NEW c \in Clis, CallEvent(c)
  PROVE  Served'
<1>0. UNCHANGED handlers
  BY DEF CallEvent
<1> PICK t \in Threads : EventCalled(c, t)
  BY CallEventEffect DEF Served
<1> PICK f : f = Flag(c)
  OBVIOUS
<1> PICK args : args = Arguments(Line(c), f)
  OBVIOUS
<1>1. /\ cli' \in [Clis -> CliRecord]
      /\ cli[c].flags # {} /\ ~Waits(c) /\ f \in DOMAIN EventOf
      /\ f \in LoginFlags => Line(c).user # Nobody
      /\ Takes(t, "event", EventOf[f])
      /\ payload' = [payload EXCEPT ![t] = args]
      /\ OthersSame(c)
      /\ cli'[c].line = cli[c].line /\ cli'[c].flags = cli[c].flags
      /\ cli'[c].thread = t /\ cli'[c].good = cli[c].good
  BY DEF EventCalled
<1>2. /\ args \in Args \X Args /\ Suits(EventOf[f], args)
  BY <1>1, ArgumentsFit DEF Served, AllServed
<1>3. /\ payload' \in [Threads -> Args \X Args] /\ payload'[t] = args
      /\ \A s \in Threads \ {t} : payload'[s] = payload[s]
  BY <1>1, <1>2 DEF Served, PlatformTyped
<1>4. \A d \in Clis \ {c} : SameTool(d)
  BY <1>1 DEF OthersSame, SameTool
<1>5. /\ \A s \in Threads \ {t} : RequestOK(s)'
      /\ \A d \in Clis \ {c} : LineOK(d)' /\ WaitOK(d)'
      /\ \A d \in Clis : cli'[d].thread = t => d = c
  BY <1>0, <1>1, <1>3, <1>4, TakenServed
<1>6. known' = known /\ Line(c)' = Line(c) /\ Flag(c)' = f
  BY <1>0, <1>1 DEF handlers, Line, Flag
<1>7. LineOK(c)'
  BY <1>1, <1>6 DEF Served, AllServed, LineOK
<1>8. /\ req'[t].op = "event" /\ req'[t].type = EventOf[f] /\ req'[t].ran = NoCaw
  BY <1>1 DEF Takes
<1>9. RequestOK(t)'
  <2>1. Suits(EventOf[f], args)'
    BY <1>2, <1>6 DEF Suits
  <2> QED BY <1>3, <1>8, <2>1 DEF RequestOK, Suits
<1>10. EventOf[f] # NoCaw /\ f \notin {"hook_all", "unhook_all"}
  BY <1>1, NoEventAssumption DEF EventOf, Events
<1>11. WaitOK(c)'
  <2>1. Arguments(Line(c)', f) = args
    BY <1>6
  <2> QED BY <1>1, <1>3, <1>5, <1>6, <1>8, <1>10, <2>1 DEF WaitOK
<1>12. PlatformTyped'
  BY <1>1, <1>3 DEF Served, PlatformTyped, Takes
<1> QED BY <1>5, <1>7, <1>9, <1>11, <1>12 DEF Served, AllServed

\* When thread t answers, the tool that waits for it has its answer.
LEMMA AnsweredServed ==
  ASSUME Served, NEW t \in Threads, Frees(t), on' \subseteq Ops,
         NEW reply, Answered(t, reply),
         payload' \in [Threads -> Args \X Args],
         \A s \in Threads \ {t} : payload'[s] = payload[s] /\ call'[s] = call[s],
         known' = known
  PROVE  Served'
<1>1. \A s \in Threads \ {t} : SameRequest(s)
  BY DEF Frees, SameCall, SameRequest
<1>2. \A s \in Threads : RequestOK(s)'
  <2>1. \A s \in Threads \ {t} : RequestOK(s)'
    BY <1>1, RequestStays DEF Served, AllServed
  <2>2. RequestOK(t)'
    BY FreeRequest DEF Frees
  <2> QED BY <2>1, <2>2
<1>3. ASSUME NEW d \in Clis, cli[d].thread = t PROVE LineOK(d)' /\ WaitOK(d)'
  <2>1. Tells(d, cli[d].todo, reply, cli'[d])
    BY <1>3 DEF Answered, WasTold
  <2>2. cli[d].flags # {}
    BY <1>3, NoEventAssumption, ServedBusy DEF Busy, Waits
  <2> QED BY <2>1, <2>2, ToldServed DEF Served, AllServed
<1>4. ASSUME NEW d \in Clis, cli[d].thread # t PROVE LineOK(d)' /\ WaitOK(d)'
  <2>1. SameTool(d)
    BY <1>4 DEF Answered, SameTool
  <2>2. Waits(d) => cli[d].thread \in Threads \ {t}
    BY <1>4 DEF Served, PlatformTyped, CliRecord, Waits
  <2>3. \A c \in Clis : cli'[c].thread = cli[c].thread \/ cli'[c].thread = NoCaw
    BY DEF Answered, WasTold, Tells
  <2>4. Waits(d) => NoMoreWaiting(cli[d].thread)
    BY <2>3 DEF Waits, NoMoreWaiting
  <2> QED BY <1>1, <2>1, <2>2, <2>4, LineStays, WaitStays DEF Served, AllServed
<1>5. PlatformTyped'
  BY DEF Served, PlatformTyped, Frees, Answered
<1> QED BY <1>2, <1>3, <1>4, <1>5 DEF Served, AllServed

LEMMA HookOrUnhookServed ==
  ASSUME Typed, Served, NEW t \in Threads, HookOrUnhook(t)
  PROVE  Served'
<1>1. /\ Frees(t) /\ UNCHANGED <<handlers, payload>>
      /\ req[t].type \in Ops
      /\ on' = IF req[t].op = "hook" THEN on \cup {req[t].type} ELSE on \ {req[t].type}
      /\ \E reply : Answered(t, reply)
  BY HookOrUnhookEffect, ServedBusy DEF Served, AllServed
<1>2. on' \subseteq Ops /\ payload' \in [Threads -> Args \X Args]
  BY <1>1 DEF Served, PlatformTyped
<1>3. known' = known /\ call' = call
  BY <1>1 DEF handlers
<1> QED BY <1>1, <1>2, <1>3, AnsweredServed

\* A thread that has no request has no arguments.
LEMMA PayloadGoes ==
  ASSUME PlatformTyped, NEW t \in Threads,
         payload' = [payload EXCEPT ![t] = <<NoCaw, NoCaw>>]
  PROVE  /\ payload' \in [Threads -> Args \X Args]
         /\ \A s \in Threads \ {t} : payload'[s] = payload[s]
<1>1. <<NoCaw, NoCaw>> \in Args \X Args
  BY DEF Args
<1> QED BY <1>1 DEF PlatformTyped

LEMMA MissEventServed ==
  ASSUME Typed, Served, NEW t \in Threads, MissEvent(t)
  PROVE  Served'
<1>1. /\ Frees(t) /\ UNCHANGED <<handlers, on>>
      /\ payload' = [payload EXCEPT ![t] = <<NoCaw, NoCaw>>]
      /\ Answered(t, Lost)
  BY MissEventEffect, ServedBusy DEF Served
<1>2. on' \subseteq Ops /\ known' = known /\ call' = call
  BY <1>1 DEF handlers, Served, PlatformTyped
<1> QED BY <1>1, <1>2, PayloadGoes, AnsweredServed DEF Served

\* The flag of a tool that waits is the one that the request is for.
LEMMA ProfileWaits ==
  ASSUME Served, NEW t \in Threads, NEW c \in Clis, cli[c].thread = t, Flag(c) = "profile"
  PROVE  req[t].type = "Profile"
<1>1. Waits(c)
  BY NoEventAssumption DEF Waits
<1> QED BY <1>1 DEF Served, AllServed, WaitOK, EventOf

LEMMA FinishEventServed ==
  ASSUME Typed, Served, NEW t \in Threads, FinishEvent(t)
  PROVE  Served'
<1>1. /\ Frees(t) /\ UNCHANGED <<on, payload>> /\ (Forgets(t) \/ UNCHANGED handlers)
      /\ \E reply : Answered(t, reply)
  BY FinishEventEffect, ServedBusy, ProfileWaits DEF Served, AllServed
<1>2. on' \subseteq Ops /\ payload' \in [Threads -> Args \X Args]
  BY <1>1 DEF Served, PlatformTyped
<1>3. known' = known /\ \A s \in Threads \ {t} : call'[s] = call[s]
  BY <1>1, ForgetsTyped DEF Forgets, handlers
<1> QED BY <1>1, <1>2, <1>3, AnsweredServed

LEMMA HandlerStepServed ==
  ASSUME Typed, Served, NEW t \in Threads, HandlerStep(t)
  PROVE  Served' /\ [Next]_vars /\ UNCHANGED <<on, req, payload, cli>> /\ CallsGoOn
<1>1. Step(t) /\ UNCHANGED <<on, req, payload, cli>>
  BY DEF HandlerStep
<1>2. CallsGoOn /\ [Next]_vars
  BY <1>1, StepGoesOn DEF Next
<1>3. known \subseteq known'
  BY <1>2, KnownGrows
<1>4. \A s \in Threads : SameRequest(s)
  BY <1>1, <1>2 DEF CallsGoOn, SameRequest
<1>5. ASSUME NEW d \in Clis
      PROVE  SameTool(d) /\ (Waits(d) => cli[d].thread \in Threads
                                          /\ NoMoreWaiting(cli[d].thread))
  BY <1>1 DEF SameTool, NoMoreWaiting, Served, PlatformTyped, CliRecord, Waits
<1>6. \A s \in Threads : RequestOK(s)'
  BY <1>3, <1>4, RequestStays DEF Served, AllServed
<1>7. \A d \in Clis : LineOK(d)' /\ WaitOK(d)'
  BY <1>3, <1>4, <1>5, LineStays, WaitStays DEF Served, AllServed
<1>8. PlatformTyped'
  BY <1>1 DEF Served, PlatformTyped
<1> QED BY <1>1, <1>2, <1>6, <1>7, <1>8 DEF Served, AllServed

LEMMA RunEventServed ==
  ASSUME Typed, Served, NEW t \in Threads, RunEvent(t)
  PROVE  Served' /\ [Next]_vars
<1> PICK f \in Ops :
      /\ req' \in [Threads -> Requests] /\ UNCHANGED <<on, cli>>
      /\ req[t].op = "event" /\ req[t].ran = NoCaw
      /\ req'[t].op = "event" /\ req'[t].type = req[t].type /\ req'[t].ran = f
      /\ \A s \in Threads \ {t} : req'[s] = req[s]
      /\ payload' = [payload EXCEPT ![t] = <<NoCaw, NoCaw>>]
      /\ Event(t)
      /\ Handles(t, f, IF f = req[t].type THEN payload[t] ELSE Empty(f))
  BY RunEventEffect DEF Served, AllServed
<1> PICK args : args = IF f = req[t].type THEN payload[t] ELSE Empty(f)
  OBVIOUS
<1>1. Handles(t, f, args) /\ f # NoCaw
  BY NoEventAssumption, OpsAssumption
<1>2. /\ known' = known /\ call'[t].op = f /\ call'[t].a = args[1]
      /\ call'[t].b = IF f \in {"Follow", "Caw"} THEN args[2] ELSE NoCaw
      /\ \A s \in Threads \ {t} : call'[s] = call[s]
  BY <1>1 DEF Handles
<1>3. /\ payload' \in [Threads -> Args \X Args]
      /\ \A s \in Threads \ {t} : payload'[s] = payload[s]
  BY PayloadGoes DEF Served
<1>4. \A s \in Threads \ {t} : SameRequest(s)
  BY <1>2, <1>3 DEF SameRequest
<1>5. \A s \in Threads : RequestOK(s)'
  <2>1. \A s \in Threads \ {t} : RequestOK(s)'
    BY <1>2, <1>4, RequestStays DEF Served, AllServed
  <2>2. RequestOK(t)'
    BY <1>1, <1>2 DEF RequestOK
  <2> QED BY <2>1, <2>2
<1>6. ASSUME NEW d \in Clis PROVE SameTool(d)
  BY DEF SameTool
<1>7. \A d \in Clis : LineOK(d)'
  BY <1>2, <1>6, LineStays DEF Served, AllServed
<1>8. ASSUME NEW d \in Clis, cli[d].thread # t PROVE WaitOK(d)'
  <2>1. Waits(d) => /\ cli[d].thread \in Threads \ {t}
                    /\ NoMoreWaiting(cli[d].thread)
    BY <1>8 DEF Served, PlatformTyped, CliRecord, Waits, NoMoreWaiting
  <2> QED BY <1>4, <1>6, <2>1, WaitStays DEF Served, AllServed
<1>9. ASSUME NEW d \in Clis, cli[d].thread = t PROVE WaitOK(d)'
  <2>1. Waits(d) /\ WaitOK(d)
    BY <1>9, NoEventAssumption DEF Waits, Served, AllServed
  <2>2. Flag(d) \in DOMAIN EventOf /\ \A c \in Clis : cli[c].thread = t => c = d
    BY <1>9, <2>1, WaitFacts DEF Served
  <2> PICK g : g = Flag(d)
    OBVIOUS
  <2> PICK asked : asked = Arguments(Line(d), g)
    OBVIOUS
  <2>3. /\ cli[d].flags # {} /\ (g \in LoginFlags => Line(d).user # Nobody)
        /\ req[t].type = EventOf[g] /\ payload[t] = asked
    BY <1>9, <2>1, <2>2 DEF WaitOK
  <2>4. g \in {"registeruser", "follow", "profile", "caw", "read"}
    BY <2>2 DEF EventOf
  <2>5. f = req[t].type => call'[t].a = asked[1] /\ call'[t].b = asked[2]
    <3>1. ASSUME f = req[t].type PROVE args = asked /\ f = EventOf[g]
      BY <2>3, <3>1
    <3>2. EventOf[g] \notin {"Follow", "Caw"} => asked[2] = NoCaw
      BY <2>4 DEF EventOf, Arguments
    <3> QED BY <1>2, <3>1, <3>2
  <2>6. /\ Line(d)' = Line(d) /\ Flag(d)' = g /\ cli' = cli
    BY <1>6, SameToolFacts
  <2>7. Arguments(Line(d)', g) = asked
    BY <2>6
  <2>8. g \notin {"hook_all", "unhook_all"}
    BY <2>4
  <2> QED BY <1>1, <1>9, <2>2, <2>3, <2>5, <2>6, <2>7, <2>8 DEF WaitOK
<1>10. PlatformTyped'
  BY <1>3 DEF Served, PlatformTyped
<1>11. [Next]_vars
  BY DEF Next
<1> QED BY <1>5, <1>7, <1>8, <1>9, <1>10, <1>11 DEF Served, AllServed

LEMMA FazDownServed ==
  ASSUME Typed, Served, FazDown
  PROVE  Served' /\ [Next]_vars
<1>1. /\ req' \in [Threads -> Requests] /\ on' = {}
      /\ \A t \in Threads : req'[t].op = "none" /\ req'[t].ran = NoCaw
      /\ payload' \in [Threads -> Args \X Args]
      /\ FazDies
      /\ cli' \in [Clis -> CliRecord]
      /\ \A c \in Clis : /\ cli'[c].thread = NoCaw
                        /\ IF Waits(c) THEN WasTold(c, Lost) ELSE SameTool(c)
  BY FazDownEffect, ServedBusy DEF Served
<1>2. [Next]_vars /\ known' = known
  BY <1>1, DiesGoesOn
<1>3. \A t \in Threads : RequestOK(t)'
  BY <1>1, FreeRequest
<1>4. ASSUME NEW c \in Clis PROVE LineOK(c)' /\ WaitOK(c)'
  <2>1. CASE Waits(c)
    BY <1>1, <1>2, <2>1, ToldServed, ServedBusy DEF Served, AllServed, Busy, WasTold
  <2>2. CASE ~Waits(c)
    BY <1>1, <1>2, <2>2, LineStays, WaitStays DEF Served, AllServed
  <2> QED BY <2>1, <2>2
<1>5. PlatformTyped'
  BY <1>1 DEF PlatformTyped
<1> QED BY <1>2, <1>3, <1>4, <1>5 DEF Served, AllServed

\* Nothing happens but, maybe, that the server is started.
Rests == ServerSame /\ UNCHANGED cli

LEMMA RestsServed ==
  ASSUME Served, Rests
  PROVE  Served'
<1>1. /\ \A t \in Threads : SameRequest(t)
      /\ known' = known /\ UNCHANGED <<on, req, payload, cli>>
  BY ServerSameFacts DEF Rests, ServerSame
<1>2. \A d \in Clis : SameTool(d)
  BY <1>1 DEF SameTool
<1>3. \A t \in Threads : RequestOK(t)'
  BY <1>1, RequestStays DEF Served, AllServed
<1>4. ASSUME NEW d \in Clis PROVE LineOK(d)' /\ WaitOK(d)'
  <2>1. Waits(d) => cli[d].thread \in Threads /\ NoMoreWaiting(cli[d].thread)
    BY <1>1 DEF Served, PlatformTyped, CliRecord, Waits, NoMoreWaiting
  <2> QED BY <1>1, <1>2, <2>1, LineStays, WaitStays DEF Served, AllServed
<1>5. PlatformTyped'
  BY <1>1 DEF Served, PlatformTyped
<1> QED BY <1>3, <1>4, <1>5 DEF Served, AllServed

LEMMA NextServed == Typed /\ Served /\ [AllNext]_allVars => Served'
<1> SUFFICES ASSUME Typed, Served, [AllNext]_allVars PROVE Served'
  OBVIOUS
<1>1. ASSUME NEW c \in Clis, Give(c) \/ Proceed(c) \/ GiveUp(c) PROVE Served'
  BY <1>1, GiveServed, DialServed, RefuseServed, CallHookServed, CallEventServed,
     FailedServed DEF Proceed
<1>2. ASSUME NEW t \in Threads, Serve(t) PROVE Served'
  BY <1>2, HookOrUnhookServed, RunEventServed, MissEventServed, HandlerStepServed,
     FinishEventServed DEF Serve
<1>3. FazUp \/ UNCHANGED allVars => Rests
  BY DEF FazUp, allVars, Rests, ServerSame
<1> QED BY <1>1, <1>2, <1>3, FazDownServed, RestsServed DEF AllNext

\* The handlers in the platform make steps of their own specification, or are forgotten.
LEMMA NextHandlers ==
  ASSUME Typed, Served, [AllNext]_allVars
  PROVE  [Next]_vars \/ \E t \in Threads : Forgets(t)
<1>1. ASSUME UNCHANGED handlers PROVE [Next]_vars
  BY <1>1 DEF handlers, vars
<1>2. ASSUME NEW c \in Clis, Give(c) \/ Proceed(c) \/ GiveUp(c) PROVE UNCHANGED handlers
  BY <1>2 DEF Proceed, Give, Dial, Refuse, CallHook, CallEvent, CallFails, GiveUp
<1>3. ASSUME NEW t \in Threads, HookOrUnhook(t) \/ MissEvent(t) PROVE UNCHANGED handlers
  BY <1>3 DEF HookOrUnhook, MissEvent
<1>4. ASSUME NEW t \in Threads, FinishEvent(t) PROVE Forgets(t) \/ UNCHANGED handlers
  BY <1>4 DEF FinishEvent, Forgets, handlers
<1>5. CASE FazUp \/ UNCHANGED allVars
  BY <1>1, <1>5 DEF FazUp, allVars
<1> QED BY <1>1, <1>2, <1>3, <1>4, <1>5, RunEventServed, HandlerStepServed, FazDownServed
        DEF AllNext, Serve

-----------------------------------------------------------------------------
(* What the tools are told.                                                *)

\* Thread t has handled the call that its request asked for, with success.
Proper(t) ==
  /\ req[t].ran = req[t].type /\ req[t].ran # NoCaw
  /\ call[t].op = req[t].type /\ call[t].status = "OK"

\* Tool c has no new success; if it waits, then for a request that is to be run, for
\* one that is just being run, or for one that goes on.
NothingTold(c) ==
  /\ cli'[c].line = cli[c].line
  /\ cli'[c].good = cli[c].good
  /\ "profile" \in cli[c].good => cli'[c].shown = cli[c].shown
  /\ LET t == cli[c].thread IN
     \/ ~Waits(c)'
     \/ req'[cli'[c].thread].ran = NoCaw
     \/ /\ Waits(c) /\ cli'[c].thread = t /\ cli'[c].flags = cli[c].flags
        /\ \/ SameRequest(t)
           \/ /\ req[t].ran = NoCaw /\ req'[t].type = req[t].type
              /\ \E f \in Ops : /\ req'[t].ran = f
                                /\ Handles(t, f, IF f = req[t].type THEN payload[t] ELSE Empty(f))

\* Tool c has succeeded with the flag that it is at.
SuccessTold(c) ==
  LET t == cli[c].thread IN
  /\ Waits(c) /\ ~Waits(c)'
  /\ cli'[c].line = cli[c].line
  /\ cli'[c].good = cli[c].good \cup {Flag(c)}
  /\ Flag(c) = "profile" => cli'[c].shown = call[t].out
  /\ Flag(c) # "profile" => cli'[c].shown = cli[c].shown
  /\ Flag(c) \in DOMAIN EventOf => Proper(t)

LEMMA ToldCases ==
  ASSUME Typed, Served, NEW c \in Clis, Waits(c), NEW reply, WasTold(c, reply),
         reply.ok /\ reply.kept /\ Flag(c) = "profile" => reply.out = call[cli[c].thread].out,
         reply.ok /\ reply.kept /\ Flag(c) \in DOMAIN EventOf => Proper(cli[c].thread)
  PROVE  NothingTold(c) \/ SuccessTold(c)
<1>1. ~Waits(c)' /\ cli'[c].line = cli[c].line
  BY DEF WasTold, Tells, Waits
<1>2. Flag(c) \in cli[c].flags /\ cli[c].flags \cap cli[c].good = {}
  BY WaitFacts DEF Served, AllServed, LineOK
<1>3. CASE Over(c, cli[c].todo, reply) /\ cli[c].success /\ reply.ok /\ reply.kept
  <2>1. /\ cli'[c].good = cli[c].good \cup {Flag(c)}
        /\ Flag(c) = "profile" => cli'[c].shown = reply.out
        /\ Flag(c) # "profile" => cli'[c].shown = cli[c].shown
    BY <1>3 DEF WasTold, Tells
  <2> QED BY <1>1, <1>3, <2>1 DEF SuccessTold
<1>4. CASE ~(Over(c, cli[c].todo, reply) /\ cli[c].success /\ reply.ok /\ reply.kept)
  <2>1. /\ cli'[c].good = cli[c].good
        /\ Flag(c) # "profile" => cli'[c].shown = cli[c].shown
    BY <1>4 DEF WasTold, Tells
  <2> QED BY <1>1, <1>2, <2>1 DEF NothingTold
<1> QED BY <1>3, <1>4

\* A tool that goes on with the same request has nothing new.
LEMMA SameNothing ==
  ASSUME NEW c \in Clis, SameTool(c), Waits(c) => SameRequest(cli[c].thread)
  PROVE  NothingTold(c)
BY DEF SameTool, NothingTold, Waits

\* A tool whose call does not reach the server has nothing new either.
LEMMA FailedNothing ==
  ASSUME Served, NEW c \in Clis, NEW todo, Failed(c, todo)
  PROVE  NothingTold(c)
<1>1. /\ ~Waits(c)' /\ cli'[c].line = cli[c].line
      /\ cli'[c].good = cli[c].good
      /\ Flag(c) # "profile" => cli'[c].shown = cli[c].shown
  <2>1. Tells(c, todo, Lost, cli'[c]) /\ ~Lost.ok
    BY LostReply DEF Failed
  <2> QED BY <2>1 DEF Tells, Waits
<1>2. Flag(c) = "profile" => "profile" \notin cli[c].good
  BY FlagFacts DEF Failed, Served, AllServed, LineOK
<1> QED BY <1>1, <1>2 DEF NothingTold

LEMMA ToolCases ==
  ASSUME Typed, Served, [AllNext]_allVars, NEW c \in Clis
  PROVE  \/ cli'[c].good = {} /\ ~Waits(c)'
         \/ NothingTold(c)
         \/ SuccessTold(c)
<1>s. PlatformTyped /\ Busy /\ (\A t \in Threads : RequestOK(t)) /\ WaitOK(c)
  BY ServedBusy DEF Served, AllServed
<1>w. Waits(c) => cli[c].thread \in Threads
  BY <1>s DEF PlatformTyped, CliRecord, Waits
<1>1. ASSUME NEW d \in Clis, Give(d) \/ Refuse(d) \/ GiveUp(d) \/ CallFails(d)
      PROVE  (cli'[c].good = {} /\ ~Waits(c)') \/ NothingTold(c) \/ SuccessTold(c)
  <2>1. \A t \in Threads : SameRequest(t)
    BY <1>1, ServerSameFacts DEF Give, Refuse, GiveUp, CallFails, ServerSame
  <2>2. OthersSame(d)
    BY <1>1, <1>s, GiveEffect, RefuseEffect, GiveUpEffect, CallFailsEffect DEF Failed
  <2>3. CASE c # d
    BY <1>w, <2>1, <2>2, <2>3, SameNothing DEF OthersSame, SameTool
  <2>4. CASE c = d /\ Give(d)
    BY <1>s, <2>4, GiveEffect DEF Waits
  <2>5. CASE c = d /\ Refuse(d)
    <3>1. ~Waits(c)
      BY <2>5, RefuseServed
    <3> QED BY <1>s, <2>5, <3>1, RefuseEffect DEF NothingTold, Waits
  <2>6. CASE c = d /\ GiveUp(d)
    BY <1>s, <2>6, GiveUpEffect, LostReply, ToldCases
  <2>7. CASE c = d /\ CallFails(d)
    BY <1>s, <2>7, CallFailsEffect, FailedNothing
  <2> QED BY <1>1, <2>3, <2>4, <2>5, <2>6, <2>7
<1>2. ASSUME NEW d \in Clis, CallHook(d)
      PROVE  NothingTold(c)
  <2> PICK e \in Ops, t \in Threads : HookCalled(d, e, t)
    BY <1>2, <1>s, CallHookEffect
  <2>1. UNCHANGED handlers
    BY <1>2 DEF CallHook
  <2>2. CASE c # d
    <3>1. /\ \A s \in Threads \ {t} : SameRequest(s)
          /\ Waits(c) => cli[c].thread \in Threads \ {t}
      BY <2>1, <2>2, TakenServed DEF HookCalled
    <3> QED BY <2>2, <3>1, SameNothing DEF HookCalled
  <2>3. CASE c = d
    BY <2>3 DEF HookCalled, Takes, NothingTold
  <2> QED BY <2>2, <2>3
<1>3. ASSUME NEW d \in Clis, CallEvent(d)
      PROVE  NothingTold(c)
  <2> PICK t \in Threads : EventCalled(d, t)
    BY <1>3, <1>s, CallEventEffect
  <2>1. UNCHANGED handlers
    BY <1>3 DEF CallEvent
  <2>2. \A s \in Threads \ {t} : payload'[s] = payload[s]
    BY <1>s DEF EventCalled, PlatformTyped
  <2>3. \A a \in Clis \ {d} : SameTool(a)
    BY DEF EventCalled, OthersSame, SameTool
  <2>4. CASE c # d
    <3>1. /\ \A s \in Threads \ {t} : SameRequest(s)
          /\ Waits(c) => cli[c].thread \in Threads \ {t}
      BY <2>1, <2>2, <2>3, <2>4, TakenServed DEF EventCalled
    <3> QED BY <2>3, <2>4, <3>1, SameNothing
  <2>5. CASE c = d
    BY <2>5 DEF EventCalled, Takes, NothingTold
  <2> QED BY <2>4, <2>5
<1>4. ASSUME NEW t \in Threads, NEW reply, Answered(t, reply), Frees(t),
             \A s \in Threads \ {t} : payload'[s] = payload[s] /\ call'[s] = call[s],
             cli[c].thread = t /\ reply.ok /\ reply.kept /\ Flag(c) = "profile" =>
               reply.out = call[t].out,
             cli[c].thread = t /\ reply.ok /\ reply.kept /\ Flag(c) \in DOMAIN EventOf =>
               Proper(t)
      PROVE  NothingTold(c) \/ SuccessTold(c)
  <2>1. CASE cli[c].thread = t
    <3>1. Waits(c)
      BY <2>1, NoEventAssumption DEF Waits
    <3>2. WasTold(c, reply)
      BY <1>4, <2>1 DEF Answered
    <3> QED BY <1>4, <2>1, <3>1, <3>2, ToldCases
  <2>2. CASE cli[c].thread # t
    <3>1. Waits(c) => SameRequest(cli[c].thread)
      BY <1>4, <1>w, <2>2 DEF Frees, SameCall, SameRequest
    <3>2. SameTool(c)
      BY <1>4, <2>2 DEF Answered, SameTool
    <3> QED BY <3>1, <3>2, SameNothing
  <2> QED BY <2>1, <2>2
<1>5. ASSUME NEW t \in Threads, HookOrUnhook(t)
      PROVE  NothingTold(c) \/ SuccessTold(c)
  <2>1. /\ Frees(t) /\ UNCHANGED <<handlers, payload>>
        /\ req[t].op \in {"hook", "unhook"}
    BY <1>5, <1>s, HookOrUnhookEffect
  <2> PICK reply : Answered(t, reply)
    BY <1>5, <1>s, HookOrUnhookEffect
  <2>2. cli[c].thread = t => Flag(c) # "profile" /\ Flag(c) \notin DOMAIN EventOf
    BY <1>s, <2>1, WaitFacts, NoEventAssumption DEF Waits, EventOf
  <2>3. call' = call
    BY <2>1 DEF handlers
  <2> QED BY <1>4, <2>1, <2>2, <2>3
<1>6. ASSUME NEW t \in Threads, MissEvent(t)
      PROVE  NothingTold(c) \/ SuccessTold(c)
  <2>1. /\ Frees(t) /\ UNCHANGED handlers
        /\ Answered(t, Lost)
        /\ \A s \in Threads \ {t} : payload'[s] = payload[s]
    BY <1>6, <1>s, MissEventEffect, PayloadGoes
  <2>2. call' = call
    BY <2>1 DEF handlers
  <2> QED BY <1>4, <2>1, <2>2, LostReply
<1>7. ASSUME NEW t \in Threads, FinishEvent(t)
      PROVE  NothingTold(c) \/ SuccessTold(c)
  <2>1. /\ Frees(t) /\ payload' = payload /\ (Forgets(t) \/ UNCHANGED handlers)
        /\ req[t].op = "event" /\ req[t].ran # NoCaw
    BY <1>7, <1>s, FinishEventEffect, ProfileWaits
  <2> PICK reply :
        /\ reply.ok = (call[t].status = "OK") /\ reply.own = (req[t].ran = req[t].type)
        /\ reply.kept = ~req[t].gone /\ reply.out = call[t].out
        /\ Answered(t, reply)
    BY <1>7, <1>s, FinishEventEffect, ProfileWaits
  <2>2. reply.ok /\ reply.kept => Proper(t)
    <3>1. ~req[t].gone => req[t].ran = req[t].type
      BY <1>s, <2>1 DEF PlatformTyped, Requests
    <3> QED BY <1>s, <2>1, <3>1 DEF Proper, RequestOK
  <2>3. \A s \in Threads \ {t} : call'[s] = call[s]
    BY <2>1, ForgetsTyped DEF handlers
  <2> QED BY <1>4, <2>1, <2>2, <2>3
<1>8. ASSUME NEW t \in Threads, HandlerStep(t) PROVE NothingTold(c)
  <2>1. UNCHANGED <<on, req, payload, cli>> /\ CallsGoOn
    BY <1>8, HandlerStepServed
  <2>2. \A s \in Threads : SameRequest(s)
    BY <2>1 DEF CallsGoOn, SameRequest
  <2>3. SameTool(c)
    BY <2>1 DEF SameTool
  <2> QED BY <1>w, <2>2, <2>3, SameNothing
<1>9. ASSUME NEW t \in Threads, RunEvent(t) PROVE NothingTold(c)
  <2> PICK f \in Ops :
        /\ UNCHANGED <<on, cli>>
        /\ req[t].op = "event" /\ req[t].ran = NoCaw
        /\ req'[t].type = req[t].type /\ req'[t].ran = f
        /\ \A s \in Threads \ {t} : req'[s] = req[s]
        /\ payload' = [payload EXCEPT ![t] = <<NoCaw, NoCaw>>]
        /\ Handles(t, f, IF f = req[t].type THEN payload[t] ELSE Empty(f))
    BY <1>9, <1>s, RunEventEffect
  <2>1. SameTool(c) /\ cli' = cli
    BY DEF SameTool
  <2>2. CASE cli[c].thread # t
    <3>1. \A s \in Threads \ {t} : payload'[s] = payload[s] /\ call'[s] = call[s]
      BY <1>s, PayloadGoes DEF Handles
    <3>2. Waits(c) => SameRequest(cli[c].thread)
      BY <1>w, <2>2, <3>1 DEF SameRequest
    <3> QED BY <2>1, <3>2, SameNothing
  <2>3. CASE cli[c].thread = t
    <3>1. Waits(c)
      BY <2>3, NoEventAssumption DEF Waits
    <3> QED BY <2>1, <2>3, <3>1 DEF NothingTold
  <2> QED BY <2>2, <2>3
<1>10. ASSUME FazDown PROVE NothingTold(c) \/ SuccessTold(c)
  <2>1. CASE Waits(c)
    BY <1>10, <1>s, <2>1, FazDownEffect, LostReply, ToldCases
  <2>2. CASE ~Waits(c)
    BY <1>10, <1>s, <2>2, FazDownEffect, SameNothing
  <2> QED BY <2>1, <2>2
<1>11. ASSUME FazUp \/ UNCHANGED allVars PROVE NothingTold(c)
  <2>1. Rests
    BY <1>11 DEF FazUp, allVars, Rests, ServerSame
  <2>2. SameTool(c) /\ \A s \in Threads : SameRequest(s)
    BY <2>1, ServerSameFacts DEF Rests, SameTool
  <2> QED BY <1>w, <2>2, SameNothing
<1>12. ASSUME NEW d \in Clis, Dial(d) PROVE NothingTold(c)
  <2>1. SameTool(c) /\ \A s \in Threads : SameRequest(s)
    BY <1>12, <1>s, DialEffect, ServerSameFacts DEF Dial, ServerSame
  <2> QED BY <1>w, <2>1, SameNothing
<1> QED BY <1>1, <1>2, <1>3, <1>5, <1>6, <1>7, <1>8, <1>9, <1>10, <1>11, <1>12
        DEF AllNext, Proceed, Serve

\* As long as nothing is unhooked under an event, what a tool reports is good.
LEMMA HonestStays ==
  ASSUME Typed, Served, [AllNext]_allVars, NEW c \in Clis, Honest(c),
         \A t \in Threads : ~req[t].gone
  PROVE  Honest(c)'
<1>s. PlatformTyped /\ Busy /\ \A t \in Threads : RequestOK(t)
  BY ServedBusy DEF Served, AllServed
<1>1. ASSUME SameTool(c) PROVE Honest(c)'
  BY <1>1 DEF SameTool, Honest
<1>2. ASSUME NEW todo, NEW reply, Tells(c, todo, reply, cli'[c]), reply.ok => reply.kept
      PROVE  Honest(c)'
  BY <1>2 DEF Tells, Honest
<1>3. ASSUME NEW t \in Threads, NEW reply, Answered(t, reply), reply.ok => reply.kept
      PROVE  Honest(c)'
  <2>1. WasTold(c, reply) \/ cli'[c] = cli[c]
    BY <1>3 DEF Answered
  <2> QED BY <1>1, <1>2, <1>3, <2>1 DEF WasTold, SameTool
<1>4. ASSUME NEW d \in Clis, OthersSame(d), d = c => Honest(c)' PROVE Honest(c)'
  BY <1>1, <1>4 DEF OthersSame, SameTool
<1>5. ASSUME NEW d \in Clis, Give(d) PROVE Honest(c)'
  BY <1>4, <1>5, <1>s, GiveEffect DEF Honest
<1>6. ASSUME NEW d \in Clis, Dial(d) PROVE Honest(c)'
  BY <1>1, <1>6, <1>s, DialEffect
<1>7. ASSUME NEW d \in Clis, Refuse(d) PROVE Honest(c)'
  BY <1>4, <1>7, <1>s, RefuseEffect DEF Honest
<1>8. ASSUME NEW d \in Clis, CallHook(d) PROVE Honest(c)'
  BY <1>1, <1>8, <1>s, CallHookEffect DEF HookCalled, Honest
<1>9. ASSUME NEW d \in Clis, CallEvent(d) PROVE Honest(c)'
  BY <1>4, <1>9, <1>s, CallEventEffect DEF EventCalled, Honest
<1>10. ASSUME NEW d \in Clis, CallFails(d) PROVE Honest(c)'
  <2> PICK todo \in SUBSET Ops : Failed(d, todo)
    BY <1>10, <1>s, CallFailsEffect
  <2> QED BY <1>2, <1>4, LostReply DEF Failed
<1>11. ASSUME NEW d \in Clis, GiveUp(d) PROVE Honest(c)'
  BY <1>2, <1>4, <1>11, <1>s, GiveUpEffect, LostReply DEF WasTold
<1>12. ASSUME NEW t \in Threads, HookOrUnhook(t) PROVE Honest(c)'
  BY <1>3, <1>12, <1>s, HookOrUnhookEffect
<1>13. ASSUME NEW t \in Threads, MissEvent(t) PROVE Honest(c)'
  BY <1>3, <1>13, <1>s, MissEventEffect, LostReply
<1>14. ASSUME NEW t \in Threads, FinishEvent(t) PROVE Honest(c)'
  <2> PICK reply : reply.kept = ~req[t].gone /\ Answered(t, reply)
    BY <1>14, <1>s, FinishEventEffect, ProfileWaits
  <2> QED BY <1>3
<1>15. ASSUME FazDown PROVE Honest(c)'
  BY <1>1, <1>2, <1>15, <1>s, FazDownEffect, LostReply DEF WasTold
<1>16. ASSUME UNCHANGED cli PROVE Honest(c)'
  BY <1>1, <1>16 DEF SameTool
<1> QED BY <1>5, <1>6, <1>7, <1>8, <1>9, <1>10, <1>11, <1>12, <1>13, <1>14, <1>15, <1>16
        DEF AllNext, Proceed, Serve, HandlerStep, RunEvent, FazUp, allVars

\* Where no tool unhooks, nothing is unhooked.
LEMMA CalmStays ==
  ASSUME \A c \in Clis : \A n \in 1..Len(Lines[c]) : "unhook_all" \notin Lines[c][n].flags,
         Typed, Served, [AllNext]_allVars,
         \A t \in Threads : req[t].op # "unhook" /\ ~req[t].gone
  PROVE  \A t \in Threads : req'[t].op # "unhook" /\ ~req'[t].gone
<1> DEFINE Calm == \A t \in Threads : req[t].op # "unhook" /\ ~req[t].gone
<1>s. PlatformTyped /\ Busy /\ \A t \in Threads : RequestOK(t)
  BY ServedBusy DEF Served, AllServed
<1>1. ASSUME req' = req PROVE Calm'
  BY <1>1
<1>2. ASSUME NEW t \in Threads, Frees(t) PROVE Calm'
  BY <1>2 DEF Frees, SameCall
<1>3. ASSUME NEW d \in Clis, CallHook(d) PROVE Calm'
  <2> PICK e \in Ops, t \in Threads : HookCalled(d, e, t)
    BY <1>3, <1>s, CallHookEffect
  <2>1. Flag(d) \in cli[d].flags
    BY <1>s, FlagFacts DEF HookCalled
  <2>2. Flag(d) # "unhook_all"
    BY <2>1 DEF Served, AllServed, LineOK, Line
  <2>3. Takes(t, "hook", e)
    BY <2>2 DEF HookCalled, HookFlags
  <2> QED BY <2>3 DEF Takes
<1>4. ASSUME NEW d \in Clis, CallEvent(d) PROVE Calm'
  <2> PICK t \in Threads : EventCalled(d, t)
    BY <1>4, <1>s, CallEventEffect
  <2> QED BY DEF EventCalled, Takes
<1>5. ASSUME NEW t \in Threads, HookOrUnhook(t) \/ MissEvent(t) \/ FinishEvent(t) PROVE Calm'
  BY <1>2, <1>5, <1>s, HookOrUnhookEffect, MissEventEffect, FinishEventEffect, ProfileWaits
<1>6. ASSUME NEW t \in Threads, RunEvent(t) PROVE Calm'
  BY <1>6, <1>s, RunEventEffect
<1>7. ASSUME FazDown PROVE Calm'
  BY <1>7, <1>s, FazDownEffect
<1> QED BY <1>1, <1>3, <1>4, <1>5, <1>6, <1>7
        DEF AllNext, Proceed, Serve, HandlerStep, Give, Dial, Refuse, CallFails, GiveUp,
            FazUp, allVars

-----------------------------------------------------------------------------
(* What a tool was told is true.                                           *)

LEMMA LogKeeps ==
  ASSUME Typed, Typed', Grows, NEW k \in StoreKeys
  PROVE  /\ dur[k] # <<>> => dur'[k] # <<>>
         /\ Range(dur[k]) \subseteq Range(dur'[k])
<1>1. dur[k] \in Seq(Entries) /\ dur'[k] \in Seq(Entries)
  BY DEF Typed, StoreOK
<1> QED BY <1>1, RangeFacts DEF Grows

\* The names that the line of a tool with a flag before it or behind it gives.
LEMMA NamesFit ==
  ASSUME Served, NEW c \in Clis, cli[c].flags \cup cli[c].good # {}
  PROVE  /\ Line(c).registeruser \in Users /\ Line(c).user \in Users
         /\ Line(c).follow \in Users
BY LineFacts DEF Served, AllServed, LineOK, Line

\* The log has what tool c is being told that it has.
LEMMA SuccessKept ==
  ASSUME HandlersOK, Served, NEW c \in Clis, SuccessTold(c)
  PROVE  /\ Flag(c) = "registeruser" => dur[UserKey(Line(c).registeruser)] # <<>>
         /\ Flag(c) = "follow" =>
              /\ Line(c).follow \in Range(dur[FollowingsKey(Line(c).user)])
              /\ Line(c).user \in Range(dur[FollowersKey(Line(c).follow)])
<1> PICK t : t = cli[c].thread
  OBVIOUS
<1>1. Waits(c) /\ t \in Threads /\ Kept(t)
  BY DEF SuccessTold, HandlersOK, AllKept, Waits, Served, PlatformTyped, CliRecord
<1> SUFFICES ASSUME Flag(c) \in {"registeruser", "follow"}
             PROVE  /\ Flag(c) = "registeruser" => dur[UserKey(Line(c).registeruser)] # <<>>
                    /\ Flag(c) = "follow" =>
                         /\ Line(c).follow \in Range(dur[FollowingsKey(Line(c).user)])
                         /\ Line(c).user \in Range(dur[FollowersKey(Line(c).follow)])
  OBVIOUS
<1>2. Flag(c) \in DOMAIN EventOf
  BY DEF EventOf
<1>3. Proper(t)
  BY <1>2 DEF SuccessTold
<1>4. /\ req[t].type = EventOf[Flag(c)]
      /\ call[t].a = Arguments(Line(c), Flag(c))[1]
      /\ call[t].b = Arguments(Line(c), Flag(c))[2]
  BY <1>1, <1>2, <1>3 DEF Served, AllServed, WaitOK, Proper
<1>5. CASE Flag(c) = "registeruser"
  <2>1. call[t].op = "RegisterUser" /\ call[t].a = Line(c).registeruser
    BY <1>3, <1>4, <1>5 DEF Proper, EventOf, Arguments
  <2> QED BY <1>1, <1>3, <1>5, <2>1 DEF Kept, Proper
<1>6. CASE Flag(c) = "follow"
  <2>1. /\ call[t].op = "Follow" /\ call[t].a = Line(c).user
        /\ call[t].b = Line(c).follow
    BY <1>3, <1>4, <1>6 DEF Proper, EventOf, Arguments
  <2> QED BY <1>1, <1>3, <1>6, <2>1 DEF Kept, Proper
<1> QED BY <1>5, <1>6

\* Every step leaves true what the tools have been told.
LEMMA GoodStays ==
  ASSUME HandlersOK, HandlersOK', Grows, Served, NEW c \in Clis, GoodKept(c),
         \/ cli'[c].good = {} /\ ~Waits(c)'
         \/ NothingTold(c)
         \/ SuccessTold(c)
  PROVE  GoodKept(c)'
<1>1. CASE cli'[c].good = {}
  BY <1>1 DEF GoodKept, InStore
<1>2. CASE NothingTold(c) \/ SuccessTold(c)
  <2>1. Line(c)' = Line(c)
    BY <1>2 DEF NothingTold, SuccessTold, Line
  <2>2. \/ cli'[c].good = cli[c].good
        \/ SuccessTold(c) /\ cli'[c].good = cli[c].good \cup {Flag(c)}
    BY <1>2 DEF NothingTold, SuccessTold
  <2>3. SuccessTold(c) => cli[c].flags # {}
    BY ServedBusy DEF SuccessTold, Busy
  <2>4. CASE cli'[c].good # {}
    <3>1. /\ Line(c).registeruser \in Users /\ Line(c).user \in Users
          /\ Line(c).follow \in Users
      BY <2>2, <2>3, <2>4, NamesFit
    <3>2. /\ UserKey(Line(c).registeruser) \in StoreKeys
          /\ FollowingsKey(Line(c).user) \in StoreKeys
          /\ FollowersKey(Line(c).follow) \in StoreKeys
      BY <3>1, KeysInStore
    <3>3. \A k \in StoreKeys : /\ dur[k] # <<>> => dur'[k] # <<>>
                               /\ Range(dur[k]) \subseteq Range(dur'[k])
      BY LogKeeps DEF HandlersOK
    <3>4. /\ "registeruser" \in cli'[c].good => dur[UserKey(Line(c).registeruser)] # <<>>
          /\ "follow" \in cli'[c].good =>
               /\ Line(c).follow \in Range(dur[FollowingsKey(Line(c).user)])
               /\ Line(c).user \in Range(dur[FollowersKey(Line(c).follow)])
      BY <2>2, SuccessKept DEF GoodKept, InStore
    <3> QED BY <2>1, <3>2, <3>3, <3>4 DEF GoodKept, InStore
  <2> QED BY <1>1, <2>4
<1> QED BY <1>1, <1>2

\* A profile that begins after the follow has succeeded has to show it, and an answer
\* that is OK shows what it has to.
LEMMA ShownStays ==
  ASSUME HandlersOK, Served, AllWhole, NEW c \in Clis, GoodKept(c), GoodShown(c),
         \/ cli'[c].good = {} /\ ~Waits(c)'
         \/ NothingTold(c)
         \/ SuccessTold(c)
  PROVE  GoodShown(c)'
<1> SUFFICES ASSUME "follow" \in cli'[c].good, NothingTold(c) \/ SuccessTold(c)
             PROVE  GoodShown(c)'
  BY DEF GoodShown
<1> PICK t : t = cli[c].thread
  OBVIOUS
<1>1. Line(c)' = Line(c)
  BY DEF NothingTold, SuccessTold, Line
<1>2. CASE NothingTold(c)
  <2>1. cli'[c].good = cli[c].good
    BY <1>2 DEF NothingTold
  <2>2. "profile" \in cli'[c].good => Line(c).follow \in Range(cli'[c].shown[1])
    BY <1>2, <2>1 DEF NothingTold, GoodShown
  <2>3. ASSUME Waits(c)', Flag(c)' = "profile", req'[cli'[c].thread].ran = "Profile"
        PROVE  Line(c).follow \in call'[cli'[c].thread].must[1]
    <3>1. "Profile" # NoCaw
      BY NoEventAssumption DEF Events
    <3>2. /\ Waits(c) /\ cli'[c].thread = t /\ cli'[c].flags = cli[c].flags
          /\ \/ SameRequest(t)
             \/ /\ req[t].ran = NoCaw /\ req'[t].type = req[t].type
                /\ \E f \in Ops :
                     /\ req'[t].ran = f
                     /\ Handles(t, f, IF f = req[t].type THEN payload[t] ELSE Empty(f))
      BY <1>2, <2>3, <3>1 DEF NothingTold
    <3>3. Flag(c) = "profile"
      BY <2>3, <3>2 DEF Flag
    <3>4. CASE SameRequest(t)
      <4>1. req[t].ran = "Profile" /\ call'[t].must = call[t].must
        BY <2>3, <3>2, <3>4 DEF SameRequest
      <4> QED BY <2>1, <3>2, <3>3, <4>1 DEF GoodShown
    <3>5. CASE ~SameRequest(t)
      <4>1. req[t].type = "Profile" /\ payload[t] = <<Line(c).user, NoCaw>>
        <5>1. "profile" \in DOMAIN EventOf /\ EventOf["profile"] = "Profile"
          BY DEF EventOf
        <5>2. Arguments(Line(c), "profile") = <<Line(c).user, NoCaw>>
          BY DEF Arguments
        <5>3. WaitOK(c) /\ req[t].ran = NoCaw
          BY <3>2, <3>5 DEF Served, AllServed
        <5>4. req[t].type = EventOf["profile"] /\ payload[t] = Arguments(Line(c), "profile")
          BY <3>2, <3>3, <5>1, <5>3 DEF WaitOK
        <5> QED BY <5>1, <5>2, <5>4
      <4>2. Handles(t, "Profile", payload[t])
        BY <2>3, <3>2, <3>5, <4>1
      <4>3. call'[t].must[1] = Range(dur[FollowingsKey(Line(c).user)])
        BY <4>1, <4>2 DEF Handles
      <4> QED BY <2>1, <3>2, <4>3 DEF GoodKept, InStore
    <3> QED BY <3>4, <3>5
  <2> QED BY <1>1, <2>2, <2>3 DEF GoodShown
<1>3. CASE SuccessTold(c)
  <2>1. /\ Waits(c) /\ ~Waits(c)' /\ cli'[c].good = cli[c].good \cup {Flag(c)}
        /\ t \in Threads /\ Flag(c) \in cli[c].flags
    BY <1>3, WaitFacts DEF SuccessTold, Served, AllServed
  <2>2. CASE Flag(c) = "follow"
    <3>1. "profile" \notin cli'[c].good
      BY <2>1, <2>2 DEF Served, AllServed, LineOK
    <3> QED BY <2>1, <3>1 DEF GoodShown
  <2>3. CASE Flag(c) = "profile"
    <3>1. "follow" \in cli[c].good /\ cli'[c].shown = call[t].out /\ Proper(t)
      BY <1>3, <2>1, <2>3 DEF SuccessTold, EventOf
    <3>2. req[t].type = "Profile"
      BY <2>1, <2>3, ProfileWaits
    <3>3. Line(c).follow \in call[t].must[1]
      BY <2>1, <2>3, <3>1, <3>2 DEF GoodShown, Proper
    <3>4. call[t].must[1] \subseteq Range(call[t].out[1])
      BY <2>1, <3>1, <3>2 DEF AllWhole, Whole, Proper
    <3> QED BY <1>1, <2>1, <3>1, <3>3, <3>4 DEF GoodShown
  <2>4. CASE Flag(c) \notin {"follow", "profile"}
    <3>1. /\ "follow" \in cli[c].good
          /\ "profile" \in cli'[c].good => "profile" \in cli[c].good
          /\ cli'[c].shown = cli[c].shown
      BY <1>3, <2>1, <2>4 DEF SuccessTold
    <3> QED BY <1>1, <2>1, <3>1 DEF GoodShown
  <2> QED BY <2>2, <2>3, <2>4
<1> QED BY <1>2, <1>3

\* What holds of the platform whatever happens to it.
Platform == HandlersOK /\ Served /\ \A c \in Clis : GoodKept(c)

LEMMA InitPlatform == AllInit => Platform
<1> SUFFICES ASSUME AllInit PROVE Platform
  OBVIOUS
<1>1. HandlersOK
  BY InitTyped, InitStored, InitKept, InitKnown DEF AllInit, HandlersOK
<1>2. \A c \in Clis : cli[c].good = {}
  BY DEF AllInit
<1> QED BY <1>1, <1>2, InitServed DEF Platform, GoodKept, InStore

LEMMA NextPlatform == Platform /\ [AllNext]_allVars => Platform'
<1> SUFFICES ASSUME Platform, [AllNext]_allVars PROVE Platform'
  OBVIOUS
<1>1. [Next]_vars \/ \E t \in Threads : Forgets(t)
  BY NextHandlers DEF Platform, HandlersOK
<1>2. HandlersOK' /\ Grows
  BY <1>1, HandlersGoOn DEF Platform
<1>3. Served'
  BY NextServed DEF Platform, HandlersOK
<1>4. ASSUME NEW c \in Clis PROVE GoodKept(c)'
  BY <1>2, GoodStays, ToolCases DEF Platform, HandlersOK
<1> QED BY <1>2, <1>3, <1>4 DEF Platform

\* What holds as long as no stream is cut.
Shown == AllWhole /\ \A c \in Clis : GoodShown(c)

LEMMA InitShown == AllInit => Shown
<1> SUFFICES ASSUME AllInit PROVE Shown
  OBVIOUS
<1>1. AllWhole
  BY InitIdle DEF AllInit, AllWhole, Whole
<1>2. \A c \in Clis : cli[c].good = {}
  BY DEF AllInit
<1> QED BY <1>1, <1>2 DEF Shown, GoodShown

LEMMA NextShown ==
  ASSUME "cut" \notin Faults
  PROVE  Platform /\ Shown /\ [AllNext]_allVars => Shown'
<1> SUFFICES ASSUME Platform, Shown, [AllNext]_allVars PROVE Shown'
  OBVIOUS
<1>1. [Next]_vars \/ \E t \in Threads : Forgets(t)
  BY NextHandlers DEF Platform, HandlersOK
<1>2. AllWhole'
  BY <1>1, HandlersGoOn DEF Platform, Shown
<1>3. ASSUME NEW c \in Clis PROVE GoodShown(c)'
  BY ShownStays, ToolCases DEF Platform, HandlersOK, Shown
<1> QED BY <1>2, <1>3 DEF Shown

-----------------------------------------------------------------------------
(* What one tool has hooked.                                               *)

\* A tool with a flag before it or behind it that hooks or unhooks is a hooker.
LEMMA HookersAre ==
  ASSUME Served, NEW c \in Clis, (cli[c].flags \cup cli[c].good) \cap HookFlags # {}
  PROVE  Hooker(c)
BY DEF Served, AllServed, LineOK, Line, Hooker

\* For the others there is nothing to say.
OthersOK == \A c \in Clis : Hooker(c) \/ HookedOK(c)

LEMMA OthersHooked == Served => OthersOK
<1> SUFFICES ASSUME Served, NEW c \in Clis, ~Hooker(c) PROVE HookedOK(c)
  BY DEF OthersOK
<1>1. (cli[c].flags \cup cli[c].good) \cap HookFlags = {}
  BY HookersAre
<1>2. Waits(c) => Flag(c) \in cli[c].flags
  BY WaitFacts DEF Served, AllServed
<1> QED BY <1>1, <1>2 DEF HookedOK, HookFlags

\* The table keeps what tool c has hooked, and the tool goes on.
LEMMA HookedStays ==
  ASSUME Served, Served', NEW c \in Clis, HookedOK(c), SameTool(c), on \subseteq on',
         Waits(c) => req'[cli[c].thread].type = req[cli[c].thread].type
  PROVE  HookedOK(c)'
<1>1. /\ (Waits(c)' <=> Waits(c)) /\ Flag(c)' = Flag(c)
      /\ cli'[c].thread = cli[c].thread
  BY SameToolFacts DEF SameTool
<1>2. on' \subseteq Ops
  BY DEF Served, PlatformTyped
<1>3. ASSUME cli'[c].spared, cli'[c].success, "hook_all" \in cli'[c].flags, NEW e \in Ops
      PROVE  \/ e \in cli'[c].todo \cup on'
             \/ Waits(c)' /\ req'[cli'[c].thread].type = e
  BY <1>1, <1>3 DEF HookedOK, SameTool
<1>4. cli'[c].spared /\ "hook_all" \in cli'[c].good => on' = Ops
  BY <1>2 DEF HookedOK, SameTool
<1>5. Waits(c)' /\ Flag(c)' = "unhook_all" => ~cli'[c].spared
  BY <1>1 DEF HookedOK, SameTool
<1> QED BY <1>3, <1>4, <1>5 DEF HookedOK

\* After an answer to anything but a hook or unhook tool c begins with all functions.
LEMMA ToldHooked ==
  ASSUME Served, NEW c \in Clis, HookedOK(c), on' = on, Flag(c) \notin HookFlags,
         NEW todo, NEW reply, Tells(c, todo, reply, cli'[c])
  PROVE  HookedOK(c)'
<1>1. Over(c, todo, reply) /\ Flag(c) # "hook_all"
  BY DEF Over, HookFlags
<1>2. /\ cli'[c].todo = Ops /\ ~Waits(c)'
      /\ cli'[c].spared => cli[c].spared
      /\ "hook_all" \in cli'[c].good => "hook_all" \in cli[c].good
  BY <1>1 DEF Tells, Waits
<1> QED BY <1>2 DEF HookedOK

\* After a call that fails there is nothing to say of what tool c hooks.
LEMMA LostHooked ==
  ASSUME Served, NEW c \in Clis, cli[c].flags # {}, HookedOK(c), on' = on,
         NEW todo, Tells(c, todo, Lost, cli'[c])
  PROVE  HookedOK(c)'
<1>1. /\ ~Waits(c)' /\ cli'[c].good = cli[c].good
      /\ cli'[c].spared => cli[c].spared
      /\ ~Over(c, todo, Lost) => ~cli'[c].success
      /\ Over(c, todo, Lost) => cli'[c].flags = cli[c].flags \ {Flag(c)} /\ cli'[c].todo = Ops
  BY LostReply DEF Tells, Waits
<1>2. cli'[c].success /\ "hook_all" \in cli'[c].flags => cli'[c].todo = Ops
  BY <1>1
<1> QED BY <1>1, <1>2 DEF HookedOK

\* The tool that waits for a hook or unhook is a hooker, and at that flag.
LEMMA AwaiterFacts ==
  ASSUME Served, NEW c \in Clis, cli[c].thread \in Threads,
         req[cli[c].thread].op \in {"hook", "unhook"}
  PROVE  /\ Hooker(c) /\ Waits(c)
         /\ req[cli[c].thread].op = "hook" => Flag(c) = "hook_all"
         /\ req[cli[c].thread].op = "unhook" => Flag(c) = "unhook_all"
<1>1. Waits(c) /\ WaitOK(c) /\ PlatformTyped
  BY NoEventAssumption DEF Waits, Served, AllServed
<1>2. /\ Flag(c) \in cli[c].flags
      /\ req[cli[c].thread].op = "hook" => Flag(c) = "hook_all"
      /\ req[cli[c].thread].op = "unhook" => Flag(c) = "unhook_all"
  BY <1>1, WaitFacts
<1>3. Hooker(c)
  BY <1>2, HookersAre DEF HookFlags
<1> QED BY <1>1, <1>2, <1>3

\* The hooks and unhooks that wait are those of the one tool that hooks.
LEMMA AwaitedBy ==
  ASSUME OneHooker, Served, HooksAwaited, NEW c \in Clis, Hooker(c), NEW t \in Threads,
         req[t].op \in {"hook", "unhook"}
  PROVE  /\ cli[c].thread = t /\ Waits(c)
         /\ req[t].op = "hook" => Flag(c) = "hook_all"
         /\ req[t].op = "unhook" => Flag(c) = "unhook_all"
<1> PICK d \in Clis : cli[d].thread = t
  BY DEF HooksAwaited
<1>1. d = c
  BY AwaiterFacts DEF OneHooker
<1> QED BY <1>1, AwaiterFacts

\* No answer to a hook or unhook is lost as long as nobody who hooks has a deadline: a
\* thread that is being waited for goes on, or is through.
LEMMA NextAwaited ==
  ASSUME OneHooker, Typed, Served, HooksAwaited, [AllNext]_allVars
  PROVE  HooksAwaited'
<1>s. PlatformTyped /\ Busy /\ \A t \in Threads : RequestOK(t)
  BY ServedBusy DEF Served, AllServed
<1>1. ASSUME \A t \in Threads, a \in Clis :
               req'[t].op \in {"hook", "unhook"} /\ cli[a].thread = t => cli'[a].thread = t,
             \A t \in Threads : req'[t].op \in {"hook", "unhook"} =>
               req'[t].op = req[t].op \/ \E c \in Clis : cli'[c].thread = t
      PROVE  HooksAwaited'
  BY <1>1 DEF HooksAwaited
<1>2. ASSUME NEW d \in Clis, ~Waits(d), OthersSame(d), req' = req PROVE HooksAwaited'
  BY <1>1, <1>2, NoEventAssumption DEF Waits, OthersSame
<1>3. ASSUME NEW d \in Clis, Give(d) PROVE HooksAwaited'
  <2>1. OthersSame(d) /\ ~Waits(d) /\ req' = req
    BY <1>3, <1>s, GiveEffect DEF Busy, Give
  <2> QED BY <1>2, <2>1
<1>4. ASSUME NEW d \in Clis, Refuse(d) PROVE HooksAwaited'
  <2>1. OthersSame(d) /\ ~Waits(d) /\ req' = req
    BY <1>4, <1>s, RefuseEffect, RefuseServed DEF Refuse
  <2> QED BY <1>2, <2>1
<1>5. ASSUME NEW d \in Clis, CallHook(d) PROVE HooksAwaited'
  <2> PICK e \in Ops, t \in Threads : HookCalled(d, e, t)
    BY <1>5, <1>s, CallHookEffect
  <2>1. /\ ~Waits(d) /\ cli'[d].thread = t /\ \A a \in Clis \ {d} : cli'[a].thread = cli[a].thread
        /\ \A s \in Threads \ {t} : req'[s].op = req[s].op
    BY DEF HookCalled, Takes, SameTool
  <2> QED BY <1>1, <2>1, NoEventAssumption DEF Waits
<1>6. ASSUME NEW d \in Clis, CallEvent(d) PROVE HooksAwaited'
  <2> PICK t \in Threads : EventCalled(d, t)
    BY <1>6, <1>s, CallEventEffect
  <2>1. /\ ~Waits(d) /\ cli'[d].thread = t /\ \A a \in Clis \ {d} : cli'[a] = cli[a]
        /\ \A s \in Threads \ {t} : req'[s].op = req[s].op
    BY DEF EventCalled, Takes, OthersSame
  <2> QED BY <1>1, <2>1, NoEventAssumption DEF Waits
<1>7. ASSUME NEW d \in Clis, GiveUp(d) PROVE HooksAwaited'
  <2>1. OthersSame(d) /\ d \in GoTools /\ req' = req
    BY <1>7, <1>s, GiveUpEffect DEF GiveUp
  <2>2. ~Hooker(d)
    BY <2>1 DEF OneHooker
  <2>3. ASSUME NEW t \in Threads, NEW a \in Clis,
               req'[t].op \in {"hook", "unhook"}, cli[a].thread = t
        PROVE  cli'[a].thread = t
    BY <2>1, <2>2, <2>3, AwaiterFacts DEF OthersSame
  <2> QED BY <1>1, <2>1, <2>3
<1>8. ASSUME NEW t \in Threads, Frees(t), NEW reply, Answered(t, reply)
      PROVE  HooksAwaited'
  BY <1>1, <1>8 DEF Frees, SameCall, Answered
<1>9. ASSUME NEW t \in Threads, HookOrUnhook(t) \/ MissEvent(t) \/ FinishEvent(t)
      PROVE  HooksAwaited'
  <2>1. CASE HookOrUnhook(t)
    BY <1>8, <1>s, <2>1, HookOrUnhookEffect
  <2>2. CASE MissEvent(t)
    BY <1>8, <1>s, <2>2, MissEventEffect
  <2>3. CASE FinishEvent(t)
    <3>1. Frees(t) /\ \E reply : Answered(t, reply)
      BY <1>s, <2>3, FinishEventEffect, ProfileWaits
    <3> QED BY <1>8, <3>1
  <2> QED BY <1>9, <2>1, <2>2, <2>3
<1>10. ASSUME cli' = cli, \A t \in Threads : req'[t].op = req[t].op PROVE HooksAwaited'
  BY <1>1, <1>10
<1>11. ASSUME NEW t \in Threads, RunEvent(t) PROVE HooksAwaited'
  <2>1. cli' = cli /\ \A s \in Threads : req'[s].op = req[s].op
    BY <1>11, <1>s, RunEventEffect
  <2> QED BY <1>10, <2>1
<1>12. ASSUME FazDown PROVE HooksAwaited'
  BY <1>12, <1>s, FazDownEffect DEF HooksAwaited
<1>13. ASSUME UNCHANGED <<req, cli>> PROVE HooksAwaited'
  BY <1>10, <1>13
<1>14. ASSUME NEW d \in Clis, Dial(d) PROVE HooksAwaited'
  <2>1. req' = req /\ \A a \in Clis : cli'[a].thread = cli[a].thread
    BY <1>14, <1>s, DialEffect DEF Dial, SameTool
  <2> QED BY <1>1, <2>1
<1>15. ASSUME NEW d \in Clis, CallFails(d) PROVE HooksAwaited'
  <2>1. OthersSame(d) /\ ~Waits(d) /\ req' = req
    BY <1>15, <1>s, CallFailsEffect DEF CallFails, Failed
  <2> QED BY <1>2, <2>1
<1> QED BY <1>3, <1>4, <1>5, <1>6, <1>7, <1>9, <1>11, <1>12, <1>13, <1>14, <1>15
        DEF AllNext, Proceed, Serve, HandlerStep, FazUp, allVars

LEMMA GiveHooked ==
  ASSUME Served, Served', NEW c \in Clis, HookedOK(c),
         NEW d \in Clis, Give(d)
  PROVE  HookedOK(c)'
<1>1. /\ OthersSame(d) /\ cli[d].flags = {}
      /\ cli'[d].todo = Ops /\ cli'[d].thread = NoCaw /\ cli'[d].good = {}
  BY GiveEffect DEF Served
<1>2. req' = req /\ on' = on
  BY DEF Give
<1>3. ~Waits(d)
  BY <1>1, ServedBusy DEF Busy
<1>4. CASE c = d
  BY <1>1, <1>4 DEF HookedOK, Waits
<1>5. CASE c # d
  BY <1>1, <1>2, <1>5, HookedStays DEF OthersSame, SameTool
<1> QED BY <1>4, <1>5

LEMMA RefuseHooked ==
  ASSUME Typed, Served, Served', NEW c \in Clis, HookedOK(c),
         NEW d \in Clis, Refuse(d)
  PROVE  HookedOK(c)'
<1>1. /\ OthersSame(d)
      /\ cli'[d].flags = cli[d].flags \ {Flag(d)}
      /\ cli'[d].todo = cli[d].todo /\ cli'[d].thread = cli[d].thread
      /\ cli'[d].spared = cli[d].spared /\ cli'[d].good = cli[d].good
      /\ cli'[d].success = cli[d].success
  BY RefuseEffect DEF Served
<1>2. req' = req /\ on' = on
  BY DEF Refuse
<1>3. ~Waits(d)
  BY RefuseServed
<1>4. CASE c = d
  <2>1. ~Waits(c)'
    BY <1>1, <1>3, <1>4 DEF Waits
  <2> QED BY <1>1, <1>2, <1>3, <1>4, <2>1 DEF HookedOK
<1>5. CASE c # d
  BY <1>1, <1>2, <1>5, HookedStays DEF OthersSame, SameTool
<1> QED BY <1>4, <1>5

LEMMA CallHookHooked ==
  ASSUME OneHooker, Served, Served', NEW c \in Clis, Hooker(c), HookedOK(c),
         NEW d \in Clis, CallHook(d)
  PROVE  HookedOK(c)'
<1> PICK e \in Ops, t \in Threads : HookCalled(d, e, t)
  BY CallHookEffect DEF Served
<1>1. /\ cli[d].flags # {} /\ ~Waits(d) /\ Flag(d) \in HookFlags
      /\ \A a \in Clis \ {d} : SameTool(a)
      /\ cli'[d].spared => cli[d].spared /\ Flag(d) = "hook_all"
      /\ cli'[d].flags = cli[d].flags /\ cli'[d].todo = cli[d].todo \ {e}
      /\ cli'[d].thread = t /\ cli'[d].good = cli[d].good
      /\ cli'[d].success = cli[d].success
  BY DEF HookCalled
<1>2. /\ on' = on /\ req'[t].type = e
      /\ \A s \in Threads \ {t} : req'[s].op = req[s].op
  BY DEF HookCalled, Takes
<1>3. d = c
  <2>1. Flag(d) \in cli[d].flags
    BY <1>1, FlagFacts DEF Served
  <2>2. Hooker(d)
    BY <1>1, <2>1, HookersAre
  <2> QED BY <2>2 DEF OneHooker
<1>4. ASSUME cli'[c].spared, cli'[c].success, "hook_all" \in cli'[c].flags, NEW g \in Ops
      PROVE  \/ g \in cli'[c].todo \cup on'
             \/ Waits(c)' /\ req'[cli'[c].thread].type = g
  <2>1. g \in cli[c].todo \cup on
    BY <1>1, <1>3, <1>4 DEF HookedOK
  <2>2. Waits(c)'
    BY <1>1, <1>3, NoEventAssumption DEF Waits
  <2> QED BY <1>1, <1>2, <1>3, <2>1, <2>2
<1>5. cli'[c].spared /\ "hook_all" \in cli'[c].good => on' = Ops
  BY <1>1, <1>2, <1>3 DEF HookedOK
<1>6. Flag(c)' = "unhook_all" => ~cli'[c].spared
  BY <1>1, <1>3 DEF Flag
<1> QED BY <1>4, <1>5, <1>6 DEF HookedOK

LEMMA CallEventHooked ==
  ASSUME Served, Served', NEW c \in Clis, HookedOK(c),
         NEW d \in Clis, CallEvent(d)
  PROVE  HookedOK(c)'
<1> PICK t \in Threads : EventCalled(d, t)
  BY CallEventEffect DEF Served
<1>1. /\ cli[d].flags # {} /\ ~Waits(d) /\ Flag(d) \in DOMAIN EventOf
      /\ OthersSame(d)
      /\ cli'[d].spared = cli[d].spared
      /\ cli'[d].flags = cli[d].flags /\ cli'[d].todo = cli[d].todo
      /\ cli'[d].thread = t /\ cli'[d].good = cli[d].good
      /\ cli'[d].success = cli[d].success
  BY DEF EventCalled
<1>2. /\ on' = on /\ req'[t].op = "event" /\ req[t].op = "none"
      /\ \A s \in Threads \ {t} : req'[s].op = req[s].op /\ req'[s].type = req[s].type
  BY DEF EventCalled, Takes
<1>3. CASE c = d
  <2>1. Flag(c)' = Flag(c) /\ Flag(c) # "unhook_all"
    BY <1>1, <1>3 DEF Flag, EventOf
  <2>2. cli'[c].spared /\ cli'[c].success /\ "hook_all" \in cli'[c].flags =>
          \A g \in Ops : g \in cli'[c].todo \cup on'
    BY <1>1, <1>2, <1>3 DEF HookedOK
  <2>3. cli'[c].spared /\ "hook_all" \in cli'[c].good => on' = Ops
    BY <1>1, <1>2, <1>3 DEF HookedOK
  <2> QED BY <2>1, <2>2, <2>3 DEF HookedOK
<1>4. CASE c # d
  <2>1. Waits(c) => cli[c].thread \in Threads \ {t}
    BY <1>2, FreeAlone DEF Served, PlatformTyped, CliRecord, Waits
  <2> QED BY <1>1, <1>2, <1>4, <2>1, HookedStays DEF OthersSame, SameTool
<1> QED BY <1>3, <1>4

LEMMA GiveUpHooked ==
  ASSUME OneHooker, Served, Served', NEW c \in Clis, Hooker(c), HookedOK(c),
         NEW d \in Clis, GiveUp(d)
  PROVE  HookedOK(c)'
<1>1. OthersSame(d) /\ d \in GoTools
  BY GiveUpEffect, ServedBusy DEF Served
<1>2. req' = req /\ on' = on
  BY DEF GiveUp
<1>3. c # d
  BY <1>1 DEF OneHooker
<1> QED BY <1>1, <1>2, <1>3, HookedStays DEF OthersSame, SameTool

LEMMA DialHooked ==
  ASSUME Served, Served', NEW c \in Clis, HookedOK(c), NEW d \in Clis, Dial(d)
  PROVE  HookedOK(c)'
<1>1. SameTool(c) /\ req' = req /\ on' = on
  BY DialEffect DEF Served, Dial
<1> QED BY <1>1, HookedStays

LEMMA CallFailsHooked ==
  ASSUME Served, Served', NEW c \in Clis, HookedOK(c), NEW d \in Clis, CallFails(d)
  PROVE  HookedOK(c)'
<1> PICK todo \in SUBSET Ops : Failed(d, todo)
  BY CallFailsEffect DEF Served
<1>1. req' = req /\ on' = on
  BY DEF CallFails
<1>2. CASE c = d
  BY <1>1, <1>2, LostHooked DEF Failed
<1>3. CASE c # d
  BY <1>1, <1>3, HookedStays DEF Failed, OthersSame, SameTool
<1> QED BY <1>2, <1>3

LEMMA HookOrUnhookHooked ==
  ASSUME OneHooker, Served, Served', HooksAwaited, NEW c \in Clis, Hooker(c), HookedOK(c),
         NEW t \in Threads, HookOrUnhook(t)
  PROVE  HookedOK(c)'
<1>1. /\ Frees(t) /\ req[t].op \in {"hook", "unhook"} /\ req[t].type \in Ops
      /\ on' = IF req[t].op = "hook" THEN on \cup {req[t].type} ELSE on \ {req[t].type}
  BY HookOrUnhookEffect, ServedBusy DEF Served, AllServed
<1> PICK reply : Answered(t, reply)
  BY HookOrUnhookEffect, ServedBusy DEF Served, AllServed
<1>2. /\ cli[c].thread = t /\ Waits(c)
      /\ req[t].op = "hook" => Flag(c) = "hook_all"
      /\ req[t].op = "unhook" => Flag(c) = "unhook_all"
  BY <1>1, AwaitedBy
<1>3. WasTold(c, reply)
  BY <1>2 DEF Answered
<1>4. ~Waits(c)' /\ (cli'[c].spared => cli[c].spared)
  BY <1>3 DEF WasTold, Tells, Waits
<1>5. CASE req[t].op = "unhook"
  <2>1. ~cli[c].spared
    BY <1>2, <1>5 DEF HookedOK
  <2> QED BY <1>4, <2>1 DEF HookedOK
<1>6. CASE req[t].op = "hook"
  <2>1. Flag(c) = "hook_all" /\ "hook_all" \in cli[c].flags /\ "hook_all" \notin cli[c].good
    BY <1>2, <1>6, WaitFacts DEF Served, AllServed, LineOK
  <2>2. on' = on \cup {req[t].type} /\ on' \subseteq Ops
    BY <1>1, <1>6 DEF Served, PlatformTyped
  <2>3. cli[c].spared /\ cli[c].success => \A e \in Ops : e \in cli[c].todo \cup on'
    BY <1>2, <2>1, <2>2 DEF HookedOK
  <2>4. CASE Over(c, cli[c].todo, reply)
    <3>1. cli[c].todo = {}
      BY <2>1, <2>4 DEF Over, HookFlags
    <3>2. cli'[c].spared /\ cli[c].success => on' = Ops
      BY <1>4, <2>2, <2>3, <3>1
    <3>3. /\ "hook_all" \notin cli'[c].flags
          /\ "hook_all" \in cli'[c].good => cli[c].success
      BY <1>3, <2>1, <2>4 DEF WasTold, Tells
    <3> QED BY <1>4, <3>2, <3>3 DEF HookedOK
  <2>5. CASE ~Over(c, cli[c].todo, reply)
    <3>1. /\ cli'[c].todo = cli[c].todo /\ cli'[c].good = cli[c].good
          /\ cli'[c].success => cli[c].success
      BY <1>3, <2>5 DEF WasTold, Tells
    <3> QED BY <1>4, <2>1, <2>3, <3>1 DEF HookedOK
  <2> QED BY <2>4, <2>5
<1> QED BY <1>1, <1>5, <1>6

\* The end of an event hooks and unhooks nothing.
LEMMA EventHooked ==
  ASSUME Served, Served', NEW c \in Clis, HookedOK(c),
         NEW t \in Threads, Frees(t), on' = on, req[t].op = "event",
         NEW reply, Answered(t, reply)
  PROVE  HookedOK(c)'
<1>1. CASE cli[c].thread = t
  <2>1. Waits(c)
    BY <1>1, NoEventAssumption DEF Waits
  <2>2. Flag(c) \notin HookFlags
    BY <1>1, <2>1, WaitFacts DEF Served, AllServed, EventOf, HookFlags
  <2> QED BY <1>1, <2>2, ToldHooked DEF Answered, WasTold
<1>2. CASE cli[c].thread # t
  <2>1. Waits(c) => cli[c].thread \in Threads \ {t}
    BY <1>2 DEF Served, PlatformTyped, CliRecord, Waits
  <2>2. SameTool(c)
    BY <1>2 DEF Answered, SameTool
  <2> QED BY <2>1, <2>2, HookedStays DEF Frees, SameCall
<1> QED BY <1>1, <1>2

\* As long as one tool hooks and unhooks, and waits for its answers.
LEMMA HookerHooked ==
  ASSUME OneHooker, Typed, Served, Served', HooksAwaited, [AllNext]_allVars,
         NEW c \in Clis, Hooker(c), HookedOK(c)
  PROVE  HookedOK(c)'
<1>s. PlatformTyped /\ Busy /\ \A t \in Threads : RequestOK(t)
  BY ServedBusy DEF Served, AllServed
<1>1. ASSUME NEW d \in Clis, Give(d) \/ Proceed(d) \/ GiveUp(d)
      PROVE  HookedOK(c)'
  BY <1>1, GiveHooked, DialHooked, RefuseHooked, CallHookHooked, CallEventHooked,
     CallFailsHooked, GiveUpHooked DEF Proceed
<1>2. ASSUME NEW t \in Threads, MissEvent(t) PROVE HookedOK(c)'
  <2>1. Frees(t) /\ on' = on /\ req[t].op = "event" /\ Answered(t, Lost)
    BY <1>2, <1>s, MissEventEffect
  <2> QED BY <2>1, EventHooked
<1>3. ASSUME NEW t \in Threads, FinishEvent(t) PROVE HookedOK(c)'
  <2>1. /\ Frees(t) /\ on' = on /\ req[t].op = "event"
        /\ \E reply : Answered(t, reply)
    BY <1>3, <1>s, FinishEventEffect, ProfileWaits
  <2> QED BY <2>1, EventHooked
<1>4. ASSUME UNCHANGED <<on, cli>>,
             \A t \in Threads : req'[t].op = req[t].op /\ req'[t].type = req[t].type
      PROVE  HookedOK(c)'
  <2>1. SameTool(c) /\ (Waits(c) => cli[c].thread \in Threads)
    BY <1>4, <1>s DEF SameTool, PlatformTyped, CliRecord, Waits
  <2> QED BY <1>4, <2>1, HookedStays
<1>5. ASSUME NEW t \in Threads, RunEvent(t) PROVE HookedOK(c)'
  <2>1. /\ UNCHANGED <<on, cli>>
        /\ req'[t].op = req[t].op /\ req'[t].type = req[t].type
        /\ \A s \in Threads \ {t} : req'[s] = req[s]
    BY <1>5, <1>s, RunEventEffect
  <2> QED BY <1>4, <2>1
<1>6. ASSUME NEW t \in Threads, HandlerStep(t) PROVE HookedOK(c)'
  BY <1>4, <1>6 DEF HandlerStep
<1>7. ASSUME FazDown PROVE HookedOK(c)'
  <2>1. /\ \A t \in Threads : req'[t].op = "none"
        /\ ~cli'[c].spared /\ cli'[c].thread = NoCaw
    BY <1>7, <1>s, FazDownEffect
  <2> QED BY <2>1 DEF HookedOK, Waits
<1>8. CASE FazUp \/ UNCHANGED allVars
  BY <1>4, <1>8 DEF FazUp, allVars
<1> QED BY <1>1, <1>2, <1>3, <1>5, <1>6, <1>7, <1>8, HookOrUnhookHooked
        DEF AllNext, Serve

LEMMA InitHooked == AllInit => AllHooked
<1> SUFFICES ASSUME AllInit PROVE AllHooked
  OBVIOUS
<1>1. \A c \in Clis : cli[c].flags = {} /\ cli[c].good = {} /\ cli[c].thread = NoCaw
  BY DEF AllInit
<1>2. \A t \in Threads : req[t].op = "none"
  BY DEF AllInit, Table!HookTableInit, Table!NoReq
<1> QED BY <1>1, <1>2 DEF AllHooked, HooksAwaited, HookedOK, Waits

LEMMA NextHooked ==
  ASSUME OneHooker
  PROVE  Platform /\ AllHooked /\ [AllNext]_allVars => AllHooked'
<1> SUFFICES ASSUME Platform, AllHooked, [AllNext]_allVars PROVE AllHooked'
  OBVIOUS
<1>1. Typed /\ Served /\ Served' /\ HooksAwaited /\ \A c \in Clis : HookedOK(c)
  BY NextServed DEF Platform, HandlersOK, AllHooked
<1>2. \A c \in Clis : Hooker(c) \/ HookedOK(c)'
  <2>1. Served' => OthersOK'
    BY OthersHooked, PTL
  <2>2. \A c \in Clis : Hooker(c)' <=> Hooker(c)
    BY DEF Hooker, HookFlags
  <2> QED BY <1>1, <2>1, <2>2 DEF OthersOK
<1>3. ASSUME NEW c \in Clis, Hooker(c) PROVE HookedOK(c)'
  BY <1>1, <1>3, HookerHooked
<1> QED BY <1>1, <1>2, <1>3, NextAwaited DEF AllHooked

-----------------------------------------------------------------------------
(* Theorems.                                                               *)

LEMMA PlatformHolds == AllSpec => []Platform
<1>1. AllInit => Platform
  BY InitPlatform
<1>2. Platform /\ [AllNext]_allVars => Platform'
  BY NextPlatform
<1> QED BY <1>1, <1>2, PTL DEF AllSpec

LEMMA ServedConsistent == Served => Consistent
<1> SUFFICES ASSUME Served PROVE Consistent
  OBVIOUS
<1>1. on \subseteq Ops
  BY DEF Served, PlatformTyped
<1>2. ASSUME NEW c \in Clis, Waits(c)
      PROVE  LET r == req[cli[c].thread] IN
             /\ Flag(c) = "hook_all" => r.op = "hook"
             /\ Flag(c) = "unhook_all" => r.op = "unhook"
             /\ Flag(c) \in DOMAIN EventOf => r.op = "event" /\ r.type = EventOf[Flag(c)]
  BY <1>2 DEF Served, AllServed, WaitOK
<1>3. ASSUME NEW c \in Clis, NEW d \in Clis, Waits(c), cli[c].thread = cli[d].thread
      PROVE  c = d
  BY <1>3, WaitFacts DEF Served, AllServed
<1> QED BY <1>1, <1>2, <1>3 DEF Consistent

\* A thread of the server has at most one tool waiting, and runs the very call that the
\* tool's flag asks for: an answer is that of the call, also when a Go tool has given
\* its own up and the thread has been taken by another, and when the server has died and
\* come back (CawClient and FazServiceImpl).
THEOREM AnswersReachTheirTools == AllSpec => []Consistent
BY PlatformHolds, ServedConsistent, PTL DEF Platform

\* Whatever dies, is cut or is lost: what the client reports that RegisterUser() and
\* Follow() have done is in the log from then on, unless the function was unhooked while
\* event() looked for it.
THEOREM SuccessLasts == AllSpec => [](\A c \in Clis : InStore(c, cli[c].good))
<1>1. Platform => \A c \in Clis : InStore(c, cli[c].good)
  BY DEF Platform, GoodKept
<1> QED BY <1>1, PlatformHolds, PTL

\* When no tool unhooks there is no exception: every success that is reported of
\* RegisterUser() and Follow() is true, as caw_client.h promises. What makes the
\* promise fail is UnhookAll() alone, not a crash, a lost call or a lost answer, nor
\* that HookAll() moves the table under an event.
THEOREM SuccessHolds ==
  ASSUME \A c \in Clis : \A n \in 1..Len(Lines[c]) : "unhook_all" \notin Lines[c][n].flags
  PROVE  AllSpec => []SuccessIsTrue
<1> DEFINE Calm == \A t \in Threads : req[t].op # "unhook" /\ ~req[t].gone
           Inv == Calm /\ \A c \in Clis : Honest(c)
<1>1. AllInit => Inv
  <2>1. ASSUME AllInit, NEW t \in Threads PROVE req[t].op # "unhook" /\ ~req[t].gone
    BY <2>1 DEF AllInit, Table!HookTableInit, Table!NoReq
  <2>2. ASSUME AllInit, NEW c \in Clis PROVE Honest(c)
    BY <2>2 DEF AllInit, Honest
  <2> QED BY <2>1, <2>2
<1>2. Platform /\ Inv /\ [AllNext]_allVars => Inv'
  <2> SUFFICES ASSUME Platform, Inv, [AllNext]_allVars PROVE Inv'
    OBVIOUS
  <2>1. Calm'
    BY CalmStays DEF Platform, HandlersOK
  <2>2. \A c \in Clis : Honest(c)'
    BY HonestStays DEF Platform, HandlersOK
  <2> QED BY <2>1, <2>2
<1>3. Platform /\ Inv => SuccessIsTrue
  <2> SUFFICES ASSUME Platform, Inv, NEW c \in Clis PROVE InStore(c, cli[c].reported)
    BY DEF SuccessIsTrue
  <2> QED BY DEF Platform, GoodKept, InStore, Honest
<1> HIDE DEF Inv
<1> QED BY <1>1, <1>2, <1>3, PlatformHolds, PTL DEF AllSpec

\* As long as no stream is cut, also the profile that a line shows after its follow has
\* the follow in it: main() handles the flags in their order, and Profile() asks for
\* the list only then.
THEOREM ToolsTellTheTruth ==
  ASSUME "cut" \notin Faults
  PROVE  AllSpec => []ReportsAreTrue
<1>1. AllInit => Shown
  BY InitShown
<1>2. Platform /\ Shown /\ [AllNext]_allVars => Shown'
  BY NextShown
<1>3. Platform /\ Shown => ReportsAreTrue
  BY DEF Platform, Shown, GoodKept, GoodShown, ReportsAreTrue
<1> QED BY <1>1, <1>2, <1>3, PlatformHolds, PTL DEF AllSpec

\* The handlers are as good in the platform as alone, although a disturbed event may run
\* another function than the one it asked for, with an empty request (UnpackTo() in
\* caw_handler.cc): replies lead to caws, what was seen and what was answered OK lasts,
\* and no list has a name that nobody registered.
THEOREM HandlersKeepTheirPromises ==
  AllSpec => [](TypeOK /\ NoDanglingReply /\ SeenCawsLast /\ AnsweredOkLasts /\ NamesAreUsers)
<1>1. HandlersOK =>
        TypeOK /\ NoDanglingReply /\ SeenCawsLast /\ AnsweredOkLasts /\ NamesAreUsers
  <2>1. CawsStored => NoDanglingReply
    BY DEF CawsStored
  <2> QED BY <2>1, StoredTypeOK, StoredSeen, KeptAnswered, KnownNames DEF HandlersOK
<1>2. Platform => HandlersOK
  BY DEF Platform
<1> QED BY <1>1, <1>2, PlatformHolds, PTL

\* When one tool does all the hooking, and waits for its answers as the C++ tool does,
\* HookAll() that has succeeded has hooked all functions for everybody until
\* UnhookAll() begins or the server dies, whichever of its calls did not reach the
\* server that died before.
THEOREM HookingHolds ==
  ASSUME OneHooker
  PROVE  AllSpec => []HookingIsShared
<1>1. AllInit => AllHooked
  BY InitHooked
<1>2. Platform /\ AllHooked /\ [AllNext]_allVars => AllHooked'
  BY NextHooked
<1>3. AllHooked => HookingIsShared
  BY DEF AllHooked, HookedOK, HookingIsShared
<1> QED BY <1>1, <1>2, <1>3, PlatformHolds, PTL DEF AllSpec

=============================================================================
