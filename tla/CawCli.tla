------------------------------- MODULE CawCli --------------------------------
(***************************************************************************)
(* The whole platform from the command line: the tools (cpp/caw/caw_cli.cc *)
(* and go/caw_cli.go) with the clients in them, the Faz server with its    *)
(* table of hooked functions (HookTable), and the functions that its       *)
(* threads run on the store (CawHandler).                                  *)
(*                                                                         *)
(* The table is the abstract one, which FazService implements: an event    *)
(* that a hooking overlaps may run another function, whose request is then *)
(* empty because the payload is of another type.                           *)
(*                                                                         *)
(* The server dies and is started again ("fazcrash" in Faults); in between *)
(* it is down, and no call reaches it.                                     *)
(*                                                                         *)
(* reported of a tool is what it reports success of; good, those of them   *)
(* whose event was not unhooked while it looked for its function, and      *)
(* spared are history.                                                     *)
(***************************************************************************)
EXTENDS CawHandler

CONSTANTS
  Clis,       \* command-line tools
  Lines,      \* the command lines that each tool is given one after another
  GoTools,    \* those of them that are written in Go
  Nobody      \* the empty name

ASSUME NobodyAssumption == Nobody \in Users
ASSUME GoToolsAssumption == GoTools \subseteq Clis

VARIABLES
  up,       \* whether the Faz server is running
  on,       \* functions that are hooked, see HookTable
  req,      \* the request that each thread of the server runs, see HookTable
  payload,  \* the arguments in that request
  cli       \* what each tool is doing, or has done last

handlers == <<mem, dur, call, issued, known, mishaps, calls>>
allVars == <<handlers, up, on, req, payload, cli>>

Table == INSTANCE HookTable WITH Types <- Ops, Predefined <- Ops, None <- NoCaw

\* Mutant of Order: Follow after Profile.
OrderOfHelp ==
  <<"hook_all", "registeruser", "profile", "follow", "caw", "read", "unhook_all">>

\* The order in which a tool handles its flags, wherever they stand in the line.
Order ==
  <<"hook_all", "registeruser", "follow", "profile", "caw", "read", "unhook_all">>

\* CawClient::EventType.
Events == {"RegisterUser", "Follow", "Profile", "Caw", "Read"}

ASSUME OpsAssumption == Ops \subseteq Events
ASSUME NoEventAssumption == NoCaw \notin Threads \cup Events

\* What can stand in a command line: flags, and what they are given.
CommandLines ==
  [flags : SUBSET Range(Order), registeruser : Users, user : Users, follow : Users,
   reply : Ids \cup {NoCaw, BadId}, read : Ids \cup {BadId}]

ASSUME LinesAssumption == Lines \in [Clis -> Seq(CommandLines)]

\* The event that a flag sends.
EventOf == [registeruser |-> "RegisterUser", follow |-> "Follow",
            profile |-> "Profile", caw |-> "Caw", read |-> "Read"]

\* The flags of several calls.
HookFlags == {"hook_all", "unhook_all"}

\* Flags for which one has to be logged in.
LoginFlags == {"follow", "profile", "caw"}

\* What a flag puts into the request.
Arguments(line, flag) ==
  CASE flag = "registeruser" -> <<line.registeruser, NoCaw>>
    [] flag = "follow"       -> <<line.user, line.follow>>
    [] flag = "caw"          -> <<line.user, line.reply>>
    [] flag = "read"         -> <<line.read, NoCaw>>
    [] OTHER                 -> <<line.user, NoCaw>>

\* kFuncs: what HookAll and UnhookAll go through.
Funcs == Ops

\* No tool has been given a line, and the server has not been started.
AllInit ==
  /\ Init
  /\ up = FALSE
  /\ Table!HookTableInit
  /\ payload = [t \in Threads |-> <<NoCaw, NoCaw>>]
  /\ cli = [c \in Clis |->
       [line |-> 0, dialing |-> FALSE, flags |-> {}, todo |-> Funcs, thread |-> NoCaw,
        success |-> TRUE, reported |-> {}, good |-> {}, shown |-> <<>>,
        spared |-> FALSE]]

-----------------------------------------------------------------------------
(* The tools.                                                              *)

Waits(c) == cli[c].thread # NoCaw
Idle(c)  == cli[c].flags = {} /\ ~cli[c].dialing

\* Of some flags the one that is handled first.
Foremost(flags) ==
  Order[CHOOSE i \in 1..Len(Order) :
          Order[i] \in flags /\ \A j \in 1..(i - 1) : Order[j] \notin flags]

\* The flag that tool c is at.
Flag(c) == Foremost(cli[c].flags)

Line(c) == Lines[c][cli[c].line]

\* Tool c has a flag to handle, and waits for nothing.
Ready(c) == cli[c].flags # {} /\ ~cli[c].dialing /\ ~Waits(c)

\* Its flag can be handled.
LoggedIn(c) == Flag(c) \in LoginFlags => Line(c).user # Nobody

\* A tool is started with the next command line, whose ids somebody has seen.
Give(c) ==
  /\ Idle(c)
  /\ cli[c].line < Len(Lines[c])
  /\ LET n == cli[c].line + 1 IN
     /\ {Lines[c][n].reply, Lines[c][n].read} \subseteq known \cup {NoCaw, BadId}
     /\ cli' = [cli EXCEPT ![c] =
         [line |-> n, dialing |-> c \in GoTools, flags |-> Lines[c][n].flags,
          todo |-> Funcs, thread |-> NoCaw, success |-> TRUE, reported |-> {},
          good |-> {}, shown |-> <<>>, spared |-> TRUE]]
  /\ UNCHANGED <<handlers, up, on, req, payload>>

\* grpc.Dial() returns when it has a connection, however long that takes.
Dial(c) ==
  /\ cli[c].dialing /\ up
  /\ cli' = [cli EXCEPT ![c].dialing = FALSE]
  /\ UNCHANGED <<handlers, up, on, req, payload>>

\* A flag is not handled without the name of a user.
Refuse(c) ==
  /\ Ready(c) /\ ~LoggedIn(c)
  /\ cli' = [cli EXCEPT ![c].flags = @ \ {Flag(c)}]
  /\ UNCHANGED <<handlers, up, on, req, payload>>

\* The thread that takes the next request: one that is free, all of which are alike.
Taker == LET free == {t \in Threads : req[t].op = "none" /\ Done(t)} IN
         IF free = {} THEN {} ELSE {CHOOSE t \in free : TRUE}

\* The next call of HookAll or UnhookAll.
CallHook(c) ==
  /\ Ready(c) /\ up
  /\ Flag(c) \in HookFlags
  /\ \E e \in cli[c].todo, t \in Taker :
       /\ Table!Take(t, IF Flag(c) = "hook_all" THEN "hook" ELSE "unhook", e)
       /\ cli' = [d \in Clis |->
            IF d = c THEN [cli[d] EXCEPT !.todo = @ \ {e}, !.thread = t,
                                         !.spared = @ /\ Flag(c) = "hook_all"]
            ELSE [cli[d] EXCEPT !.spared = @ /\ Flag(c) = "hook_all"]]
  /\ UNCHANGED <<handlers, up, payload>>

\* RegisterUser(), Follow(), Profile(), Caw() and Read() of the client.
CallEvent(c) ==
  /\ Ready(c) /\ up
  /\ Flag(c) \in DOMAIN EventOf /\ LoggedIn(c)
  /\ \E t \in Taker :
       /\ Table!Take(t, "event", EventOf[Flag(c)])
       /\ payload' = [payload EXCEPT ![t] = Arguments(Line(c), Flag(c))]
       /\ cli' = [cli EXCEPT ![c].thread = t]
  /\ UNCHANGED <<handlers, up>>

\* What a tool is told of a call: whether it is OK, whether its own function gave the
\* answer, whether the function stayed hooked until it was found, and the answer.
Lost == [ok |-> FALSE, own |-> FALSE, kept |-> FALSE, out |-> <<>>]

\* Mutant of Over: a flag is tried until it succeeds.
OverIfOk(c, todo, reply) == reply.ok /\ (Flag(c) \in HookFlags => todo = {})

\* The answer is the last one that the flag waits for; todo is left to be called.
Over(c, todo, reply) == Flag(c) \in HookFlags => todo = {}

\* Mutant of Succeeds: the last call decides.
SucceedsAtLast(c, ok) == ok

\* Each call of the flag has to succeed.
Succeeds(c, ok) == cli[c].success /\ ok

\* Mutant of LooksOK: whatever the server answers is success.
LooksAnswered(c, reply) == reply.own

\* An OK is success, whichever function has run, unless the client needs what is in
\* the answer: to the one in C++ a profile is empty that is not one.
LooksOK(c, reply) ==
  /\ reply.ok
  /\ \/ reply.own
     \/ Flag(c) \notin {"profile", "caw", "read"}
     \/ Flag(c) = "profile" /\ c \notin GoTools

\* Tool c gets an answer.
Told(c, todo, reply) ==
  LET f    == Flag(c)
      good == Succeeds(c, LooksOK(c, reply)) IN
  IF Over(c, todo, reply)
  THEN [cli[c] EXCEPT !.flags = @ \ {f}, !.todo = Funcs, !.thread = NoCaw,
                      !.success = TRUE,
                      !.reported = @ \cup {g \in {f} : good},
                      !.good = @ \cup {g \in {f} : good /\ reply.kept},
                      !.shown = IF f = "profile" /\ good
                                THEN IF reply.own THEN reply.out ELSE <<<<>>, <<>>>>
                                ELSE @]
  ELSE [cli[c] EXCEPT !.todo = todo, !.thread = NoCaw,
                      !.success = Succeeds(c, reply.ok)]

\* The tool that waits for thread t, if there is one, gets its answer.
Answers(t, reply) ==
  cli' = [c \in Clis |-> IF cli[c].thread = t THEN Told(c, cli[c].todo, reply)
                         ELSE cli[c]]

\* A call does not reach the server, which is down, or was when the channel last tried
\* to connect.
CallFails(c) ==
  /\ Ready(c)
  /\ Flag(c) \in DOMAIN EventOf => LoggedIn(c)
  /\ \E todo \in IF Flag(c) \in HookFlags THEN {cli[c].todo \ {e} : e \in cli[c].todo}
                  ELSE {cli[c].todo} :
       cli' = [cli EXCEPT ![c] = Told(c, todo, Lost)]
  /\ UNCHANGED <<handlers, up, on, req, payload>>

\* The deadline is over, and the thread goes on.
GiveUp(c) ==
  /\ c \in GoTools
  /\ Waits(c)
  /\ cli' = [cli EXCEPT ![c] = Told(c, cli[c].todo, Lost)]
  /\ UNCHANGED <<handlers, up, on, req, payload>>

-----------------------------------------------------------------------------
(* The Faz server.                                                         *)

HookOrUnhook(t) ==
  /\ \/ Table!HookUnknown(t) \/ Table!Hook(t)
     \/ Table!UnhookMissing(t) \/ Table!Unhook(t)
  /\ Answers(t, [ok |-> req'[t].status = "OK", own |-> TRUE, kept |-> TRUE, out |-> <<>>])
  /\ UNCHANGED <<handlers, up, payload>>

\* A function begins with what its request says.
Handle(t, f, args) ==
  CASE f = "RegisterUser" -> RegisterUser(t, args[1])
    [] f = "Follow"       -> Follow(t, args[1], args[2])
    [] f = "Profile"      -> Profile(t, args[1])
    [] f = "Caw"          -> Caw(t, args[1], args[2])
    [] f = "Read"         -> Read(t, args[1])

\* UnpackTo() of a payload of another type fails, and leaves the request empty.
Empty(f) == CASE f = "Follow" -> <<Nobody, Nobody>>
              [] f = "Read"   -> <<BadId, NoCaw>>
              [] OTHER        -> <<Nobody, NoCaw>>

RunEvent(t) ==
  /\ \E f \in Ops :
       /\ Table!Run(t, f)
       /\ Handle(t, f, IF f = req[t].type THEN payload[t] ELSE Empty(f))
  /\ payload' = [payload EXCEPT ![t] = <<NoCaw, NoCaw>>]
  /\ UNCHANGED <<up, cli>>

MissEvent(t) ==
  /\ Table!Miss(t) \/ Table!RunEmpty(t)
  /\ Answers(t, Lost)
  /\ payload' = [payload EXCEPT ![t] = <<NoCaw, NoCaw>>]
  /\ UNCHANGED <<handlers, up>>

HandlerStep(t) == Step(t) /\ UNCHANGED <<up, on, req, payload, cli>>

\* The function is over, unless its Put is still on its way.
FinishEvent(t) ==
  /\ call[t].status # "NONE"
  /\ Table!Finish(t, call[t].status)
  /\ Answers(t, [ok |-> call[t].status = "OK", own |-> req[t].ran = req[t].type,
                 kept |-> ~req[t].gone, out |-> call[t].out])
  /\ call' = IF Done(t) THEN [call EXCEPT ![t] = NoCall] ELSE call
  /\ UNCHANGED <<mem, dur, issued, known, mishaps, calls, up, payload>>

\* Mutant of Parted: whoever waits is not told.
PartedSilently(c) == cli[c]

\* What the end of the server means to tool c.
Parted(c) == IF Waits(c) THEN Told(c, cli[c].todo, Lost) ELSE cli[c]

FazDown ==
  /\ up
  /\ up' = FALSE
  /\ Table!Restart
  /\ FazDies
  /\ payload' = [t \in Threads |-> <<NoCaw, NoCaw>>]
  /\ cli' = [c \in Clis |-> [Parted(c) EXCEPT !.spared = FALSE]]

\* The server is started, with an empty table.
FazUp ==
  /\ ~up
  /\ up' = TRUE
  /\ UNCHANGED <<handlers, on, req, payload, cli>>

-----------------------------------------------------------------------------

Serve(t) ==
  HookOrUnhook(t) \/ RunEvent(t) \/ MissEvent(t) \/ HandlerStep(t) \/ FinishEvent(t)

Proceed(c) == Dial(c) \/ Refuse(c) \/ CallHook(c) \/ CallEvent(c) \/ CallFails(c)

AllNext ==
  \/ \E c \in Clis : Give(c) \/ Proceed(c) \/ GiveUp(c)
  \/ \E t \in Threads : Serve(t)
  \/ FazDown \/ FazUp

\* As long as a tool that was started, or a thread of the server, can go on, one of
\* them does.
AllSpec ==
  /\ AllInit /\ [][AllNext]_allVars
  /\ WF_allVars((\E c \in Clis : Proceed(c)) \/ (\E t \in Threads : Serve(t)))

-----------------------------------------------------------------------------
(* Properties.                                                             *)

\* A tool that waits is waited on by nobody else's request: its thread runs the very
\* call that its flag asks for, on behalf of no other tool, also after calls were
\* given up, and the server died and came back.
Consistent ==
  /\ on \subseteq Ops
  /\ \A c \in Clis :
       Waits(c) =>
         LET r == req[cli[c].thread] IN
         /\ Flag(c) = "hook_all" => r.op = "hook"
         /\ Flag(c) = "unhook_all" => r.op = "unhook"
         /\ Flag(c) \in DOMAIN EventOf => r.op = "event" /\ r.type = EventOf[Flag(c)]
  /\ \A c, d \in Clis : Waits(c) /\ cli[c].thread = cli[d].thread => c = d

\* The store has what these flags of the line of tool c are to store.
InStore(c, flags) ==
  LET line == Line(c) IN
  /\ "registeruser" \in flags => dur[UserKey(line.registeruser)] # <<>>
  /\ "follow" \in flags =>
       /\ line.follow \in Range(dur[FollowingsKey(line.user)])
       /\ line.user \in Range(dur[FollowersKey(line.follow)])

\* Success that a tool reports of an event that was not unhooked while it looked for
\* its function is true of the store from then on, whatever the other tool hooks,
\* registers or follows, and whatever dies; and a profile in the same line shows what
\* the line has done before it, because it comes later in "the order of: HookAll
\* (first), RegisterUser, Follow, Profile" (README.md).
ReportsAreTrue ==
  \A c \in Clis :
    /\ InStore(c, cli[c].good)
    /\ {"follow", "profile"} \subseteq cli[c].good =>
         Line(c).follow \in Range(cli[c].shown[1])

\* The client "Sends an `EventType::kFollow` event to Faz, and returns true on success."
\* (caw_client.h): when it returns true, the follow is stored.  It is, unless its type
\* is unhooked, and another one hooked, while the event looks for its function.
SuccessIsTrue == \A c \in Clis : InStore(c, cli[c].reported)

\* Once a tool has hooked all functions they are hooked for every tool, until one
\* begins to unhook or the server dies, whichever of the calls before failed: "the C++
\* and Go command-line tool share the same hooking" (README.md).
HookingIsShared ==
  \A c \in Clis : "hook_all" \in cli[c].good /\ cli[c].spared => on = Ops

\* Every command line comes to its end, whether its calls are answered, refused, lost
\* when the server dies, or do not reach it: the C++ tool waits without a deadline.
\* Only the tool in Go that was started while the server is down goes on dialing.
EveryLineEnds == []<>(\A c \in Clis : Idle(c) \/ (cli[c].dialing /\ ~up))
=============================================================================
