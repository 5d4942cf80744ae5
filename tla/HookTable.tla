------------------------------ MODULE HookTable ------------------------------
(***************************************************************************)
(* What the Faz service promises of its table of hooked functions, as long *)
(* as one client at a time hooks and unhooks (cpp/faz/faz_service.h): a    *)
(* hook or unhook takes effect at once, between its request and its        *)
(* answer, and an event runs the function of its type, or nothing when its *)
(* type is not hooked.  An event whose type is unhooked before its         *)
(* function was found may also run a function that is hooked after that,   *)
(* or none.  A restart empties the table.                                  *)
(*                                                                         *)
(* A function goes by the event type that CawClient hooks it with.  gone   *)
(* and may are history fields of an event that looks for its function:     *)
(* whether its type was unhooked since its request, and which functions    *)
(* were hooked after that.                                                 *)
(***************************************************************************)
CONSTANTS
  Types,       \* event types, and the functions that belong to them
  Predefined,  \* functions in kPredefinedFuncs
  None,        \* no type, no function
  Threads      \* threads of the server

VARIABLES
  on,   \* types that are hooked
  req   \* the request each thread runs, or the status it has answered last

NoReq == [op |-> "none", type |-> None, ran |-> None, gone |-> FALSE, may |-> {},
          status |-> "NONE"]

Runs(t, op) == req[t].op = op

\* An event that looks for its function.
Looks(t) == Runs(t, "event") /\ req[t].ran = None

HookTableInit ==
  /\ on = {}
  /\ req = [t \in Threads |-> NoReq]

Take(t, op, e) ==
  /\ Runs(t, "none")
  /\ req' = [req EXCEPT ![t] = [NoReq EXCEPT !.op = op, !.type = e]]
  /\ UNCHANGED on

Answered(reqs, t, status) == [reqs EXCEPT ![t] = [NoReq EXCEPT !.status = status]]

HookUnknown(t) ==
  /\ Runs(t, "hook") /\ req[t].type \notin Predefined
  /\ req' = Answered(req, t, "NOT_FOUND")
  /\ UNCHANGED on

Hook(t) ==
  /\ Runs(t, "hook") /\ req[t].type \in Predefined
  /\ on' = on \cup {req[t].type}
  /\ req' = Answered([s \in Threads |->
                        IF Looks(s) /\ req[s].gone
                        THEN [req[s] EXCEPT !.may = @ \cup {req[t].type}] ELSE req[s]],
                     t, "OK")

UnhookMissing(t) ==
  /\ Runs(t, "unhook") /\ req[t].type \notin on
  /\ req' = Answered(req, t, "NOT_FOUND")
  /\ UNCHANGED on

Unhook(t) ==
  /\ Runs(t, "unhook") /\ req[t].type \in on
  /\ on' = on \ {req[t].type}
  /\ req' = Answered([s \in Threads |->
                        IF Looks(s) /\ req[s].type = req[t].type
                        THEN [req[s] EXCEPT !.gone = TRUE] ELSE req[s]],
                     t, "OK")

\* Function f is found for the event, and starts.
Run(t, f) ==
  /\ Looks(t)
  /\ \/ f = req[t].type /\ (f \in on \/ req[t].gone)
     \/ f \in req[t].may
  /\ req' = [req EXCEPT ![t].ran = f]
  /\ UNCHANGED on

\* The type of the event is not hooked.
Miss(t) ==
  /\ Looks(t) /\ req[t].type \notin on
  /\ req' = Answered(req, t, "NOT_FOUND")
  /\ UNCHANGED on

\* An empty function is found: that of a type which is just being hooked, or one
\* that was hooked in place of the event's.
RunEmpty(t) ==
  /\ Looks(t) /\ (req[t].type \notin on \/ req[t].gone)
  /\ req' = Answered(req, t, "UNKNOWN")
  /\ UNCHANGED on

\* The function is over; the event is answered with its status.
Finish(t, status) ==
  /\ Runs(t, "event") /\ req[t].ran # None
  /\ req' = Answered(req, t, status)
  /\ UNCHANGED on

Restart ==
  /\ on' = {}
  /\ req' = [t \in Threads |-> NoReq]

HookTableNext ==
  \/ \E t \in Threads :
       \/ \E op \in {"hook", "unhook", "event"}, e \in Types : Take(t, op, e)
       \/ HookUnknown(t) \/ Hook(t)
       \/ UnhookMissing(t) \/ Unhook(t)
       \/ \E f \in Types : Run(t, f)
       \/ Miss(t) \/ RunEmpty(t)
       \/ Finish(t, "OK")
  \/ Restart

HookTableSpec == HookTableInit /\ [][HookTableNext]_<<on, req>>
=============================================================================
