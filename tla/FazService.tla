----------------------------- MODULE FazService ------------------------------
(***************************************************************************)
(* The table of hooked functions of the Faz server (cpp/faz/faz_service.cc)*)
(* and the clients that hook, unhook and send events (cpp/caw/caw_client.cc*)
(* and go/caw_client.go).                                                  *)
(*                                                                         *)
(* registered_funcs_ is a std::unordered_map that the threads of the       *)
(* server use without a lock.  What that does is modelled on the nodes     *)
(* such a map allocates for its entries: a thread finds a node and uses it *)
(* in a later step, a node that is erased keeps its content until an       *)
(* insertion takes its place in memory, and an insertion links its node    *)
(* into the table as it was when its thread looked.                        *)
(*                                                                         *)
(* A function goes by the event type that CawClient hooks it with (kFuncs).*)
(* gone and may of a thread, and spared of a client, are history fields.   *)
(***************************************************************************)
EXTENDS Integers, FiniteSets, Functions

CONSTANTS
  Types,       \* event types, and the functions that belong to them
  Predefined,  \* functions in kPredefinedFuncs
  Nodes,       \* places in memory for the entries of the table
  None,        \* no node, no function, no client
  Threads,     \* threads of the server
  Clients,     \* clients, each of which makes one call at a time
  Admins,      \* clients that hook and unhook
  Impatient,   \* clients that give up after a while: those in Go
  MaxOps       \* bound: operations of the clients

ASSUME PredefinedAssumption == Predefined \subseteq Types
ASSUME AdminsAssumption == Admins \subseteq Clients /\ Impatient \subseteq Clients
ASSUME NoneAssumption == None \notin Types \cup Nodes \cup Clients
ASSUME MaxOpsAssumption == MaxOps \in Nat

VARIABLES
  table,   \* registered_funcs_: the node linked under each type, or None
  memory,  \* what lies in each node, also after it was erased
  used,    \* nodes that are allocated
  thread,  \* the call that each thread runs, and the status of its last answer
  client,  \* what each client is doing, or has done last
  ops      \* operations begun

vars == <<table, memory, used, thread, client, ops>>

NoTable == [e \in Types |-> None]

\* A thread that runs no call.
NoCall ==
  [pc |-> "done", op |-> "none", type |-> None, client |-> None, node |-> None,
   seen |-> NoTable, ran |-> None, status |-> "NONE", gone |-> FALSE, may |-> {}]

Free(t) == thread[t].pc = "done"
Idle(c) == client[c].todo = {} /\ ~client[c].waiting

\* An event that looks for its function.
Looks(t) == thread[t].pc \in {"event", "event_copy"}

Init ==
  /\ table = NoTable
  /\ memory = [n \in Nodes |-> [key |-> None, func |-> None]]
  /\ used = {}
  /\ thread = [t \in Threads |-> NoCall]
  /\ client = [c \in Clients |->
       [op |-> "none", todo |-> {}, waiting |-> FALSE, success |-> FALSE,
        spared |-> FALSE]]
  /\ ops = 0

-----------------------------------------------------------------------------
(* Clients.                                                                *)

Opposed(op1, op2) == {op1, op2} = {"hook", "unhook"}

\* Client c begins operation op, which makes a call for each type in todo.
\* spared says that the server did not restart since, and that no other client
\* undoes what it does.
Begin(c, op, todo) ==
  /\ ops < MaxOps
  /\ ops' = ops + 1
  /\ Idle(c)
  /\ client' = [d \in Clients |->
       IF d = c
       THEN [op |-> op, todo |-> todo, waiting |-> FALSE, success |-> TRUE,
             spared |-> \A b \in Clients : Idle(b) \/ ~Opposed(client[b].op, op)]
       ELSE [client[d] EXCEPT !.spared = @ /\ ~Opposed(client[d].op, op)]]
  /\ UNCHANGED <<table, memory, used, thread>>

HookAll(c)   == c \in Admins /\ Begin(c, "hook", Types)
UnhookAll(c) == c \in Admins /\ Begin(c, "unhook", Types)

\* RegisterUser(), Follow(), Profile(), Caw() and Read() of the client.
Event(c) == \E e \in Types : Begin(c, "event", {e})

\* The client makes its next call, and a thread of the server takes it.  Neither
\* client iterates over its table in an order one can tell.
Call(c) ==
  /\ ~client[c].waiting
  /\ \E e \in client[c].todo, t \in Threads :
       /\ Free(t)
       /\ client' = [client EXCEPT ![c].todo = @ \ {e}, ![c].waiting = TRUE]
       /\ thread' = [thread EXCEPT ![t] =
            [NoCall EXCEPT !.pc = client[c].op, !.op = client[c].op, !.type = e,
                           !.client = c]]
  /\ UNCHANGED <<table, memory, used, ops>>

\* What client c makes of an answer.
Answered(c, status) ==
  [client EXCEPT ![c].waiting = FALSE, ![c].success = @ /\ status = "OK"]

\* The 10 s of the Go client are over; the thread goes on, and nobody listens.
GiveUp(c) ==
  /\ c \in Impatient
  /\ client[c].waiting
  /\ client' = Answered(c, "DEADLINE_EXCEEDED")
  /\ thread' = [t \in Threads |->
       IF thread[t].client = c THEN [thread[t] EXCEPT !.client = None] ELSE thread[t]]
  /\ UNCHANGED <<table, memory, used, ops>>

-----------------------------------------------------------------------------
(* Threads.                                                                *)

\* registered_funcs_.find(e): an entry is found by the key in its node.
Found(e) == table[e] # None /\ memory[table[e]].key = e

\* Thread t answers; threads is what its step makes of the others.
AnswerAmong(threads, t, status) ==
  /\ thread' = [threads EXCEPT ![t] = [NoCall EXCEPT !.status = status]]
  /\ client' = IF thread[t].client = None THEN client
               ELSE Answered(thread[t].client, status)

Answer(t, status) == AnswerAmong(thread, t, status)

\* Thread t goes on at pc, with node n.
GoesOn(t, pc, n) ==
  /\ thread' = [thread EXCEPT ![t].pc = pc, ![t].node = n]
  /\ UNCHANGED client

\* operator[] finds the entry of the type, or makes one with an empty function.
HookFind(t) ==
  /\ thread[t].pc = "hook"
  /\ LET e == thread[t].type IN
     \/ /\ e \notin Predefined
        /\ Answer(t, "NOT_FOUND")
        /\ UNCHANGED <<memory, used>>
     \/ /\ e \in Predefined /\ Found(e)
        /\ GoesOn(t, "hook_assign", table[e])
        /\ UNCHANGED <<memory, used>>
     \/ /\ e \in Predefined /\ ~Found(e)
        /\ \E n \in Nodes \ used :
             /\ used' = used \cup {n}
             /\ memory' = [memory EXCEPT ![n] = [key |-> e, func |-> None]]
             /\ thread' = [thread EXCEPT ![t].pc = "hook_link", ![t].node = n,
                                         ![t].seen = table]
        /\ UNCHANGED client
  /\ UNCHANGED <<table, ops>>

HookLink(t) ==
  /\ thread[t].pc = "hook_link"
  /\ table' = [thread[t].seen EXCEPT ![thread[t].type] = thread[t].node]
  /\ GoesOn(t, "hook_assign", thread[t].node)
  /\ UNCHANGED <<memory, used, ops>>

\* Function e is hooked, and an event whose type is gone may find it.
HookedNow(e) ==
  [t \in Threads |-> IF Looks(t) /\ thread[t].gone
                     THEN [thread[t] EXCEPT !.may = @ \cup {e}] ELSE thread[t]]

HookAssign(t) ==
  /\ thread[t].pc = "hook_assign"
  /\ memory' = [memory EXCEPT ![thread[t].node].func = thread[t].type]
  /\ AnswerAmong(HookedNow(thread[t].type), t, "OK")
  /\ UNCHANGED <<table, used, ops>>

UnhookFind(t) ==
  /\ thread[t].pc = "unhook"
  /\ IF Found(thread[t].type) THEN GoesOn(t, "unhook_erase", table[thread[t].type])
     ELSE Answer(t, "NOT_FOUND")
  /\ UNCHANGED <<table, memory, used, ops>>

\* Mutant of Unlinked: the entry stays.
UnlinkedNot(n) == table

\* erase(iter): its node is taken out, under whichever type it lies, and given back.
Unlinked(n) == [e \in Types |-> IF table[e] = n THEN None ELSE table[e]]

\* Type e is unhooked, and gone for the events that look for its function.
UnhookedNow(e) ==
  [t \in Threads |-> IF Looks(t) /\ thread[t].type = e
                     THEN [thread[t] EXCEPT !.gone = TRUE] ELSE thread[t]]

UnhookErase(t) ==
  /\ thread[t].pc = "unhook_erase"
  /\ thread[t].node \in Range(table)
  /\ table' = Unlinked(thread[t].node)
  /\ used' = used \ {thread[t].node}
  /\ AnswerAmong(UnhookedNow(thread[t].type), t, "OK")
  /\ UNCHANGED <<memory, ops>>

\* Mutant of EventFind: the iterator is used without comparing it with end().
EventFindAnyway(t) ==
  /\ thread[t].pc = "event"
  /\ GoesOn(t, "event_copy", IF Found(thread[t].type) THEN table[thread[t].type] ELSE None)
  /\ UNCHANGED <<table, memory, used, ops>>

EventFind(t) ==
  /\ thread[t].pc = "event"
  /\ IF Found(thread[t].type) THEN GoesOn(t, "event_copy", table[thread[t].type])
     ELSE Answer(t, "NOT_FOUND")
  /\ UNCHANGED <<table, memory, used, ops>>

\* func is what lies in the node by now; calling an empty one throws, which gRPC
\* turns into an answer.
EventCopy(t) ==
  /\ thread[t].pc = "event_copy"
  /\ LET func == memory[thread[t].node].func IN
       IF func = None THEN Answer(t, "UNKNOWN")
       ELSE /\ thread' = [thread EXCEPT ![t].pc = "event_run", ![t].ran = func]
            /\ UNCHANGED client
  /\ UNCHANGED <<table, memory, used, ops>>

\* The handler comes to its end; its own statuses are in CawHandler.
EventRun(t) ==
  /\ thread[t].pc = "event_run"
  /\ Answer(t, "OK")
  /\ UNCHANGED <<table, memory, used, ops>>

-----------------------------------------------------------------------------
(* The server dies and is started again, with an empty table.  Whoever     *)
(* waits for an answer learns that the connection is gone.                 *)

\* Mutant of Unanswered: whoever waits is not told.
UnansweredSilently(c) == [client[c] EXCEPT !.spared = FALSE]

\* What the end of the server means to client c.
Unanswered(c) ==
  [client[c] EXCEPT !.waiting = FALSE, !.spared = FALSE,
                    !.success = @ /\ ~client[c].waiting]

Dies ==
  /\ table' = NoTable
  /\ memory' = [n \in Nodes |-> [key |-> None, func |-> None]]
  /\ used' = {}
  /\ thread' = [t \in Threads |-> NoCall]
  /\ client' = [c \in Clients |-> Unanswered(c)]
  /\ UNCHANGED ops

Crash == Dies

\* A node that was erased is used, of which the process may die; erasing one that
\* is not linked it does.
Fault(t) ==
  /\ \/ /\ thread[t].pc \in {"hook_assign", "event_copy"}
        /\ thread[t].node \notin used
     \/ /\ thread[t].pc = "unhook_erase"
        /\ thread[t].node \notin Range(table)
  /\ Dies

-----------------------------------------------------------------------------

Step(t) ==
  \/ HookFind(t) \/ HookLink(t) \/ HookAssign(t)
  \/ UnhookFind(t) \/ UnhookErase(t)
  \/ EventFind(t) \/ EventCopy(t) \/ EventRun(t)
  \/ Fault(t)

Next ==
  \/ \E c \in Clients : HookAll(c) \/ UnhookAll(c) \/ Event(c) \/ Call(c) \/ GiveUp(c)
  \/ \E t \in Threads : Step(t)
  \/ Crash

Spec == Init /\ [][Next]_vars

\* gRPC runs all its threads, and a client that has begun goes on.
FairSpec ==
  /\ Spec
  /\ \A t \in Threads : WF_vars(Step(t))
  /\ \A c \in Clients : WF_vars(Call(c))

-----------------------------------------------------------------------------
(* Properties.                                                             *)

Statuses == {"NONE", "OK", "NOT_FOUND", "UNKNOWN"}

TypeOK ==
  /\ table \in [Types -> Nodes \cup {None}]
  /\ memory \in [Nodes -> [key : Types \cup {None}, func : Types \cup {None}]]
  /\ used \subseteq Nodes
  /\ ops \in 0..MaxOps
  /\ \A c \in Clients : client[c].todo \subseteq Types
  /\ \A t \in Threads :
       /\ thread[t].status \in Statuses
       /\ thread[t].client \in Clients \cup {None}
       /\ thread[t].pc \in {"hook_link", "hook_assign", "unhook_erase", "event_copy"} =>
            thread[t].node \in Nodes
       /\ thread[t].pc = "event_run" => thread[t].ran \in Types

\* The types that have their function, and no other.
Hooked == {e \in Types : Found(e) /\ memory[table[e]].func = e}

\* What HookAll and UnhookAll report is so, until somebody undoes it or the server
\* restarts: true means that all functions are in the table, or that none is
\* (CawClient).  It is, if one client at a time calls them and waits for the
\* answers, and is not if two hook all functions at a time.
ReportIsTrue ==
  \A c \in Admins :
    Idle(c) /\ client[c].success /\ client[c].spared =>
      /\ client[c].op = "hook" => Hooked = Types
      /\ client[c].op = "unhook" => table = NoTable

\* Every call of a client returns, also the calls of the C++ client, which have
\* no deadline.
CallsReturn == \A c \in Clients : ~Idle(c) ~> Idle(c)

Table == INSTANCE HookTable WITH
  on  <- Hooked,
  req <- [t \in Threads |->
            [op |-> thread[t].op, type |-> thread[t].type, ran |-> thread[t].ran,
             gone |-> thread[t].gone, may |-> thread[t].may,
             status |-> thread[t].status]]

\* As long as one client at a time hooks and unhooks, the map that is used without
\* a lock is the table in which each hook and unhook takes effect at once and
\* lasts: an event runs its own function or, once its type was unhooked under it,
\* one that was hooked since, whatever events are given up on or lost in a restart.
ImplementsHookTable == Table!HookTableSpec
=============================================================================
