--------------------------- MODULE FazServiceProofs --------------------------
(***************************************************************************)
(* Proofs about FazService, for any types, functions, nodes, threads,      *)
(* clients and bounds: the types always hold, and where one client hooks   *)
(* and unhooks, and waits for the answers, the map of the server is the    *)
(* table of HookTable.                                                     *)
(***************************************************************************)
EXTENDS FazService, FunctionTheorems, TLAPS

-----------------------------------------------------------------------------
(* Types.                                                                  *)

HookPCs   == {"hook", "hook_link", "hook_assign"}
UnhookPCs == {"unhook", "unhook_erase"}
EventPCs  == {"event", "event_copy", "event_run"}

ThreadRecord ==
  [pc : {"done"} \cup HookPCs \cup UnhookPCs \cup EventPCs,
   op : {"none", "hook", "unhook", "event"}, type : Types \cup {None},
   client : Clients \cup {None}, node : Nodes \cup {None},
   seen : [Types -> Nodes \cup {None}], ran : Types \cup {None}, status : Statuses,
   gone : BOOLEAN, may : SUBSET Types]

ClientRecord ==
  [op : {"none", "hook", "unhook", "event"}, todo : SUBSET Types, waiting : BOOLEAN,
   success : BOOLEAN, spared : BOOLEAN]

Cell == [key : Types \cup {None}, func : Types \cup {None}]

\* A thread that runs a call has its arguments, and stands at one of its stages.
ThreadOK(r) ==
  /\ r.pc = "done" <=> r.op = "none"
  /\ r.pc \in HookPCs <=> r.op = "hook"
  /\ r.pc \in UnhookPCs <=> r.op = "unhook"
  /\ r.pc \in EventPCs <=> r.op = "event"
  /\ r.op # "none" => r.type \in Types
  /\ r.op = "none" => r.client = None
  /\ r.pc \in {"hook_link", "hook_assign"} => r.type \in Predefined
  /\ r.pc \in {"hook_link", "hook_assign", "unhook_erase", "event_copy"} => r.node \in Nodes
  /\ r.ran # None <=> r.pc = "event_run"

Typed ==
  /\ table \in [Types -> Nodes \cup {None}]
  /\ memory \in [Nodes -> Cell]
  /\ used \subseteq Nodes
  /\ thread \in [Threads -> ThreadRecord]
  /\ \A t \in Threads : ThreadOK(thread[t])
  /\ client \in [Clients -> ClientRecord]
  /\ ops \in 0..MaxOps

-----------------------------------------------------------------------------
(* The invariants.                                                         *)

Hooks(t) == thread[t].op \in {"hook", "unhook"}

\* A client waits for the one thread that runs its call.
Owned ==
  /\ \A t \in Threads : thread[t].client # None =>
       /\ client[thread[t].client].waiting
       /\ client[thread[t].client].op = thread[t].op
       /\ \A s \in Threads : thread[s].client = thread[t].client => s = t
  /\ \A c \in Clients : /\ client[c].op \in {"hook", "unhook"} => c \in Admins
                        /\ client[c].todo # {} => client[c].op # "none"

\* One client at a time hooks and unhooks, and it waits for the answers.
OneAdmin == (\A a, b \in Admins : a = b) /\ Admins \cap Impatient = {}

\* Then so does one thread at a time.
OneHooks ==
  /\ \A t \in Threads : Hooks(t) => thread[t].client \in Admins
  /\ \A s, t \in Threads : Hooks(s) /\ Hooks(t) => s = t

\* Under each type that has a node the table has its own, which is allocated and has
\* the function of the type, unless it is just being put there.
Linked(e) ==
  table[e] # None =>
    /\ table[e] \in used
    /\ memory[table[e]].key = e
    /\ memory[table[e]].func \in {e, None}
    /\ \/ memory[table[e]].func = e
       \/ \E t \in Threads : thread[t].pc = "hook_assign" /\ thread[t].node = table[e]

\* What a thread that hooks or unhooks has found is still so.
HookingOK(t) ==
  LET r == thread[t] IN
  /\ r.pc = "hook_link" =>
       /\ r.node \in used /\ \A e \in Types : table[e] # r.node
       /\ memory[r.node].key = r.type /\ memory[r.node].func = None
       /\ r.seen = table /\ table[r.type] = None
  /\ r.pc \in {"hook_assign", "unhook_erase"} => r.node = table[r.type]

\* What an event has found is what its type has, or what was hooked in its place
\* since its type was unhooked.
FindsOK(t) ==
  LET r == thread[t] IN
  r.pc = "event_copy" =>
    \/ r.node = table[r.type]
    \/ r.gone /\ memory[r.node].func \in {r.type, None} \cup r.may

MapOK ==
  /\ \A e \in Types : Linked(e)
  /\ \A t \in Threads : HookingOK(t) /\ FindsOK(t)

\* The types that client c still has to go through: those it has not called for, and
\* the one whose call is under way.
Remains(c, e) ==
  e \in client[c].todo \/ \E t \in Threads : thread[t].client = c /\ thread[t].type = e

\* The types that a client is through with are hooked, or not.
Reported(c) ==
  client[c].success /\ client[c].spared =>
    \A e \in Types : ~Remains(c, e) =>
      /\ client[c].op = "hook" => e \in Hooked
      /\ client[c].op = "unhook" => table[e] = None

AllReported == \A c \in Admins : Reported(c)

-----------------------------------------------------------------------------
(* What the steps do.                                                      *)

\* Thread s stands where it stood; what it knows of hooks and unhooks may change.
Stands(s) ==
  /\ thread'[s].pc = thread[s].pc /\ thread'[s].op = thread[s].op
  /\ thread'[s].type = thread[s].type /\ thread'[s].client = thread[s].client
  /\ thread'[s].node = thread[s].node /\ thread'[s].seen = thread[s].seen
  /\ thread'[s].ran = thread[s].ran /\ thread'[s].status = thread[s].status

\* The threads but t are as they were.
Leaves(t) == \A s \in Threads \ {t} : thread'[s] = thread[s]

\* The call of thread t goes on at pc, with node n.
Moves(t, pc, n) ==
  /\ thread' \in [Threads -> ThreadRecord]
  /\ \A s \in Threads \ {t} : thread'[s] = thread[s]
  /\ thread'[t].pc = pc /\ thread'[t].node = n
  /\ thread'[t].op = thread[t].op /\ thread'[t].type = thread[t].type
  /\ thread'[t].client = thread[t].client /\ thread'[t].ran = thread[t].ran
  /\ thread'[t].status = thread[t].status
  /\ thread'[t].gone = thread[t].gone /\ thread'[t].may = thread[t].may

\* The call of thread t ends with status, of which its client is told.
Ends(t, status) ==
  /\ thread' \in [Threads -> ThreadRecord]
  /\ \A s \in Threads \ {t} : Stands(s)
  /\ thread'[t].pc = "done" /\ thread'[t].op = "none" /\ thread'[t].type = None
  /\ thread'[t].client = None /\ thread'[t].ran = None
  /\ thread'[t].status = status
  /\ thread'[t].gone = FALSE /\ thread'[t].may = {}
  /\ client' \in [Clients -> ClientRecord]
  /\ \A c \in Clients : c # thread[t].client => client'[c] = client[c]
  /\ \A c \in Clients : c = thread[t].client =>
       /\ client'[c].op = client[c].op /\ client'[c].todo = client[c].todo
       /\ ~client'[c].waiting /\ client'[c].spared = client[c].spared
       /\ client'[c].success => client[c].success /\ status = "OK"

LEMMA AnsweredEffect ==
  ASSUME client \in [Clients -> ClientRecord], NEW c \in Clients, NEW status,
         client' = Answered(c, status)
  PROVE  /\ client' \in [Clients -> ClientRecord]
         /\ \A d \in Clients \ {c} : client'[d] = client[d]
         /\ client'[c].op = client[c].op /\ client'[c].todo = client[c].todo
         /\ ~client'[c].waiting /\ client'[c].spared = client[c].spared
         /\ client'[c].success => client[c].success /\ status = "OK"
<1> DEFINE r == client[c]
           d == [[r EXCEPT !.waiting = FALSE] EXCEPT
                   !.success = r.success /\ status = "OK"]
<1>1. r \in ClientRecord
  OBVIOUS
<1>2. /\ d \in ClientRecord
      /\ d.op = r.op /\ d.todo = r.todo /\ d.waiting = FALSE /\ d.spared = r.spared
      /\ d.success = (r.success /\ status = "OK")
  BY <1>1 DEF ClientRecord
<1>3. client' = [client EXCEPT ![c] = d]
  BY <1>1 DEF Answered, ClientRecord
<1> HIDE DEF d
<1> QED BY <1>2, <1>3

LEMMA AnswerAmongEffect ==
  ASSUME Typed, NEW t \in Threads, NEW status \in Statuses,
         NEW threads \in [Threads -> ThreadRecord],
         \A s \in Threads :
           /\ threads[s].pc = thread[s].pc /\ threads[s].op = thread[s].op
           /\ threads[s].type = thread[s].type /\ threads[s].client = thread[s].client
           /\ threads[s].node = thread[s].node /\ threads[s].seen = thread[s].seen
           /\ threads[s].ran = thread[s].ran /\ threads[s].status = thread[s].status,
         AnswerAmong(threads, t, status)
  PROVE  Ends(t, status) /\ \A s \in Threads \ {t} : thread'[s] = threads[s]
<1>1. /\ client \in [Clients -> ClientRecord] /\ thread \in [Threads -> ThreadRecord]
      /\ thread[t] \in ThreadRecord
  BY DEF Typed
<1>2. thread[t].client \in Clients \cup {None} /\ None \notin Clients
  BY <1>1, NoneAssumption DEF ThreadRecord
<1>3. /\ client' \in [Clients -> ClientRecord]
      /\ \A c \in Clients : c # thread[t].client => client'[c] = client[c]
      /\ \A c \in Clients : c = thread[t].client =>
           /\ client'[c].op = client[c].op /\ client'[c].todo = client[c].todo
           /\ ~client'[c].waiting /\ client'[c].spared = client[c].spared
           /\ client'[c].success => client[c].success /\ status = "OK"
  <2>1. CASE thread[t].client = None
    BY <1>1, <1>2, <2>1 DEF AnswerAmong
  <2>2. CASE thread[t].client # None
    <3>1. PICK c \in Clients : c = thread[t].client
      BY <1>2, <2>2
    <3>2. client' = Answered(c, status)
      BY <2>2, <3>1 DEF AnswerAmong
    <3> QED BY <1>1, <3>1, <3>2, AnsweredEffect
  <2> QED BY <2>1, <2>2
<1> DEFINE d == [NoCall EXCEPT !.status = status]
<1>4. /\ d = [pc |-> "done", op |-> "none", type |-> None, client |-> None, node |-> None,
              seen |-> NoTable, ran |-> None, status |-> status, gone |-> FALSE,
              may |-> {}]
      /\ NoTable \in [Types -> Nodes \cup {None}]
  <2>1. ASSUME NEW r, r = d
        PROVE  r = [pc |-> "done", op |-> "none", type |-> None, client |-> None,
                    node |-> None, seen |-> NoTable, ran |-> None, status |-> status,
                    gone |-> FALSE, may |-> {}]
    BY <2>1 DEF NoCall
  <2>2. NoTable \in [Types -> Nodes \cup {None}]
    BY DEF NoTable
  <2> HIDE DEF d
  <2> QED BY <2>1, <2>2
<1>5. thread' = [threads EXCEPT ![t] = d]
  BY DEF AnswerAmong
<1> HIDE DEF d
<1>6. /\ d \in ThreadRecord
      /\ d.pc = "done" /\ d.op = "none" /\ d.type = None /\ d.client = None
      /\ d.ran = None /\ d.status = status /\ d.gone = FALSE /\ d.may = {}
  BY <1>4 DEF ThreadRecord
<1>7. /\ thread' \in [Threads -> ThreadRecord] /\ thread'[t] = d
      /\ \A s \in Threads \ {t} : thread'[s] = threads[s]
  BY <1>5, <1>6
<1>8. \A s \in Threads \ {t} : Stands(s)
  BY <1>7 DEF Stands
<1> QED BY <1>3, <1>6, <1>7, <1>8 DEF Ends

LEMMA AnswerEffect ==
  ASSUME Typed, NEW t \in Threads, NEW status \in Statuses, Answer(t, status)
  PROVE  Ends(t, status) /\ Leaves(t)
<1>1. thread \in [Threads -> ThreadRecord] /\ AnswerAmong(thread, t, status)
  BY DEF Typed, Answer
<1> QED BY <1>1, AnswerAmongEffect DEF Leaves

LEMMA GoesOnEffect ==
  ASSUME Typed, NEW t \in Threads, NEW pc \in HookPCs \cup UnhookPCs \cup EventPCs,
         NEW n \in Nodes \cup {None}, GoesOn(t, pc, n)
  PROVE  Moves(t, pc, n) /\ client' = client
<1> DEFINE r == thread[t]
           d == [[r EXCEPT !.pc = pc] EXCEPT !.node = n]
<1>1. r \in ThreadRecord /\ thread \in [Threads -> ThreadRecord]
  BY DEF Typed
<1>2. /\ d \in ThreadRecord
      /\ d.pc = pc /\ d.node = n /\ d.op = r.op /\ d.type = r.type /\ d.client = r.client
      /\ d.ran = r.ran /\ d.status = r.status /\ d.gone = r.gone /\ d.may = r.may
  BY <1>1 DEF ThreadRecord
<1>3. thread' = [thread EXCEPT ![t] = d]
  BY DEF GoesOn
<1> HIDE DEF d
<1> QED BY <1>1, <1>2, <1>3 DEF Moves, GoesOn

\* A client begins an operation.
LEMMA BeginEffect ==
  ASSUME Typed, NEW c \in Clients, NEW op \in {"hook", "unhook", "event"},
         NEW todo \in SUBSET Types, Begin(c, op, todo)
  PROVE  /\ UNCHANGED <<table, memory, used, thread>> /\ ops' \in 0..MaxOps
         /\ ~client[c].waiting
         /\ client' \in [Clients -> ClientRecord]
         /\ \A d \in Clients \ {c} :
              /\ client'[d].op = client[d].op /\ client'[d].todo = client[d].todo
              /\ client'[d].waiting = client[d].waiting
              /\ client'[d].success = client[d].success
              /\ client'[d].spared => client[d].spared
         /\ client'[c].op = op /\ client'[c].todo = todo
<1>1. PICK spared \in BOOLEAN :
        spared = (\A b \in Clients : Idle(b) \/ ~Opposed(client[b].op, op))
  OBVIOUS
<1>2. client'[c] \in ClientRecord /\ client'[c].op = op /\ client'[c].todo = todo
  <2> DEFINE r == [op |-> op, todo |-> todo, waiting |-> FALSE, success |-> TRUE,
                   spared |-> spared]
  <2>1. r \in ClientRecord /\ r.op = op /\ r.todo = todo
    BY DEF ClientRecord
  <2>2. client'[c] = r
    BY <1>1 DEF Begin
  <2> HIDE DEF r
  <2> QED BY <2>1, <2>2
<1>3. ASSUME NEW d \in Clients \ {c}
      PROVE  /\ client'[d] \in ClientRecord
             /\ client'[d].op = client[d].op /\ client'[d].todo = client[d].todo
             /\ client'[d].waiting = client[d].waiting
             /\ client'[d].success = client[d].success
             /\ client'[d].spared => client[d].spared
  <2> DEFINE r == client[d]
  <2>1. PICK opposed \in BOOLEAN : opposed = Opposed(r.op, op)
    BY DEF Opposed
  <2> DEFINE n == [r EXCEPT !.spared = r.spared /\ ~opposed]
  <2>2. r \in ClientRecord
    BY DEF Typed
  <2>3. /\ n \in ClientRecord /\ n.op = r.op /\ n.todo = r.todo
        /\ n.waiting = r.waiting /\ n.success = r.success
        /\ n.spared = (r.spared /\ ~opposed)
    BY <2>2 DEF ClientRecord
  <2>4. client'[d] = n
    BY <2>1, <2>2 DEF Begin, ClientRecord
  <2> HIDE DEF n
  <2> QED BY <2>3, <2>4
<1>4. client' \in [Clients -> ClientRecord]
  <2>1. client' = [d \in Clients |-> client'[d]]
    BY DEF Begin
  <2> QED BY <1>2, <1>3, <2>1
<1>5. ops' \in 0..MaxOps
  BY MaxOpsAssumption DEF Begin, Typed
<1> QED BY <1>2, <1>3, <1>4, <1>5 DEF Begin, Idle

\* A client makes its next call, for type e, which thread t takes.
Calls(c, e, t) ==
  /\ UNCHANGED <<table, memory, used, ops>>
  /\ ~client[c].waiting /\ e \in client[c].todo /\ thread[t].pc = "done"
  /\ client' \in [Clients -> ClientRecord]
  /\ \A d \in Clients \ {c} : client'[d] = client[d]
  /\ client'[c].op = client[c].op /\ client'[c].todo = client[c].todo \ {e}
  /\ client'[c].waiting /\ client'[c].success = client[c].success
  /\ client'[c].spared = client[c].spared
  /\ thread' \in [Threads -> ThreadRecord]
  /\ Leaves(t)
  /\ thread'[t].pc = client[c].op /\ thread'[t].op = client[c].op
  /\ thread'[t].type = e /\ thread'[t].client = c /\ thread'[t].ran = None
  /\ thread'[t].status = "NONE" /\ thread'[t].gone = FALSE /\ thread'[t].may = {}

LEMMA CallEffect ==
  ASSUME Typed, Owned, NEW c \in Clients, Call(c)
  PROVE  \E e \in Types, t \in Threads : Calls(c, e, t)
<1>1. PICK e \in client[c].todo, t \in Threads :
        /\ Free(t)
        /\ client' = [client EXCEPT ![c].todo = @ \ {e}, ![c].waiting = TRUE]
        /\ thread' = [thread EXCEPT ![t] =
             [NoCall EXCEPT !.pc = client[c].op, !.op = client[c].op, !.type = e,
                            !.client = c]]
  BY DEF Call
<1>2. /\ client[c] \in ClientRecord /\ client \in [Clients -> ClientRecord]
      /\ thread \in [Threads -> ThreadRecord]
  BY DEF Typed
<1>3. client[c].op \in {"hook", "unhook", "event"} /\ e \in Types
  BY <1>1, <1>2 DEF Owned, ClientRecord
<1>4. /\ client' \in [Clients -> ClientRecord]
      /\ \A d \in Clients \ {c} : client'[d] = client[d]
      /\ client'[c].op = client[c].op /\ client'[c].todo = client[c].todo \ {e}
      /\ client'[c].waiting /\ client'[c].success = client[c].success
      /\ client'[c].spared = client[c].spared
  <2> DEFINE r == client[c]
             d == [[r EXCEPT !.todo = r.todo \ {e}] EXCEPT !.waiting = TRUE]
  <2>1. /\ d \in ClientRecord
        /\ d.op = r.op /\ d.todo = r.todo \ {e} /\ d.waiting = TRUE
        /\ d.success = r.success /\ d.spared = r.spared
    BY <1>2 DEF ClientRecord
  <2>2. client' = [client EXCEPT ![c] = d]
    BY <1>1, <1>2 DEF ClientRecord
  <2> HIDE DEF d
  <2> QED BY <1>2, <2>1, <2>2
<1>5. /\ thread' \in [Threads -> ThreadRecord] /\ Leaves(t)
      /\ thread'[t].pc = client[c].op /\ thread'[t].op = client[c].op
      /\ thread'[t].type = e /\ thread'[t].client = c /\ thread'[t].ran = None
      /\ thread'[t].status = "NONE" /\ thread'[t].gone = FALSE /\ thread'[t].may = {}
  <2> DEFINE d == [NoCall EXCEPT !.pc = client[c].op, !.op = client[c].op, !.type = e,
                                 !.client = c]
  <2>1. /\ d = [pc |-> client[c].op, op |-> client[c].op, type |-> e, client |-> c,
                node |-> None, seen |-> NoTable, ran |-> None, status |-> "NONE",
                gone |-> FALSE, may |-> {}]
        /\ NoTable \in [Types -> Nodes \cup {None}]
    <3>1. ASSUME NEW r, r = d
          PROVE  r = [pc |-> client[c].op, op |-> client[c].op, type |-> e, client |-> c,
                      node |-> None, seen |-> NoTable, ran |-> None, status |-> "NONE",
                      gone |-> FALSE, may |-> {}]
      BY <3>1 DEF NoCall
    <3>2. NoTable \in [Types -> Nodes \cup {None}]
      BY DEF NoTable
    <3> HIDE DEF d
    <3> QED BY <3>1, <3>2
  <2>2. thread' = [thread EXCEPT ![t] = d]
    BY <1>1
  <2> HIDE DEF d
  <2>3. /\ d \in ThreadRecord
        /\ d.pc = client[c].op /\ d.op = client[c].op /\ d.type = e /\ d.client = c
        /\ d.ran = None /\ d.status = "NONE" /\ d.gone = FALSE /\ d.may = {}
    BY <1>3, <2>1 DEF ThreadRecord, HookPCs, UnhookPCs, EventPCs, Statuses
  <2> QED BY <1>2, <2>2, <2>3 DEF Leaves
<1>6. thread[t].pc = "done" /\ ~client[c].waiting /\ UNCHANGED <<table, memory, used, ops>>
  BY <1>1 DEF Free, Call
<1>7. Calls(c, e, t)
  BY <1>1, <1>4, <1>5, <1>6 DEF Calls
<1> QED BY <1>3, <1>7

LEMMA StepTypes ==
  ASSUME Typed, NEW t \in Threads
  PROVE  /\ thread[t] \in ThreadRecord /\ ThreadOK(thread[t])
         /\ \A e \in Types : table[e] \in Nodes \cup {None}
         /\ \A n \in Nodes : memory[n] \in Cell
         /\ {"hook", "hook_link", "hook_assign", "unhook", "unhook_erase", "event",
             "event_copy", "event_run"} = HookPCs \cup UnhookPCs \cup EventPCs
         /\ {"OK", "NOT_FOUND", "UNKNOWN"} \subseteq Statuses
BY DEF Typed, HookPCs, UnhookPCs, EventPCs, Statuses

LEMMA HookFindEffect ==
  ASSUME Typed, NEW t \in Threads, HookFind(t)
  PROVE  /\ thread[t].pc = "hook" /\ thread[t].op = "hook" /\ thread[t].type \in Types
         /\ UNCHANGED <<table, ops>> /\ Leaves(t)
         /\ \/ /\ thread[t].type \notin Predefined
               /\ Ends(t, "NOT_FOUND")
               /\ UNCHANGED <<memory, used>>
            \/ /\ thread[t].type \in Predefined /\ Found(thread[t].type)
               /\ Moves(t, "hook_assign", table[thread[t].type])
               /\ UNCHANGED <<memory, used, client>>
            \/ /\ thread[t].type \in Predefined /\ ~Found(thread[t].type)
               /\ UNCHANGED client
               /\ \E n \in Nodes \ used :
                    /\ used' = used \cup {n}
                    /\ memory' \in [Nodes -> Cell]
                    /\ memory'[n].key = thread[t].type /\ memory'[n].func = None
                    /\ \A m \in Nodes \ {n} : memory'[m] = memory[m]
                    /\ Moves(t, "hook_link", n)
                    /\ thread'[t].seen = table
<1>1. /\ thread[t].pc = "hook" /\ thread[t].op = "hook" /\ thread[t].type \in Types
      /\ UNCHANGED <<table, ops>>
  BY StepTypes DEF HookFind, ThreadOK, HookPCs
<1> DEFINE e == thread[t].type
<1>2. CASE e \notin Predefined /\ Answer(t, "NOT_FOUND") /\ UNCHANGED <<memory, used>>
  BY <1>1, <1>2, StepTypes, AnswerEffect
<1>3. CASE /\ e \in Predefined /\ Found(e) /\ GoesOn(t, "hook_assign", table[e])
           /\ UNCHANGED <<memory, used>>
  BY <1>1, <1>3, StepTypes, GoesOnEffect DEF Moves, Leaves
<1>4. CASE /\ e \in Predefined /\ ~Found(e) /\ UNCHANGED client
           /\ \E n \in Nodes \ used :
                /\ used' = used \cup {n}
                /\ memory' = [memory EXCEPT ![n] = [key |-> e, func |-> None]]
                /\ thread' = [thread EXCEPT ![t].pc = "hook_link", ![t].node = n,
                                            ![t].seen = table]
  <2>1. PICK n \in Nodes \ used :
          /\ used' = used \cup {n}
          /\ memory' = [memory EXCEPT ![n] = [key |-> e, func |-> None]]
          /\ thread' = [thread EXCEPT ![t].pc = "hook_link", ![t].node = n,
                                      ![t].seen = table]
    BY <1>4
  <2>2. /\ memory' \in [Nodes -> Cell]
        /\ memory'[n].key = e /\ memory'[n].func = None
        /\ \A m \in Nodes \ {n} : memory'[m] = memory[m]
    <3> DEFINE cell == [key |-> e, func |-> None]
    <3>1. cell \in Cell /\ cell.key = e /\ cell.func = None
      BY <1>1 DEF Cell
    <3>2. memory \in [Nodes -> Cell] /\ memory' = [memory EXCEPT ![n] = cell]
      BY <2>1 DEF Typed
    <3> HIDE DEF cell
    <3> QED BY <3>1, <3>2
  <2>3. Moves(t, "hook_link", n) /\ thread'[t].seen = table
    <3> DEFINE r == thread[t]
               d == [[[r EXCEPT !.pc = "hook_link"] EXCEPT !.node = n] EXCEPT !.seen = table]
    <3>1. r \in ThreadRecord /\ thread \in [Threads -> ThreadRecord]
          /\ "hook_link" \in HookPCs /\ table \in [Types -> Nodes \cup {None}]
      BY DEF Typed, HookPCs
    <3>2. /\ d \in ThreadRecord
          /\ d.pc = "hook_link" /\ d.node = n /\ d.seen = table /\ d.op = r.op
          /\ d.type = r.type /\ d.client = r.client
          /\ d.ran = r.ran /\ d.status = r.status /\ d.gone = r.gone /\ d.may = r.may
      BY <3>1 DEF ThreadRecord
    <3>3. thread' = [thread EXCEPT ![t] = d]
      BY <2>1
    <3> HIDE DEF d
    <3> QED BY <3>1, <3>2, <3>3 DEF Moves
  <2>4. Leaves(t)
    BY <2>3 DEF Moves, Leaves
  <2> QED BY <1>1, <1>4, <2>1, <2>2, <2>3, <2>4
<1> QED BY <1>2, <1>3, <1>4 DEF HookFind

LEMMA HookLinkEffect ==
  ASSUME Typed, NEW t \in Threads, HookLink(t)
  PROVE  /\ thread[t].pc = "hook_link" /\ thread[t].op = "hook"
         /\ thread[t].type \in Types /\ thread[t].node \in Nodes
         /\ UNCHANGED <<memory, used, ops, client>>
         /\ table' \in [Types -> Nodes \cup {None}]
         /\ table'[thread[t].type] = thread[t].node
         /\ \A e \in Types \ {thread[t].type} : table'[e] = thread[t].seen[e]
         /\ Moves(t, "hook_assign", thread[t].node)
<1>1. /\ thread[t].pc = "hook_link" /\ thread[t].op = "hook"
      /\ thread[t].type \in Types /\ thread[t].node \in Nodes
      /\ thread[t].seen \in [Types -> Nodes \cup {None}]
  BY StepTypes DEF HookLink, ThreadOK, HookPCs, ThreadRecord
<1>2. Moves(t, "hook_assign", thread[t].node) /\ client' = client
  BY <1>1, StepTypes, GoesOnEffect DEF HookLink
<1>3. /\ table' = [thread[t].seen EXCEPT ![thread[t].type] = thread[t].node]
      /\ UNCHANGED <<memory, used, ops>>
  BY DEF HookLink
<1> QED BY <1>1, <1>2, <1>3

\* What thread s sees of a hook, or an unhook, of type e.
SeesHook(s, e) ==
  /\ thread'[s].gone = thread[s].gone
  /\ thread'[s].may = IF Looks(s) /\ thread[s].gone THEN thread[s].may \cup {e}
                                                  ELSE thread[s].may

SeesUnhook(s, e) ==
  /\ thread'[s].gone = (thread[s].gone \/ (Looks(s) /\ thread[s].type = e))
  /\ thread'[s].may = thread[s].may

LEMMA HookAssignEffect ==
  ASSUME Typed, NEW t \in Threads, HookAssign(t)
  PROVE  /\ thread[t].pc = "hook_assign" /\ thread[t].op = "hook"
         /\ thread[t].type \in Types /\ thread[t].type \in Predefined
         /\ thread[t].node \in Nodes
         /\ UNCHANGED <<table, used, ops>>
         /\ memory' \in [Nodes -> Cell]
         /\ memory'[thread[t].node].func = thread[t].type
         /\ memory'[thread[t].node].key = memory[thread[t].node].key
         /\ \A n \in Nodes \ {thread[t].node} : memory'[n] = memory[n]
         /\ Ends(t, "OK")
         /\ \A s \in Threads \ {t} : SeesHook(s, thread[t].type)
<1>1. /\ thread[t].pc = "hook_assign" /\ thread[t].op = "hook"
      /\ thread[t].type \in Types /\ thread[t].type \in Predefined
      /\ thread[t].node \in Nodes
  BY StepTypes DEF HookAssign, ThreadOK, HookPCs
<1>2. /\ Ends(t, "OK") /\ UNCHANGED <<table, used, ops>>
      /\ \A s \in Threads \ {t} : SeesHook(s, thread[t].type)
  <2>1. PICK threads : threads = HookedNow(thread[t].type)
    OBVIOUS
  <2>2. AnswerAmong(threads, t, "OK") /\ UNCHANGED <<table, used, ops>>
    BY <2>1 DEF HookAssign
  <2>3. ASSUME NEW s \in Threads
        PROVE  /\ threads[s] \in ThreadRecord
               /\ threads[s].pc = thread[s].pc /\ threads[s].op = thread[s].op
               /\ threads[s].type = thread[s].type /\ threads[s].client = thread[s].client
               /\ threads[s].node = thread[s].node /\ threads[s].seen = thread[s].seen
               /\ threads[s].ran = thread[s].ran /\ threads[s].status = thread[s].status
               /\ threads[s].gone = thread[s].gone
               /\ threads[s].may = IF Looks(s) /\ thread[s].gone
                                   THEN thread[s].may \cup {thread[t].type}
                                   ELSE thread[s].may
    <3> DEFINE r == thread[s]
               d == [r EXCEPT !.may = r.may \cup {thread[t].type}]
    <3>1. r \in ThreadRecord
      BY DEF Typed
    <3>2. /\ d \in ThreadRecord
          /\ d.pc = r.pc /\ d.op = r.op /\ d.type = r.type /\ d.client = r.client
          /\ d.node = r.node /\ d.seen = r.seen /\ d.ran = r.ran /\ d.status = r.status
          /\ d.gone = r.gone /\ d.may = r.may \cup {thread[t].type}
      BY <1>1, <3>1 DEF ThreadRecord
    <3>3. threads[s] = IF Looks(s) /\ r.gone THEN d ELSE r
      BY <2>1, <3>1 DEF HookedNow, ThreadRecord
    <3> HIDE DEF d
    <3> QED BY <3>1, <3>2, <3>3
  <2>4. threads \in [Threads -> ThreadRecord]
    <3>1. threads = [s \in Threads |-> threads[s]]
      BY <2>1 DEF HookedNow
    <3> QED BY <2>3, <3>1
  <2>5. Ends(t, "OK") /\ \A s \in Threads \ {t} : thread'[s] = threads[s]
    BY <2>2, <2>3, <2>4, StepTypes, AnswerAmongEffect
  <2> QED BY <2>2, <2>3, <2>5 DEF SeesHook
<1> DEFINE r == memory[thread[t].node]
           d == [r EXCEPT !.func = thread[t].type]
<1>3. r \in Cell /\ memory \in [Nodes -> Cell]
  BY <1>1 DEF Typed
<1>4. d \in Cell /\ d.func = thread[t].type /\ d.key = r.key
  BY <1>1, <1>3 DEF Cell
<1>5. memory' = [memory EXCEPT ![thread[t].node] = d]
  BY DEF HookAssign
<1> HIDE DEF d
<1> QED BY <1>1, <1>2, <1>3, <1>4, <1>5

LEMMA UnhookFindEffect ==
  ASSUME Typed, NEW t \in Threads, UnhookFind(t)
  PROVE  /\ thread[t].pc = "unhook" /\ thread[t].op = "unhook" /\ thread[t].type \in Types
         /\ UNCHANGED <<table, memory, used, ops>> /\ Leaves(t)
         /\ \/ /\ Found(thread[t].type) /\ table[thread[t].type] \in Nodes
               /\ Moves(t, "unhook_erase", table[thread[t].type]) /\ UNCHANGED client
            \/ ~Found(thread[t].type) /\ Ends(t, "NOT_FOUND")
<1>1. thread[t].pc = "unhook" /\ thread[t].op = "unhook" /\ thread[t].type \in Types
  BY StepTypes DEF UnhookFind, ThreadOK, UnhookPCs
<1>2. CASE Found(thread[t].type)
  <2>1. table[thread[t].type] \in Nodes
    BY <1>1, <1>2, StepTypes DEF Found
  <2> QED BY <1>1, <1>2, <2>1, StepTypes, GoesOnEffect DEF UnhookFind, Moves, Leaves
<1>3. CASE ~Found(thread[t].type)
  BY <1>1, <1>3, StepTypes, AnswerEffect DEF UnhookFind
<1> QED BY <1>2, <1>3

LEMMA UnhookEraseEffect ==
  ASSUME Typed, NEW t \in Threads, UnhookErase(t)
  PROVE  /\ thread[t].pc = "unhook_erase" /\ thread[t].op = "unhook"
         /\ thread[t].type \in Types /\ thread[t].node \in Nodes
         /\ UNCHANGED <<memory, ops>>
         /\ table' \in [Types -> Nodes \cup {None}]
         /\ \A e \in Types : table'[e] = IF table[e] = thread[t].node THEN None ELSE table[e]
         /\ used' = used \ {thread[t].node}
         /\ Ends(t, "OK")
         /\ \A s \in Threads \ {t} : SeesUnhook(s, thread[t].type)
<1>1. /\ thread[t].pc = "unhook_erase" /\ thread[t].op = "unhook"
      /\ thread[t].type \in Types /\ thread[t].node \in Nodes
  BY StepTypes DEF UnhookErase, ThreadOK, UnhookPCs
<1>2. /\ Ends(t, "OK") /\ UNCHANGED <<memory, ops>>
      /\ \A s \in Threads \ {t} : SeesUnhook(s, thread[t].type)
  <2>1. PICK threads : threads = UnhookedNow(thread[t].type)
    OBVIOUS
  <2>2. AnswerAmong(threads, t, "OK") /\ UNCHANGED <<memory, ops>>
    BY <2>1 DEF UnhookErase
  <2>3. ASSUME NEW s \in Threads
        PROVE  /\ threads[s] \in ThreadRecord
               /\ threads[s].pc = thread[s].pc /\ threads[s].op = thread[s].op
               /\ threads[s].type = thread[s].type /\ threads[s].client = thread[s].client
               /\ threads[s].node = thread[s].node /\ threads[s].seen = thread[s].seen
               /\ threads[s].ran = thread[s].ran /\ threads[s].status = thread[s].status
               /\ threads[s].may = thread[s].may
               /\ threads[s].gone = (thread[s].gone \/
                                       (Looks(s) /\ thread[s].type = thread[t].type))
    <3> DEFINE r == thread[s]
               d == [r EXCEPT !.gone = TRUE]
    <3>1. r \in ThreadRecord
      BY DEF Typed
    <3>2. /\ d \in ThreadRecord
          /\ d.pc = r.pc /\ d.op = r.op /\ d.type = r.type /\ d.client = r.client
          /\ d.node = r.node /\ d.seen = r.seen /\ d.ran = r.ran /\ d.status = r.status
          /\ d.gone = TRUE /\ d.may = r.may
      BY <3>1 DEF ThreadRecord
    <3>3. threads[s] = IF Looks(s) /\ r.type = thread[t].type THEN d ELSE r
      BY <2>1 DEF UnhookedNow
    <3>4. r.gone \in BOOLEAN
      BY <3>1 DEF ThreadRecord
    <3> HIDE DEF d
    <3> QED BY <3>1, <3>2, <3>3, <3>4 DEF Looks
  <2>4. threads \in [Threads -> ThreadRecord]
    <3>1. threads = [s \in Threads |-> threads[s]]
      BY <2>1 DEF UnhookedNow
    <3> QED BY <2>3, <3>1
  <2>5. Ends(t, "OK") /\ \A s \in Threads \ {t} : thread'[s] = threads[s]
    BY <2>2, <2>3, <2>4, StepTypes, AnswerAmongEffect
  <2> QED BY <2>2, <2>3, <2>5 DEF SeesUnhook
<1>3. /\ table' = [e \in Types |-> IF table[e] = thread[t].node THEN None ELSE table[e]]
      /\ used' = used \ {thread[t].node}
  BY DEF UnhookErase, Unlinked
<1> QED BY <1>1, <1>2, <1>3, StepTypes

LEMMA EventFindEffect ==
  ASSUME Typed, NEW t \in Threads, EventFind(t)
  PROVE  /\ thread[t].pc = "event" /\ thread[t].op = "event" /\ thread[t].type \in Types
         /\ UNCHANGED <<table, memory, used, ops>> /\ Leaves(t)
         /\ \/ /\ Found(thread[t].type) /\ table[thread[t].type] \in Nodes
               /\ Moves(t, "event_copy", table[thread[t].type]) /\ UNCHANGED client
            \/ ~Found(thread[t].type) /\ Ends(t, "NOT_FOUND")
<1>1. thread[t].pc = "event" /\ thread[t].op = "event" /\ thread[t].type \in Types
  BY StepTypes DEF EventFind, ThreadOK, EventPCs
<1>2. CASE Found(thread[t].type)
  <2>1. table[thread[t].type] \in Nodes
    BY <1>1, <1>2, StepTypes DEF Found
  <2> QED BY <1>1, <1>2, <2>1, StepTypes, GoesOnEffect DEF EventFind, Moves, Leaves
<1>3. CASE ~Found(thread[t].type)
  BY <1>1, <1>3, StepTypes, AnswerEffect DEF EventFind
<1> QED BY <1>2, <1>3

\* Thread t starts function f.
Starts(t, f) ==
  /\ thread' \in [Threads -> ThreadRecord]
  /\ \A s \in Threads \ {t} : thread'[s] = thread[s]
  /\ thread'[t].pc = "event_run" /\ thread'[t].ran = f
  /\ thread'[t].op = thread[t].op /\ thread'[t].type = thread[t].type
  /\ thread'[t].client = thread[t].client /\ thread'[t].node = thread[t].node
  /\ thread'[t].status = thread[t].status
  /\ thread'[t].gone = thread[t].gone /\ thread'[t].may = thread[t].may

LEMMA EventCopyEffect ==
  ASSUME Typed, NEW t \in Threads, EventCopy(t)
  PROVE  /\ thread[t].pc = "event_copy" /\ thread[t].op = "event"
         /\ thread[t].type \in Types /\ thread[t].node \in Nodes
         /\ UNCHANGED <<table, memory, used, ops>> /\ Leaves(t)
         /\ \/ memory[thread[t].node].func = None /\ Ends(t, "UNKNOWN")
            \/ /\ memory[thread[t].node].func \in Types
               /\ Starts(t, memory[thread[t].node].func) /\ UNCHANGED client
<1>1. /\ thread[t].pc = "event_copy" /\ thread[t].op = "event"
      /\ thread[t].type \in Types /\ thread[t].node \in Nodes
  BY StepTypes DEF EventCopy, ThreadOK, EventPCs
<1> DEFINE f == memory[thread[t].node].func
<1>2. CASE f = None
  BY <1>1, <1>2, StepTypes, AnswerEffect DEF EventCopy
<1>3. CASE f # None
  <2>1. f \in Types
    BY <1>1, <1>3, StepTypes DEF Cell
  <2> DEFINE r == thread[t]
             d == [[r EXCEPT !.pc = "event_run"] EXCEPT !.ran = f]
  <2>2. /\ r \in ThreadRecord /\ thread \in [Threads -> ThreadRecord]
        /\ "event_run" \in EventPCs
    BY DEF Typed, EventPCs
  <2>3. /\ d \in ThreadRecord
        /\ d.pc = "event_run" /\ d.ran = f /\ d.op = r.op
        /\ d.type = r.type /\ d.client = r.client /\ d.node = r.node
        /\ d.status = r.status /\ d.gone = r.gone /\ d.may = r.may
    BY <2>1, <2>2 DEF ThreadRecord
  <2>4. thread' = [thread EXCEPT ![t] = d] /\ UNCHANGED <<table, memory, used, ops, client>>
    BY <1>3 DEF EventCopy
  <2> HIDE DEF d
  <2>5. Starts(t, f)
    BY <2>2, <2>3, <2>4 DEF Starts
  <2>6. Leaves(t)
    BY <2>5 DEF Starts, Leaves
  <2> QED BY <1>1, <2>1, <2>4, <2>5, <2>6
<1> QED BY <1>2, <1>3

LEMMA EventRunEffect ==
  ASSUME Typed, NEW t \in Threads, EventRun(t)
  PROVE  /\ thread[t].pc = "event_run" /\ thread[t].op = "event"
         /\ UNCHANGED <<table, memory, used, ops>> /\ Ends(t, "OK") /\ Leaves(t)
BY StepTypes, AnswerEffect DEF EventRun, ThreadOK, EventPCs

\* The client of a call gives up; the call goes on.
GivesUp(c) ==
  /\ UNCHANGED <<table, memory, used, ops>>
  /\ c \in Impatient
  /\ client' \in [Clients -> ClientRecord]
  /\ \A d \in Clients \ {c} : client'[d] = client[d]
  /\ client'[c].op = client[c].op /\ client'[c].todo = client[c].todo
  /\ thread' \in [Threads -> ThreadRecord]
  /\ \A s \in Threads :
       /\ thread'[s].pc = thread[s].pc /\ thread'[s].op = thread[s].op
       /\ thread'[s].type = thread[s].type /\ thread'[s].node = thread[s].node
       /\ thread'[s].seen = thread[s].seen /\ thread'[s].ran = thread[s].ran
       /\ thread'[s].status = thread[s].status
       /\ thread'[s].gone = thread[s].gone /\ thread'[s].may = thread[s].may
       /\ thread'[s].client = IF thread[s].client = c THEN None ELSE thread[s].client

LEMMA GiveUpEffect ==
  ASSUME Typed, NEW c \in Clients, GiveUp(c)
  PROVE  GivesUp(c)
<1>1. /\ client \in [Clients -> ClientRecord] /\ client' = Answered(c, "DEADLINE_EXCEEDED")
      /\ thread \in [Threads -> ThreadRecord]
      /\ UNCHANGED <<table, memory, used, ops>> /\ c \in Impatient
  BY DEF Typed, GiveUp
<1>2. /\ client' \in [Clients -> ClientRecord]
      /\ \A d \in Clients \ {c} : client'[d] = client[d]
      /\ client'[c].op = client[c].op /\ client'[c].todo = client[c].todo
  BY <1>1, AnsweredEffect
<1>3. ASSUME NEW s \in Threads
      PROVE  /\ thread'[s] \in ThreadRecord
             /\ thread'[s].pc = thread[s].pc /\ thread'[s].op = thread[s].op
             /\ thread'[s].type = thread[s].type /\ thread'[s].node = thread[s].node
             /\ thread'[s].seen = thread[s].seen /\ thread'[s].ran = thread[s].ran
             /\ thread'[s].status = thread[s].status
             /\ thread'[s].gone = thread[s].gone /\ thread'[s].may = thread[s].may
             /\ thread'[s].client = IF thread[s].client = c THEN None ELSE thread[s].client
  <2> DEFINE r == thread[s]
             d == [r EXCEPT !.client = None]
  <2>1. r \in ThreadRecord
    BY <1>1
  <2>2. /\ d \in ThreadRecord
        /\ d.pc = r.pc /\ d.op = r.op /\ d.type = r.type /\ d.client = None
        /\ d.node = r.node /\ d.seen = r.seen /\ d.ran = r.ran /\ d.status = r.status
        /\ d.gone = r.gone /\ d.may = r.may
    BY <2>1 DEF ThreadRecord
  <2>3. thread'[s] = IF r.client = c THEN d ELSE r
    BY DEF GiveUp
  <2> HIDE DEF d
  <2> QED BY <2>1, <2>2, <2>3
<1>4. thread' \in [Threads -> ThreadRecord]
  <2>1. thread' = [s \in Threads |-> thread'[s]]
    BY DEF GiveUp
  <2> QED BY <1>3, <2>1
<1> QED BY <1>1, <1>2, <1>3, <1>4 DEF GivesUp

\* The server is started again.
Restarts ==
  /\ \A e \in Types : table'[e] = None
  /\ used' = {} /\ ops' = ops
  /\ table' \in [Types -> Nodes \cup {None}] /\ memory' \in [Nodes -> Cell]
  /\ thread' = [t \in Threads |-> NoCall]
  /\ client' \in [Clients -> ClientRecord]
  /\ \A c \in Clients : /\ client'[c].op = client[c].op /\ client'[c].todo = client[c].todo
                        /\ ~client'[c].spared

LEMMA DiesEffect ==
  ASSUME Typed, Dies
  PROVE  Restarts
<1>1. /\ table' = [e \in Types |-> None] /\ used' = {} /\ ops' = ops
      /\ thread' = [t \in Threads |-> NoCall]
      /\ memory' = [n \in Nodes |-> [key |-> None, func |-> None]]
  BY DEF Dies, NoTable
<1>2. [key |-> None, func |-> None] \in Cell
  BY DEF Cell
<1>3. ASSUME NEW c \in Clients
      PROVE  /\ client'[c] \in ClientRecord
             /\ client'[c].op = client[c].op /\ client'[c].todo = client[c].todo
             /\ ~client'[c].spared
  <2> DEFINE r == client[c]
             d == [[[r EXCEPT !.waiting = FALSE] EXCEPT !.spared = FALSE] EXCEPT
                     !.success = r.success /\ ~r.waiting]
  <2>1. r \in ClientRecord
    BY DEF Typed
  <2>2. /\ d \in ClientRecord
        /\ d.op = r.op /\ d.todo = r.todo /\ d.spared = FALSE
    BY <2>1 DEF ClientRecord
  <2>3. client'[c] = d
    BY <2>1 DEF Dies, Unanswered, ClientRecord
  <2> HIDE DEF d
  <2> QED BY <2>2, <2>3
<1>4. client' \in [Clients -> ClientRecord]
  <2>1. client' = [c \in Clients |-> client'[c]]
    BY DEF Dies
  <2> QED BY <1>3, <2>1
<1> QED BY <1>1, <1>2, <1>3, <1>4 DEF Restarts

\* A client begins an operation.
Begins(c) ==
  /\ UNCHANGED <<table, memory, used, thread>> /\ ops' \in 0..MaxOps
  /\ ~client[c].waiting
  /\ client' \in [Clients -> ClientRecord]
  /\ \A d \in Clients \ {c} :
       /\ client'[d].op = client[d].op /\ client'[d].todo = client[d].todo
       /\ client'[d].waiting = client[d].waiting
       /\ client'[d].success = client[d].success
       /\ client'[d].spared => client[d].spared
  /\ client'[c].op \in {"hook", "unhook", "event"}
  /\ client'[c].op \in {"hook", "unhook"} => c \in Admins /\ client'[c].todo = Types

LEMMA BeginsEffect ==
  ASSUME Typed, NEW c \in Clients, HookAll(c) \/ UnhookAll(c) \/ Event(c)
  PROVE  Begins(c)
<1>1. CASE HookAll(c)
  BY <1>1, BeginEffect DEF HookAll, Begins
<1>2. CASE UnhookAll(c)
  BY <1>2, BeginEffect DEF UnhookAll, Begins
<1>3. CASE Event(c)
  <2>1. PICK e \in Types : Begin(c, "event", {e})
    BY <1>3 DEF Event
  <2>2. {e} \in SUBSET Types
    OBVIOUS
  <2> QED BY <2>1, <2>2, BeginEffect DEF Begins
<1> QED BY <1>1, <1>2, <1>3

Works(t) ==
  \/ HookFind(t) \/ HookLink(t) \/ HookAssign(t)
  \/ UnhookFind(t) \/ UnhookErase(t)
  \/ EventFind(t) \/ EventCopy(t) \/ EventRun(t)

LEMMA FazCases ==
  ASSUME Typed, Owned, [Next]_vars
  PROVE  \/ \E c \in Clients : Begins(c)
         \/ \E c \in Clients, e \in Types, t \in Threads : Calls(c, e, t)
         \/ \E c \in Clients : GivesUp(c)
         \/ \E t \in Threads : Works(t)
         \/ Restarts
         \/ UNCHANGED vars
<1>1. ASSUME NEW c \in Clients, HookAll(c) \/ UnhookAll(c) \/ Event(c) PROVE Begins(c)
  BY <1>1, BeginsEffect
<1>2. ASSUME NEW c \in Clients, Call(c)
      PROVE  \E e \in Types, t \in Threads : Calls(c, e, t)
  BY <1>2, CallEffect
<1>3. ASSUME NEW c \in Clients, GiveUp(c) PROVE GivesUp(c)
  BY <1>3, GiveUpEffect
<1>4. ASSUME NEW t \in Threads, Step(t) PROVE Works(t) \/ Restarts
  BY <1>4, DiesEffect DEF Step, Works, Fault
<1>5. CASE Crash
  BY <1>5, DiesEffect DEF Crash
<1> QED BY <1>1, <1>2, <1>3, <1>4, <1>5 DEF Next

\* What all steps of a thread have in common.
LEMMA WorksEffect ==
  ASSUME Typed, NEW t \in Threads, Works(t)
  PROVE  /\ thread[t].pc # "done" /\ thread[t].op # "none"
         /\ ops' = ops
         /\ thread' \in [Threads -> ThreadRecord]
         /\ \A s \in Threads \ {t} : Stands(s)
         /\ \/ \E status \in Statuses : Ends(t, status)
            \/ /\ client' = client
               /\ thread'[t].op = thread[t].op /\ thread'[t].type = thread[t].type
               /\ thread'[t].client = thread[t].client
               /\ thread'[t].status = thread[t].status
<1>0. {"OK", "NOT_FOUND", "UNKNOWN"} \subseteq Statuses
  BY StepTypes
<1>1. CASE HookFind(t)
  BY <1>0, <1>1, HookFindEffect DEF Moves, Ends, Stands
<1>2. CASE HookLink(t)
  BY <1>2, HookLinkEffect DEF Moves, Stands
<1>3. CASE HookAssign(t)
  BY <1>0, <1>3, HookAssignEffect DEF Ends
<1>4. CASE UnhookFind(t)
  BY <1>0, <1>4, UnhookFindEffect DEF Moves, Ends, Stands
<1>5. CASE UnhookErase(t)
  BY <1>0, <1>5, UnhookEraseEffect DEF Ends
<1>6. CASE EventFind(t)
  BY <1>0, <1>6, EventFindEffect DEF Moves, Ends, Stands
<1>7. CASE EventCopy(t)
  BY <1>0, <1>7, EventCopyEffect DEF Starts, Ends, Stands
<1>8. CASE EventRun(t)
  BY <1>0, <1>8, EventRunEffect DEF Ends
<1> QED BY <1>1, <1>2, <1>3, <1>4, <1>5, <1>6, <1>7, <1>8 DEF Works

-----------------------------------------------------------------------------
(* The types are an invariant.                                             *)

LEMMA InitTyped == Init => Typed /\ Owned
<1> SUFFICES ASSUME Init PROVE Typed /\ Owned
  OBVIOUS
<1>1. NoTable \in [Types -> Nodes \cup {None}]
  BY DEF NoTable
<1>2. NoCall \in ThreadRecord /\ ThreadOK(NoCall)
  <2>1. /\ NoCall.pc = "done" /\ NoCall.op = "none" /\ NoCall.client = None
        /\ NoCall.ran = None
    BY DEF NoCall
  <2>2. NoCall \in ThreadRecord
    BY <1>1 DEF NoCall, ThreadRecord, Statuses
  <2> QED BY <2>1, <2>2 DEF ThreadOK, HookPCs, UnhookPCs, EventPCs
<1>3. \A t \in Threads : thread[t] = NoCall
  BY DEF Init
<1>4. thread \in [Threads -> ThreadRecord]
  BY <1>2 DEF Init
<1> DEFINE r == [op |-> "none", todo |-> {}, waiting |-> FALSE, success |-> FALSE,
                 spared |-> FALSE]
<1>5. r \in ClientRecord /\ r.op = "none" /\ r.todo = {}
  BY DEF ClientRecord
<1>6. client = [c \in Clients |-> r]
  BY DEF Init
<1>7. memory \in [Nodes -> Cell]
  BY DEF Init, Cell
<1>8. table \in [Types -> Nodes \cup {None}] /\ used = {} /\ ops \in 0..MaxOps
  BY <1>1, MaxOpsAssumption DEF Init
<1>9. \A t \in Threads : thread[t].client = None
  BY <1>3 DEF NoCall
<1> HIDE DEF r
<1>10. Typed
  BY <1>2, <1>3, <1>4, <1>5, <1>6, <1>7, <1>8 DEF Typed
<1>11. Owned
  BY <1>5, <1>6, <1>9 DEF Owned
<1> QED BY <1>10, <1>11

LEMMA WorksTyped ==
  ASSUME Typed, NEW t \in Threads, Works(t)
  PROVE  Typed'
<1>1. SUFFICES ASSUME ThreadOK(thread'[t]), memory' \in [Nodes -> Cell],
                      table' \in [Types -> Nodes \cup {None}], used' \subseteq Nodes
               PROVE  Typed'
  <2>0. ThreadOK(thread[t]) /\ table \in [Types -> Nodes \cup {None}]
        /\ memory \in [Nodes -> Cell] /\ used \subseteq Nodes
    BY DEF Typed
  <2>1. ASSUME NEW status, Ends(t, status) PROVE ThreadOK(thread'[t])
    BY <2>1 DEF Ends, ThreadOK, HookPCs, UnhookPCs, EventPCs
  <2>2. CASE HookFind(t)
    <3>1. thread[t].type \in Types /\ ThreadOK(thread'[t])
      BY <2>0, <2>1, <2>2, HookFindEffect
         DEF Moves, ThreadOK, HookPCs, UnhookPCs, EventPCs, Found
    <3> QED BY <1>1, <2>0, <2>2, <3>1, HookFindEffect
  <2>3. CASE HookLink(t)
    <3>1. ThreadOK(thread'[t])
      BY <2>0, <2>3, HookLinkEffect DEF Moves, ThreadOK, HookPCs, UnhookPCs, EventPCs
    <3> QED BY <1>1, <2>0, <2>3, <3>1, HookLinkEffect
  <2>4. CASE HookAssign(t)
    BY <1>1, <2>0, <2>1, <2>4, HookAssignEffect
  <2>5. CASE UnhookFind(t)
    <3>1. ThreadOK(thread'[t])
      BY <2>0, <2>1, <2>5, UnhookFindEffect
         DEF Moves, ThreadOK, HookPCs, UnhookPCs, EventPCs
    <3> QED BY <1>1, <2>0, <2>5, <3>1, UnhookFindEffect
  <2>6. CASE UnhookErase(t)
    BY <1>1, <2>0, <2>1, <2>6, UnhookEraseEffect
  <2>7. CASE EventFind(t)
    <3>1. ThreadOK(thread'[t])
      BY <2>0, <2>1, <2>7, EventFindEffect
         DEF Moves, ThreadOK, HookPCs, UnhookPCs, EventPCs
    <3> QED BY <1>1, <2>0, <2>7, <3>1, EventFindEffect
  <2>8. CASE EventCopy(t)
    <3>1. ThreadOK(thread'[t])
      <4>1. CASE \E status : Ends(t, status)
        BY <2>1, <4>1
      <4>2. CASE Starts(t, memory[thread[t].node].func)
                 /\ memory[thread[t].node].func \in Types
        <5>1. memory[thread[t].node].func # None
          BY <4>2, NoneAssumption
        <5> QED BY <2>0, <2>8, <4>2, <5>1, EventCopyEffect
                DEF Starts, ThreadOK, HookPCs, UnhookPCs, EventPCs
      <4> QED BY <2>8, <4>1, <4>2, EventCopyEffect
    <3> QED BY <1>1, <2>0, <2>8, <3>1, EventCopyEffect
  <2>9. CASE EventRun(t)
    BY <1>1, <2>0, <2>1, <2>9, EventRunEffect
  <2> QED BY <2>2, <2>3, <2>4, <2>5, <2>6, <2>7, <2>8, <2>9 DEF Works
<1>2. /\ ops' = ops /\ thread' \in [Threads -> ThreadRecord]
      /\ \A s \in Threads \ {t} : Stands(s)
      /\ client' \in [Clients -> ClientRecord]
  BY WorksEffect DEF Ends, Typed
<1>3. ASSUME NEW s \in Threads PROVE ThreadOK(thread'[s])
  <2>1. CASE s = t
    BY <1>1, <2>1
  <2>2. CASE s # t
    <3>1. ThreadOK(thread[s]) /\ Stands(s)
      BY <1>2, <2>2 DEF Typed
    <3> QED BY <3>1 DEF ThreadOK, Stands
  <2> QED BY <2>1, <2>2
<1> QED BY <1>1, <1>2, <1>3 DEF Typed

LEMMA NextTyped == Typed /\ Owned /\ [Next]_vars => Typed'
<1> SUFFICES ASSUME Typed, Owned, [Next]_vars PROVE Typed'
  OBVIOUS
<1>1. ASSUME NEW c \in Clients, Begins(c) PROVE Typed'
  BY <1>1 DEF Begins, Typed
<1>2. ASSUME NEW c \in Clients, NEW e \in Types, NEW t \in Threads, Calls(c, e, t)
      PROVE  Typed'
  <2>1. client[c].op \in {"hook", "unhook", "event"}
    BY <1>2 DEF Calls, Owned, Typed, ClientRecord
  <2>2. ThreadOK(thread'[t])
    BY <1>2, <2>1 DEF Calls, ThreadOK, HookPCs, UnhookPCs, EventPCs
  <2>3. ASSUME NEW s \in Threads \ {t} PROVE ThreadOK(thread'[s])
    <3>1. ThreadOK(thread[s])
      BY DEF Typed
    <3> QED BY <1>2, <3>1 DEF Calls, Leaves
  <2> QED BY <1>2, <2>2, <2>3 DEF Calls, Typed
<1>3. ASSUME NEW c \in Clients, GivesUp(c) PROVE Typed'
  <2>1. ASSUME NEW s \in Threads PROVE ThreadOK(thread'[s])
    <3>1. ThreadOK(thread[s])
      BY DEF Typed
    <3> QED BY <1>3, <3>1 DEF GivesUp, ThreadOK
  <2> QED BY <1>3, <2>1 DEF GivesUp, Typed
<1>4. ASSUME NEW t \in Threads, Works(t) PROVE Typed'
  BY <1>4, WorksTyped
<1>5. CASE Restarts
  <2>1. NoCall \in ThreadRecord /\ ThreadOK(NoCall)
    <3>1. /\ NoCall.pc = "done" /\ NoCall.op = "none" /\ NoCall.client = None
          /\ NoCall.ran = None
      BY DEF NoCall
    <3>2. NoCall \in ThreadRecord
      BY DEF NoCall, NoTable, ThreadRecord, Statuses
    <3> QED BY <3>1, <3>2 DEF ThreadOK, HookPCs, UnhookPCs, EventPCs
  <2> QED BY <1>5, <2>1 DEF Restarts, Typed
<1>6. CASE UNCHANGED vars
  BY <1>6 DEF vars, Typed
<1> QED BY <1>1, <1>2, <1>3, <1>4, <1>5, <1>6, FazCases

LEMMA NextOwned == Typed /\ Owned /\ [Next]_vars => Owned'
<1> SUFFICES ASSUME Typed, Owned, [Next]_vars PROVE Owned'
  OBVIOUS
<1>0. /\ \A t \in Threads : thread[t] \in ThreadRecord /\ ThreadOK(thread[t])
      /\ \A t \in Threads : thread[t].client \in Clients \cup {None}
      /\ None \notin Clients
      /\ \A c \in Clients : client[c] \in ClientRecord
  BY NoneAssumption DEF Typed, ThreadRecord
<1>1. ASSUME NEW c \in Clients, Begins(c) PROVE Owned'
  <2>1. /\ thread' = thread /\ ~client[c].waiting
        /\ \A d \in Clients \ {c} :
             /\ client'[d].op = client[d].op /\ client'[d].todo = client[d].todo
             /\ client'[d].waiting = client[d].waiting
        /\ client'[c].op # "none"
        /\ client'[c].op \in {"hook", "unhook"} => c \in Admins
    BY <1>1 DEF Begins
  <2>2. \A t \in Threads : thread[t].client # c
    BY <2>1, <1>0 DEF Owned
  <2> QED BY <1>0, <2>1, <2>2 DEF Owned
<1>2. ASSUME NEW c \in Clients, NEW e \in Types, NEW t \in Threads, Calls(c, e, t)
      PROVE  Owned'
  <2>1. /\ \A s \in Threads \ {t} : /\ thread'[s].op = thread[s].op
                                    /\ thread'[s].client = thread[s].client
        /\ thread'[t].op = client[c].op /\ thread'[t].client = c
        /\ ~client[c].waiting /\ client'[c].waiting /\ client'[c].op = client[c].op
        /\ client'[c].todo \subseteq client[c].todo
        /\ \A d \in Clients \ {c} : client'[d] = client[d]
    BY <1>2 DEF Calls, Leaves
  <2>2. \A s \in Threads : thread[s].client # c
    BY <2>1, <1>0 DEF Owned
  <2>3. ASSUME NEW s \in Threads, thread'[s].client # None
        PROVE  /\ client'[thread'[s].client].waiting
               /\ client'[thread'[s].client].op = thread'[s].op
               /\ \A u \in Threads : thread'[u].client = thread'[s].client => u = s
    <3>1. CASE s = t
      BY <2>1, <2>2, <3>1
    <3>2. CASE s # t
      BY <1>0, <2>1, <2>2, <2>3, <3>2 DEF Owned
    <3> QED BY <3>1, <3>2
  <2>4. \A d \in Clients : /\ client'[d].op \in {"hook", "unhook"} => d \in Admins
                           /\ client'[d].todo # {} => client'[d].op # "none"
    BY <2>1 DEF Owned
  <2> QED BY <2>3, <2>4 DEF Owned
<1>3. ASSUME NEW c \in Clients, GivesUp(c) PROVE Owned'
  <2>1. /\ \A s \in Threads :
             /\ thread'[s].op = thread[s].op
             /\ thread'[s].client = IF thread[s].client = c THEN None ELSE thread[s].client
        /\ \A d \in Clients \ {c} : client'[d] = client[d]
        /\ client'[c].op = client[c].op /\ client'[c].todo = client[c].todo
    BY <1>3 DEF GivesUp
  <2> QED BY <1>0, <2>1 DEF Owned
<1>4. ASSUME NEW t \in Threads, Works(t) PROVE Owned'
  <2>1. CASE /\ client' = client
             /\ thread'[t].op = thread[t].op /\ thread'[t].client = thread[t].client
    <3>1. \A s \in Threads \ {t} : /\ thread'[s].op = thread[s].op
                                    /\ thread'[s].client = thread[s].client
      BY <1>4, WorksEffect DEF Stands
    <3> QED BY <2>1, <3>1 DEF Owned
  <2>2. ASSUME NEW status, Ends(t, status) PROVE Owned'
    <3>1. /\ \A s \in Threads \ {t} : /\ thread'[s].op = thread[s].op
                                       /\ thread'[s].client = thread[s].client
          /\ thread'[t].client = None
          /\ \A c \in Clients : c # thread[t].client => client'[c] = client[c]
          /\ \A c \in Clients : /\ client'[c].op = client[c].op
                                /\ client'[c].todo = client[c].todo
      BY <2>2 DEF Ends, Stands
    <3>2. ASSUME NEW s \in Threads \ {t}, thread[s].client # None
          PROVE  client'[thread[s].client] = client[thread[s].client]
      BY <1>0, <3>1, <3>2 DEF Owned
    <3> QED BY <1>0, <3>1, <3>2 DEF Owned
  <2> QED BY <1>4, <2>1, <2>2, WorksEffect
<1>5. CASE Restarts
  <2>1. \A t \in Threads : thread'[t].client = None
    BY <1>5 DEF Restarts, NoCall
  <2> QED BY <1>5, <2>1 DEF Restarts, Owned
<1>6. CASE UNCHANGED vars
  BY <1>6 DEF vars, Owned
<1> QED BY <1>1, <1>2, <1>3, <1>4, <1>5, <1>6, FazCases

-----------------------------------------------------------------------------
(* One thread at a time hooks or unhooks.                                  *)

LEMMA NextOneHooks ==
  ASSUME OneAdmin
  PROVE  Typed /\ Owned /\ OneHooks /\ [Next]_vars => OneHooks'
<1> SUFFICES ASSUME Typed, Owned, OneHooks, [Next]_vars PROVE OneHooks'
  OBVIOUS
<1>0. /\ \A a, b \in Admins : a = b
      /\ \A a \in Admins : a \in Clients /\ a \notin Impatient /\ a # None
  BY AdminsAssumption, NoneAssumption DEF OneAdmin
<1>1. ASSUME NEW c \in Clients, Begins(c) PROVE OneHooks'
  BY <1>1 DEF Begins, OneHooks, Hooks
<1>2. ASSUME NEW c \in Clients, NEW e \in Types, NEW t \in Threads, Calls(c, e, t)
      PROVE  OneHooks'
  <2>1. /\ \A s \in Threads \ {t} : /\ thread'[s].op = thread[s].op
                                    /\ thread'[s].client = thread[s].client
        /\ thread'[t].op = client[c].op /\ thread'[t].client = c
        /\ ~client[c].waiting
    BY <1>2 DEF Calls, Leaves
  <2>2. CASE client[c].op \in {"hook", "unhook"}
    <3>1. c \in Admins
      BY <2>2 DEF Owned
    <3>2. ASSUME NEW s \in Threads, Hooks(s) PROVE FALSE
      <4>1. thread[s].client = c
        BY <1>0, <3>1, <3>2 DEF OneHooks
      <4> QED BY <1>0, <2>1, <3>1, <4>1 DEF Owned
    <3> QED BY <2>1, <3>1, <3>2 DEF OneHooks, Hooks
  <2>3. CASE client[c].op \notin {"hook", "unhook"}
    BY <2>1, <2>3 DEF OneHooks, Hooks
  <2> QED BY <2>2, <2>3
<1>3. ASSUME NEW c \in Clients, GivesUp(c) PROVE OneHooks'
  <2>1. /\ c \in Impatient
        /\ \A s \in Threads :
             /\ thread'[s].op = thread[s].op
             /\ thread'[s].client = IF thread[s].client = c THEN None ELSE thread[s].client
    BY <1>3 DEF GivesUp
  <2> QED BY <1>0, <2>1 DEF OneHooks, Hooks
<1>4. ASSUME NEW t \in Threads, Works(t) PROVE OneHooks'
  <2>1. /\ \A s \in Threads \ {t} : /\ thread'[s].op = thread[s].op
                                    /\ thread'[s].client = thread[s].client
        /\ \/ thread'[t].op = "none"
           \/ thread'[t].op = thread[t].op /\ thread'[t].client = thread[t].client
    BY <1>4, WorksEffect DEF Ends, Stands
  <2> QED BY <2>1 DEF OneHooks, Hooks
<1>5. CASE Restarts
  <2>1. \A t \in Threads : thread'[t].op = "none"
    BY <1>5 DEF Restarts, NoCall
  <2> QED BY <2>1 DEF OneHooks, Hooks
<1>6. CASE UNCHANGED vars
  BY <1>6 DEF vars, OneHooks, Hooks
<1> QED BY <1>1, <1>2, <1>3, <1>4, <1>5, <1>6, FazCases

-----------------------------------------------------------------------------
(* The map.                                                                *)

LEMMA MapFacts ==
  ASSUME Typed, MapOK
  PROVE  /\ \A e, f \in Types : table[e] # None /\ table[e] = table[f] => e = f
         /\ \A e \in Types : Found(e) <=> table[e] # None
         /\ \A e \in Types : table[e] # None => table[e] \in used /\ table[e] \in Nodes
BY DEF MapOK, Linked, Found, Typed

\* What the others see of a thread that hooks or unhooks.
LEMMA HookerAlone ==
  ASSUME Typed, OneHooks, MapOK, NEW t \in Threads, Hooks(t)
  PROVE  \A s \in Threads \ {t} :
           /\ ~Hooks(s)
           /\ thread[s].pc \notin {"hook_link", "hook_assign", "unhook_erase"}
<1>1. \A s \in Threads \ {t} : ~Hooks(s)
  BY DEF OneHooks
<1>2. \A s \in Threads \ {t} : thread[s].pc \notin {"hook_link", "hook_assign", "unhook_erase"}
  <2>1. ASSUME NEW s \in Threads \ {t},
               thread[s].pc \in {"hook_link", "hook_assign", "unhook_erase"}
        PROVE  Hooks(s)
    BY <2>1 DEF Typed, ThreadOK, Hooks, HookPCs, UnhookPCs
  <2> QED BY <1>1, <2>1
<1> QED BY <1>1, <1>2

LEMMA HookerStep ==
  ASSUME Typed, OneHooks, MapOK, NEW t \in Threads, Hooks(t),
         \A s \in Threads \ {t} : Stands(s),
         \A e \in Types : Linked(e)', HookingOK(t)', \A s \in Threads : FindsOK(s)'
  PROVE  MapOK'
<1>1. \A s \in Threads \ {t} :
         thread'[s].pc \notin {"hook_link", "hook_assign", "unhook_erase"}
  BY HookerAlone DEF Stands
<1>2. \A s \in Threads \ {t} : HookingOK(s)'
  BY <1>1 DEF HookingOK
<1> QED BY <1>2 DEF MapOK

\* What an event has found is so after a step of another thread which leaves what it
\* has found linked, or unhooks its type, and tells it.
LEMMA FindsStay ==
  ASSUME Typed, NEW s \in Threads, FindsOK(s), Stands(s),
         thread[s].gone => thread'[s].gone /\ thread[s].may \subseteq thread'[s].may,
         thread[s].pc = "event_copy" /\ thread[s].node = table[thread[s].type] =>
           \/ table'[thread[s].type] = table[thread[s].type]
           \/ thread'[s].gone /\ memory'[thread[s].node].func \in {thread[s].type, None},
         thread[s].pc = "event_copy" /\ thread[s].gone =>
           memory'[thread[s].node].func \in
             {memory[thread[s].node].func, None} \cup thread'[s].may
  PROVE  FindsOK(s)'
BY DEF FindsOK, Stands

\* A step that no thread takes which hooks or unhooks.
LEMMA QuietStep ==
  ASSUME Typed, MapOK, UNCHANGED <<table, memory, used>>,
         \A s \in Threads :
            \/ /\ thread'[s].pc = thread[s].pc /\ thread'[s].node = thread[s].node
               /\ thread'[s].type = thread[s].type /\ thread'[s].seen = thread[s].seen
            \/ /\ thread[s].pc \notin {"hook_link", "hook_assign", "unhook_erase"}
               /\ thread'[s].pc \notin {"hook_link", "hook_assign", "unhook_erase"},
         \A s \in Threads : FindsOK(s)'
  PROVE  MapOK'
<1>1. ASSUME NEW e \in Types PROVE Linked(e)'
  <2>1. Linked(e)
    BY DEF MapOK
  <2> QED BY <2>1 DEF Linked
<1>2. ASSUME NEW s \in Threads PROVE HookingOK(s)'
  <2>1. HookingOK(s)
    BY DEF MapOK
  <2>2. CASE /\ thread'[s].pc = thread[s].pc /\ thread'[s].node = thread[s].node
             /\ thread'[s].type = thread[s].type /\ thread'[s].seen = thread[s].seen
    BY <2>1, <2>2 DEF HookingOK
  <2>3. CASE thread'[s].pc \notin {"hook_link", "hook_assign", "unhook_erase"}
    BY <2>3 DEF HookingOK
  <2> QED BY <2>2, <2>3
<1> QED BY <1>1, <1>2 DEF MapOK

LEMMA CallsMapOK ==
  ASSUME Typed, Owned, MapOK, NEW c \in Clients, NEW e \in Types, NEW t \in Threads,
         Calls(c, e, t)
  PROVE  MapOK'
<1>1. /\ UNCHANGED <<table, memory, used>> /\ Leaves(t)
      /\ thread'[t].pc = client[c].op /\ thread[t].pc = "done"
  BY DEF Calls
<1>2. client[c].op \in {"none", "hook", "unhook", "event"}
  BY DEF Typed, ClientRecord
<1>3. ASSUME NEW s \in Threads PROVE FindsOK(s)'
  <2>1. FindsOK(s)
    BY DEF MapOK
  <2> QED BY <1>1, <1>2, <2>1 DEF FindsOK, Leaves
<1>4. \A s \in Threads :
        \/ /\ thread'[s].pc = thread[s].pc /\ thread'[s].node = thread[s].node
           /\ thread'[s].type = thread[s].type /\ thread'[s].seen = thread[s].seen
        \/ /\ thread[s].pc \notin {"hook_link", "hook_assign", "unhook_erase"}
           /\ thread'[s].pc \notin {"hook_link", "hook_assign", "unhook_erase"}
  BY <1>1, <1>2 DEF Leaves
<1> QED BY <1>1, <1>3, <1>4, QuietStep

LEMMA GivesUpMapOK ==
  ASSUME Typed, MapOK, NEW c \in Clients, GivesUp(c)
  PROVE  MapOK'
<1>1. ASSUME NEW s \in Threads PROVE FindsOK(s)'
  <2>1. FindsOK(s)
    BY DEF MapOK
  <2> QED BY <2>1 DEF GivesUp, FindsOK
<1> QED BY <1>1, QuietStep DEF GivesUp

\* A step of an event: it leaves the map as it is.
LEMMA EventMapOK ==
  ASSUME Typed, MapOK, NEW t \in Threads, EventFind(t) \/ EventCopy(t) \/ EventRun(t)
  PROVE  MapOK'
<1>1. /\ thread[t].pc \in EventPCs
      /\ UNCHANGED <<table, memory, used>> /\ Leaves(t)
      /\ \/ thread'[t].pc \in {"done", "event_run"}
         \/ /\ thread'[t].type = thread[t].type
            /\ thread'[t].pc = "event_copy" /\ thread'[t].node = table[thread[t].type]
  <2>1. CASE EventFind(t)
    BY <2>1, EventFindEffect DEF Moves, Ends, EventPCs
  <2>2. CASE EventCopy(t)
    BY <2>2, EventCopyEffect DEF Starts, Ends, EventPCs
  <2>3. CASE EventRun(t)
    BY <2>3, EventRunEffect DEF Ends, EventPCs
  <2> QED BY <2>1, <2>2, <2>3
<1>2. ASSUME NEW s \in Threads PROVE FindsOK(s)'
  <2>1. FindsOK(s)
    BY DEF MapOK
  <2> QED BY <1>1, <2>1 DEF FindsOK, Leaves
<1> QED BY <1>1, <1>2, QuietStep DEF EventPCs, Leaves

LEMMA HookFindMapOK ==
  ASSUME Typed, OneHooks, MapOK, NEW t \in Threads, HookFind(t)
  PROVE  MapOK'
<1> DEFINE e == thread[t].type
<1>1. /\ thread[t].pc = "hook" /\ Hooks(t) /\ e \in Types /\ table' = table
      /\ Leaves(t) /\ \A s \in Threads \ {t} : Stands(s)
  BY HookFindEffect DEF Hooks, Leaves, Stands
<1>2. ASSUME UNCHANGED <<memory, used>>, thread'[t].pc # "event_copy"
      PROVE  (\A f \in Types : Linked(f)') /\ \A s \in Threads : FindsOK(s)'
  <2>1. (\A f \in Types : Linked(f)) /\ \A s \in Threads : FindsOK(s)
    BY DEF MapOK
  <2>2. \A f \in Types : Linked(f)'
    BY <1>1, <1>2, <2>1 DEF Linked, Leaves
  <2>3. \A s \in Threads : FindsOK(s)'
    BY <1>1, <1>2, <2>1 DEF FindsOK, Leaves
  <2> QED BY <2>2, <2>3
<1>3. CASE Ends(t, "NOT_FOUND") /\ UNCHANGED <<memory, used>>
  <2>1. HookingOK(t)' /\ thread'[t].pc # "event_copy"
    BY <1>3 DEF Ends, HookingOK
  <2> QED BY <1>1, <1>2, <1>3, <2>1, HookerStep
<1>4. CASE Moves(t, "hook_assign", table[e]) /\ UNCHANGED <<memory, used>>
  <2>1. HookingOK(t)' /\ thread'[t].pc # "event_copy"
    BY <1>1, <1>4 DEF Moves, HookingOK
  <2> QED BY <1>1, <1>2, <1>4, <2>1, HookerStep
<1>5. CASE /\ ~Found(e)
           /\ \E n \in Nodes \ used :
                /\ used' = used \cup {n}
                /\ memory' \in [Nodes -> Cell]
                /\ memory'[n].key = e /\ memory'[n].func = None
                /\ \A m \in Nodes \ {n} : memory'[m] = memory[m]
                /\ Moves(t, "hook_link", n)
                /\ thread'[t].seen = table
  <2>1. PICK n \in Nodes \ used :
          /\ used' = used \cup {n}
          /\ memory'[n].key = e /\ memory'[n].func = None
          /\ \A m \in Nodes \ {n} : memory'[m] = memory[m]
          /\ Moves(t, "hook_link", n)
          /\ thread'[t].seen = table
    BY <1>5
  <2>2. thread'[t].pc = "hook_link" /\ thread'[t].node = n /\ thread'[t].type = e
    BY <1>1, <2>1 DEF Moves
  <2>3. table[e] = None /\ \A f \in Types : table[f] # n
    <3>1. n # None
      BY <2>1, NoneAssumption
    <3> QED BY <1>1, <1>5, <2>1, <3>1, MapFacts
  <2>4. ASSUME NEW f \in Types PROVE Linked(f)'
    <3>1. SUFFICES ASSUME table[f] # None PROVE Linked(f)'
      BY <1>1 DEF Linked
    <3>2. Linked(f) /\ table[f] \in Nodes \ {n}
      BY <2>3, <3>1, MapFacts DEF MapOK
    <3>3. memory'[table[f]] = memory[table[f]]
      BY <2>1, <3>2
    <3> QED BY <1>1, <2>1, <3>1, <3>2, <3>3 DEF Linked, Leaves
  <2>5. HookingOK(t)'
    BY <1>1, <2>1, <2>2, <2>3 DEF HookingOK
  <2>6. ASSUME NEW s \in Threads PROVE FindsOK(s)'
    <3>1. CASE s = t
      BY <2>2, <3>1 DEF FindsOK
    <3>2. CASE s # t
      <4>1. FindsOK(s) /\ Stands(s) /\ thread'[s] = thread[s]
        BY <1>1, <3>2 DEF MapOK, Leaves
      <4>2. thread[s].pc = "event_copy" => thread[s].node \in Nodes
        BY StepTypes DEF ThreadOK
      <4>3. thread[s].pc = "event_copy" =>
              memory'[thread[s].node].func \in {memory[thread[s].node].func, None}
        BY <2>1, <4>2
      <4> QED BY <1>1, <4>1, <4>3, FindsStay
    <3> QED BY <3>1, <3>2
  <2> QED BY <1>1, <2>4, <2>5, <2>6, HookerStep
<1> QED BY <1>3, <1>4, <1>5, HookFindEffect

LEMMA HookLinkMapOK ==
  ASSUME Typed, OneHooks, MapOK, NEW t \in Threads, HookLink(t)
  PROVE  MapOK'
<1> DEFINE e == thread[t].type
           n == thread[t].node
<1>1. /\ thread[t].pc = "hook_link" /\ Hooks(t) /\ e \in Types /\ n \in Nodes
      /\ UNCHANGED <<memory, used>> /\ table'[e] = n
      /\ \A f \in Types \ {e} : table'[f] = thread[t].seen[f]
      /\ Leaves(t) /\ \A s \in Threads \ {t} : Stands(s)
      /\ thread'[t].pc = "hook_assign" /\ thread'[t].node = n /\ thread'[t].type = e
  BY HookLinkEffect DEF Hooks, Moves, Leaves, Stands
<1>2. /\ n \in used /\ \A f \in Types : table[f] # n
      /\ memory[n].key = e /\ memory[n].func = None /\ thread[t].seen = table
  BY <1>1 DEF MapOK, HookingOK
<1>3. ASSUME NEW f \in Types PROVE Linked(f)'
  <2>1. CASE f = e
    BY <1>1, <1>2, <2>1 DEF Linked
  <2>2. CASE f # e
    <3>1. Linked(f) /\ table'[f] = table[f]
      BY <1>1, <1>2, <2>2 DEF MapOK
    <3> QED BY <1>1, <3>1 DEF Linked, Leaves
  <2> QED BY <2>1, <2>2
<1>4. HookingOK(t)'
  BY <1>1 DEF HookingOK
<1>5. ASSUME NEW s \in Threads PROVE FindsOK(s)'
  <2>1. CASE s = t
    BY <1>1, <2>1 DEF FindsOK
  <2>2. CASE s # t
    <3>1. FindsOK(s) /\ Stands(s) /\ thread'[s] = thread[s]
      BY <1>1, <2>2 DEF MapOK, Leaves
    <3>2. thread[s].pc = "event_copy" => thread[s].node \in Nodes /\ thread[s].type \in Types
      BY StepTypes DEF ThreadOK, EventPCs
    <3>3. table[e] = None /\ None \notin Nodes
      BY <1>1, NoneAssumption DEF MapOK, HookingOK
    <3>4. thread[s].pc = "event_copy" /\ thread[s].node = table[thread[s].type] =>
            table'[thread[s].type] = table[thread[s].type]
      BY <1>1, <1>2, <3>2, <3>3
    <3> QED BY <1>1, <3>1, <3>4, FindsStay
  <2> QED BY <2>1, <2>2
<1> QED BY <1>1, <1>3, <1>4, <1>5, HookerStep

LEMMA HookAssignMapOK ==
  ASSUME Typed, OneHooks, MapOK, NEW t \in Threads, HookAssign(t)
  PROVE  /\ MapOK' /\ table[thread[t].type] = thread[t].node
         /\ memory[thread[t].node].key = thread[t].type
<1> DEFINE e == thread[t].type
           n == thread[t].node
<1>1. /\ thread[t].pc = "hook_assign" /\ Hooks(t) /\ e \in Types /\ n \in Nodes
      /\ UNCHANGED <<table, used>>
      /\ memory'[n].func = e /\ memory'[n].key = memory[n].key
      /\ \A m \in Nodes \ {n} : memory'[m] = memory[m]
      /\ \A s \in Threads \ {t} : Stands(s) /\ SeesHook(s, e)
      /\ thread'[t].pc = "done"
  BY HookAssignEffect DEF Hooks, Ends
<1>2. n = table[e] /\ n # None /\ memory[n].key = e
  <2>1. n = table[e]
    BY <1>1 DEF MapOK, HookingOK
  <2> QED BY <1>1, <2>1, NoneAssumption DEF MapOK, Linked
<1>3. ASSUME NEW f \in Types PROVE Linked(f)'
  <2>1. CASE f = e
    BY <1>1, <1>2, <2>1 DEF MapOK, Linked
  <2>2. CASE f # e
    <3>1. SUFFICES ASSUME table[f] # None PROVE Linked(f)'
      BY <1>1 DEF Linked
    <3>2. table[f] # n /\ Linked(f) /\ table[f] \in Nodes
      BY <1>1, <1>2, <2>2, <3>1, MapFacts DEF MapOK
    <3>3. memory'[table[f]] = memory[table[f]]
      BY <1>1, <3>2
    <3>4. \A s \in Threads : thread[s].pc = "hook_assign" /\ thread[s].node = table[f] =>
            thread'[s].pc = "hook_assign" /\ thread'[s].node = table[f]
      BY <1>1, <3>2 DEF Stands
    <3> QED BY <1>1, <3>1, <3>2, <3>3, <3>4 DEF Linked
  <2> QED BY <2>1, <2>2
<1>4. HookingOK(t)'
  BY <1>1 DEF HookingOK
<1>5. ASSUME NEW s \in Threads PROVE FindsOK(s)'
  <2>1. CASE s = t
    BY <1>1, <2>1 DEF FindsOK
  <2>2. CASE s # t
    <3>1. FindsOK(s) /\ Stands(s) /\ SeesHook(s, e)
      BY <1>1, <2>2 DEF MapOK
    <3>2. thread[s].pc = "event_copy" => thread[s].node \in Nodes
      BY StepTypes DEF ThreadOK
    <3>3. thread[s].pc = "event_copy" /\ thread[s].gone =>
            memory'[thread[s].node].func \in
              {memory[thread[s].node].func, None} \cup thread'[s].may
      BY <1>1, <3>1, <3>2 DEF SeesHook, Looks
    <3> QED BY <1>1, <3>1, <3>3, FindsStay DEF SeesHook
  <2> QED BY <2>1, <2>2
<1>6. MapOK'
  BY <1>1, <1>3, <1>4, <1>5, HookerStep
<1> QED BY <1>2, <1>6

LEMMA UnhookFindMapOK ==
  ASSUME Typed, OneHooks, MapOK, NEW t \in Threads, UnhookFind(t)
  PROVE  MapOK'
<1>1. /\ thread[t].pc = "unhook" /\ Hooks(t) /\ UNCHANGED <<table, memory, used>>
      /\ Leaves(t) /\ \A s \in Threads \ {t} : Stands(s)
      /\ \/ thread'[t].pc = "done"
         \/ /\ thread'[t].pc = "unhook_erase" /\ thread'[t].type = thread[t].type
            /\ thread'[t].node = table[thread[t].type]
  BY UnhookFindEffect DEF Hooks, Moves, Ends, Leaves, Stands
<1>2. ASSUME NEW e \in Types PROVE Linked(e)'
  <2>1. Linked(e)
    BY DEF MapOK
  <2> QED BY <1>1, <2>1 DEF Linked, Leaves
<1>3. ASSUME NEW s \in Threads PROVE FindsOK(s)'
  <2>1. FindsOK(s)
    BY DEF MapOK
  <2> QED BY <1>1, <2>1 DEF FindsOK, Leaves
<1>4. HookingOK(t)'
  BY <1>1 DEF HookingOK
<1> QED BY <1>1, <1>2, <1>3, <1>4, HookerStep

LEMMA UnhookEraseMapOK ==
  ASSUME Typed, OneHooks, MapOK, NEW t \in Threads, UnhookErase(t)
  PROVE  /\ MapOK' /\ table'[thread[t].type] = None
         /\ \A f \in Types \ {thread[t].type} : table'[f] = table[f]
<1> DEFINE e == thread[t].type
           n == thread[t].node
<1>1. /\ thread[t].pc = "unhook_erase" /\ Hooks(t) /\ e \in Types /\ n \in Nodes
      /\ memory' = memory /\ used' = used \ {n}
      /\ \A f \in Types : table'[f] = IF table[f] = n THEN None ELSE table[f]
      /\ \A s \in Threads \ {t} : Stands(s) /\ SeesUnhook(s, e)
      /\ thread'[t].pc = "done"
  BY UnhookEraseEffect DEF Hooks, Ends
<1>2. n = table[e] /\ n # None
  BY <1>1, NoneAssumption DEF MapOK, HookingOK
<1>3. \A f \in Types \ {e} : table[f] # n
  BY <1>1, <1>2, MapFacts
<1>4. table'[e] = None /\ \A f \in Types \ {e} : table'[f] = table[f]
  BY <1>1, <1>2, <1>3
<1>5. ASSUME NEW f \in Types PROVE Linked(f)'
  <2>1. CASE f = e
    BY <1>4, <2>1 DEF Linked
  <2>2. CASE f # e
    <3>1. Linked(f) /\ table'[f] = table[f] /\ table[f] # n
      BY <1>3, <1>4, <2>2 DEF MapOK
    <3>2. \A s \in Threads : thread[s].pc = "hook_assign" => thread'[s].pc = "hook_assign"
                                                   /\ thread'[s].node = thread[s].node
      BY <1>1 DEF Stands
    <3> QED BY <1>1, <3>1, <3>2 DEF Linked
  <2> QED BY <2>1, <2>2
<1>6. HookingOK(t)'
  BY <1>1 DEF HookingOK
<1>7. ASSUME NEW s \in Threads PROVE FindsOK(s)'
  <2>1. CASE s = t
    BY <1>1, <2>1 DEF FindsOK
  <2>2. CASE s # t
    <3>1. FindsOK(s) /\ Stands(s) /\ SeesUnhook(s, e)
      BY <1>1, <2>2 DEF MapOK
    <3>2. /\ thread[s].pc = "event_copy" => thread[s].type \in Types
          /\ \A u \in Threads : thread[u].pc # "hook_assign"
      BY <1>1, StepTypes, HookerAlone DEF ThreadOK, EventPCs
    <3>3. memory[table[e]].func = e
      BY <1>1, <1>2, <3>2 DEF MapOK, Linked
    <3>4. thread[s].pc = "event_copy" /\ thread[s].node = table[thread[s].type] =>
            \/ table'[thread[s].type] = table[thread[s].type]
            \/ thread'[s].gone /\ memory'[thread[s].node].func \in {thread[s].type, None}
      BY <1>1, <1>4, <3>1, <3>2, <3>3 DEF SeesUnhook, Looks
    <3> QED BY <1>1, <3>1, <3>4, FindsStay DEF SeesUnhook
  <2> QED BY <2>1, <2>2
<1>8. MapOK'
  BY <1>1, <1>5, <1>6, <1>7, HookerStep
<1> QED BY <1>4, <1>8

LEMMA InitMapOK == Init => OneHooks /\ MapOK /\ AllReported
<1> SUFFICES ASSUME Init PROVE OneHooks /\ MapOK /\ AllReported
  OBVIOUS
<1>1. /\ \A t \in Threads : thread[t].pc = "done" /\ thread[t].op = "none"
      /\ \A e \in Types : table[e] = None
      /\ used = {}
      /\ \A c \in Clients : ~client[c].spared
  BY DEF Init, NoCall, NoTable
<1>2. OneHooks
  BY <1>1 DEF OneHooks, Hooks
<1>3. MapOK
  BY <1>1 DEF MapOK, Linked, HookingOK, FindsOK
<1>4. AllReported
  BY <1>1, AdminsAssumption DEF AllReported, Reported
<1> QED BY <1>2, <1>3, <1>4

LEMMA NextMapOK == Typed /\ Owned /\ OneHooks /\ MapOK /\ [Next]_vars => MapOK'
<1> SUFFICES ASSUME Typed, Owned, OneHooks, MapOK, [Next]_vars PROVE MapOK'
  OBVIOUS
<1>1. ASSUME UNCHANGED <<table, memory, used, thread>> PROVE MapOK'
  BY <1>1 DEF MapOK, Linked, HookingOK, FindsOK
<1>2. ASSUME NEW c \in Clients, Begins(c) PROVE MapOK'
  BY <1>1, <1>2 DEF Begins
<1>3. ASSUME NEW t \in Threads, Works(t) PROVE MapOK'
  BY <1>3, HookFindMapOK, HookLinkMapOK, HookAssignMapOK, UnhookFindMapOK,
     UnhookEraseMapOK, EventMapOK DEF Works
<1>4. CASE Restarts
  <2>1. /\ \A t \in Threads : thread'[t].pc = "done" /\ thread'[t].op = "none"
        /\ \A e \in Types : table'[e] = None
        /\ used' = {}
    BY <1>4 DEF Restarts, NoCall
  <2> QED BY <2>1 DEF MapOK, Linked, HookingOK, FindsOK
<1>5. CASE UNCHANGED vars
  BY <1>1, <1>5 DEF vars
<1> QED BY <1>2, <1>3, <1>4, <1>5, FazCases, CallsMapOK, GivesUpMapOK

-----------------------------------------------------------------------------
(* What the steps do to the types that are hooked.                         *)

LEMMA OnIs ==
  ASSUME Typed, MapOK
  PROVE  \A e \in Types : e \in Hooked <=> table[e] # None /\ memory[table[e]].func = e
BY MapFacts DEF Hooked

LEMMA OnIsNext ==
  ASSUME MapOK'
  PROVE  \A e \in Types : e \in Hooked' <=> table'[e] # None /\ memory'[table'[e]].func = e
BY DEF MapOK, Linked, Hooked, Found

LEMMA HookFindOn ==
  ASSUME Typed, Typed', OneHooks, MapOK, NEW t \in Threads, HookFind(t)
  PROVE  Hooked' = Hooked /\ table' = table
<1>1. MapOK' /\ table' = table
  BY HookFindMapOK, HookFindEffect
<1>2. ASSUME NEW f \in Types, table[f] # None PROVE memory'[table[f]] = memory[table[f]]
  <2>1. table[f] \in Nodes /\ table[f] \in used
    BY <1>2, MapFacts
  <2> QED BY <2>1, HookFindEffect
<1>3. \A f \in Types : f \in Hooked' <=> f \in Hooked
  BY <1>1, <1>2, OnIs, OnIsNext
<1>4. Hooked \subseteq Types /\ Hooked' \subseteq Types
  BY DEF Hooked
<1> QED BY <1>1, <1>3, <1>4

LEMMA HookLinkOn ==
  ASSUME Typed, Typed', OneHooks, MapOK, NEW t \in Threads, HookLink(t)
  PROVE  Hooked' = Hooked
<1> DEFINE e == thread[t].type
           n == thread[t].node
<1>1. /\ MapOK' /\ memory' = memory /\ e \in Types /\ table'[e] = n /\ n \in Nodes
      /\ \A f \in Types \ {e} : table'[f] = thread[t].seen[f]
      /\ thread[t].pc = "hook_link"
  BY HookLinkMapOK, HookLinkEffect
<1>2. thread[t].seen = table /\ table[e] = None /\ memory[n].func = None
  BY <1>1 DEF MapOK, HookingOK
<1>3. e # None
  BY <1>1, NoneAssumption
<1>4. e \notin Hooked /\ e \notin Hooked'
  BY <1>1, <1>2, <1>3, OnIs, OnIsNext
<1>5. \A f \in Types \ {e} : f \in Hooked' <=> f \in Hooked
  BY <1>1, <1>2, OnIs, OnIsNext
<1>6. Hooked \subseteq Types /\ Hooked' \subseteq Types
  BY DEF Hooked
<1> QED BY <1>4, <1>5, <1>6

LEMMA HookAssignOn ==
  ASSUME Typed, Typed', OneHooks, MapOK, NEW t \in Threads, HookAssign(t)
  PROVE  Hooked' = Hooked \cup {thread[t].type}
<1> DEFINE e == thread[t].type
           n == thread[t].node
<1>1. /\ MapOK' /\ table' = table /\ e \in Types /\ n \in Nodes /\ table[e] = n
      /\ memory'[n].func = e
      /\ \A m \in Nodes \ {n} : memory'[m] = memory[m]
  BY HookAssignMapOK, HookAssignEffect
<1>2. n # None
  BY <1>1, NoneAssumption
<1>3. e \in Hooked'
  BY <1>1, <1>2, OnIsNext
<1>4. ASSUME NEW f \in Types \ {e} PROVE f \in Hooked' <=> f \in Hooked
  <2>1. table[f] # None => table[f] # n /\ table[f] \in Nodes
    BY <1>1, MapFacts
  <2> QED BY <1>1, <2>1, OnIs, OnIsNext
<1>5. Hooked \subseteq Types /\ Hooked' \subseteq Types
  BY DEF Hooked
<1> QED BY <1>3, <1>4, <1>5

LEMMA UnhookEraseOn ==
  ASSUME Typed, Typed', OneHooks, MapOK, NEW t \in Threads, UnhookErase(t)
  PROVE  Hooked' = Hooked \ {thread[t].type}
<1> DEFINE e == thread[t].type
<1>1. /\ MapOK' /\ memory' = memory /\ table'[e] = None
      /\ \A f \in Types \ {e} : table'[f] = table[f]
      /\ e \in Types
  BY UnhookEraseMapOK, UnhookEraseEffect
<1>2. e \notin Hooked'
  BY <1>1, OnIsNext
<1>3. \A f \in Types \ {e} : f \in Hooked' <=> f \in Hooked
  BY <1>1, OnIs, OnIsNext
<1>4. Hooked \subseteq Types /\ Hooked' \subseteq Types
  BY DEF Hooked
<1> QED BY <1>2, <1>3, <1>4

\* Whatever leaves the table and its memory alone.
LEMMA OnSame == UNCHANGED <<table, memory>> => Hooked' = Hooked
BY DEF Hooked, Found

-----------------------------------------------------------------------------
(* What the client that hooks and unhooks reports.                         *)

\* The client is not through with more types than before, and what it is through
\* with is as it was.
LEMMA ReportedSame ==
  ASSUME NEW c \in Clients, Reported(c),
         client'[c].op = client[c].op, client'[c].success => client[c].success,
         client'[c].spared => client[c].spared,
         \A e \in Types : Remains(c, e) => Remains(c, e)',
         \A e \in Types : ~Remains(c, e)' =>
           /\ client[c].op = "hook" /\ e \in Hooked => e \in Hooked'
           /\ client[c].op = "unhook" /\ table[e] = None => table'[e] = None
  PROVE  Reported(c)'
BY DEF Reported

LEMMA CallsReported ==
  ASSUME Typed, Owned, AllReported, NEW d \in Clients, NEW e \in Types, NEW t \in Threads,
         Calls(d, e, t), NEW c \in Admins
  PROVE  Reported(c)'
<1>1. /\ UNCHANGED <<table, memory>> /\ thread[t].pc = "done"
      /\ client'[c].op = client[c].op /\ client'[c].success = client[c].success
      /\ client'[c].spared = client[c].spared
      /\ client'[c].todo = IF c = d THEN client[c].todo \ {e} ELSE client[c].todo
      /\ \A s \in Threads \ {t} : /\ thread'[s].type = thread[s].type
                                  /\ thread'[s].client = thread[s].client
      /\ thread'[t].type = e /\ thread'[t].client = d
      /\ c \in Clients /\ c # None
  BY AdminsAssumption, NoneAssumption DEF Calls, Leaves
<1>2. thread[t].client = None
  BY <1>1, StepTypes DEF ThreadOK
<1>3. \A f \in Types : Remains(c, f) => Remains(c, f)'
  BY <1>1, <1>2 DEF Remains
<1> QED BY <1>1, <1>3, OnSame, ReportedSame DEF AllReported

LEMMA GivesUpReported ==
  ASSUME OneAdmin, AllReported, NEW d \in Clients, GivesUp(d), NEW c \in Admins
  PROVE  Reported(c)'
<1>1. c \in Clients /\ c # d
  BY AdminsAssumption DEF GivesUp, OneAdmin
<1>2. /\ UNCHANGED <<table, memory>> /\ client'[c] = client[c]
      /\ \A s \in Threads :
           /\ thread'[s].type = thread[s].type
           /\ thread'[s].client = IF thread[s].client = d THEN None ELSE thread[s].client
  BY <1>1 DEF GivesUp
<1>3. \A f \in Types : Remains(c, f) => Remains(c, f)'
  BY <1>1, <1>2 DEF Remains
<1> QED BY <1>1, <1>2, <1>3, OnSame, ReportedSame DEF AllReported

\* A call of the client that hooks and unhooks comes to its answer: of the types it
\* is not through with, the type of the call is no longer one.
LEMMA EndReported ==
  ASSUME Typed, Owned, NEW c \in Clients, Reported(c), NEW t \in Threads,
         thread[t].client = c, NEW status, Ends(t, status),
         status = "OK" =>
           /\ client[c].op = "hook" => Hooked \cup {thread[t].type} \subseteq Hooked'
           /\ client[c].op = "unhook" =>
                \A e \in Types :
                  e = thread[t].type \/ table[e] = None => table'[e] = None
  PROVE  Reported(c)'
<1>1. /\ client'[c].op = client[c].op /\ client'[c].todo = client[c].todo
      /\ client'[c].spared = client[c].spared
      /\ client'[c].success => client[c].success /\ status = "OK"
      /\ \A s \in Threads \ {t} : /\ thread'[s].client = thread[s].client
                                  /\ thread'[s].type = thread[s].type
  BY DEF Ends, Stands
<1>2. \A e \in Types \ {thread[t].type} : Remains(c, e) => Remains(c, e)'
  BY <1>1 DEF Remains
<1> QED BY <1>1, <1>2 DEF Reported

\* It goes on.
LEMMA MoveReported ==
  ASSUME NEW c \in Clients, Reported(c), NEW t \in Threads, NEW pc, NEW n,
         Moves(t, pc, n), client' = client,
         client[c].op = "hook" => Hooked \subseteq Hooked',
         client[c].op = "unhook" => table' = table
  PROVE  Reported(c)'
<1>1. \A s \in Threads : thread'[s].client = thread[s].client /\ thread'[s].type = thread[s].type
  BY DEF Moves
<1>2. \A e \in Types : Remains(c, e) => Remains(c, e)'
  BY <1>1 DEF Remains
<1> QED BY <1>2, ReportedSame

LEMMA WorksReported ==
  ASSUME Typed, Typed', Owned, OneHooks, MapOK, AllReported, NEW t \in Threads, Works(t),
         OneAdmin, NEW c \in Admins
  PROVE  Reported(c)'
<1>1. c \in Clients /\ c # None /\ Reported(c) /\ \A a \in Admins : a = c
  BY AdminsAssumption, NoneAssumption DEF AllReported, OneAdmin
<1>2. thread[t].client = c => client[c].op = thread[t].op
  BY <1>1 DEF Owned
<1>3. Hooks(t) => thread[t].client = c
  BY <1>1 DEF OneHooks
<1>4. CASE HookFind(t)
  <2>1. /\ client[c].op = "hook" /\ thread[t].client = c /\ Hooked' = Hooked /\ table' = table
    BY <1>2, <1>3, <1>4, HookFindEffect, HookFindOn DEF Hooks
  <2>2. CASE Ends(t, "NOT_FOUND")
    BY <1>1, <2>1, <2>2, EndReported
  <2>3. CASE \E pc, n : Moves(t, pc, n) /\ client' = client
    BY <1>1, <2>1, <2>3, MoveReported
  <2> QED BY <1>4, <2>2, <2>3, HookFindEffect
<1>5. CASE HookLink(t)
  <2>1. client[c].op = "hook" /\ Hooked' = Hooked
    BY <1>2, <1>3, <1>5, HookLinkEffect, HookLinkOn DEF Hooks
  <2>2. Moves(t, "hook_assign", thread[t].node) /\ client' = client
    BY <1>5, HookLinkEffect
  <2> QED BY <1>1, <2>1, <2>2, MoveReported
<1>6. CASE HookAssign(t)
  <2>1. /\ client[c].op = "hook" /\ thread[t].client = c
        /\ Hooked' = Hooked \cup {thread[t].type} /\ Ends(t, "OK")
    BY <1>2, <1>3, <1>6, HookAssignEffect, HookAssignOn DEF Hooks
  <2> QED BY <1>1, <2>1, EndReported
<1>7. CASE UnhookFind(t)
  <2>1. client[c].op = "unhook" /\ thread[t].client = c /\ table' = table
    BY <1>2, <1>3, <1>7, UnhookFindEffect DEF Hooks
  <2>2. CASE Ends(t, "NOT_FOUND")
    BY <1>1, <2>1, <2>2, EndReported
  <2>3. CASE \E pc, n : Moves(t, pc, n) /\ client' = client
    BY <1>1, <2>1, <2>3, MoveReported
  <2> QED BY <1>7, <2>2, <2>3, UnhookFindEffect
<1>8. CASE UnhookErase(t)
  <2>1. /\ client[c].op = "unhook" /\ thread[t].client = c /\ Ends(t, "OK")
        /\ table'[thread[t].type] = None
        /\ \A f \in Types \ {thread[t].type} : table'[f] = table[f]
    BY <1>2, <1>3, <1>8, UnhookEraseEffect, UnhookEraseMapOK DEF Hooks
  <2> QED BY <1>1, <2>1, EndReported
<1>9. CASE EventFind(t) \/ EventCopy(t) \/ EventRun(t)
  <2>1. UNCHANGED <<table, memory>> /\ thread[t].op = "event" /\ Typed
    BY <1>9, EventFindEffect, EventCopyEffect, EventRunEffect
  <2>2. CASE thread[t].client = c
    <3>1. client[c].op = "event" /\ client'[c].op = client[c].op
      BY <1>1, <1>2, <2>1, <2>2, WorksEffect DEF Ends
    <3> QED BY <3>1 DEF Reported
  <2>3. CASE thread[t].client # c
    <3>1. client'[c] = client[c]
      BY <1>1, <2>3, WorksEffect DEF Ends
    <3>2. \A s \in Threads \ {t} : /\ thread'[s].client = thread[s].client
                                    /\ thread'[s].type = thread[s].type
      BY WorksEffect DEF Stands
    <3>3. \A f \in Types : Remains(c, f) => Remains(c, f)'
      BY <2>3, <3>1, <3>2 DEF Remains
    <3> QED BY <1>1, <2>1, <3>1, <3>3, OnSame, ReportedSame
  <2> QED BY <2>2, <2>3
<1> QED BY <1>4, <1>5, <1>6, <1>7, <1>8, <1>9 DEF Works

LEMMA NextReported ==
  ASSUME OneAdmin
  PROVE  Typed /\ Typed' /\ Owned /\ OneHooks /\ MapOK /\ AllReported /\ [Next]_vars
           => AllReported'
<1> SUFFICES ASSUME Typed, Typed', Owned, OneHooks, MapOK, AllReported, [Next]_vars,
                    NEW c \in Admins
             PROVE  Reported(c)'
  BY DEF AllReported
<1>1. c \in Clients /\ Reported(c)
  BY AdminsAssumption DEF AllReported
<1>2. ASSUME NEW d \in Clients, Begins(d) PROVE Reported(c)'
  <2>1. CASE d = c
    <3>1. client'[c].op = "event" \/ client'[c].todo = Types
      BY <1>2, <2>1 DEF Begins
    <3> QED BY <3>1 DEF Reported, Remains
  <2>2. CASE d # c
    <3>1. /\ UNCHANGED <<table, memory, thread>>
          /\ client'[c].op = client[c].op /\ client'[c].todo = client[c].todo
          /\ client'[c].success = client[c].success
          /\ client'[c].spared => client[c].spared
      BY <1>1, <1>2, <2>2 DEF Begins
    <3>2. \A f \in Types : Remains(c, f) => Remains(c, f)'
      BY <3>1 DEF Remains
    <3> QED BY <1>1, <3>1, <3>2, OnSame, ReportedSame
  <2> QED BY <2>1, <2>2
<1>3. CASE Restarts
  BY <1>1, <1>3 DEF Restarts, Reported
<1>4. CASE UNCHANGED vars
  <2>1. UNCHANGED <<table, memory, thread, client>>
    BY <1>4 DEF vars
  <2>2. \A f \in Types : Remains(c, f) => Remains(c, f)'
    BY <2>1 DEF Remains
  <2> QED BY <1>1, <2>1, <2>2, OnSame, ReportedSame
<1> QED BY <1>2, <1>3, <1>4, FazCases, CallsReported, GivesUpReported, WorksReported

-----------------------------------------------------------------------------
(* The theorems.                                                           *)

\* All of it is an invariant where one client hooks and unhooks, and waits.
HookInv == Typed /\ Owned /\ OneHooks /\ MapOK /\ AllReported

LEMMA TypedAlways == Spec => [](Typed /\ Owned)
<1>1. Init => Typed /\ Owned
  BY InitTyped
<1>2. Typed /\ Owned /\ [Next]_vars => (Typed /\ Owned)'
  BY NextTyped, NextOwned
<1> QED BY <1>1, <1>2, PTL DEF Spec

LEMMA HookInvAlways == ASSUME OneAdmin PROVE Spec => []HookInv
<1>1. Init => HookInv
  BY InitTyped, InitMapOK DEF HookInv
<1>2. HookInv /\ [Next]_vars => HookInv'
  <2>1. Typed /\ Owned /\ [Next]_vars => Typed' /\ Owned'
    BY NextTyped, NextOwned
  <2> QED BY <2>1, NextOneHooks, NextMapOK, NextReported DEF HookInv
<1> QED BY <1>1, <1>2, PTL DEF Spec

\* Whatever the clients do, and however the steps of the threads interleave on the
\* map without a lock, every variable keeps its type: no step of hook, unhook or
\* event in faz_service.cc needs a node or a function that is not there.
THEOREM TypesHold == Spec => []TypeOK
<1>1. Typed => TypeOK
  <2> SUFFICES ASSUME Typed PROVE TypeOK
    OBVIOUS
  <2>1. \A t \in Threads : thread[t].status \in Statuses /\ thread[t].client \in Clients \cup {None}
    BY DEF Typed, ThreadRecord
  <2>2. \A c \in Clients : client[c].todo \subseteq Types
    BY DEF Typed, ClientRecord
  <2>3. ASSUME NEW t \in Threads
        PROVE  /\ thread[t].pc \in {"hook_link", "hook_assign", "unhook_erase", "event_copy"}
                    => thread[t].node \in Nodes
               /\ thread[t].pc = "event_run" => thread[t].ran \in Types
    BY StepTypes DEF ThreadOK, ThreadRecord
  <2> QED BY <2>1, <2>2, <2>3 DEF Typed, TypeOK, Cell
<1> QED BY <1>1, TypedAlways, PTL

\* What HookAll and UnhookAll tell that client is so (caw_client.cc): after true, all
\* functions are in the table, or none is, until its next operation or a restart of
\* the server.
THEOREM ReportsHold == ASSUME OneAdmin PROVE Spec => []ReportIsTrue
<1>1. HookInv => ReportIsTrue
  <2> SUFFICES ASSUME HookInv, NEW c \in Admins,
                      Idle(c), client[c].success, client[c].spared
               PROVE  /\ client[c].op = "hook" => Hooked = Types
                      /\ client[c].op = "unhook" => table = NoTable
    BY DEF ReportIsTrue
  <2>1. c \in Clients /\ c # None /\ Reported(c)
    BY AdminsAssumption, NoneAssumption DEF HookInv, AllReported
  <2>2. \A t \in Threads : thread[t].client # c
    BY <2>1 DEF HookInv, Owned, Idle
  <2>3. \A e \in Types : ~Remains(c, e)
    BY <2>2 DEF Remains, Idle
  <2>4. client[c].op = "hook" => \A e \in Types : e \in Hooked
    BY <2>1, <2>3 DEF Reported
  <2>5. client[c].op = "unhook" => \A e \in Types : table[e] = None
    BY <2>1, <2>3 DEF Reported
  <2>6. table \in [Types -> Nodes \cup {None}]
    BY DEF HookInv, Typed
  <2> QED BY <2>4, <2>5, <2>6 DEF Hooked, NoTable
<1> QED BY <1>1, HookInvAlways, PTL

-----------------------------------------------------------------------------
(* Each step is one of HookTable, or leaves its table as it is.            *)

\* The request that a thread of the map stands for.
Request(r) ==
  [op |-> r.op, type |-> r.type, ran |-> r.ran, gone |-> r.gone, may |-> r.may,
   status |-> r.status]

Req == [t \in Threads |-> Request(thread[t])]

\* An answer that a request ends with.
Over(status) == [op |-> "none", type |-> None, ran |-> None, gone |-> FALSE, may |-> {},
                 status |-> status]

LEMMA InitRefines == Init => Table!HookTableInit
<1> SUFFICES ASSUME Init PROVE Table!HookTableInit
  OBVIOUS
<1>1. ASSUME NEW t \in Threads
      PROVE  /\ thread[t].op = "none" /\ thread[t].type = None /\ thread[t].ran = None
             /\ thread[t].gone = FALSE /\ thread[t].may = {} /\ thread[t].status = "NONE"
  BY DEF Init, NoCall
<1>2. \A e \in Types : ~Found(e)
  BY DEF Init, NoTable, Found
<1> QED BY <1>1, <1>2 DEF Table!HookTableInit, Table!NoReq, Hooked

\* A step that no request begins, ends or turns.
LEMMA SameRefines ==
  ASSUME Hooked' = Hooked,
         \A s \in Threads :
           /\ thread'[s].op = thread[s].op /\ thread'[s].type = thread[s].type
           /\ thread'[s].ran = thread[s].ran /\ thread'[s].gone = thread[s].gone
           /\ thread'[s].may = thread[s].may /\ thread'[s].status = thread[s].status
  PROVE  UNCHANGED <<Hooked, Req>>
BY DEF Req, Request

LEMMA MoveRefines ==
  ASSUME Hooked' = Hooked, NEW t \in Threads, NEW pc, NEW n, Moves(t, pc, n)
  PROVE  UNCHANGED <<Hooked, Req>>
BY SameRefines DEF Moves

LEMMA OverIs ==
  ASSUME NEW status
  PROVE  [Table!NoReq EXCEPT !.status = status] = Over(status)
<1> DEFINE d == [Table!NoReq EXCEPT !.status = status]
<1>1. ASSUME NEW r, r = d PROVE r = Over(status)
  BY <1>1 DEF Table!NoReq, Over
<1> HIDE DEF d
<1>2. d = Over(status)
  BY <1>1
<1> QED BY <1>2 DEF d

LEMMA MayIs ==
  ASSUME NEW r, NEW m
  PROVE  [Request(r) EXCEPT !.may = m] =
           [op |-> r.op, type |-> r.type, ran |-> r.ran, gone |-> r.gone, may |-> m,
            status |-> r.status]
<1> DEFINE d == [Request(r) EXCEPT !.may = m]
<1>1. ASSUME NEW q, q = d
      PROVE  q = [op |-> r.op, type |-> r.type, ran |-> r.ran, gone |-> r.gone, may |-> m,
                  status |-> r.status]
  BY <1>1 DEF Request
<1> HIDE DEF d
<1>2. d = [op |-> r.op, type |-> r.type, ran |-> r.ran, gone |-> r.gone, may |-> m,
           status |-> r.status]
  BY <1>1
<1> QED BY <1>2 DEF d

LEMMA EndIs ==
  ASSUME NEW t \in Threads, NEW status, Ends(t, status)
  PROVE  Request(thread'[t]) = Over(status)
BY DEF Ends, Request, Over

\* An answer that leaves the other requests alone.
LEMMA AnswerRefines ==
  ASSUME NEW t \in Threads, NEW status, Ends(t, status), Leaves(t)
  PROVE  Req' = Table!Answered(Req, t, status)
<1>1. Req' = [Req EXCEPT ![t] = Over(status)]
  <2>1. \A s \in Threads \ {t} : Request(thread'[s]) = Request(thread[s])
    BY DEF Leaves
  <2> QED BY <2>1, EndIs DEF Req
<1> QED BY <1>1, OverIs DEF Table!Answered

LEMMA TakeRefines ==
  ASSUME Typed, Owned, NEW c \in Clients, NEW e \in Types, NEW t \in Threads, Calls(c, e, t)
  PROVE  \E op \in {"hook", "unhook", "event"} : Table!Take(t, op, e)
<1>1. PICK op \in {"hook", "unhook", "event"} : op = client[c].op
  BY DEF Calls, Owned, Typed, ClientRecord
<1>2. /\ Leaves(t)
      /\ thread'[t].op = op /\ thread'[t].type = e /\ thread'[t].ran = None
      /\ thread'[t].status = "NONE" /\ thread'[t].gone = FALSE /\ thread'[t].may = {}
      /\ UNCHANGED <<table, memory>>
  BY <1>1 DEF Calls
<1>3. thread[t].op = "none"
  BY StepTypes DEF Calls, ThreadOK
<1> DEFINE new == [op |-> op, type |-> e, ran |-> None, gone |-> FALSE, may |-> {},
                   status |-> "NONE"]
<1>4. Req' = [Req EXCEPT ![t] = new]
  <2>1. Request(thread'[t]) = new
    BY <1>2 DEF Request
  <2>2. \A s \in Threads \ {t} : Request(thread'[s]) = Request(thread[s])
    BY <1>2 DEF Leaves
  <2> HIDE DEF new
  <2> QED BY <2>1, <2>2 DEF Req
<1>5. [Table!NoReq EXCEPT !.op = op, !.type = e] = new
  <2> DEFINE d == [Table!NoReq EXCEPT !.op = op, !.type = e]
  <2>1. ASSUME NEW r, r = d PROVE r = new
    BY <2>1 DEF Table!NoReq
  <2> HIDE DEF d
  <2>2. d = new
    BY <2>1
  <2> QED BY <2>2 DEF d
<1>6. Hooked' = Hooked
  BY <1>2, OnSame
<1> HIDE DEF new
<1>7. Req[t].op = "none"
  BY <1>3 DEF Req, Request
<1> QED BY <1>4, <1>5, <1>6, <1>7 DEF Table!Take, Table!Runs, Req, Request

LEMMA HookFindRefines ==
  ASSUME Typed, Typed', OneHooks, MapOK, NEW t \in Threads, HookFind(t)
  PROVE  Table!HookUnknown(t) \/ UNCHANGED <<Hooked, Req>>
<1>1. Hooked' = Hooked /\ thread[t].op = "hook" /\ Leaves(t)
  BY HookFindOn, HookFindEffect
<1>2. CASE thread[t].type \notin Predefined /\ Ends(t, "NOT_FOUND")
  <2>1. Req' = Table!Answered(Req, t, "NOT_FOUND")
    BY <1>1, <1>2, AnswerRefines
  <2>2. Req[t].op = "hook" /\ Req[t].type = thread[t].type
    BY <1>1 DEF Req, Request
  <2> QED BY <1>1, <1>2, <2>1, <2>2 DEF Table!HookUnknown, Table!Runs, Req, Request
<1>3. CASE \E pc, n : Moves(t, pc, n)
  BY <1>1, <1>3, MoveRefines
<1> QED BY <1>2, <1>3, HookFindEffect

LEMMA HookLinkRefines ==
  ASSUME Typed, Typed', OneHooks, MapOK, NEW t \in Threads, HookLink(t)
  PROVE  UNCHANGED <<Hooked, Req>>
BY HookLinkOn, HookLinkEffect, MoveRefines

\* An event looks for its function in the table if it does so in the map.
LEMMA LooksIs ==
  ASSUME Typed, NEW s \in Threads
  PROVE  Looks(s) <=> thread[s].op = "event" /\ thread[s].ran = None
BY StepTypes DEF Looks, ThreadOK, EventPCs

LEMMA HookAssignRefines ==
  ASSUME Typed, Typed', OneHooks, MapOK, NEW t \in Threads, HookAssign(t)
  PROVE  Table!Hook(t)
<1> DEFINE e == thread[t].type
<1>1. /\ Hooked' = Hooked \cup {e} /\ thread[t].op = "hook"
      /\ e \in Predefined /\ Ends(t, "OK")
      /\ \A s \in Threads \ {t} : Stands(s) /\ SeesHook(s, e)
  BY HookAssignOn, HookAssignEffect DEF Ends
<1> DEFINE reqs == [s \in Threads |->
                      IF Req[s].op = "event" /\ Req[s].ran = None /\ Req[s].gone
                      THEN [Req[s] EXCEPT !.may = Req[s].may \cup {e}] ELSE Req[s]]
<1>2. ASSUME NEW s \in Threads \ {t} PROVE Request(thread'[s]) = reqs[s]
  <2>1. CASE Looks(s) /\ thread[s].gone
    <3>1. Req[s].op = "event" /\ Req[s].ran = None /\ Req[s].gone
      BY <2>1, LooksIs DEF Req, Request
    <3>2. reqs[s] = [Request(thread[s]) EXCEPT !.may = Request(thread[s]).may \cup {e}]
      BY <3>1 DEF Req
    <3>3. Stands(s) /\ SeesHook(s, e)
      BY <1>1
    <3>4. Request(thread'[s]) = [Request(thread[s]) EXCEPT !.may = thread[s].may \cup {e}]
      <4>1. /\ thread'[s].op = thread[s].op /\ thread'[s].type = thread[s].type
            /\ thread'[s].ran = thread[s].ran /\ thread'[s].gone = thread[s].gone
            /\ thread'[s].status = thread[s].status
            /\ thread'[s].may = thread[s].may \cup {e}
        BY <2>1, <3>3 DEF Stands, SeesHook
      <4> QED BY <4>1, MayIs DEF Request
    <3>5. Request(thread[s]).may = thread[s].may
      BY DEF Request
    <3> QED BY <3>2, <3>4, <3>5
  <2>2. CASE ~(Looks(s) /\ thread[s].gone)
    <3>1. ~(Req[s].op = "event" /\ Req[s].ran = None /\ Req[s].gone)
      BY <2>2, LooksIs DEF Req, Request
    <3>2. reqs[s] = Request(thread[s])
      BY <3>1 DEF Req
    <3>3. Stands(s) /\ SeesHook(s, e)
      BY <1>1
    <3>4. Request(thread'[s]) = Request(thread[s])
      BY <2>2, <3>3 DEF Request, Stands, SeesHook
    <3> QED BY <3>2, <3>4
  <2> QED BY <2>1, <2>2
<1>3. Request(thread'[t]) = Over("OK")
  BY <1>1, EndIs
<1>4. Req' = [reqs EXCEPT ![t] = Over("OK")]
  <2>1. \A s \in Threads \ {t} : Request(thread'[s]) = reqs[s]
    BY <1>2
  <2>2. DOMAIN reqs = Threads /\ reqs = [s \in Threads |-> reqs[s]]
    OBVIOUS
  <2>3. Req' = [s \in Threads |-> Request(thread'[s])]
    BY DEF Req
  <2> HIDE DEF reqs
  <2> QED BY <1>3, <2>1, <2>2, <2>3
<1>5. Req[t].type = e /\ Req[t].op = "hook"
  BY <1>1 DEF Req, Request
<1>6. reqs = [s \in Threads |->
                IF Table!Looks(s) /\ Req[s].gone
                THEN [Req[s] EXCEPT !.may = Req[s].may \cup {Req[t].type}] ELSE Req[s]]
  BY <1>5 DEF Table!Looks, Table!Runs, Req, Request
<1> HIDE DEF reqs
<1>7. Req' = Table!Answered(reqs, t, "OK")
  BY <1>4, OverIs DEF Table!Answered
<1> QED BY <1>1, <1>5, <1>6, <1>7 DEF Table!Hook, Table!Runs, Table!Looks, Req, Request

LEMMA UnhookFindRefines ==
  ASSUME Typed, Typed', OneHooks, MapOK, NEW t \in Threads, UnhookFind(t)
  PROVE  Table!UnhookMissing(t) \/ UNCHANGED <<Hooked, Req>>
<1>1. Hooked' = Hooked /\ thread[t].op = "unhook" /\ Leaves(t)
  BY UnhookFindEffect, OnSame
<1>2. CASE ~Found(thread[t].type) /\ Ends(t, "NOT_FOUND")
  <2>1. /\ Req' = Table!Answered(Req, t, "NOT_FOUND")
        /\ thread[t].type \notin Hooked
    BY <1>1, <1>2, AnswerRefines DEF Hooked
  <2>2. Req[t].op = "unhook" /\ Req[t].type = thread[t].type
    BY <1>1 DEF Req, Request
  <2> QED BY <1>1, <2>1, <2>2 DEF Table!UnhookMissing, Table!Runs, Req, Request
<1>3. CASE \E pc, n : Moves(t, pc, n)
  BY <1>1, <1>3, MoveRefines
<1> QED BY <1>2, <1>3, UnhookFindEffect

LEMMA UnhookEraseRefines ==
  ASSUME Typed, Typed', OneHooks, MapOK, NEW t \in Threads, UnhookErase(t)
  PROVE  Table!Unhook(t)
<1> DEFINE e == thread[t].type
<1>1. /\ Hooked' = Hooked \ {e} /\ thread[t].op = "unhook" /\ thread[t].pc = "unhook_erase"
      /\ e \in Types /\ thread[t].node \in Nodes /\ Ends(t, "OK")
      /\ \A s \in Threads \ {t} : Stands(s) /\ SeesUnhook(s, e)
  <2>1. Hooked' = Hooked \ {e}
    BY UnhookEraseOn
  <2>2. /\ thread[t].op = "unhook" /\ thread[t].pc = "unhook_erase"
        /\ e \in Types /\ thread[t].node \in Nodes /\ Ends(t, "OK")
        /\ \A s \in Threads \ {t} : SeesUnhook(s, e)
    BY UnhookEraseEffect
  <2> QED BY <2>1, <2>2 DEF Ends
<1>2. table[e] = thread[t].node /\ table[e] # None
  BY <1>1, NoneAssumption DEF MapOK, HookingOK
<1>3. \A s \in Threads : thread[s].pc # "hook_assign"
  BY <1>1, HookerAlone DEF Hooks
<1>4. e \in Hooked
  BY <1>1, <1>2, <1>3, OnIs DEF MapOK, Linked
<1> DEFINE reqs == [s \in Threads |->
                      IF Req[s].op = "event" /\ Req[s].ran = None /\ Req[s].type = e
                      THEN [Req[s] EXCEPT !.gone = TRUE] ELSE Req[s]]
<1>5. ASSUME NEW s \in Threads \ {t} PROVE Request(thread'[s]) = reqs[s]
  <2>0. Stands(s) /\ SeesUnhook(s, e) /\ thread[s].gone \in BOOLEAN
    BY <1>1, StepTypes DEF ThreadRecord
  <2>1. CASE Looks(s) /\ thread[s].type = e
    <3>1. Req[s].op = "event" /\ Req[s].ran = None /\ Req[s].type = e
      BY <2>1, LooksIs DEF Req, Request
    <3>2. reqs[s] = [Request(thread[s]) EXCEPT !.gone = TRUE]
      BY <3>1 DEF Req
    <3>3. thread'[s].gone = TRUE
      BY <2>0, <2>1 DEF SeesUnhook
    <3> QED BY <2>0, <3>2, <3>3 DEF Request, Stands, SeesUnhook
  <2>2. CASE ~(Looks(s) /\ thread[s].type = e)
    <3>1. ~(Req[s].op = "event" /\ Req[s].ran = None /\ Req[s].type = e)
      BY <2>2, LooksIs DEF Req, Request
    <3>2. reqs[s] = Request(thread[s])
      BY <3>1 DEF Req
    <3>3. thread'[s].gone = thread[s].gone
      BY <2>0, <2>2 DEF SeesUnhook
    <3> QED BY <2>0, <3>2, <3>3 DEF Request, Stands, SeesUnhook
  <2> QED BY <2>1, <2>2
<1>6. Request(thread'[t]) = Over("OK")
  BY <1>1, EndIs
<1>7. Req' = [reqs EXCEPT ![t] = Over("OK")]
  <2>1. \A s \in Threads \ {t} : Request(thread'[s]) = reqs[s]
    BY <1>5
  <2>2. DOMAIN reqs = Threads /\ reqs = [s \in Threads |-> reqs[s]]
    OBVIOUS
  <2>3. Req' = [s \in Threads |-> Request(thread'[s])]
    BY DEF Req
  <2> HIDE DEF reqs
  <2> QED BY <1>6, <2>1, <2>2, <2>3
<1>8. Req[t].type = e /\ Req[t].op = "unhook"
  BY <1>1 DEF Req, Request
<1>9. reqs = [s \in Threads |->
                IF Table!Looks(s) /\ Req[s].type = Req[t].type
                THEN [Req[s] EXCEPT !.gone = TRUE] ELSE Req[s]]
  BY <1>8 DEF Table!Looks, Table!Runs, Req, Request
<1> HIDE DEF reqs
<1>10. Req' = Table!Answered(reqs, t, "OK")
  BY <1>7, OverIs DEF Table!Answered
<1> QED BY <1>1, <1>4, <1>8, <1>9, <1>10
        DEF Table!Unhook, Table!Runs, Table!Looks, Req, Request

LEMMA EventFindRefines ==
  ASSUME Typed, NEW t \in Threads, EventFind(t)
  PROVE  Table!Miss(t) \/ UNCHANGED <<Hooked, Req>>
<1>1. Hooked' = Hooked /\ thread[t].op = "event" /\ thread[t].ran = None /\ Leaves(t)
  BY EventFindEffect, OnSame, StepTypes DEF ThreadOK
<1>2. CASE ~Found(thread[t].type) /\ Ends(t, "NOT_FOUND")
  <2>1. Req' = Table!Answered(Req, t, "NOT_FOUND") /\ thread[t].type \notin Hooked
    BY <1>1, <1>2, AnswerRefines DEF Hooked
  <2>2. Req[t].op = "event" /\ Req[t].ran = None /\ Req[t].type = thread[t].type
    BY <1>1 DEF Req, Request
  <2> QED BY <1>1, <2>1, <2>2 DEF Table!Miss, Table!Looks, Table!Runs, Req, Request
<1>3. CASE \E pc, n : Moves(t, pc, n)
  BY <1>1, <1>3, MoveRefines
<1> QED BY <1>2, <1>3, EventFindEffect

\* What an event has found is the function of its type, which is hooked, or none,
\* while the type is being hooked, unless its type is gone.
LEMMA Finds ==
  ASSUME Typed, MapOK, NEW t \in Threads, thread[t].pc = "event_copy",
         NEW f, f = memory[thread[t].node].func
  PROVE  \/ f = thread[t].type /\ (thread[t].type \in Hooked \/ thread[t].gone)
         \/ f = None /\ (thread[t].type \notin Hooked \/ thread[t].gone)
         \/ f \in thread[t].may
<1> DEFINE e == thread[t].type
<1>1. e \in Types /\ thread[t].node \in Nodes /\ FindsOK(t)
  BY StepTypes DEF ThreadOK, EventPCs, MapOK
<1>2. CASE thread[t].node = table[e]
  <2>1. table[e] # None /\ Linked(e)
    BY <1>1, <1>2, NoneAssumption DEF MapOK
  <2>2. f = e => e \in Hooked
    BY <1>1, <1>2, <2>1, OnIs
  <2>3. e # None
    BY <1>1, NoneAssumption
  <2>4. f # e => f = None
    BY <1>2, <2>1 DEF Linked
  <2>5. f = None => e \notin Hooked
    BY <1>1, <1>2, <2>3, OnIs
  <2> QED BY <2>2, <2>4, <2>5
<1>3. CASE thread[t].gone /\ f \in {e, None} \cup thread[t].may
  BY <1>3
<1> QED BY <1>1, <1>2, <1>3 DEF FindsOK

LEMMA EventCopyRefines ==
  ASSUME Typed, MapOK, NEW t \in Threads, EventCopy(t)
  PROVE  Table!RunEmpty(t) \/ \E f \in Types : Table!Run(t, f)
<1>1. /\ thread[t].pc = "event_copy" /\ thread[t].op = "event" /\ thread[t].type \in Types
      /\ thread[t].type # None /\ thread[t].ran = None /\ Hooked' = Hooked /\ Leaves(t)
      /\ thread[t].may \subseteq Types
  BY EventCopyEffect, OnSame, StepTypes, NoneAssumption DEF ThreadOK, ThreadRecord
<1>2. PICK f : f = memory[thread[t].node].func
  OBVIOUS
<1>3. \/ f = thread[t].type /\ (thread[t].type \in Hooked \/ thread[t].gone)
      \/ f = None /\ (thread[t].type \notin Hooked \/ thread[t].gone)
      \/ f \in thread[t].may
  BY <1>1, <1>2, Finds
<1>4. /\ Req[t].op = "event" /\ Req[t].ran = None /\ Req[t].type = thread[t].type
      /\ Req[t].gone = thread[t].gone /\ Req[t].may = thread[t].may
  BY <1>1 DEF Req, Request
<1>5. CASE f = None /\ Ends(t, "UNKNOWN")
  <2>1. Req' = Table!Answered(Req, t, "UNKNOWN")
    BY <1>1, <1>5, AnswerRefines
  <2>2. thread[t].type \notin Hooked \/ thread[t].gone
    BY <1>1, <1>3, <1>5, NoneAssumption
  <2> QED BY <1>1, <1>4, <2>1, <2>2
          DEF Table!RunEmpty, Table!Looks, Table!Runs, Req, Request
<1>6. CASE f \in Types /\ Starts(t, f)
  <2>1. Req' = [Req EXCEPT ![t].ran = f]
    BY <1>6 DEF Starts, Req, Request
  <2>2. f # None
    BY <1>6, NoneAssumption
  <2>3. Table!Run(t, f)
    BY <1>1, <1>3, <1>4, <2>1, <2>2 DEF Table!Run, Table!Looks, Table!Runs, Req, Request
  <2> QED BY <1>6, <2>3
<1> QED BY <1>2, <1>5, <1>6, EventCopyEffect

LEMMA EventRunRefines ==
  ASSUME Typed, NEW t \in Threads, EventRun(t)
  PROVE  Table!Finish(t, "OK")
<1>1. Hooked' = Hooked /\ thread[t].op = "event" /\ thread[t].ran # None
  BY EventRunEffect, OnSame, StepTypes DEF ThreadOK
<1>2. Req' = Table!Answered(Req, t, "OK")
  BY EventRunEffect, AnswerRefines
<1>3. Req[t].op = "event" /\ Req[t].ran # None
  BY <1>1 DEF Req, Request
<1> QED BY <1>1, <1>2, <1>3 DEF Table!Finish, Table!Runs, Req, Request

LEMMA RestartRefines ==
  ASSUME Restarts
  PROVE  Table!Restart
<1>1. ASSUME NEW t \in Threads
      PROVE  /\ thread'[t].op = "none" /\ thread'[t].type = None /\ thread'[t].ran = None
             /\ thread'[t].gone = FALSE /\ thread'[t].may = {}
             /\ thread'[t].status = "NONE"
  BY DEF Restarts, NoCall
<1>2. \A e \in Types : ~Found(e)'
  BY DEF Restarts, Found
<1> QED BY <1>1, <1>2 DEF Table!Restart, Table!NoReq, Hooked

LEMMA NextRefines ==
  ASSUME HookInv, HookInv', [Next]_vars
  PROVE  Table!HookTableNext \/ UNCHANGED <<Hooked, Req>>
<1>0. Typed /\ Typed' /\ Owned /\ OneHooks /\ MapOK
  BY DEF HookInv
<1> USE DEF Table!HookTableNext
<1>1. ASSUME NEW c \in Clients, Begins(c) PROVE UNCHANGED <<Hooked, Req>>
  <2>1. Hooked' = Hooked /\ thread' = thread
    BY <1>1, OnSame DEF Begins
  <2> QED BY <2>1, SameRefines
<1>2. ASSUME NEW c \in Clients, NEW e \in Types, NEW t \in Threads, Calls(c, e, t)
      PROVE  Table!HookTableNext
  BY <1>0, <1>2, TakeRefines
<1>3. ASSUME NEW c \in Clients, GivesUp(c) PROVE UNCHANGED <<Hooked, Req>>
  BY <1>3, OnSame, SameRefines DEF GivesUp
<1>4. ASSUME NEW t \in Threads, Works(t)
      PROVE  Table!HookTableNext \/ UNCHANGED <<Hooked, Req>>
  <2>1. CASE HookFind(t)
    BY <1>0, <2>1, HookFindRefines
  <2>2. CASE HookLink(t)
    BY <1>0, <2>2, HookLinkRefines
  <2>3. CASE HookAssign(t)
    BY <1>0, <2>3, HookAssignRefines
  <2>4. CASE UnhookFind(t)
    BY <1>0, <2>4, UnhookFindRefines
  <2>5. CASE UnhookErase(t)
    BY <1>0, <2>5, UnhookEraseRefines
  <2>6. CASE EventFind(t)
    BY <1>0, <2>6, EventFindRefines
  <2>7. CASE EventCopy(t)
    BY <1>0, <2>7, EventCopyRefines
  <2>8. CASE EventRun(t)
    BY <1>0, <2>8, EventRunRefines
  <2> QED BY <1>4, <2>1, <2>2, <2>3, <2>4, <2>5, <2>6, <2>7, <2>8 DEF Works
<1>5. CASE Restarts
  BY <1>5, RestartRefines
<1>6. CASE UNCHANGED vars
  <2>1. Hooked' = Hooked /\ thread' = thread
    BY <1>6, OnSame DEF vars
  <2> QED BY <2>1, SameRefines
<1> QED BY <1>0, <1>1, <1>2, <1>3, <1>4, <1>5, <1>6, FazCases

\* Where one client hooks and unhooks, and waits for the answers, the map that the
\* threads of the server use without a lock (hook, unhook and event in
\* faz_service.cc) is the table of HookTable: each hook and unhook takes effect at
\* once and lasts, and each event runs the function of its type if and only if it is
\* hooked, unless the type is unhooked before the function was found: then it may also
\* run one that was hooked since, and no other.
THEOREM MapIsTable == ASSUME OneAdmin PROVE Spec => ImplementsHookTable
<1>1. Init => Table!HookTableInit
  BY InitRefines
<1>2. HookInv /\ HookInv' /\ [Next]_vars => [Table!HookTableNext]_<<Hooked, Req>>
  BY NextRefines
<1> QED BY <1>1, <1>2, HookInvAlways, PTL
        DEF Spec, ImplementsHookTable, Table!HookTableSpec, Req, Request

=============================================================================
