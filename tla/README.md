# A verification of the Caw platform and its key-value store

The repository holds a small social network ("Caw") that runs on a
function-as-a-service server ("Faz"), which keeps its data in a persistent
key-value store. This directory holds TLA+ models of the parts in which the
program's logic lies, the TLC runs that check them on small instances, and the
TLAPS proofs that hold for every value of the constants.

## 1. The system

```
 caw_cli, caw_cli_go --RPC--> faz_server --RPC--> kvstore_server --> file
   (CawClient)                  FazService          KVStoreService
                                 runs a handler      on one KVStore
                                 with KVStoreClient
```

| Part | State | Operations | Correct means |
|---|---|---|---|
| `KVStore` (`cpp/kvstore/kvstore.cc`) | `map_`, the log file and its stream, `mutex_` | construction (replays the file), `Put`, `Get`, `Remove`, `Clear` | an answered change survives every crash; a torn record is dropped and nothing else; readers see whole changes |
| `KVStoreService` (`kvstore_service.cc`) | none of its own | `put`, `get`, `remove` as RPCs | each result of the store becomes the right status |
| `KVStoreClient` (`kvstore_client.cc`) | a gRPC stub | `Put`, `Get`, `Remove` | says what the store said |
| Caw handlers (`cpp/caw/caw_handler.cc`) | none: all of it in the store, under six kinds of keys | `RegisterUser`, `Follow`, `Profile`, `Caw`, `Read` | the keys agree with each other whatever interleaves or fails |
| `FazService` (`cpp/faz/faz_service.cc`) | `registered_funcs_`, the hooked functions | `hook`, `unhook`, `event` | an event runs the function its type is hooked with |
| `CawClient` (C++ and Go) | the table of functions to hook | `HookAll`, `UnhookAll`, one call for each function | reports what happened |
| command-line tools (`cpp/caw/caw_cli.cc`, `go/caw_cli.go`) | the flags | one client call for each flag, in a fixed order | what they report is so; a line comes to its end |

How they interact. Both servers are synchronous gRPC servers: every call is run
by a thread of its own. A handler is such a thread in `faz_server`; it makes one
blocking call after another to `kvstore_server`, and nothing stops another
handler's calls from coming in between. Inside `kvstore_server` the threads
share the `KVStore` and are kept apart by its `shared_mutex`. The only thing
that outlives the processes is the store's log file.

What is hard:

- *Crashes* of the store at any byte of a record, during a load, and during the
  truncation that repairs the file; *refused writes* part way through a record.
- *Interleaving* of readers and writers in the store, and of handlers whose
  check and update are separate calls.
- *Partial failure* of `Follow` (three keys) and `Caw` (two keys), with calls
  that are refused, do not arrive, whose answer is lost, or that reach the store
  when their caller has long been told that they failed.
- *Numbers*: file positions kept in an `int`, lengths put together by shifts of
  an `int`.
- *The machine*: what a power failure takes back, a file that cannot be opened.
- *Unsynchronised state*: `registered_funcs_`, and `rand()`.

- *The wrong function*: an event that runs another function than its own hands it
  an empty request, and the tools count any OK as success.

`PROJECT.json` lists each hazard at its line, with the properties aimed at it, and
for those that the code does not withstand what the properties except.

## 2. Modules

| Module | What it is |
|---|---|
| `MultiMap` | the data: maps from keys to the values put under them, changes and what they do |
| `DurableMap` | abstract specification: what a store with a file promises its callers |
| `KVStore` | the store in detail: file, lock, load, records, failures |
| `KVStoreProofs` | inductive invariant of `KVStore` and the theorems that follow from it |
| `KVStoreRefinement` | proof that `KVStore` implements `DurableMap` |
| `LogBytes` | the store's log byte by byte: writing, loading, cutting |
| `LogBytesProofs` | the codec of `LogBytes` for every length, its inductive invariant and the theorems that follow |
| `CawHandler` | the handlers as threads that interleave over the store |
| `CawHandlerProofs` | what the steps of the handlers do, types, and that caws and replies are kept |
| `CawFollowProofs` | the theorems about users, follow lists and profiles |
| `CawReadProofs` | the theorems about reading a thread of caws |
| `HookTable` | abstract specification: what the Faz service promises of its table |
| `FazService` | the table of hooked functions, its unlocked use by the threads of the server, and the clients |
| `FazServiceProofs` | proof that `FazService` implements `HookTable`, and of what its clients are told |
| `CawCli` | composition: the command-line tools, `HookTable` and `CawHandler` |
| `CawCliProofs` | the theorems about the whole platform and what its tools report |
| `MCKVStore`, `MCLogBytes`, `MCCawHandler`, `MCFazService`, `MCCawCli` | instances and symmetry sets for TLC |

Definitions whose comment begins "Mutant of" are faulty variants of the
definition below them. No specification uses them; they serve to show that each
property notices the bug the comment describes.

### KVStore

A step is what one thread does without anything else being able to tell: a
change holds the unique lock from `BeginChange` to `Return`, but its record
reaches the file one cell at a time (`Spill`), because the stream's buffer may
be handed to the system after any byte and the process may die there (`Crash`).
A cell is the type byte or one whole string with its length: the load treats a
string cut anywhere exactly as a missing one.

- `phase` says where the process is. `loading` is the constructor, `serving` no
  thread has the unique lock, `writing` one has it, `failing` its write has
  reported an error, which `Rollback` undoes in the file and not in `map_`, as
  the code does. While it is failing more of the record may still reach the
  file: closing the stream flushes its buffer.
- `curPos` and the position of a corrupted record are narrowed by `AsInt`, as the
  code keeps both in `int`. A negative one makes `truncate()` fail, and
  `LOG(FATAL)` ends the process (`TruncateRefused`); truncation may also fail by
  itself (`TruncateFails`).
- A reader is in `iter` between finding its key and having copied the values.
- `marks`, `dirty` and `before` are history variables. `marks` is the list of
  changes that somebody may rely on: answered OK, or brought back by a restart.

`DurableMap` says what callers see: memory, what a restart brings back, and the
one change whose call has not returned. `ImplementsDurableMap` is the refinement
mapping: a change that is being made is not in the abstract memory yet
(`before`), and while the process is down the durable map is what the file's
records make, the complete one of a change in flight included.

### LogBytes

`KVStore` takes a string for one cell of the file. `LogBytes` is why it may: the
same construction, changes, crashes and refused writes, with the file as a
sequence of bytes, without locks, readers and the position of an `int`, and with
`map_` as the list of the changes it is made of (`replayed`). `DumpString` writes
a length in groups of bits, the lowest first; `LoadLength` puts them together as
the code does, by shifting an `int` (`AsInt`, the shift taken modulo its width,
as the processors the code is built for do) and widening the result to `size_t`
(`AsSize`), which `|=` adds (`Or`). The widths are parameters. `LoadType`,
`LoadLength` and `LoadChars` read the next part of a record, `Corrupted` says when there is none, and
`TooLong` is the `resize` that throws.

`disk` is what a power failure would leave: nothing asks the system to write the
file, so `Writeback` may happen at any time or never. A file is taken to reach
the disk as it is at one moment; a file system that writes its blocks in another
order is outside the model. With the fault `open` a start may be unable to open
the file, which the constructor takes for a missing one.

### CawHandler

Each thread has a record in `call`: its operation and arguments, `pc` (the next
call to the store), the answer when it is done, and what `Read` and `Profile`
collect. One step is one call to the store together with the code up to the
next one. That a call takes effect at once, and what a failed one leaves behind,
is what `KVStore` is shown to implement: `mem` and `dur` here are `mem` and
`dur` there. `Faults` chooses what can go wrong:

| Fault | In the code |
|---|---|
| `refused` | the store's log does not take the record: `Put` answers UNAVAILABLE, memory keeps the value, a restart drops it |
| `unreachable` | the RPC of a `Put` fails before the store sees it |
| `lost` | the RPC fails after the store has done it |
| `late` | the RPC fails, because its connection breaks or the Faz server dies, while the request is on its way: the store does it at some later time, or never |
| `cut` | the stream of a `Get` ends before its last value, or before its first (store not reachable): `KVStoreClient::Get` does not look at the status |
| `kvrestart` | the store dies and comes back with what its log holds |
| `fazcrash` | the Faz server dies with all calls it is handling |
| `collide` | a caw is given the id of another one |

The code makes a caw's id of the time in microseconds and four digits of an
unseeded `rand()`; a collision is unlikely and possible. `issued` counts how often
an id was given: once, or twice with `collide`. `known` is the set of ids clients
have seen in an answer, from which they choose what to read and reply to; `BadId`
is any other. The field `must` and the set `mishaps` are history: what an answer
has to contain, and of which registrations and follows there were two at a time
(`raced`), failed one (`failed`), or did not see in the store what they were going
to store, because a `Get` broke (`blind`).

With `late` a call is over (`PutOutlivesCall`) while its thread still stands at its
`Put`, which is done in a later step or comes to nothing. A thread is `Done`, and
free for the next call, only then; `Live` are those whose call is being handled.
No such `Put` outlives the store (`KvRestart`): its connection would be gone.

### FazService

`registered_funcs_` is a `std::unordered_map` that all threads of the server use
without a lock, which C++ leaves undefined. The model has the outcomes that the
standard library's node-based map produces. `memory` is what lies in the nodes,
`table` which node is linked under which type, `used` which nodes are allocated.
A thread finds a node in one step and uses it in the next:

- `hook`: `operator[]` finds the entry or makes one (`HookFind`), links it
  (`HookLink`) into the table that the thread saw, so that a change made
  meanwhile may be lost, and the function is assigned (`HookAssign`);
- `unhook`: `find`, then `erase` of whatever lies in the node by then; the memory
  keeps its content until an insertion takes it;
- `event`: `find`, then the copy of whatever function lies in the node. Calling an
  empty one throws, which gRPC answers with UNKNOWN. The handler then runs
  without the table.

Using an erased node may also kill the process (`Fault`). A function that is
copied while another is assigned over it is not torn in the model: all of them
are plain function pointers and `CawClient` hooks one function with one type.

A client makes the calls of `HookAll`, `UnhookAll` or of one event one at a time
and waits for the answer; those in `Impatient` (Go) give up after a while, and
the thread that runs the call goes on. A function is named by the event type
that `kFuncs` gives it.

`HookTable` is what is left of this for somebody who only sees requests and
answers: a set of hooked types, in which every hook and unhook takes effect at
once, and for each thread its request. An event runs the function of its type, or
none when it is not hooked. What the missing lock adds is what an event can meet
that is still looking for its function when its type is unhooked (`gone`): it may
run its own function all the same, one that was hooked after that (`may`), or an
empty one. `ImplementsHookTable` is the refinement: a type is hooked when the map
finds its entry and the entry holds its function. It needs that one client at a
time hooks and unhooks.

### CawCli

The tools handle their flags in a fixed order (`Order`), whatever their order in
the line, and go on with the next flag whatever came of the last. `Lines` gives
each tool some command lines; a tool works off one (`Refuse`, `CallHook`,
`CallEvent`) before it is given the next (`Give`). An id in a line is one that a
client has seen by then (`known`), or none of a caw (`BadId`); nobody guesses the id
of a caw that nobody has seen. Its call is taken by a thread of the
Faz server: the table is `HookTable`, to whose actions `RunEvent` adds that the
thread begins the handler of `CawHandler` with the request's arguments, and
`FinishEvent` that the handler's status is the answer. When the function is not
the one of the event's type, `UnpackTo` fails without anybody looking, and the
arguments are empty (`Empty`).

The server is down until it is started (`FazUp`), and again after it has died
(`FazDown`), which ends the table, the calls and every wait. The Go tool dials
before it handles its flags, and goes on when the server is up (`Dial`); the C++
tool connects with its first call. While the server is down, or when a channel has
not connected again, a call fails at once (`CallFails`). In Go a tool may also give
up on a call whose thread goes on (`GiveUp`).

What a tool makes of an answer is `Told`. The clients take any OK for success,
whichever function has run, unless they need what is in the answer (`LooksOK`):
`RegisterUser` and `Follow` do not, and a profile that cannot be unpacked is an
empty one in C++ and an error in Go. `reported` is what a tool has reported
success of, `good` those of it whose event was not unhooked while it looked for its
function (`kept`), and `spared` says that nobody has begun to unhook and the server
has not died since the line was given.

## 3. Runs

| Run | Instance | Shows |
|---|---|---|
| `kv_safety` | 2 readers, 2 keys, 2 values, file of 9 cells | types, durability, no record after a torn one, memory against log, iterators, no abort of the store's own making |
| `kv_refine` | 1 reader, 2 keys, 2 values, file of 7 cells, `IntMax` 3 | the refinement of `DurableMap` and `Progress`, with positions on both sides of the largest int |
| `kv_bigfile_aborts` | the same file | expected violation: a store with more than 2 GiB aborts when it has to truncate |
| `log_bytes` | groups of 1 bit, `int` of 3 bits, strings of 0, 3 and 4 bytes, 2 changes, power failures | the codec: what a start brings back, that the file is nothing but whole records, which strings make it throw, that a load ends |
| `log_unopened` | the same, `open` for power failures | expected violation: after a start that could not open the file an answered change can be lost |
| `caw_follow` | 2 threads, 2 users (1 registered), 3 calls, all faults but `collide` | `RegisterUser`, `Follow` and `Profile` under races, failures, late Puts, broken Gets and restarts |
| `caw_caws` | 2 threads, 2 users (1 registered), 3 caws, 5 calls, all faults but `cut` | `Caw` and `Read` under failures, collisions and restarts |
| `caw_follow_partial` | `unreachable` | expected violation: a follow that failed half way is "already following" for ever |
| `caw_read_cut` | `cut` | expected violation: `Read` answers OK with a part of the thread |
| `cli` | a C++ tool with two lines, a Go tool with one, 2 threads, 3 functions, `fazcrash` | what the tools report is so in the store, a profile is whole, both share one hooking, an answer is that of the call, every line ends |
| `cli_false_report` | the C++ tool hooks, unhooks and hooks, the Go tool follows, nothing fails | expected violation: the follow is reported and not stored |
| `faz_table` | 1 C++ client that hooks and unhooks, 1 Go client, 2 types, 2 nodes, 2 threads, 4 operations | the refinement of `HookTable`, what `HookAll` and `UnhookAll` report, every call returns |

**Why the bounds are enough.** Nine cells hold three `Put` records, or more of
the shorter ones: a stored record, one torn behind it, and one written after the
repair, which is the shortest history in which a bad repair costs an
acknowledged change. With seven cells and `IntMax` 3 the second and third record
start at positions that are negative as ints; a wrap back to a positive int
needs a file twice as large again and is excluded (`BelowWrap`, see the proofs).
With groups of one bit a length of two takes a second byte, and with an `int` of
three bits a length of four is the first that comes out wrong: strings of 0, 3
and 4 bytes lie on both sides of each boundary, and are made of bytes that are
types and lengths themselves. Two changes are one that is kept and one that is
cut; `log_unopened` needs no more either.
Two threads show every race of two calls. Three calls of `RegisterUser`, `Follow` and
`Profile` allow a registration and two follows, at a time or one after the other; or a
follow and two retries, each under any fault; three caws
allow a thread of depth two or two replies to one caw; five calls let a read
overlap the second reply. The set `Ids` is also what bounds a thread that is read. TLC stops with "no next state" when all calls are
made, hence `CHECK_DEADLOCK FALSE` in the `caw` runs, as in `cli` when all lines are done; the servers of the other runs can
always be restarted, and those runs check deadlock. Two types are the least with
which one event can meet the function of another, and four operations allow
hooking, an event, unhooking and hooking again; with one client that hooks, two
nodes are never all taken when one is needed. In `cli` the first line of the C++
tool is the chain of the README (`--hook_all --registeruser --follow --profile`),
the second has a flag that is refused and unhooks; the Go tool's follow runs into
any moment of them. `--caw` and `--read` go through the same actions and are left
out of the lines: their handlers are checked in `caw_caws`. The faults
of the store are left to the `caw` runs too: the tools only see them as one more
answer that is not OK. `ProfileWhole` is checked here, because it is false with `cut`,
which is in `caw_follow`. In these lines nothing is hooked after an
unhook, so that `SuccessIsTrue` holds; `cli_false_report` has the least that makes it fail.
Only the C++ tool hooks and unhooks, because `HookTable` is the table for one client
that does.

**Symmetry** is used in safety runs only: keys, values, caw ids and threads are
interchangeable, users when all of them start alike.

**Fairness** (`kv_refine`). The thread that loads the file, the one that holds
the lock and a reader that has its iterator keep running: nothing blocks them,
since `std::shared_mutex` keeps everyone else out. Nothing makes a process
start, a call be made, a crash or a write failure happen. A write that TLC lets
fail over and over cannot starve progress, for every failure ends in a
truncation.

In `log_bytes` the thread that loads keeps running. In `cli` it is enough that
somebody goes on, a tool that was started or a thread of the server, as long as
anybody can; nothing makes a tool be started, a deadline pass or a server start.
`EveryLineEnds` therefore excepts a Go tool that dials while the server is down: it
waits as long as that lasts, for `grpc.Dial` is called with `WithBlock` and without
a deadline.
In `faz_table` every thread of the server runs on, and a client that has begun an
operation makes its calls; nothing makes a client begin one or give up. That
calls return rests on the connection telling a waiting client that the server
is gone: the C++ client has no deadline.

**Disagreements** between code and comments or tests are the five expected
violations, described under `findings` in `PROJECT.json`. Others follow from the
models without a run of their own, each from what a property has to except:

- After a refused write memory and file differ until the next restart, though
  `kvstore.h` says that every change is appended; `MemoryMatchesLog` says exactly for
  which keys (`dirty`). A user whose registration failed in this way can be followed,
  and is gone after the restart: `NamesAreUsers`.
- Two follows of one pair at a time are both stored, which leaves duplicates in both
  lists (a test in `caw_handler_test.cc` says "No duplicate followers and following");
  so is the retry of one whose `Put` is still on its way, or one that a broken `Get`
  tells that there is nothing yet. `StoredOnce` says that nothing else does it.
- A caw whose id was given twice cannot be read, by anybody, ever: `ReadFinds`.
- Two clients that hook at a time can lose a hook that was answered OK: `ReportIsTrue`
  and the refinement of `HookTable` are stated for one. Two that unhook one type at a
  time may erase one entry twice, which the model takes for the end of the process
  (`Fault`).
- A server that is restarted between two calls of one `HookAll` makes it return true
  with only the later functions in the table: `ReportIsTrue` and `HookingIsShared`
  ask that it has not died since (`spared`).
- A Go tool that is started while the server is down neither goes on nor says "Failed
  to dial": `EveryLineEnds`.
- A string of 2 GiB or more is written and answered OK, and may make every later start
  throw; `OnlyLongStringsThrow` says that no other string does.

## 4. Proofs

A theorem holds for every value of the constants that fits the module's `ASSUME`s,
not only for the instances of section 3. Every one rests on an inductive
invariant: what the runs check says too little about the moments between two steps
to be carried over a step by itself. Each invariant was an invariant of a TLC run
before it was proved. The proofs have one lemma for what each action changes
(`...Effect`), one for each part of the invariant an action can disturb, one for a
step of `Next`, and the theorem.

### The store

For any keys, values, readers and bounds, assuming
`BelowWrap == MaxFile <= 2 * IntMax + 1`: no position turns positive again after
leaving the range of an int (a file of less than 4 GiB). Without it durability is
false: the position that wraps lies before acknowledged records, and the truncation
removes them. `IInv` adds to the invariants of the runs

- `Chain`: the marks are increasing and each is the end of a record that is whole
  in the file and turns the previous mark's map into its own;
- `EndOfFile`: what may follow the last mark in each phase: nothing, the part of
  the record written so far, or, when down or loading, anything that is at most
  one record long;
- `Replay`: the loading process stands at a mark, with that mark's map;
- `Memory`: what `map`, `before` and the marks have to do with each other.

| Theorem | States |
|---|---|
| `TypeCorrect` | `Spec => []TypeOK` |
| `Durability` | `Spec => []AcknowledgedOnDisk` |
| `NoGap` | `Spec => []NoTornGap` |
| `MemoryAgrees` | `Spec => []MemoryMatchesLog` |
| `IteratorsSafe` | `Spec => IteratorStaysValid` |
| `NoAbort` | `Spec => NeverAbortsItself`, if `MaxFile <= IntMax` |
| `Refinement` | `Spec => ImplementsDurableMap` |

### The bytes of the log

For any widths, strings and number of changes. The constants are assumed to be such
that a size is at least as wide as an int (`WidthsAssumption`) and that no string is
twice as long as an int can say (`StringsAssumption`): 4 GiB, where a message of a call
ends at 2. `PowersAssumption` is arithmetic, what `2 ^ n` is, of which the provers know
nothing; TLC evaluates it with the others. The theorems are for files that can be opened
(`"open" \notin Faults`): with that fault `RestartsRight` is false, as `log_unopened`
shows, and the invariant is none.

The codec is recursive, and the provers cannot be given an induction over a predicate.
They can be given one over a set of numbers: `Induction` and `CourseInduction` say that
a set with the right members has all of `Nat`, and `RecursionExists` that a function may
be defined by recursion, which is what lets `Varint`, `Or` and the folds behind
`FlattenSeq` be unfolded at all (`VarintIs`, `OrIs`, `FlattenIs`). From there:

- `Gathered` relates what `LoadString` has of a length to what is still in the file:
  `n = len + 2^shifts * x`, with `len < 2^shifts` and the groups of `x` to come. The
  `|=` then adds (`OrOfHigher`), and the shift stays below the width of the int
  (`MarkedGroup`), until a last group reaches its sign (`LastGroup`, `LengthOf`).
- `Torn`: the file is what the stored changes and the one in doubt make, but for a part
  of the last record. `Follows(file, pos, todo, ...)`: besides, from `pos` on comes
  `todo`, as far as the file goes. A step of the load takes the first part off `todo`
  (`FollowsStep`); if the file ends before it, what is read belongs to the last change,
  and `curPos` is where the acknowledged ones end (`LastIs`, `CorruptedIs`).

`IInv` says which of `AtType`, `AtLength` and `AtChars` the load is in, each with the
changes replayed, the change being read and the `todo` that follows; that a store that
writes has in the file and in `left` together the whole record; and that a file that is
down, and what is on the disk, are torn. `FileIsRecords` alone says nothing of the
moments in between, and a load needs all of it. What an action changes
stands at the head of its lemma (`...Step`). TLC checked the invariant on the instance
of `log_bytes` and with strings of up to seven bytes.

| Theorem | States |
|---|---|
| `LogBytesTypeOK` | `Spec => []TypeOK` |
| `LogBytesFileIsRecords` | `Spec => []FileIsRecords` |
| `LogBytesOnlyLongStringsThrow` | `Spec => []OnlyLongStringsThrow` |
| `LogBytesRestartsRight` | `Spec => RestartsRight` |

### The handlers

For any users, caws and bounds and any finite set of threads (the server's thread
pool; the function that counts the threads at a place needs it). `Typed` is the
type of every variable, with what each `pc` says of the fields of its call. The
rest is in parts, each of which is inductive with the ones before it:

| Part | Says | Why it is needed |
|---|---|---|
| `CawsStored` | a caw under way, known or in a reply list lies in the log with its parent; the copies in memory and log are at most as many as its id was given | `NoDanglingReply` forgets what a thread holds between its two puts |
| `AllKept` | a call that has passed a put, and one answered OK, finds it in the log | `AnsweredOkLasts` speaks of calls that are over |
| `AllCounted` | for each pair of users, the values in its three keys differ by the `Follow`s that stand between two of the puts, unless one failed | the lists agree only when nobody is between two puts |
| `AllKnown` | a `Follow` that has passed a check knows its user registered, unless a registration failed | the check lies steps before the put |
| `AllAlone` | two calls stand between check and put of the same key, or one does though the key is stored, only if they were noted as raced or blind | a race is noted when the second begins, and stored later, by a `Put` that may be late |
| `AllWhole` | what a `Profile` has collected holds what it must | it collects two lists in two steps |
| `AllFind`, `AllCovered`, `AllRead` | of a `Read`: what is in the queue is stored; what must be found is collected, in the queue, or below something in the queue; the queue and what is collected repeat nothing, and each follows its parent | the loop of `Read` over a thread that grows meanwhile |
| `ThreadsOK` | a caw was issued after its parent, so that replies make no cycle | `ReadNeverRepeats` |

| Theorem | States |
|---|---|
| `CawHandlerProofs!TypeCorrect` | `Spec => []TypeOK` |
| `RepliesLeadToCaws` | `Spec => []NoDanglingReply` |
| `SeenCawsAreKept` | `Spec => []SeenCawsLast` |
| `AnswersLast` | `Spec => []AnsweredOkLasts` |
| `ListsAreOrdered` | `Spec => []FollowInOrder` |
| `ListsComeToAgree` | `Spec => []ListsAgree` |
| `ListsNameUsers` | `Spec => []NamesAreUsers` |
| `RetriesStoreOnce` | `Spec => []StoredOnce` |
| `ProfilesAreWhole` | `Spec => []ProfileWhole`, without `cut` |
| `ReadsFind` | `Spec => []ReadFinds`, without `cut` |
| `ReadsAreWhole` | `Spec => []ReadWhole`, without `cut` |
| `ReadsRepeatNothing` | `Spec => []ReadNeverRepeats`, without `cut` |

The last four assume `"cut" \notin Faults`: no `Get` loses the end of its stream.
It is the fault under which they are false, as `caw_read_cut` shows of `ReadWhole`;
the runs that check them exclude it too. The first eight hold under every fault. In
particular a collision of ids, a lost answer or a restart at any moment never makes
a reply list name a caw that is not there.

The parts about `Read` were checked by TLC with three caws and five calls, and with
two caws and six calls, in which one thread reads while another posts.

### The Faz service

`TypesHold` has no hypothesis. The others assume `OneAdmin`: there is at most one
client that hooks and unhooks, and it waits for its answers. That is the promise
under which `HookTable` is stated; the run `faz_table` has one such client beside one
that gives up on its calls, and section 3 says what two of them can do. The inductive
invariant is `HookInv`:

- `Owned`: a client that waits is served by one thread, which runs its request;
- `OneHooks`: at most one thread is in a hook or unhook, and only for the client
  that hooks;
- `MapOK`: different types lie in different nodes, every linked node is allocated,
  and one holds the function of its own type unless a hook is about to assign it;
- `AllReported`: the functions that `HookAll` or `UnhookAll` has been told about are
  in the table, or not, as it was told.

| Theorem | States |
|---|---|
| `FazServiceProofs!TypesHold` | `Spec => []TypeOK` |
| `ReportsHold` | `Spec => []ReportIsTrue` |
| `MapIsTable` | `Spec => ImplementsHookTable` |

### The platform

For any tools and any command lines. The steps of the handlers that `CawCli` makes
are steps of `CawHandler`, or the end of a call (`NextHandlers`), so that the
invariants of `CawHandlerProofs` and `CawFollowProofs` carry over; only the end of a
call had to be added to each. The rest of the invariant is

- `Served`: the types; the thread that a tool waits for runs the tool's request, for
  this tool only, with the arguments of its line or, once a function runs, in the
  call (`WaitOK`); each flag is still before the tool or behind it, and the profile
  never before the follow (`LineOK`);
- `GoodKept`: what `RegisterUser` and `Follow` have done of what is in `good` is in
  the log. A reply that is `kept` and OK is the function's own (`Table!Run`), and the
  call that gave it is one of which `AnswersLast` speaks;
- `GoodShown`: a profile that runs after a follow has succeeded must show it;
- `AllHooked`: every hook and unhook has a tool that waits for it, and a function that
  a tool is through with when it hooks successfully is hooked;
- `Calm` and `Honest`: when no line unhooks, nobody unhooks, no request is `gone`, and what
  is in `reported` is in `good`.

| Theorem | States |
|---|---|
| `AnswersReachTheirTools` | `AllSpec => []Consistent` |
| `HandlersKeepTheirPromises` | `AllSpec => []` of `TypeOK`, `NoDanglingReply`, `SeenCawsLast`, `AnsweredOkLasts` and `NamesAreUsers` |
| `SuccessLasts` | `AllSpec => []` of `InStore(c, cli[c].good)` for every tool |
| `SuccessHolds` | `AllSpec => []SuccessIsTrue`, if no line unhooks |
| `ToolsTellTheTruth` | `AllSpec => []ReportsAreTrue`, without `cut` |
| `HookingHolds` | `AllSpec => []HookingIsShared`, if `OneHooker` |

`SuccessLasts` and `SuccessHolds` hold under every fault; `cut` matters only for what a
profile shows. Neither leaves out an answer because of the function that gave it:
`SuccessLasts` excepts the events that were unhooked under way, and what such an
exception can hide is what `cli_false_report` shows. `OneHooker` says that at most one
tool has lines that hook or unhook, and that it is not one that gives up, which is the
Go tool. `HookTable` is stated for one client that hooks at a time, so that more hookers
are outside what it describes. A hooker that gives up leaves an unhook behind
that takes effect after its next `--hook_all` has succeeded. TLC checked the invariant on
the instance of `cli`, and on one whose lines hook, caw, reply, read and unhook.

### Model-checked only

- `Progress`, `LoadEnds`, `CallsReturn` and `EveryLineEnds`: liveness under fairness is
  out of the provers' reach.
- That the cells of `KVStore` stand for the bytes of `LogBytes`: the two are linked by
  what they have in common, as told in section 2, not by a refinement mapping.

## 5. Not modelled

- `Size`, `Empty`, `Print` and the store without a file: the first two read
  `map_` without the lock, but no server calls them.
- A read error during a load is handled as corruption; the models have a file
  that reads back what it holds.
- Several store processes on one file; a disk that writes the file's blocks out
  of order.
- The set-up of the servers, the values of the port flags, printing, message
  formats, generated code and build files.

## 6. Plan

Done: `MultiMap`, `DurableMap`, `KVStore` and `LogBytes` and their proofs, `CawHandler` and
its proofs, `HookTable`, `FazService` and its proofs, `CawCli` and its proofs.

1. The store's calls of `CawHandler` against `DurableMap`.
2. The cells of `KVStore` as an abstraction of the bytes of `LogBytes`.
3. The read error during a load as a choice of the environment, the store without
   a file, two processes on one file.
