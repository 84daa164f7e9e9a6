# Foster: a verification project

Foster is a programming-language toolchain: a compiler, a bytecode virtual
machine (VM), a native backend with its runtime, a host layer shared by the two,
and the driver with a language server and a debugger. Almost all of it is a
sequential translation of one tree into another. What is hard to test is the part
that runs programs concurrently (remote objects, their futures and owners, values
shared between workers, the host's tables, the language server and the debugger)
and the analyses whose verdicts the run time relies on. This project models those.

## 1. Inventory

| Component | State | Operations | Interacts with | What is hard |
| --- | --- | --- | --- | --- |
| Lifecycle controller, `host/src/remote.rs` | terminal error, next identity, callbacks of pending requests, under one mutex | register, complete, has_pending, error, terminate | both backends | completion, failure and shutdown race; callbacks run outside the lock |
| VM remotes, `vm/src/machine.rs`, `value.rs` | mailbox, handles (sender + owner reference), futures, worker coroutine | SpawnRemote, SpawnRemoteBorrow, RemoteCall, Await, handle clone and drop | the controller, shared values | cancellation points, the join in the last drop, FIFO order that the compiler relies on |
| VM shared values, `vm/src/value.rs` | readers/writer gate, the stored value | read, write, replace, reshape, method calls with commit, read leases of views | VM remotes | lost wakeups, torn or lost changes, leases that outlive replies |
| Native remotes, `runtime/src/host.rs` | mailbox of raw words, actor, futures, failure and cleanup state of a coroutine | remote_spawn, remote_call, future_await, future_error, future_release, remote_release, cancellation_point | the controller, generated thunks | words freed once on every path, self-release, blocking calls |
| C callbacks, `host/src/callbacks.rs` | process-wide signal table, per-thread handlers, bounded queue | register, invoke, poll, take_error, release | C threads | close against invoke, limits, reentrancy |
| Child processes, `host/src/process.rs`, `library/std/process.fos` | token table, child, capture threads | reserve, exchange (start, poll, wait step, kill, output), release | Foster code through tokens | release against a running operation, overflow, reaping |
| Network handles, `host/src/lib.rs`, `readiness.rs`, `provider.rs` | handle tables, sockets | listen, connect, accept, read, write, wait, close | operating system | close against wait and I/O |
| Foreign resources, `host/src/foreign.rs`, `runtime/src/foreign.rs` | resources with leases and parents, buffers | call, acquire, release, resolve | C libraries | destruction order, leases in flight |
| VM execution and cleanup, `vm/src/machine.rs`, `value.rs` | frames, registers, slots, place generations, pending cleanup failure | one step per instruction, frame teardown | everything in the VM | failure during cleanup, stale places |
| Language server, `src/lsp.rs`, `src/lsp/*` | documents, generation, snapshot mailbox, compilation caches | open, change, close, invalidate, request, cancel, diagnostics, stop | editor, compiler | stale snapshots, answers for changed documents |
| Debugger, `src/debugger/*`, `vm/src/debug.rs` | breakpoints, stepping state, request queue | stop, resume, step, inspect | VM | the handshake between adapter and machine |
| Incremental checking, `compiler/src/typecheck/incremental.rs`, `effects.rs` | body cache, effect summaries | check, reuse, invalidate | language server | a fixed point from a stale start |
| Ownership and completion analysis, `compiler/src/ownership/*` | regions, loans, pending requests per owner | check | type checker | its run-time assumptions |
| SSA, de-SSA, optimizer, `compiler/src/codegen/*`, `compiler/src/vm/*` | functions in SSA | seal, optimize, assign registers | backends | parallel copies |
| Bytecode format and verifier, `bytecode/src/*` | none between calls | read, write, link, verify | VM | breadth |
| Lexer, parser, HIR, type checker, native code generation, packages, driver, documentation, library | none between calls, or files | translate | each other | breadth |

The remote objects are specified by `documentation/remote-semantics.md` (R-01 to
R-09): one outcome for each request, sticky failure, cancellation when the owner
goes away, FIFO order, and read views that see no change while they run. Those
are the properties their modules state. `PROJECT.json` lists, for every component,
what is modelled and what is left out, and the hazards line by line with the
properties that cover them.

## 2. Modules and how they correspond to the code

    RemoteOutcome  (promise)
        ^ refines
    RemoteControl <- RemoteControlProofs      SharedAccess, Places <- ValueAccessProofs
        ^ RemoteThreads   ^ extends           OwnedValues, VmCleanup       <- DeinitProofs
    VmRemote      <- VmRemoteProofs           ProcessTable, NetworkHandles,
    NativeRemote  <- NativeRemoteProofs       ForeignResources, Callbacks  <- HostProofs
                                              LanguageServer, Debugger     <- ToolsProofs
    CompilationCache <- LanguageServer        MoveCheck                    <- MoveCheckProofs
    RemoteCompletion   Regions   EffectInference
    SlotCode <- SharedSsa <- SsaOptimizer, BytecodeOptimizer <- VmBackend

Each module has a section of mutants, small definitions that change an action the
way a plausible mistake would; they are not part of any specification, and each
breaks the property it is listed with in `PROJECT.json`.

### Remote objects and shared values

**RemoteOutcome** is the abstract specification: a worker that is live until it
ends, requests that are decided once, ending decides everything outstanding.

**RemoteControl** is `Control`. Each critical section is one action
(`Register`, `Complete`, `Terminate`). What the code does after releasing the
mutex is separate: `RunCancel` runs one callback a thread has taken out, in the
order of the map's keys, and `Publish` sends the value whose completion a thread
has reserved. `cancels[t]` and `reserved[t]` are a thread's local variables;
`published[r]` is the response channel. A thread that still owes such a step is
`Busy` and does nothing else.

**RemoteThreads** names those who use the controller of one remote: its callers and
its worker, in either backend.

**VmRemote** composes the controller with one remote object of the VM. Its
callers are threads or coroutines running Foster code; `RemoteCall` is two
actions because the controller and the mailbox are two synchronization points.
The worker is at `receive`, `check`, `poll`, `instruction`, `failing` or
`completing`, the points where another thread can be seen. A handle is dropped as
Rust drops a `RemoteValue`, field by field: the sender, then the reference to
the owner, whose last drop asks `has_pending`, terminates and perhaps joins.
A caller may be the worker of another remote; `cancelled` says that one ended.

**NativeRemote** composes the controller with one actor of the native runtime.
The control is similar and the memory is manual, so it follows each result word
(`word`, `frees`) and each request's arguments (`arguments`, how often they were
given up). Handles are reference counted; one may travel in a message to the actor
itself (`carried`), which then runs `remote_release` on itself. `Send` happens on
an ended actor as well, since only the thunk's discarding mode can free arguments.

**SharedAccess** is one `SharedValue`: the owner's slot operations and the
invocations of views. `Acquire` is one pass of the loop around the condition
variable, `Snapshot` the clone under the value's mutex, `Commit` the store.
`value` is a version number; a change is the next version of the copy it was
made from, so a lost change is visible.

### Values of the VM

**VmCleanup** is frame teardown on return and failure, with `deinit` callbacks that
run in a machine of their own while another failure may be pending, the pending
failure `CLEANUP_FAILURE`, and coroutines that wait and go on on another thread.

**Places** is one slot, the `PlaceHandle`s into it and the generations by which an
access notices that a container was reshaped. The value is its set of paths.

**OwnedValues** follows the obligation to call one object's `deinit` through
aliases (`Rc`), copies on write, wires (`WireOwned`, an `Arc`) and the proxies that
`from_wire` makes. A release of a proxy is several steps because the count of the
`Arc` is read before it is given up.

### Host tables

**Callbacks** is one token. C threads go through `invoke` in the steps its locks
make (`Lookup`, `LookClosed`, then `Enqueue` or a failure); the owner polls,
delivers, and closes in the three steps of `release`. An event is its number
and its length.

**ProcessTable** is the token table, the child with its two capture threads, and
the `Process` type of `std/process.fos` as its caller, which may be cancelled
anywhere. The child, its descendants and signals are the operating system's,
marked external.

**NetworkHandles** is the handle table under its lock. Every operation has the
steps between which other threads run: look up (taking an `Arc`), take the
connection's I/O lock, transfer a chunk, insert. A wait is a sequence of short polls
that look the handle up again. Descriptors are reused, sockets are not, so a wait
that polls another socket's descriptor is visible.

**ForeignResources** is the C bridge of one thread: a call takes leases, runs C
code, which may call back, close or release, then commits what it creates,
consumes, retains or transfers. `needs` and `contents` record what C knows, so a
dangling native value is visible.

### Tools

**CompilationCache** and **LanguageServer** are the main, checking and query
threads: generation-tagged work, the debounce, the snapshot mailbox with its floor,
cancellation, diagnostics, eviction and shutdown. The text of a document is the
generation that set it, so an answer from another text is visible.

**Debugger** is the handshake of the session and the machine, with breakpoints,
stepping, pause, disconnect and a program that jumps, calls and returns at will. A
compiled body begins with the constant for its result, whose span is the function's
(`codegen/construction.rs:464`) and which therefore has no line
(`src/debugger/program.rs:117`); the layouts begin their functions so. A jump carries
the span of its statement, so none leads past a function's first line before that line
was reached (`Targets`).

### Compiler

Each analysis is the work list of the source, run over every function of a family, and
followed by executions of the functions it has accepted: **MoveCheck** (families in
**MovePrograms**), **RemoteCompletion** (**CompletionPrograms**) and **Regions**
(**LoanPrograms**). Whether a move takes a part out of a value with `deinit` the move
checker tells by walking the declared types from the root (`ownership/check.rs:243`);
`Opaque` are the places at which that walk finds no type (a field declared with a type
parameter, a payload, a reference without a dereference, a root that is no local), and
`Guarded` the deinits it does find. **EffectInference** (**EffectPrograms**) is the
incremental effect work queue with the body cache and recovery, compared with a check from
nothing after each edit. The back end, **SlotCode**, **SharedSsa**, **SsaOptimizer**,
**BytecodeOptimizer** and **VmBackend** (families in **BackendPrograms**), has one action
per pass from constructed slot code to bytecode; the bytecode then runs beside the
constructed code.

### Model-checking modules

`MCRemote`, `MCValues`, `MCHost`, `MCTools`, `MCCompiler` and `MCProgress` are disjoint
sums: the components share no state, so a behaviour chooses a `part`, exercises it and
leaves the others as they began; interleaving them would show nothing more. Where a
component is proved about, the module extends or instantiates it, so the run checks the
very definition the theorem states; `CleanupPart`, `PlacesPart`, `ProcessPart`,
`NetworkPart` and `ServerPart` then restrict what its actors do in each part, and
`CompilerInit` the functions of the move checker.

## 3. Runs, bounds and fairness

| Run | Instance | States | What it shows |
| --- | --- | --- | --- |
| `remotes` | VM: 2 callers, 3 requests, symmetric; native: 2 callers, 2 requests, made in order | 847 394 | one outcome each, requests stay reachable, order for the completion analysis, containment, prompt stops, no drop that waits for a busy worker, implements RemoteOutcome; words are freed once, errors precede reclaiming, nobody joins itself |
| `values` | parts shared, frames, workers, record, lists, owned | 857 794 | stable copies, no lost wakeup, each deinit once and in order, first failure reported, stale places refused, one cleanup obligation |
| `host` | parts callbacks, output, table, exhausted, waits, handles, transfer, foreign | 1 111 754 | callback delivery, exact output of children, no stranded child, waits about one socket, whole writes, nothing dangles, exact leases |
| `tools` | parts edits, files, session | 3 076 019 | edits and diagnostics of a text that was current, nothing resurrected, exact breakpoints |
| `compiler` | ten parts over families of functions | 811 275 | what is accepted is safe, what is rejected has a path, incremental rows are exact, the back end keeps behaviour and releases |
| `progress` | nine parts, small instances | 62 144 | what must happen eventually |

Bounds. Two callers are needed for a handle that is not the last, and for one thread that
shuts down while another calls; three requests for a queue behind a running method. A
single worker is enough: workers share nothing but handles, and a caller that is itself a
worker is represented by its cancellation. Two viewers and an owner are the smallest gate
with a reader that stays while another leaves. Three values with three failing deinits
nest a failure inside a cleanup inside a cleanup; two coroutines on two threads exchange
threads. Two handles into lists of two elements, three steps deep, have one above, beside
and below the other. Four copies and two wires let a value return to the thread it came
from. A callback queue of two events and two bytes reaches either limit first, with
packets of no bytes, and four events refill it after a poll. Two tokens and three owners
exhaust identities; a limit of two chunks and three written overflow the capture; two
descriptors and three sockets reuse a descriptor during a wait; three threads contend for
a connection while one closes it. Three resources in calls two deep give a parent, a child
and a stranger inside a callback. In `tools` two documents are edited up to generation
three while a query is under way; a stack of three frames has a caller to step out to and
a recursion. In `progress` the native actor has two callers with one request, or one
caller with two, so that a message that carries the last handle may wait behind another.
In `compiler` two edits reach a fixed point from a stale start; a path limit of two is
exceeded by loops, 256 is the code's own; the functions of the completion families have no
parameters and return no future, so what the model says of parameters and of a returned
future is not exercised; `MaxSteps` (60) is longer than any execution of the families.
`MaxRuns`, `MaxEvents`, `MaxGeneration`, `MaxStops` and their like are the only bounds on
histories.

Fairness, in `progress`. Weak fairness of the worker's steps:
coroutines that can run are scheduled (in the native runtime a busy actor gives way
every 1024 polls by a timer suspension, so none is starved). Weak fairness of a
caller's steps inside an operation it has begun, of a method that holds a lease, of
a callback handler, of owners inside start, await and release of a child, of the
capture threads, of a killed child's end (SIGKILL), of polls and the passing of
time in a wait, of the checking and query threads and the debounce, and of the
debugged machine. Nothing is assumed of what programs, editors, peers or C threads
choose to do. `GateOpens` holds for finitely many invocations only: the gate prefers
nobody, so an endless overlap of readers can starve a writer.

### What the violation runs show

* `vm_reclaim`: `documentation/remote-semantics.md:128` says that shutdown publishes
  outstanding errors before reclaiming queued arguments. `terminate` publishes them
  after it has released its lock; a worker that is receiving at that moment drops the
  next message first. The request still gets its one outcome. In the native runtime
  the order does hold when the actor itself fails (`FailurePublishes`).
* `cleanup_contained`: `CLEANUP_FAILURE` is a variable of the thread while workers are
  coroutines, so one worker's cleanup failure can be reported by another.
* `completion_replaced`: the completion analysis names an owner by the operation that
  creates it, so a remote created in a loop may replace one with outstanding work.
* `effects_recovery`: a recursive pair in which an error came and went can keep an
  effect neither function has.
* `loans_written`: an assignment through a reference is analysed as a store into the
  reference, which forgets its loan.
* `moves_generic`: `documentation/semantics.md:438` and `ownership.md:146` say that moving
  a field out of a value with `deinit` is rejected. The walk over declared types does not
  put a record's arguments in place of its parameters, so `move box.value.handle` with
  `box: Box<Resource>` is accepted and the `deinit` of `box.value` later runs without its
  handle. `DeinitWhole`, which `compiler` checks, is about the deinits the walk finds.

Seen while modelling, not turned into runs: diagnostics of an older text may be
published between two notifications (`src/lsp.rs:118`); a request forwarded by another
worker is counted with the wrong queue (`ownership/remote.rs:267`); the debugger
reuses frame identities (`debugger/mod.rs:434`); a loop on a single line is entered
anew without a new visit; and `places_proven_disjoint` (`ownership/regions.rs:1638`)
compares the present values of index locals that changed since the loan.

## 4. Proofs

The theorems hold for every set of callers, threads, owners and handles and every value of
the numeric bounds (finite sets where cardinalities are counted), from the named
assumptions of the modules only. RemoteControl (`RequestsFinite`), RemoteThreads
(`CallersAndWorker`, `NoRequestFresh`) and SharedAccess state theirs with `ASSUME`; in the
others the assumption (`CleanupAssumption`, `ServerAssumption`, ...) is a definition that
each theorem takes as its hypothesis and `MCValues`, `MCHost`, `MCTools` or `MCCompiler`
assumes. They say that bounds are natural numbers, that roles are distinct and that what
is counted is finite. `MoveAssumption` says what a function of the ownership CFG is: edges
lead to its blocks; what is indexed is never a local; a deferred place is a named field of
a local (`ownership/lower.rs:1615`), which is a record and hence not indexed; and a deinit
belongs to a type, so that of a list's elements all have one the walk finds, or none has.
`DebuggerAssumption` says of the program only that functions have instructions and lines
are numbers; that a jump does not pass a first line that was not reached is in `Targets`.

*RemoteControlProofs.* `ControlInv` is the type invariant, `ExactlyOnce`,
`Conserved` and `TerminalDrains`. Exactly-once is not inductive: that a thread may
append an outcome needs to know that the channel is empty and that no other thread
can append too, which is `Conserved` (each request is in one place); that a
request registered late is not left in the map needs `TerminalDrains`.
`ImplementsPromise` proves the refinement: a request is decided in the critical
section that removes its callback, and publishing is a stutter.

*VmRemoteProofs.* `VmInv` adds to it the VM's type invariant, `Scoped` (a thread
at a place has what the place needs, and a sending caller holds a sender),
`Stopped` (what has failed or executed late did so after the terminal state) and
`PendingReachable`. From it follow containment, prompt stop, the open mailbox.
`VmOrderInv` adds `Numbered` (identities are the order of registration), `Queued`
(the mailbox is ordered by them for each caller), `InTurn` (what the worker has taken
precedes what it has not), `LastOwner` (who drops the last handle found no other)
and `JoinsIdleWorker`; `AwaitWitness` follows: a value implies that the earlier
requests of that caller have theirs. `VmImplementsPromise` lifts the refinement:
each step of the VM is a step of the controller or leaves it alone.

*NativeRemoteProofs.* `NativeInv` is the controller's invariant, the type invariant,
`InHand` and `InFlight` (a message is with its sender, in the mailbox or in hand, and
its arguments have been given up exactly when the thunk is past them), `Words` (a
result word has the owner its request's stage says), `Owes` (what a caller still has
to run), `LiveDecides` and `LastHandle`. `WordsFreedOnce` alone is not inductive: that
a drop may free needs to know who else could, which is `Words`.

*ValueAccessProofs.* `SharedInv` is the type invariant, `ViewersOnlyRead`,
`Exclusion`, `StableCopy` and `NoLostWakeup`. The counter equals the cardinality of
the leases, so a writer is granted only when that set is empty. `PlacesInv` is `Tree`
(the value is closed under prefixes, its lists have no holes and its steps are those of
records and lists) and `HandlesInv` (each index of a handle remembers the container
before it and generations that are not ahead of the slot's; a handle is stale exactly
when one of them has been passed). That stale handles are refused is not inductive
without the second bound: a generation that could come back would admit them again.
The tree is needed because an access may only take the path of a part that exists,
and that a push appends after the last element is a counting argument (`ListIs`).

*DeinitProofs* is about both modules that follow deinits.

`OwnedInv` is `ObligationMet` with `Numbered` (copies and wires are numbered as made),
`Dropping` (a thread that releases a proxy holds the wire's Arc until it is idle) and
`Spent` (a wire that ran the deinit has no proxies and no other references). The counts
are exact cardinalities; the lemmas on them (`Cards`, `Counted`, `WithIs`, `WithoutIs`)
carry the arithmetic.

`CleanupInv` is about the stacks of activities of all tasks, of any depth.
`DeinitsComplete` is not inductive, since it speaks only of what has run. What keeps it
is conservation: every value made and not released is in exactly one place, a register,
a list of values to release, what an execution returns, or a field of a value that is
not released either (`Divided`, and `NoneTwice` within one place). A deinit thus runs
for a value that leaves its one place for good (`DeinitsCounted`). That nothing is left
once all stacks are empty needs more than counting: a value could be owned by another
that is owned by the first. A field is older than its owner, so the youngest value left
would have no owner (`Greatest`, `NothingLeft`). For the order, the registers of a frame
that was torn down wait in one list, in the order they had, until the last of them is
gone (`TornInOrder`). For the failures, `FailuresOrdered` reads what each execution,
cleanup and deinit holds back from the bottom of the stack up, then the failure pending
on the thread, as one chain: the first failure raised is the first of it, through every
return, teardown and abandoned coroutine, and it is what the bottom execution reports.
Steps of other tasks leave the chain alone unless they fail on the same thread, which
is what `clean` excludes.

*HostProofs* is about the four modules of the host layer. `TableInv` says that tokens are
unique, that each entry has its owner and that no child is without one; `ProcessInv` adds
`Unborn`, `Accounted` (a reader that ended well has kept everything its stream carried)
and `Awaited`. `AwaitExact` and `ChildrenOwned` follow. `SocketInv` ties each operation to
the socket it looked up and each descriptor to an open socket; the key fact is that a
socket stays open exactly while a table or an operation holds it, so a descriptor is not
reused under a poll. `Locked` gives a transfer the lock and the last chunk, whence
`WritesWhole`.

`ForeignInv` has `Leases` (a resource is leased by one frame of the
stack), `Closes`, `Family` (parents are older, retained while needed), `Disjoint` and
`Backed` (what C can reach is retained). That a destroyed value is not needed uses the
least element along parents; that a count is zero exactly when nobody retains a resource
is the lemma `StrongIs`. `CallbackInv` is `CallbackDelivery` with `Turns` (where the owner
is says what runs, what is closed and what is left to deliver) and `NumberedPackets`
(numbers are given out as C sends). Its core is a ledger: what was delivered, what a
poll holds and what is queued are, in this order, the packets accepted less those that a
nested poll refused. The bytes in a queue are a sum over a sequence; its
recursion is unfolded by showing that a function with the equations of the sum exists
and that no two differ, both from a least counterexample.

*ToolsProofs.* Of the debugger, `BreakpointExact` is not inductive because the session
decides from two memories, the place it stopped at and one place for each depth.
`Remembered` compares them with what each frame knows of its own visits; a frame with no
visit yet has come no further than its first line (`JustEntered`). This holds for
functions that begin with any number of instructions without a line, all of whose
instructions may be so.

Of the language server, `ServerInv` relates the three threads through their channels.
Changes are in the order of their generations and lead from the texts a thread has to
those of the editor (`Queued`), and what a thread works on is older than any change
still on its way to it (`Tagged`, `Asking`); so an answer or a set of diagnostics that
still carries the current generation was made from the current texts (`CheckerFresh`,
`Displayed`, `QueryFresh`). That nothing is resurrected is the longest argument: a
compilation that rests on a closed buffer or an outdated file is in a cache only while
the message that drops it is still in that thread's channel (`Retired`), one in the
snapshot mailbox is below the floor or will be, and what the checking thread has still to
drop the query thread has dropped, raising the floor, or is still to drop (`Linked`). The
installation of a snapshot is an iteration over a map in any order; `Install` is proved
for every order.

*MoveCheckProofs* is about functions of any size, with any branches and loops. That an
accepted function is safe is not inductive, since it speaks of runs and the checker keeps
states. Two invariants connect them. `Settled`: a block that is not queued has been passed
with the state it has now, without a refusal, and each successor's state is at least as
pessimistic as the one it leaves. Joins only weaken a state and queue what they change, so
an empty queue is a fixed point, although the checker never compares the states again.
`Followed`: the state the checker computed for the operation a run is at `Describes` the
storage, that is, a place that does not exist has an uninitialized root or is covered by
something moved or deferred. The covering place may name an index that is not a constant
while the place is one element, so overlap is not enough: a write must not make a deferred
field present that it did not name, which holds because deferred fields are never indexed.
For `DeinitWhole`, which speaks of the deinits in `Guarded` alone (the others are those of
`moves_generic`), a move out of an element of a list whose elements have a deinit is
refused though the place refused is not the place moved. The states through a block and
the successors' joins are recursive functions; that one with those equations exists
(`IterationExists`) and what each of its values is come from a least counterexample.
Termination of the work list is not claimed and the fairness of `MoveSpec` is not used.

`MoveRejectedByPath` is the other direction. `Witnessed` says, while no path is refused,
that each fact against a place in a block's state (not initialized, moved, deferred) is a
fact on some path to that block (`From`). It is kept because a transfer removes and adds
the same facts whatever the state (`TransferIs`), a join collects facts, and a refusal
needs a single fact (`RefusedFrom`); states compared as a whole would not do, since a
joined state is usually on no path. The theorem asks that the paths followed be complete,
that is, that `PathBound` be long enough for one more step to bring nothing new; with the
bound of the run, 6, this holds for each rejected function of the families.

Only model-checked:

* liveness (`ShutdownCompletes`, `GateOpens`, `HostCallsReturn`, `ServerAnswers`,
  `DisconnectEnds`, `Teardown`), which is out of the prover's reach;
* `EffectsSound` and `BackendFaithful`: effect inference and the back end are recursive
  operators, and what a recursive definition computes for every input is an induction
  over data, which the installed provers cannot instantiate;
* `CompletionSound` and `LoansSound`: they hold for the families given, and not for every
  function (`completion_replaced` and `loans_written` are functions for which they fail).

## 5. Plan

What could be proved next: for `RemoteCompletion`, as for `MoveCheck`, that what an accepted
state knows holds in every execution, for any function that creates no owner twice in one
place (`completion_replaced` shows that this condition is needed); and the effect queue's
fixed point, for packages without errors.

Candidates for modelling later: several shared values leased by one request
(`vm/src/machine.rs:1947`); a VM handle in its own worker's mailbox
(`vm/src/value.rs:1032`); dependency resolution of packages.

## 6. Not modelled

Panics inside the interpreter and poisoned locks, exhaustion of 64-bit identities
except where the code handles it (tokens of child processes, network handles),
contents of messages and values, and the order of leases across several shared
values (the documentation leaves freedom from deadlock across workers open).

The larger part of the source is not modelled at all: the lexer, the parser, HIR
lowering, the type checker beyond effects, native code generation, the bytecode format
and verifier, the formatter, packages, documentation tools and the library written in
Foster. They are sequential translations of trees or plain input and output, without
state between calls; a bounded model of them would restate the code, and the
repository's own tests reach what it could check. The components of `PROJECT.json`
give the reason for each, and for each partly modelled component what is left out:
borrowed buffers, closures and pattern matching, what an editor query computes, cached
types, the lowering to the ownership CFG, and inlining.
