# polyengine in TLA+

polyengine is a Component Model host for JavaScript engines: it links WebAssembly
components at run time and maps their tasks, streams and cancellations onto the
JavaScript event loop. This directory models its runtime (`runtime/src`), the plan
that the translator shim hands to it (`crates/translator-shim`) and its WASI
providers (`wasi/src`), model-checks them with TLC and proves the safety properties
of its tasks, streams, futures and subtasks with TLAPS.

    tlc -workers 2 -config MCGate.cfg MCTaskScheduler.tla     # one run
    tlapm TaskScheduler_proofs.tla                            # the proofs

Contents: 1 inventory, 2 modules and how they follow the code, 3 runs, bounds and
fairness, 4 proofs, 5 where code and documentation disagree, 6 what is not modelled,
7 plan.

## 1. Inventory

Sources are under `runtime/src` unless said.

| Component | State | Operations | Hard behaviour |
|---|---|---|---|
| **Tasks and scheduler** `task/mod.ts`, `thread.ts`, `scheduler.ts`, `jspi/bridge.ts`, `exec/boundary.ts`, `intrinsics/fact_calls.ts`, `async_builtins.ts` | per instance `mayEnter`, `exclusiveThread`, `numWaitingToEnter`, `backpressure`; per task state and thread; per store `waiting`, `settled`, `pendingResumptions`, `awaiting`; poison marks | host call, FACT call, gate, block, hop, return, trap, `task.return`, `task.cancel`, `subtask.cancel`, `tick`, `serviceSettled`, settlement | segments of many activations interleave at microtasks; traps inside nested brackets; cancellation races; fairness at the gate |
| **Driving loops, host activity** `exec/boundary.ts`, `exec/host_streams.ts` | live loops, what each races, `pendingHostCalls`, activity arms, `hostFailure`, the settlement pump's nudge | `drive`, `driveAsync`, `ensureSettlementPump`, `pump`, `notify` | several loops over one store; a loop that stops too early, or never; the deadlock verdict |
| **Streams** `task/streams.ts`, `intrinsics/stream_builtins.ts`, `cabi/async_values.ts` | shared rendezvous, two ends with a copy state and a pending event | read, write, cancel, drop, transfer, retirement of a dead instance's ends | partial copies with late event payloads, cancellation after completion, peers that die |
| **Futures** the same files, `exec/host_streams.ts` | as a stream, with the obligation to write once, and abandonment | the same, host ends | who is told when a writer goes unwritten |
| **Host streams** `exec/host_streams.ts`, `embedder/streams.ts` | host ends, buffers, wrappers, a claim that the embedder may act, producers | read, write, drop, lift, lower, pump of a producer | ends that wander, producers that fail or are parked, readers that die |
| **Waitables** `task/waitable.ts` | pending event thunk, set membership, synchronous waiter | set event, join, poll, wait | an event is computed at delivery |
| **Subtasks** `task/subtask.ts`, `intrinsics/fact_calls.ts` | state, lenders | lend, resolve, deliver, unwind, drop, cancel | lends given back once, on every way out |
| **Handles and resources** `cabi/handles.ts`, `intrinsics/mod.ts`, `embedder/resources.ts` | handle tables with free lists, lends; host wrappers with lends and a pending drop; the registry of host objects | new, rep, drop, lift and lower, destructors as guest calls | drop while lent, transfer while lent, traps in between |
| **Plan** `crates/translator-shim/src/plan.rs`, `plan/format.ts`, `plan/loader.ts` | items with indices into index spaces | emit, validate, convert | an index that means another space at the other end |
| **Executor** `exec/executor.ts`, `jspi/bridge.ts` | core instances, suspendability marks, resource tokens, compile cache | initializers in order, import wiring, mode | one flag for all modules; shared compilations that fail |
| **Canonical ABI** `cabi/*`, `intrinsics/transcode.ts` | linear memory, lanes | flatten, lay out, lift, lower, load, store, transcode | offsets, widths, reallocation between passes |
| **Artifact cache** `cache/*` | directory or web-cache entries | get, put, evict | several writers, several files per entry, crashes |
| **WASI** `wasi/src/*` | pollables, byte queues, sockets, messages, files | subscribe, poll, read, write, connect, listen, send, consume, rename | host events between a check and a park; drops while something is on the way; operations made of several host steps |
| **Embedder API** `embedder/*` | facade | instantiate, convert, match versions | mostly sequential |
| **Digest, bindgen, protocol, ct-runner, harness** | none | build time, tests | sequential |

How they interact: the embedder calls a lifted function (`boundary.ts`), which makes
a Task and a Thread and enters the instance (`task/mod.ts`). Guest code calls
trampolines (`intrinsics/*`), which act on the ambient task, on handle tables and
on shared streams. A FACT adapter enters another instance in the same JavaScript
stack. A wasm entry that is `promising` returns a promise; its settlement queues
the rest of the lift as a *tail* in `Store.settled`, and a driving loop services
tails, then `tick`s one ready thread, then races every outstanding promise. Between
calls the settlement pump and the host-activity pump do the same. A trap leaves its
bracket broken (`mayEnter` false for ever), marks the instance poisoned, and the mark
retires every stream and future end of that instance (`streams.ts`). The shim's plan
says which core modules are instantiated with which imports and which trampolines
stand between them; the executor decides from it what is wrapped for suspension. The
WASI providers are host imports: their slow functions return promises, which the
loops race.

What makes each component correct is listed as hazards in `PROJECT.json`, each
with the line where it bites and the properties that cover it.

## 2. Modules

| Module | What it is |
|---|---|
| `TaskScheduler` | every way into and out of guest code, the lock, the gate, the slot, the queues |
| `TaskScheduler_proofs`, `MCSchedulers_proofs` | theorems about it, and about the three kinds of store of the run `MCSchedulers` |
| `Drivers` | the loops that keep a store going, at every await |
| `Streams`, `Channel`, `Streams_proofs` | one guest-guest stream; the abstract rendezvous it implements; theorems, the refinement included |
| `Futures` | one future between guests and host, with its ends, handles and producer |
| `HostStreams` | one stream between a guest and the host, `Stream`, `StreamWriter` and the pump of a producer |
| `MCHost_proofs` | the invariants of `Futures` and `HostStreams`, theorems about the two |
| `Subtasks`, `Subtasks_proofs` | calls from one instance to another as the caller sees them; theorems |
| `Resources`, `HostResources` | resources that guests implement, with the host's wrappers; resources that the host implements |
| `PlanFormat` | the plan from the shim through the loader to the executor |
| `Executor`, `CompileCache` | one instantiation; the compilations that instantiations share |
| `Values`, `Strings` | operators for layout, flattening, loads, stores, lifting, lowering and transcoding, with a machine that passes values through them |
| `ArtifactCache` | `translateCached` over a directory or over the Cache API |
| `IoStreams`, `TcpSocket02` | the parking kernel of wasi:io; a 0.2 TCP socket, which extends it |
| `TcpSocket03`, `UdpSockets`, `Http`, `Filesystem` | a 0.3 TCP socket; a UDP socket of either version; messages and send of http; a directory of either backend |
| `MCWasi_proofs` | theorems about these five and the kernel, each provider with its invariant |
| `MCTaskScheduler`, `MCStreams`, `MCSubtasks` | named tasks, instances, calls for those components |
| `MCSchedulers`, `MCHost`, `MCWasi`, `MCStore`, `MCLoad` | several small instances checked side by side in one run: the behaviours of one are those of one of its parts; `MCLoad` extends `MCStore` |
| `MCStore_proofs` | theorems about the caches and the driving loops |
| `Resources_proofs` | theorems about the handle tables and the two kinds of resources |

### TaskScheduler

A *task* is one call of one lifted export with its implicit thread; `pc[t]` is
where that thread is. JavaScript runs to completion, so the model has one `stack`
of wasm segments that execute now; an engine microtask (`EngineResume`, `Settle`)
needs it empty. `Frame.entry` records who entered the segment and so which
entering set its bracket locked (`enterFrom` / `leaveTo`):
callee and root from the host or the scheduler, the callee alone from a sibling
or a cancellation, nothing when the engine continues an activation.

| Code | Model |
|---|---|
| `mayEnter`, root included; `enterFrom`, `leaveTo`, `mayEnterFrom` | `mayEnter`; `Entered`, `Left`, `Enterable`, `CalleeEnterable`; their asserts set `fault` |
| `Task.enterImplicitThread` | `GateClosed`, `Enter` (park or start), `TickGate` |
| `runCallbackLoop`, exit, wait, yield | `ReturnPlain`, `ReturnHops`, `ServiceReturn`, `Loop`, `TickLoop`, `Finish` |
| `blockCurrentActivation`, `SuspensionPoint` | `GuestBlocks`, `TickPoint`, `EngineResume` |
| a built-in that completes at once under JSPI | `GuestHops` |
| `noteAwaiting`, `serviceSettled`, `dispatchableTail`, `resumeWith` | `Settle`, `ServiceReturn`, `ServiceToCancel`, `ServiceTrap`, `ServiceRetired`, `Dispatchable` |
| the race of `driveAsync` and its speculative pending entry | `Race`, `RaceEnds`, `racing` |
| `Store.tick` | `Chosen`, `TickGate`, `TickLoop`, `TickPoint` |
| `requestCancellation`, `deliverPendingCancel` | `CancelAtGate`, `CancelAtLoop`, `CancelAtPoint`, `CancelRecorded`, `GuestMeetsCancel` |
| `poison`, `notifyInstancePoisoned`, `releaseSyntheticRootOnPoison` | `TrapPoisons`, `TrapHops`, `ServiceTrap`, `Broken` |
| the hop gate of host calls | `HostCall`, `DeferHostCall`, `RecheckHops`, `AdmittedCall` |

`unwinding` is true while an exception travels from a dead callee's segment
through the import of its caller. A nested host call puts a `drive` frame under
its segments: the embedder's driver that runs until its first await.

Abstractions: what a task waits for is an external `Signal`; built-ins are
attributed to the running segment (the ambient bookkeeping of `scheduler.ts` is
taken for right); explicit threads, post-return, `mayLeave` and the capability
signals are left out; the check for an invalid waitable-set index after the slot was
given back is left out; links between instances never lead back to a caller's
own instance. `Service` may take any dispatchable tail, which covers the
winner of a driver's race as well as the queue order of `serviceSettled`, and
`RecheckHops` may run later than the `serviceSettled` that precedes it: both
admit more behaviour than the code. A trap met in that `serviceSettled` refuses the
call that rechecks (`Rechecking`). A loop of `Loops` is only its race: it enters one
parked thread in `pendingResumptions` when there is nothing to service or to tick, and
removes that thread when the race ends; whose settlement ended it is not kept.

### Drivers

`TaskScheduler` assumes that some loop services tails and ticks; `Drivers` is those
loops. A thread is the activation of one export call, with its loop (`Drive`, then
`Service`, `Tick`, `Decide` and the waits); `Settlement` and `Activity` are the two
pumps. The code of a loop between two awaits is a chain of steps with `running` set;
everything else needs `running = None`, so an interleaving is possible exactly where
the code awaits. `snap` is what a loop captured when it began to wait: tagged
promises as pairs of thread and generation, host calls, the thread it chose. The
generation of a promise stands for its identity, so `SamePromise` is the guard
`winner.t.awaiting === winner.p`. A wait ends by what was captured (`ProbeWon`,
`RaceWon`, `CallsWon`), by the probe's timer (`ProbeTimeout`) or by the bound on the
hops (`GivesUp`, at rest: the hundred macrotasks among them let everything else
happen). `HostActivity`'s arm is a pending host call that `EmbedderActs` resolves.
An activation may be ready for a hop at once, wait for a host call or for the
embedder in a SuspensionPoint, or return to its callback loop; locks, traps and
deferred tails are left to `TaskScheduler`. `Prompt`, `Overlap`, `Early`, `Hops` and
`Fails` switch kinds of behaviour on, so that a smaller model can look at one of them.

`OwnLoopWakes` is about every loop of a call that sleeps by its own decision, with JSPI and
without: `race`, `probe` and `calls`. A loop that goes on to a race from a probe that was won
(`again`) has not asked again whether its call is over, and is left out. `WorkIsSeen` and
`CallsWatched`, about the moment when no loop is under way, hold without JSPI and for a store
none of whose host calls has failed: a failure that the pump met is parked until the next
call of the embedder throws it, and what that call had registered by then is not watched.
Their counterparts with JSPI are stated in the module and refuted (section 5).

### Streams

Each end has the instance that holds it (`owner`), whether the handle is still in
that table (`handle`), `CopyEnd.state`, the length and cursor of its buffer, its
pending event and how it waits. The stream holds at most one parked end. An
element is its position in what the writer sends, so `told[e] + progress[e]` says
where each side is. `ev = "copied"` is the event of a partial copy, whose thunk
runs `resetPending` on the shared stream when it is delivered, whoever is parked
by then; this is why `ParkedSide` needs proof and not only a look.

Every built-in runs to completion, so `CANCELLING_COPY` is never visible between
actions (a cancel of a guest-guest copy always settles at once, and the branch of
`cancelCopy` that blocks is dead here). `Trap` stands for any trap of a guest,
in its own code or in a misused built-in that changed nothing; `RemoveTraps` is
the one that changes something first: `drop` and transfer remove the handle and
then trap on a busy end. Guest code of a poisoned instance never runs again. A
`Transfer` may name a poisoned instance: results passed back to a caller that has
trapped. The settled hook of an abandoned synchronous copy is not modelled.

`Channel` knows phases (`idle`, `busy`, `ready`, `done`), the room left, the
number of elements moved and whether the channel is closed. It has no parked
buffer, no events, no handles, no instances. `RendezvousChannel` is the
refinement: elements move only when a writer and a reader both have an operation
outstanding, an operation becomes ready only when it moved something, met an
empty partner or the channel closed, and a closed channel moves nothing.

### Futures and HostStreams

Both are shaped like `Streams`: guest ends `r` and `w`, and the host's operations
`hr` and `hw` on the same rendezvous. `host` is the wrapper that `mkFuture` and
`mkStreamEnds` make, with its `HostActivity` (`bound`, `closed`, `disarmed`) and the
embedder's handles: `current` is the one that owns the readable end, `stale` one that
was passed on. `Lift` and `Lower` move the end between the table of an instance and a
handle. A future's writer owes a value: `Drop` of an unwritten writable end traps,
and a writer that dies or fails otherwise abandons (`abandoned`), which a reader takes
for a trap. `HostStreams` adds the producer's pump: `Pull` asks it for a batch,
`WriteReturns` and `Drained` go on with `writeAll`, `ReaderGone` is the
notification that wakes it when it is parked, `Untaken` counts what was lowered and
not taken. A host operation is `back` when its promise has settled and its awaiter
has not yet run: a drop or a transfer may fall in between.

`Careful` is what `contracts/embedder-api.md` asks of the embedder: a handle with
a read in flight is not passed on, and one passed on is not dropped. `Deferred` lets
a call wait at a gate between the adaptation of its arguments, which starts a pump,
and their lowering.

### Subtasks

`TaskScheduler` has the callee's side of a FACT call in full and of the caller only
that it waits. `Subtasks` has the caller's side in full and of the callee what the
caller can tell: where its thread is (`callee`), whether what it waits for came
(`woken`), which borrows it holds. One caller instance calls exports of one callee
instance; its handles are owning ones of resources the callee does not implement,
so a borrow that is passed becomes a borrow handle in the callee's table and a
lend on the caller's handle.

| Code | Model |
|---|---|
| `Subtask.addLender`, `deliverResolve`, `unwindLenders`; the lender scope of sync-start-call | `Lend`, `Release`, `Unwind` |
| async-start-call, its `determinate`, `report`; sync-start-call | `Call`, `EnterCallee`, `Report`, `ReportParks`, `ReportLater`, `SyncReturns`, `SyncParks`, `SyncBails` |
| `[async-start]`, `task.return`, `task.cancel`, drop of a borrow, exit with a borrow | `Start`, `StartTraps`, `TaskReturn`, `TaskCancel`, `DropBorrow`, `SegmentEnds`, `SegmentTraps` |
| the event thunk of a subtask, delivery by wait, poll or callback loop, `waitable.join` | `ev`, `TakeEvent`, `Deliver`, `Join` |
| `subtask.cancel`, `finishSubtaskCancel`, `Task.requestCancellation` | `MayCancel`, `Cancel`, `CancelResolved`, `CancelFinishes`, `CancelWaits`, `CancelReturns`, `FinishCancel` |
| `subtask.drop`, `resource.drop` | `DropSubtask`, `DropHandle`, `DropLent` |

A drop of a subtask whose resolution was not delivered traps; that trap is
`CallerTraps`.
`place` says where the caller has a call: inside the start-call built-in, in its
handle table, done with, given up. `told` is what the caller's code last learnt, a
history variable. `mode` is static, so that one run covers engines with and without
JSPI. An activation of the caller is not told apart from another: whenever
nothing is on the JavaScript stack, any of them may run. The settlement of a
promising segment of the callee is one more `hop`; a settlement that finds the
instance poisoned retires the activation. Other tasks of the callee appear by
backpressure (`SetBackpressure`) and by their trap (`OtherTraps`). Left out:
subtasks of host imports, the teardown of a store, threads other than the implicit
one.

### Resources and HostResources

`Resources` has the handle tables of three instances, with their free lists: the last
slot freed is the next one taken, so a stale index soon means another handle. One
instance implements the resource, the others import it, and the host has wrappers
(`Resource` of `embedder/resources.ts`).

| Code | Model |
|---|---|
| `resource.new`, `resource.drop` of a borrow and of an own, with its destructor | `New`, `DropBorrow`, `DropOwn` |
| a call between guests: the FACT transfers, lends, exit | `Enter`, `Exit` and the table operators |
| a host's call: adaptation, lowering at the start, results, a driver that gives up on a dead callee | `HostCall`, `Start`, `Return`, `Stalls`, `Settle` |
| `Resource.drop` and its deferral, `takeRep` | `HostDrop`, `Deferred`, `Kept`, `MayTake` |
| a guest's call of a host function, which gets wrappers | `Import`, `ImportEnds`, `ImportFails` |
| a trap with the frames it ends | `Trap`, `GuestTrap` |
| `Table.add` and `remove`, with the bound `MaxSlots` | `Put`, `Take`, `Room` |

A call keeps what it has borrowed as a `Loan` on the handle object, as the lenders of the
code's scopes are objects: `where` becomes 0 once a trap has taken the handle from its
table, after which the slot may be another's. `across` of an activation's first call
records that the activation has lent on what another one borrowed; `BorrowAlive` is about
the others (section 5).

In `HostResources` the host implements: `byRep` keeps an object alive, `byInstance` is the
weak way back, and a call that minted a representation for a borrow releases it at its
end. A call passes any object, whoever owns it or is lent it already: `RepFor` then uses
the representation again, and `shared` remembers those that a second owner was given
(the `OutputStream` of `wasi/src/cli.ts`, which each `getStdout` lowers as an own). The
code counts `#next` up and never gives a number out twice; `Unminted` takes one that
nothing names any more, so that `MaxReps` numbers are enough. A handle keeps the call that
brought it as its identity.

### PlanFormat, Executor, CompileCache

`PlanFormat` follows one plan through its three readers. An item is what the shim makes
it from (`src`) and its fields (`refs`) that name other items; one field of one item may
be lost on the way. `Translate` is the emission of `plan.rs`, `loadPlan` the validation
of `loader.ts`, `Step` the reading of one item by the executor, which takes each field
for an index into the space the code looks it up in. `ReadsItsSpace` then compares what
was read with what was meant. `DamageStops` is about the sections the loader checks as a
whole (`Vouched`: modules, initializers, options, exports, and the trampolines with a check
of their own); a field lost elsewhere is found by the executor, or never. The layout of the
text is left out.

`Executor` is one instantiation: the mode is decided, initializers run in order, and for
every import of every core module the slot is resolved, wrapped or not. A module takes two
steps: `ResolveImports` resets `sawBlockingImport`, the one flag of all modules, and lets
the imports set it; `Instantiated` is the end of the `await`, with the start function's trap
and the reading of the flag. Each instantiation has an `Executor` of its own and runs its
initializers one after the other, so nothing comes between the two. What a core
module imports and whether it was marked as suspendable is kept, so `MarksExact` can
compare the marks with a definition that looks at the finished graph at once; a flag that
is not reset marks too many. `defined` keeps what the resource initializers said, and
`TokensExact` compares every token with it, the numbering with the imported ones first
between them.
`CompileCache` is the shared slot in which instantiations put the promise of their
modules; a rejection leaves the slot in a reaction of its own (`Forget`), and an
instantiation that comes between shares it.

### Values and Strings

Operators for the layout and the flattening of every type and for store, load, lower and
lift, with a machine that lowers a value, lets the guest alter lanes or memory, and
lifts. An integer is the sequence of its bytes, so 64 bits cost no more than 8 and the
widths are those of the code. `RoundTrip` compares what comes out with what went in;
`LanesExact` compares lanes with the memory layout; `LiftTotal` says that whatever a
guest hands over is a value or a trap, never an assertion of the host. `Strings` has the
transcoders with the adapter's passes between them: what was read, what was written, and
the block at each reallocation. `Lossless` compares with the code points.

### ArtifactCache

Every operation of the file system is a step and may fail; a crash may fall between any
two. A file is `whole`, `torn` or of an older layout. The entry is a directory, or a
record of the Cache API that is written in one step. The property is about the reader:
what `translateCached` returns is whole, whoever writes or evicts at the same time.

### IoStreams and TcpSocket02, TcpSocket03, UdpSockets, Http, Filesystem

| Module | Code | What is kept |
|---|---|---|
| `IoStreams` | `io.ts` | a fed input stream with its high-water mark, an output stream over a sink, guest frames parked in a blocking call or in `poll`, epochs of wait promises |
| `TcpSocket02` | `sockets_02.ts`, `sockets_platform.ts` | EXTENDS `IoStreams`: its source and sink are a connection; dial, bind, listen, accept, the FIN of `shutdown`, drops of the socket and of its streams |
| `TcpSocket03` | `sockets_03.ts` | one connection counted by its users: handle, pump of `send`, source of `receive`, accept streams |
| `UdpSockets` | both | the remote as the OS, the provider and the guest know it |
| `Http` | `http.ts` | a message, its transmission, the steps of `send`, the body's generator with its byte timeouts, the trailers |
| `Filesystem` | `fs_provider.ts`, `filesystem_web.ts`, `filesystem_node.ts` | calls as chains of steps over a directory; `ideal` is the same directory had every call been one step |

The platforms (node's sockets, `fetch`, OPFS) are external and modelled by what the
providers rely on: an answer comes late, once, as a success or an error, or never
where nothing promises it.

## 3. Runs

| Run | Instance | What it shows |
|---|---|---|
| `MCGate` | one instance; promising host calls, a callback and two sync-lifted, or one of these and a stackful one (`Gathered`); one loop that races; counter to 1; the fairness of `LiveSpec` | types, slot, FIFO entry; every entrant gets in, every tail is serviced |
| `MCSchedulers` | two instances; three groups of tasks, of which one runs: promising, without JSPI, mixed | the lock mirrors the stack, queues exact, no assert fails, a pending entry goes with its errand or its race, a poisoned instance stays closed |
| `MCStreams` | three instances, buffers to 3, six elements | all properties of streams and the refinement of `Channel` |
| `MCSubtasks` | two calls, one handle that both borrow, with and without JSPI; `LiveSpec` | lends exact, given back on every path and not before the callee is through; no resolution untold; async-start-call answers |
| `MCHost` | two instances and the host; one future or one stream of either origin, buffers to 2, four elements | nobody waits for a writer that is gone, elements and a producer's lowered values are conserved, the host's claim is exact, the end of a stream is told and not made up |
| `MCWasi` | one of five providers | nobody sleeps beside what he waits for, OS resources close with the last user, result futures tell the outcome, policy and read-only preopens hold |
| `MCLoad` | one of nine parts: resources, registry, both caches, executor, plan, values, strings, driving loops | resources have one owner and one end, what a cache returns is whole, the wiring is what the plan says, what is lowered is what is lifted, no activation is resumed twice and none is slept through by the loop of its call, no live store is declared dead |
| `MCRootRelease`, `MCStreamLost`, `MCCancel`, `MCProducerFailure`, `MCDrivers` | small | the disagreements of section 5 |

Components that do not interact share a run: the first state chooses the part, and the
rest of the variables stand still. Such a run says of each part what a run of its own
would. Every run turns deadlock detection off: a system whose calls have all
ended, or whose guests wait for an embedder that does nothing, rightly stops.
Every property of a passing run has a mutant in `PROJECT.json`, a small change of one
definition that the run catches.

Bounds, and what they still contain:

* Scheduler. Three tasks suffice for overtaking (holder, waiter, newcomer), and three that
  compete for one slot meet every combination of gate conditions; a stackful task, which
  needs no slot and whose tail can meet an instance that the slot's holder poisoned, is with
  one rival in the second group of `MCGate` (with two it was tried with `Loops` empty). A second instance gives FACT nesting, and `MaxDepth` 4 or 5 lets a host
  call nest in an import of a callee. A backpressure bound of 1 distinguishes on and off;
  the 16-bit limit is not approached. The nested and the mixed group have no backpressure,
  where the gate closes for the slot. One loop that races is enough for an entry that is
  joined by an exact one of the same thread, or that another activation's errand passes.
* Streams. Three elements per buffer let a partial copy be followed by another partial
  copy and an exact fit; six elements allow two full operations, so that a stale buffer or
  thunk meets a later operation. The third instance lets the readable end move on while
  its former holder lives or dies. With the host, two instances let an end go to a
  guest, come back and go on; `MaxSent` 4 is two batches.
* Subtasks. Two calls that borrow one handle make the lend count reach two and let one
  be released while the other holds on; they also compete for the callee's slot, so
  one waits at the gate. `MaxTurns` 1 gives a callee one segment after its first: it may
  wait or hop once, be cancelled there, and go on.
* Drivers. Two calls and one host call: one call in its race while the other begins,
  suspends on the same or on no host call, and leaves; with the two pumps that makes four
  loops. Two host calls were tried as well, and agree; for more calls there is the proof.
* Resources. One representation, three calls of which two are the host's, two wrappers:
  a wrapper lent twice and dropped, a callee that calls on, a slot used again.
* Plan and executor. Three items are an item, one it refers to and one that is not it;
  two core instances of two imports let one import from the other and be marked late.
* Values. Every kind of type, alone, side by side and one in another; `MaxFlat` 3
  spills with four lanes, patterns of 0, 1 and 255 make valid and invalid discriminants,
  booleans and characters. Strings of three or four units contain one unit of every
  length and whole and broken surrogate pairs.
* Caches. Two callers with a failure or crash, one adapter; three instantiations and two
  buffers, one foreign.
* Providers. A high-water mark of two bytes and chunks of one let a stream be below, at
  and above it; two listens and queues of one overflow; two receivers of which one is
  woken in vain; two generations of UDP pairs; two file calls, since every hazard
  listed is between two.

Fairness, per module and no more than the code's scheduling gives:

* `TaskScheduler`: `DriverFairness`: microtasks run, and a driving loop services tails
  and ticks while there is work (it takes the oldest candidate; `Store.tick` and
  `serviceSettled` are called in a loop until nothing is left) and nothing it must yield to. `GuestFairness`: running
  guest code leaves the stack, and does not only hop for ever. `EndingFairness`: each
  invocation returns in the end, what it waits for happens, and a race is won in the end.
  The last is a matter of the embedder, whose host calls are among the promises raced: while
  one race goes on every loop of the store yields (`MCDrivers`, section 5). `GateProgress` also asks
  that backpressure stays off, and excuses instances that died. That a driver does run is
  what `Drivers` shows without JSPI (`WorkIsSeen`, `CallsWatched`). With it, `OwnLoopWakes`
  shows that the loop of a call does not sleep while its own activation has a settled tail or
  is ready; what belongs to a call whose own loop is not the one that sleeps may wait longer,
  and section 5 says when.
* `Subtasks`: the callee's segments leave the stack and driver and engine run; not that
  what the callee waits for comes, since async-start-call is to answer then too. It is
  checked up to the trap of either instance. Without JSPI the start-call never parks.
* `HostStreams`: the microtasks of the pump run (`WriteReturns`, `ReaderGone`,
  `Drained`). Guests and embedder owe nothing.
* `TcpSocket02`, `TcpSocket03`: microtasks run, and the platform ends a dial (the kernel
  gives an unanswered one up), the bind of a listener that nobody closes before it is up
  (node then tells nobody), and a write that can reach nobody. A remote owes nothing: it
  need not read, so a write to a live peer may stay with the kernel for ever, and a spent
  permit comes back only where no write does (`ParkedReturns`).

## 4. Proofs

A theorem holds for every value of the constants that meets the assumptions named in
the module that declares them; TLC evaluates those on each run. Every invariant below
was an invariant of a run before it was proved. The form is always the same: the
first states meet the invariant, each action keeps it (one lemma per action or per
group that leaves the same things alone), and the property follows from it without
induction.

**`TaskScheduler_proofs`**, for any tasks, instances, lift kinds and links
(`TaskAssumption`, `ModeAssumption`, `LinkAssumption`, `BoundAssumption`).

* `TypeCorrect`, `SlotInvariant`, `SlotHeld`: `TypeOK`, `SlotInv`, `ExclusiveSlot`; of two
  tasks that need the slot one at most is then inside a core invocation. `ExclusiveSlot` is not inductive: that `Finish`
  and `Loop` release a slot the task really holds depends on the segment or tail that
  runs them being the only one of its task. `SlotInv` adds `Segments` (a task has one
  segment on the stack, and is at `guest` then) and `SettledTails` (a settled thread is
  queued once, its tail still to run).
* `StoreInvariant`: `SlotInv` with
  `Errands` (only promising activations are ever suspended or between core function and
  tail, only callback lifts wait between invocations, and a pending resumption is of one
  on its way or in a race), `Queued` (the two queues hold the parked threads and the due tails, each
  once, and the gate counts the entrants parked there) and `Lock`. `Lock` says of every
  instance that it is closed exactly while a bracket of the stack locks it or it is
  poisoned, that no instance is entered twice, and of the root that it is closed exactly
  while a host entry is live; without JSPI a trap that unwinds has released the root
  before its frame is gone. All this is needed together: that `leaveTo` finds an instance
  closed needs the stack's shape, that an entrant is not counted twice at the gate needs
  the queues, and both need to know who may be suspended.
* `QueuesHold`, `PendingHolds`: `QueuesExact`, `PendingOnTheWay`.
* `LockMirrorsStack`, `AssertsHold`: `LockBracket`, `NoAssertFails`, where
  `WrappedCallbacks` holds: with JSPI every callback lift is promising. The condition is
  what the run `MCRootRelease` violates: there a cancellation enters a plain callback lift
  that traps, and the root of another entry is released.
* `DeadStaysClosed`: `[][DeadStaysOut]_vars`. `EntryIsFifo`: `NoOvertaking`, under the
  default policy `Fifo`; the step of each action that starts a task is compared with all
  those that wait.

**`MCSchedulers_proofs`** carries this to the run. `SchedulersInv` is that one group of tasks
runs with its `StoreInv` while the tasks of the other two are never called; a task that
is not called takes part in no step. The nested, the plain and the mixed group are three
instances of `TaskScheduler_proofs`, so its lemmas are cited, not repeated. Theorems:
`NoneFails`, `BooksBalance`, `PendingAreOnTheWay`, `DeadAreLeftOut`, one for each property
of the run.

**`Streams_proofs`**, for any instances, both element kinds, both suspension policies
and any bound (`StreamAssumption`, `NoneAssumption`): `TypesHold`, `ParkedSideAlways`,
`ElementsConserved`, `AssertsHold`, `DropIsTold` and `ImplementsChannel`
(`Spec => RendezvousChannel`). The invariant `StreamInv` adds to those properties
`IdleEnd` (an end without an operation keeps no buffer, so its leftovers cannot
be counted with the next one, and only an operation waits synchronously) and
`DropSeen` (a dropped end, or an event that says so, is one of a stream that was
dropped; without it an operation parked after the drop is not excluded). The
refinement goes action by action: what parks opens an operation of the channel
(`ParksOpens`), what meets a parked partner moves elements (`MeetsMoves`), an
event taken or a cancellation ends one (`TakeEnds`), a drop or the retirement
of a dead end closes (`DropCloses`), everything else is a stutter
(`StillIsStutter`).

**`Subtasks_proofs`**, for any calls and handles (`CallAssumption`, in both modes):
`SubtaskInvariant`, `TypesHold`, `LendsBalance` (`LendsAndBorrows`) and `ResolutionOwed`
(`EventOwed`). `SubtaskInv` is `Accounts` and `LendsExact`. An account follows one call: what
its callee may be doing given where the caller has it (`Begun`), how callee and
resolution agree (`Ended`), which event it owes given what the caller was told, a
delivered one lending nothing (`Settled`), and that its callee's borrows are among its
lends, whose handles exist (`Borrowed`). `LendsExact` is a sum over calls; the lemmas on `Lend`, `Release` and
`Unwind` say how each changes one summand.

**`MCHost_proofs`**, about `Futures` and `HostStreams`, for any instances, creators and
bounds (`FutureAssumption`, `LengthAssumption`). The invariants are in layers, by what
they ask of the embedder:

* without any care, types, outstanding operations, the wrapper and its claim:
  `HostTypesHold`, `ClaimsExact`;
* with `Careful`, who holds which handle, whether a value crosses, what each end was told
  and, of a stream, that both sides count the same elements: `NobodyWaits` (`NobodyHangs`);
* with `Careful` and without `Deferred`, that an unwritten future is abandoned and not
  just dropped, and that a producer's values are taken or released:
  `ValueCrossesOnce` (`FutureKept`), `ElementsAccounted` (`ElementsKept`).

`Careful` and `~Deferred` are hypotheses of those theorems because TLC refutes them without
(`MCProducerFailure` is the case of `Deferred`). The lemmas on streams are about the instance
of `HostStreams` that `MCHost` makes; `StreamSetting` is what they take its constants for, and
`StreamConstants` shows that those of `MCHost` are so.

**`MCWasi_proofs`**, for any frames and sets of pollables, listeners, receivers,
addresses, names and calls, and every size of buffers, queues and files (`IoAssumption`,
`TcpAssumption`, `ProviderAssumption`: sizes are naturals, a stream buffers at least
a byte, `None` is no address and no listener, and there are finitely many calls of
`listen`, so that users can be counted). The providers share nothing, so `WasiInv` is five
invariants side by side:

* `SockInv` (`TcpSocket02`, `IoStreams`): what is counted as queued is the sum of the
  queue (`Draining`), the feed is paused from the high-water mark on (`Feeding`), who has
  the connection of a dial in each state of the socket (`Dialling`), and that a frame
  which is parked and was not signalled waits for what is not there (`Parked`). For the last, each
  action that makes something ready is shown to signal the frames that wait for it.
* `SharedInv` (`TcpSocket03`): `StaysOpen` and `ClosesAtLast` follow from `Counted`, that
  `refs` is the number of users, the accept streams among them by cardinality, from
  `Owned`, that a connection is held exactly while it is open and by nobody when `refs` is 0,
  and from `Accepting`, which listener belongs to a live accept stream.
* `UdpInv` (`UdpSockets`): with `LinkAgrees` it needs `DialsDue`, that a connect whose callback is
  due has moved the OS socket and left the provider's remote empty, since both change in
  different steps.
* `HttpInv` (`Http`): how far a request has come and what has been done for it on the way
  (`Egress`), and where the body of the response is given who has it and what its generator
  saw (`Response`).
* `FsInv` (`Filesystem`): the disk differs from the ideal one only before the last step
  of a copying rename (`Agreeing`), provided nothing came between the steps of a call (`Serial`);
  this needs what each call has learnt in earlier steps to be still so (`Knows`), which holds
  because chains are not interleaved then (`Apart`).

Theorems: `WasiInvariant`, and for each safety property of the run `TypesHold`, `NobodySleeps`,
`LentIsReturned`, `FuturesTell`, `ProviderAgrees` and `NothingForbidden`.

**`MCStore_proofs`**, about the parts of a store in `MCStore`, for any callers, host
calls, instantiations, buffers and adapters (`StoreAssumption`: finitely many callers, and
`None`, the two pumps and the arm are no caller and no host call). A step of `MCStore` is
one of one part, so each part has an invariant of its own. Theorems: `CachesAreWhole`,
`StoresAreDriven` and `DeadlocksAreReal`.

* `Shared` (`CompileCache`): a run that awaits a compilation, or has it, came with the
  buffers this was begun for, and the slot says whose compilation it is and of which buffers.
* `CacheInv` (`ArtifactCache`): what each caller has of the entry, and of its own scratch
  directory, given where it is (`ReadWhole`, `WrittenWhole`), and that no file of an entry is
  torn (`EntryWhole`). `WarmInv` says why the cache is warm at the end although callers remove
  each other's entries: in a directory, beside a caller that is through, the other one only
  replaces what it has found or written itself (`DirWarm`, `Replacing`); on the web what a
  caller evicts it puts again (`WebWarm`). TLC refutes `Warm` for three callers in
  a directory, two of which replace what the third has just stored: they may leave a part of
  it, which the next `get` evicts. That bound is in `Warm`.
* `DriverInv` (`Drivers`): `GuestInv` ties an activation to its promise (a queued
  settlement is that of its last promise, and every tail has one); `LoopInv` says where a
  loop may stand and that one that runs is the one in `running`; `Watched`, that
  outside every loop the settlement pump watches each outstanding host call or was nudged.
  For `ResumedOnce` what a loop captured needs no invariant of its own: `SamePromise` compares
  its generation with the present one. `SleepInv` says why the loop of a call wakes up: it fell
  asleep over the promise of its own activation or over the host call that waits for, and from
  then on that is so still, or one of the promises and calls it captured is over (`Seen`),
  whatever the other loops do.

**`Resources_proofs`**, about the resources and the registry in `MCStore`, for any
resources, calls, wrappers, objects and bounds on tables and representations
(`ResourceAssumption`: numbers are positive, there are finitely many calls, so that lends can
be counted; `RegistryAssumption`: `None` is no object and 0 no call). Theorems:
`OwnersAreExact` and `NothingDanglesEver`.

* `ResourceInv` is `Stands` and `Deferring` (a dropped wrapper whose destructor waits is lent).
  `Stands` sees tables as what is at each place (`Holding`) and apart from that as
  well-formed (`IsTables`: what is not used is in the free list, once). It is a statement of values,
  not of variables, with a representation `tr` that has left one owner and not reached the
  next. So a step is followed through the operators it is made of (`Lent`, `Removed`, `Given`,
  `Shown`, `ReleaseLenders`), each shown to keep it, and what two actions share is shown once.
* Ownership: nothing is owned twice (`OwnedOnce`), what is owned is alive (`OwnedLives`) and,
  as long as nothing has trapped, what is alive is owned (`LivesOwned`).
* Lends: a loan is of a wrapper that owns, of a handle that still is there, or of one that
  a trap took, which leaves an own without an owner (`Lending`); `lends` is the number of the
  calls that have such a loan (`Counted`), by cardinality.
* That a borrow is alive is not inductive. A call may lend on what it has itself borrowed, and
  only the first lender's handle keeps the resource. `Resting` says that a loan of a borrow
  rests on a call of the same activation that was lent the same resource and cannot return
  before, since it has not given its borrow back (`Borrowing`); `Ordered`, that
  neither parents nor these loans go round in a circle, so that the loans lead to an owner.
* `RegistryInv` (`HostResources`): the weak direction is that of the strong one and of one
  object each (`Directed`), a handle leads to its object or nowhere (`Registered`), a
  representation that was not lowered as an own again has one who is to release it, an owner or
  a call (`Sole`), and is registered exactly as long as there is one (`Kept`). Without `Sole`
  the first of two to go would take it from the other.

`MCLoad`, whose run checks these properties, extends `MCStore` and starts and steps its
parts as `StoreSpec` does; it instantiates `Values` and `Strings` too, whose operators are
RECURSIVE, and so cannot be the module of a theorem.

**Checked by TLC only.** Plan and executor
(`Wired`, of which `NeverRefused` is ENABLED), values and strings (`ValuesArrive`): types are
trees, and what the operators compute for every type is induction over data, outside the
prover's reach. Liveness (`EveryoneServed`, `StartDecided`, `EndsTold`,
`ParkedReturns`, the pumps) stays with TLC, and so does ENABLED.

## 5. Where code and documentation disagree

Each with a run:

* **MCRootRelease**: poisoning during a cancellation by a guest releases the root that
  the host bracket further down the stack holds.
* **MCStreamLost**: an end removed by a `drop` or transfer that traps is not retired
  with its instance, and the peer waits for ever.
* **MCCancel**: a synchronous `subtask.cancel` takes the STARTED event for the
  resolution it waits for, and an assert fails.
* **MCProducerFailure**: a producer that fails between the adaptation and the lowering
  of its stream is heard by nobody; the guest reads a clean end.
* **MCDrivers**: the speculative entry of one call's race makes the loop of another
  call of the store yield to nothing, until it gives up.

Stated in a module as the documentation has it and refuted by TLC there, without a run
of its own:

* `FinAfterAccepted` (`TcpSocket02`): a shutdown does not wait for accepted writes that
  have not begun.
* `SendsToRemote` (`UdpSockets`): after a connect that failed, a 0.2 stream pair sends to
  the remote to which the OS socket was connected before.
* `ReaderDropSettles` (`TcpSocket03`): the drop of a receive stream whose source waits
  does not settle its future.
* `AcceptDropEnds` (`TcpSocket03`): the generator of an accept stream asks again after a
  failure that it takes for one connection's (sockets_03.ts:689); node's listener keeps its
  failure (sockets_platform.ts:700), so every later accept rejects with it at once, and not
  even the drop of the stream ends the loop ("the generator retires", sockets_03.ts:701).
* `WritesLast` (`Filesystem`): of two writes to one file on the web backend, the one that
  closes last undoes the other. So of overlapping calls no property is checked over that
  backend; `SerialExact`, half of `PlatformAgrees`, is about calls one after another, and
  `NodeExact` about any history over node.
* `TransmissionSettles` (`Http`): a `send` that fails after the message was marked as
  sent leaves its transmission future open (http.ts:899; the comment at 666-668).
* `PostReturnOfCall` (`PlanFormat`): fact_calls.ts:853 looks a post-return up among the
  callbacks; plan.rs:288 and plan-format.md:117 number them apart.
* `HopQuiescence` and `DeferredProgress` (`TaskScheduler`): the hop gate admits a
  deferred call a microtask after it looked, when another activation may hop again; and
  a deferred call waits for the end of the activation rather than of the hop.
* `DeadEndTold` (`Streams`): an end passed to an instance that is already poisoned is
  not retired.
* `PumpDrains` (`Drivers`): "`driveAsync` drains ready threads before consulting `done`"
  (boundary.ts:748), but the drain stops at a serviceable tail (845) and the pump's own
  `done` holds as soon as no host call is pending (757): with JSPI it leaves a settled tail,
  with two host calls a ready thread, and nobody runs them before the embedder calls again.
* `TailsSeen` (`Drivers`): with three calls a loop may tick the activation of another call
  and leave because its own is over; the loop that sleeps does not race the promise that
  was made meanwhile.
* `DoneIsSeen` (`Drivers`): a loop that has won its probe goes on to the race (boundary.ts
  1000-1010) without asking again whether its call is over; the answer of the call then waits
  for a host call of another one.

Seen in `Drivers` with its switches, besides: an activation that the engine continues
registers a host call that a parked loop of its call does not race (the comments at
boundary.ts:881-893 and 529-535), or, after the last loop has left, that nobody
watches; `drive`'s throwing path does not arm the settlement pump (458-462, 701-703),
so that after a parked failure a host call of the call it ends is watched by nobody until
the embedder calls again (the comment at 681-688 says every registration is observed);
without JSPI and with overlapping calls, a host call of the second is not in the
first's race while the pump stands down (723-724); with host calls that settle within
microtasks (`Prompt`), a nudge of the pump between the end of its drive and its own
continuation is lost (769-770).

Known from reading, smaller: the end of a race drops "ONLY ITS OWN ENTRY" (boundary.ts:1056-1063),
but `pendingResumptions` holds threads, so an exact entry of the same thread is the same element. In
`TaskScheduler` a thread that is raced, runs and blocks again can be resumed by a tick before the
race has ended, and `RaceEnds` then drops the entry of that resumption too. A synchronous call given up for want of JSPI (`SyncBails`)
returns its lends while its callee stays in `Store.waiting` with the borrows, and the
next tick lets it run on; the comment in `fact_calls.ts` (714-715) calls this harmless,
and `BorrowAlive` excepts such calls. What an activation lends on of a borrow of
another activation is not kept when that one traps (`BorrowAlive` of `Resources` excepts
it by `across`; TLC needs four calls to show it). The registry of the host's resources is
to keep an object "for exactly as long as the guest holds handles" and to dispose of it when
"the guest dropped its last own handle" (resources.ts:445-446, 513; contracts/embedder-api.md:416).
It counts no handles: when the host lowers an object as an own twice, which `getStdout` and
`getStderr` of wasi/src/cli.ts (152-153) do, the first drop disposes of it and the other handle
leads nowhere; and the end of a call that lent an object releases the representation that an
own has been given since (instantiate.ts:427-438). `LastOwnDisposes` of `HostResources` states the
promise; TLC finds it violated after three steps. `RegistryExact` says what is left: see `shared`.
An own that was taken is lost when a later parameter cannot be
lowered. A `rename` of a file onto itself, copied, removes it. The dispose of a 0.2
socket leaves a dial that has settled and was not finished. The drop of an http body
whose server stalls does not cancel it. A component with wrapped imports and no
lifted export fails `assertModeConsistent` (bridge.ts:345-349). `loadedPlan`'s
freshness is not checked although executor.ts (about 151-154) says both are. An
`{kind: "some"}` without a value lowers a null.

Hazards that `PROJECT.json` leaves out, known and without a property: the attribution of
built-ins to activations in microtasks (scheduler.ts:332), a retired activation that is
neither done nor waiting (thread.ts:172), an asynchronous cancellation whose resolution
another activation takes (async_builtins.ts:570), the callee of a call given up
(fact_calls.ts:780), an end that arrives at a dead instance (stream_builtins.ts:860).

## 6. Not modelled

* World digest, binding generator, test generator, protocol package, test runners and
  browser tools: sequential code on text, build-time or test tooling.
* The translation itself is wasmtime's; the shim is modelled by what it writes.
* Explicit threads, error contexts, subtasks of host imports, the teardown of a store.
* Destructors that suspend; what a core module does when it is started.
* Of the embedder's API the conversion of values to classes, version matching and the
  casing of names: sequential, and tests reach as far as a model would.
* Clocks, arguments, random numbers, name lookup, socket options, nested paths and
  symbolic links of the providers.
* Components are not composed beyond the couplings above: a stream's peer that is
  retired is in `Streams`, a trap that retires it in `TaskScheduler`, and no run
  has both. The state space of either fills a run.

## 7. Plan

Of the safety properties, `Wired` is left to prove, without its ENABLED part and in a
module without the recursive operators. Of the model, the missing
parts of section 6 that interact: explicit threads with the callback loop, and the
teardown of a store.
