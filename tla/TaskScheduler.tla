---------------------------- MODULE TaskScheduler ----------------------------
(* The task scheduler of one store: entry gates, reentrance lock, exclusive   *)
(* slot, suspension and resumption of export activations.                     *)
(*   runtime/src/task/mod.ts        ComponentInstanceState, Task              *)
(*   runtime/src/task/thread.ts     Thread                                    *)
(*   runtime/src/task/scheduler.ts  Store                                     *)
(*   runtime/src/jspi/bridge.ts     SuspensionPoint, blockCurrentActivation   *)
(*   runtime/src/exec/boundary.ts   host entries, callback loop, hop gate     *)
(*   runtime/src/intrinsics/fact_calls.ts, async_builtins.ts  guest entries   *)
(*                                                                            *)
(* One task is one call of one lifted export, with its implicit thread.       *)
(* JavaScript runs to completion: `stack' is the stack of wasm segments that  *)
(* are running now, and the engine's microtasks (an activation continuing, a  *)
(* promise settling) need it empty.  A segment ends by returning, trapping or *)
(* suspending; a "promising" task always suspends into a promise, a plain one *)
(* never does.                                                                *)
EXTENDS Integers, Sequences, FiniteSets, SequencesExt

CONSTANTS
  Tasks,           \* calls of lifted exports, each made at most once
  Insts,           \* component instances of the store
  InstOf,          \* Tasks -> Insts, the callee instance
  Kind,            \* Tasks -> Kinds, the lift's type and options
  HostTasks,       \* the tasks the embedder calls, the others FACT adapters call
  Promising,       \* tasks whose wasm entries are promising-wrapped (none: plain mode)
  Links,           \* pairs <<caller instance, callee instance>> a FACT adapter joins
  Fifo,            \* default policy (TRUE) or the seeded shuffle (FALSE)
  Loops,           \* driving loops that may be caught in the race of their promises
  None,            \* "no thread"
  Root,            \* the synthetic root instance of the store
  MaxBackpressure, \* bound on a guest's backpressure counter
  MaxDepth         \* bound on the nesting of wasm segments

Kinds == {"syncFn", "syncOpt", "callback", "stackful"}

ASSUME TaskAssumption ==
  /\ \A t \in Tasks : InstOf[t] \in Insts /\ Kind[t] \in Kinds
  /\ HostTasks \subseteq Tasks
  /\ Promising \subseteq Tasks
  /\ None \notin Tasks
  /\ Root \notin Insts
ASSUME ModeAssumption == Promising = {} \/ HostTasks \subseteq Promising
ASSUME LinkAssumption == Links \subseteq {l \in Insts \X Insts : l[1] # l[2]}
ASSUME BoundAssumption == MaxBackpressure \in Nat /\ MaxDepth \in Nat /\ Fifo \in BOOLEAN

VARIABLES
  state,               \* Task.state
  pc,                  \* where the task's implicit thread is
  ret,                 \* what its settled wasm invocation returned
  event,               \* the condition its block point waits for holds
  callerInst,          \* instance whose table holds the subtask of the call
  raced,               \* hop promises a deferred host call awaits, by task
  racing,              \* the parked thread a loop's race has put in pendingResumptions
  mayEnter,            \* ComponentInstanceState.mayEnter, the root's included
  poisoned,            \* instances notifyInstancePoisoned has marked
  exclusiveThread,     \* ComponentInstanceState.exclusiveThread
  numWaitingToEnter,   \* ComponentInstanceState.numWaitingToEnter
  backpressure,        \* ComponentInstanceState.backpressure
  waiting,             \* Store.waiting, in wait order
  settled,             \* Store.settled, in settle order
  pendingResumptions,  \* Store.pendingResumptions
  stack,               \* wasm segments and nested drivers on the JS stack
  unwinding,           \* an exception is leaving the top segment's import
  fault                \* the last step that took or left a lock broke an assert_

raceVars  == <<raced, racing>>
taskVars  == <<state, pc, ret, event, callerInst, raceVars>>
lockVars  == <<mayEnter, poisoned, fault>>
gateVars  == <<exclusiveThread, numWaitingToEnter, backpressure>>
queueVars == <<waiting, settled, pendingResumptions>>
jsVars    == <<stack, unwinding>>
vars == <<taskVars, lockVars, gateVars, queueVars, jsVars>>

States == {"initial", "started", "pending-cancel", "cancel-delivered", "resolved"}

(* none: not called; deferred, woken, admitted, refused: a host call at the   *)
(* hop gate; gate: parked in enter_implicit_thread; guest: a wasm segment of  *)
(* it is on the stack; sp, spc: suspended at a (cancellable) SuspensionPoint; *)
(* resumed: the engine will continue it; hop: wasm returned, promise not yet  *)
(* settled; tail: settled, not serviced; loop: between callback invocations;  *)
(* done: finished; dead: ended by a trap, or retired in a poisoned instance.  *)
Places == {"none", "deferred", "woken", "admitted", "refused", "gate", "guest",
           "sp", "spc", "resumed", "hop", "tail", "loop", "done", "dead"}
Codes == {"exit", "yield", "wait", "trap"}
Entries == {"host", "fact", "cancel", "engine", "drive"}
Frames == [task : Tasks \cup {None}, entry : Entries, susp : BOOLEAN]

IsAsync(t) == Kind[t] # "syncFn"
NeedsExclusive(t) == Kind[t] \in {"syncOpt", "callback"}
ReturnsResult(t) == Kind[t] \in {"syncFn", "syncOpt"}
CodesOf(t) == IF Kind[t] = "callback" THEN {"exit", "yield", "wait"} ELSE {"exit"}

\* A store of which nothing was asked yet.
Fresh ==
  /\ state = [t \in Tasks |-> "initial"]
  /\ ret = [t \in Tasks |-> "exit"]
  /\ event = [t \in Tasks |-> FALSE]
  /\ callerInst = [t \in Tasks |-> None]
  /\ raced = [t \in Tasks |-> {}] /\ racing = [d \in Loops |-> None]
  /\ mayEnter = [i \in Insts \cup {Root} |-> TRUE]
  /\ poisoned = {}
  /\ exclusiveThread = [i \in Insts |-> None]
  /\ numWaitingToEnter = [i \in Insts |-> 0]
  /\ backpressure = [i \in Insts |-> 0]
  /\ waiting = <<>> /\ settled = <<>> /\ pendingResumptions = {}
  /\ stack = <<>> /\ unwinding = FALSE /\ fault = FALSE

Init == Fresh /\ pc = [t \in Tasks |-> "none"]

-----------------------------------------------------------------------------
(* The JavaScript stack and the reentrance lock.                              *)

Frame(t, entry) == [task |-> t, entry |-> entry, susp |-> FALSE]
Top == stack[Len(stack)]
Below == SubSeq(stack, 1, Len(stack) - 1)

\* The entering set of a segment: callee and root from the host, the callee
\* alone from a sibling instance, nothing when the engine continues it.
Bracket(f) == CASE f.entry = "host" -> {InstOf[f.task], Root}
                [] f.entry \in {"fact", "cancel"} -> {InstOf[f.task]}
                [] OTHER -> {}

Enterable(i) == mayEnter[i] /\ mayEnter[Root]
Entered(S) == [x \in Insts \cup {Root} |-> mayEnter[x] /\ x \notin S]
Left(S) == [x \in Insts \cup {Root} |-> mayEnter[x] \/ x \in S]
\* The asserts of enterFrom and leaveTo.
CannotEnter(S) == \E x \in S : ~mayEnter[x]
CannotLeave(S) == \E x \in S : mayEnter[x]

\* Guest code of t is executing, outside any import.
Running(t) == /\ stack # <<>> /\ ~unwinding
              /\ Top.task = t /\ ~Top.susp /\ pc[t] = "guest"
\* The embedder executes: from its own turn, or in an import a guest called.
EmbedderTurn == ~unwinding /\ (stack = <<>> \/ \E t \in Tasks : Running(t))
\* A driving loop executes: from a microtask, or inside a nested host call.
DriverTurn == ~unwinding /\ IF stack = <<>> THEN TRUE ELSE Top.entry = "drive"
\* Only in an activation of its own can a guest call a Suspending import.
MaySuspend(t) == t \in Promising
\* Without JSPI (no promising task) imports are called directly.
ImportsOpen(t) == Promising = {} \/ MaySuspend(t)
MayCallOut(t) == Running(t) /\ ImportsOpen(t)

\* The top segment ends: its bracket is left.
EndSegment == /\ stack' = Below
              /\ mayEnter' = Left(Bracket(Top))
              /\ fault' = CannotLeave(Bracket(Top))

-----------------------------------------------------------------------------
(* Entering an instance: Task.enterImplicitThread, Task.start.                *)

\* Mutant: the gate forgets the exclusive slot.
HasBackpressureOnly(t) == backpressure[InstOf[t]] > 0

HasBackpressure(t) ==
  \/ backpressure[InstOf[t]] > 0
  \/ NeedsExclusive(t) /\ exclusiveThread[InstOf[t]] # None

\* Mutant: a newcomer does not look at those already waiting.
GateClosedUnqueued(t) == IsAsync(t) /\ HasBackpressure(t)

GateClosed(t) == IsAsync(t) /\ (HasBackpressure(t) \/ numWaitingToEnter[InstOf[t]] > 0)

WithSlot(t, holder) ==
  IF NeedsExclusive(t) THEN [exclusiveThread EXCEPT ![InstOf[t]] = holder]
                       ELSE exclusiveThread

\* Mutant: an entrant that leaves the gate stays counted.
LeaveGateCounted(i) == numWaitingToEnter

\* The finally of the gate's wait.
LeaveGate(i) == [numWaitingToEnter EXCEPT ![i] = @ - 1]

\* Past the gate: take the slot, start, run the core function.
Start(t, entry, base) ==
  /\ pc' = [pc EXCEPT ![t] = "guest"]
  /\ state' = [state EXCEPT ![t] = "started"]
  /\ exclusiveThread' = WithSlot(t, t)
  /\ stack' = Append(base, Frame(t, entry))
  /\ mayEnter' = Entered(Bracket(Frame(t, entry)))
  /\ fault' = (\/ CannotEnter(Bracket(Frame(t, entry)))
               \/ NeedsExclusive(t) /\ exclusiveThread[InstOf[t]] # None)

\* The bracket is taken; at a closed gate the thread parks and it is left.
Enter(t, entry, base) ==
  \/ /\ GateClosed(t)
     /\ pc' = [pc EXCEPT ![t] = "gate"]
     /\ waiting' = Append(waiting, t)
     /\ numWaitingToEnter' = [numWaitingToEnter EXCEPT ![InstOf[t]] = @ + 1]
     /\ stack' = base
     /\ fault' = CannotEnter(Bracket(Frame(t, entry)))
     /\ UNCHANGED <<state, exclusiveThread, mayEnter>>
  \/ /\ ~GateClosed(t)
     /\ Start(t, entry, base)
     /\ UNCHANGED <<waiting, numWaitingToEnter>>

-----------------------------------------------------------------------------
(* Calls from the embedder: invokeNow, behind the hop-quiescence gate.        *)

\* Activations awaiting a promise no suspension point owns (entryHopThreads).
HopThreads(i) ==
  {t \in Promising : /\ InstOf[t] = i
                     /\ \/ pc[t] \in {"resumed", "hop", "tail"}
                        \/ \E k \in DOMAIN stack :
                             stack[k].task = t /\ stack[k].entry = "engine"}

HostBase == IF stack = <<>> THEN <<>> ELSE Append(stack, Frame(None, "drive"))

HostCall(t) ==
  /\ EmbedderTurn /\ Len(stack) + 1 < MaxDepth
  /\ t \in HostTasks /\ pc[t] = "none"
  /\ Enterable(InstOf[t])
  /\ HopThreads(InstOf[t]) = {}
  /\ Enter(t, "host", HostBase)
  /\ UNCHANGED <<ret, event, callerInst, raceVars, poisoned, backpressure, settled,
                 pendingResumptions, unwinding>>

\* awaitHopQuiescence: race the promises of the hops there are now; one that
\* has settled already ends the race.
RaceHops(t) ==
  IF \E u \in HopThreads(InstOf[t]) : pc[u] = "tail" THEN "woken" ELSE "deferred"

DeferHostCall(t) ==
  /\ EmbedderTurn
  /\ t \in HostTasks /\ pc[t] = "none"
  /\ HopThreads(InstOf[t]) # {}
  /\ pc' = [pc EXCEPT ![t] = RaceHops(t)]
  /\ raced' = [raced EXCEPT ![t] = HopThreads(InstOf[t])]
  /\ UNCHANGED <<state, ret, event, callerInst, racing, lockVars, gateVars, queueVars, jsVars>>

\* Mutant: the tail of a poisoned instance is deferred like any other.
DispatchableLive(t) == Enterable(InstOf[t])

Dispatchable(t) == InstOf[t] \in poisoned \/ Enterable(InstOf[t])
HasServiceableSettled == \E k \in DOMAIN settled : Dispatchable(settled[k])

\* One raced promise settled, the settled tails are serviced: derive again.
RecheckHops(t) ==
  /\ stack = <<>> /\ pc[t] = "woken" /\ ~HasServiceableSettled
  /\ raced' = [raced EXCEPT ![t] = HopThreads(InstOf[t])]
  /\ pc' = [pc EXCEPT ![t] = IF HopThreads(InstOf[t]) = {} THEN "admitted" ELSE RaceHops(t)]
  /\ UNCHANGED <<state, ret, event, callerInst, racing, lockVars, gateVars, queueVars, jsVars>>

\* A microtask later, the .then of the gate runs invokeNow.
AdmittedCall(t) ==
  /\ stack = <<>> /\ pc[t] = "admitted"
  /\ \/ /\ Enterable(InstOf[t])
        /\ Enter(t, "host", <<>>)
        /\ UNCHANGED <<ret, event, callerInst, raceVars, poisoned, backpressure, settled,
                       pendingResumptions, unwinding>>
     \/ /\ ~Enterable(InstOf[t])
        /\ pc' = [pc EXCEPT ![t] = "refused"]
        /\ UNCHANGED <<state, ret, event, callerInst, raceVars, lockVars, gateVars,
                       queueVars, jsVars>>

-----------------------------------------------------------------------------
(* What running guest code does.                                              *)

\* The caller's segment, waiting for a Suspending import to come back.
Calling(u) == Append(Below, [Top EXCEPT !.susp = MaySuspend(u)])

\* Mutant: the callee is not asked whether it can be entered.
CalleeUnasked(t) == TRUE

\* mayEnterFrom(caller instance).
CalleeEnterable(t) == mayEnter[InstOf[t]]

\* async-start-call and sync-start-call: u calls t through a FACT adapter.
GuestCall(u, t) ==
  /\ MayCallOut(u) /\ Len(stack) < MaxDepth
  /\ t \notin HostTasks /\ pc[t] = "none" /\ <<InstOf[u], InstOf[t]>> \in Links
  /\ CalleeEnterable(t)
  /\ callerInst' = [callerInst EXCEPT ![t] = InstOf[u]]
  /\ Enter(t, "fact", Calling(u))
  /\ UNCHANGED <<ret, event, raceVars, poisoned, backpressure, settled,
                 pendingResumptions, unwinding>>

GuestTaskReturn(t) ==
  /\ Running(t) /\ ~ReturnsResult(t)
  /\ state[t] \in {"started", "pending-cancel", "cancel-delivered"}
  /\ state' = [state EXCEPT ![t] = "resolved"]
  /\ UNCHANGED <<pc, ret, event, callerInst, raceVars, lockVars, gateVars, queueVars, jsVars>>

GuestTaskCancel(t) ==
  /\ Running(t) /\ ~ReturnsResult(t) /\ state[t] = "cancel-delivered"
  /\ state' = [state EXCEPT ![t] = "resolved"]
  /\ UNCHANGED <<pc, ret, event, callerInst, raceVars, lockVars, gateVars, queueVars, jsVars>>

\* Mutant: backpressure.dec does not trap at zero.
GuestBackpressureUnchecked(t) ==
  /\ Running(t)
  /\ \E d \in {1, -1} : backpressure' = [backpressure EXCEPT ![InstOf[t]] = @ + d]
  /\ UNCHANGED <<taskVars, lockVars, exclusiveThread, numWaitingToEnter, queueVars, jsVars>>

GuestBackpressure(t) ==
  /\ Running(t)
  /\ \E d \in {1, -1} :
       /\ backpressure[InstOf[t]] + d \in 0..MaxBackpressure
       /\ backpressure' = [backpressure EXCEPT ![InstOf[t]] = @ + d]
  /\ UNCHANGED <<taskVars, lockVars, exclusiveThread, numWaitingToEnter, queueVars, jsVars>>

\* The top segment, whether or not an import of it is on its way back.
TopOf(t) == stack # <<>> /\ ~unwinding /\ Top.task = t /\ pc[t] = "guest"

\* A built-in that completed at once still returns through a microtask.
GuestHops(t) ==
  /\ TopOf(t) /\ MaySuspend(t)
  /\ pc' = [pc EXCEPT ![t] = "resumed"]
  /\ EndSegment
  /\ UNCHANGED <<state, ret, event, callerInst, raceVars, poisoned, gateVars, queueVars, unwinding>>

\* deliverPendingCancel: a cancellable block point meets a recorded request.
GuestMeetsCancel(t) ==
  /\ Running(t) /\ MaySuspend(t) /\ state[t] = "pending-cancel"
  /\ state' = [state EXCEPT ![t] = "cancel-delivered"]
  /\ pc' = [pc EXCEPT ![t] = "resumed"]
  /\ EndSegment
  /\ UNCHANGED <<ret, event, callerInst, raceVars, poisoned, gateVars, queueVars, unwinding>>

\* consumePendingIfRunning.
ConsumePending(t) == pendingResumptions \ {t}

\* blockCurrentActivation: a built-in parks the activation on a condition.
GuestBlocks(t) ==
  /\ TopOf(t) /\ MaySuspend(t)
  /\ \E cancellable, ready \in BOOLEAN :
       /\ cancellable => (~Top.susp /\ state[t] # "pending-cancel")
       /\ pc' = [pc EXCEPT ![t] = IF cancellable THEN "spc" ELSE "sp"]
       /\ event' = [event EXCEPT ![t] = ready]
  /\ waiting' = Append(waiting, t)
  /\ pendingResumptions' = ConsumePending(t)
  /\ EndSegment
  /\ UNCHANGED <<state, ret, callerInst, raceVars, poisoned, gateVars, settled, unwinding>>

-----------------------------------------------------------------------------
(* After a core invocation: liftBody, runCallbackLoop, exitImplicitThread.    *)

\* exit_implicit_thread: a sync lift resolves by its result, other lifts have
\* called task.return or task.cancel (or the exit traps).
MayExit(t) == ReturnsResult(t) \/ state[t] = "resolved"
SlotLost(t) == NeedsExclusive(t) /\ exclusiveThread[InstOf[t]] # t

\* Mutant: exit_implicit_thread forgets the slot.
FinishKeepingSlot(t) ==
  /\ pc' = [pc EXCEPT ![t] = "done"]
  /\ state' = [state EXCEPT ![t] = "resolved"]
  /\ UNCHANGED <<event, waiting, exclusiveThread>>

Finish(t) ==
  /\ pc' = [pc EXCEPT ![t] = "done"]
  /\ state' = [state EXCEPT ![t] = "resolved"]
  /\ exclusiveThread' = WithSlot(t, None)
  /\ UNCHANGED <<event, waiting>>

\* YIELD and WAIT: give the slot up and wait for it and for the event.
Loop(t, code) ==
  /\ pc' = [pc EXCEPT ![t] = "loop"]
  /\ exclusiveThread' = WithSlot(t, None)
  /\ event' = [event EXCEPT ![t] = code = "yield"]
  /\ waiting' = Append(waiting, t)
  /\ UNCHANGED state

\* The wait meets a recorded cancellation: the callback runs again at once.
CancelAtWait(t) ==
  /\ pc' = [pc EXCEPT ![t] = "guest"]
  /\ state' = [state EXCEPT ![t] = "cancel-delivered"]
  /\ UNCHANGED <<event, waiting, exclusiveThread>>

\* Promising: the invocation's result travels through a promise.
ReturnHops(t, code) ==
  /\ Running(t) /\ MaySuspend(t) /\ code \in CodesOf(t)
  /\ pc' = [pc EXCEPT ![t] = "hop"]
  /\ ret' = [ret EXCEPT ![t] = code]
  /\ EndSegment
  /\ UNCHANGED <<state, event, callerInst, raceVars, poisoned, gateVars, queueVars, unwinding>>

\* Plain: the generator continues in the same bracket.
ReturnPlain(t, code) ==
  /\ Running(t) /\ ~MaySuspend(t) /\ code \in CodesOf(t)
  /\ \/ code = "exit" /\ MayExit(t) /\ Finish(t)
     \/ code # "exit" /\ state[t] # "pending-cancel" /\ Loop(t, code)
  /\ stack' = Below
  /\ mayEnter' = Left(Bracket(Top))
  /\ fault' = (CannotLeave(Bracket(Top)) \/ SlotLost(t))
  /\ UNCHANGED <<ret, callerInst, raceVars, poisoned, numWaitingToEnter, backpressure,
                 settled, pendingResumptions, unwinding>>

ReturnToCancel(t, code) ==
  /\ Running(t) /\ ~MaySuspend(t) /\ code \in CodesOf(t)
  /\ code # "exit" /\ state[t] = "pending-cancel" /\ CancelAtWait(t)
  /\ fault' = SlotLost(t)
  /\ UNCHANGED <<ret, callerInst, raceVars, mayEnter, poisoned, numWaitingToEnter,
                 backpressure, settled, pendingResumptions, jsVars>>

-----------------------------------------------------------------------------
(* Traps, and the poisoning of an instance.                                   *)

TopIsGuest == stack # <<>> /\ Top.task # None

\* A promising activation: the trap becomes the rejection of its promise.
TrapHops(t) ==
  /\ TopIsGuest /\ Top.task = t /\ MaySuspend(t) /\ (unwinding \/ ~Top.susp)
  /\ pc' = [pc EXCEPT ![t] = "hop"]
  /\ ret' = [ret EXCEPT ![t] = "trap"]
  /\ unwinding' = FALSE
  /\ EndSegment
  /\ UNCHANGED <<state, event, callerInst, raceVars, poisoned, gateVars, queueVars>>

\* Below a nested host entry lies the driver that reports its failure.
PopEntry == IF Top.entry = "host" /\ Below # <<>> /\ Last(Below).entry = "drive"
            THEN SubSeq(Below, 1, Len(Below) - 1) ELSE Below

\* The start-calls alone do not release the root.
RootReleased(entry) == [mayEnter EXCEPT ![Root] = @ \/ entry \in {"host", "cancel"}]

\* A plain one: the bracket stays broken, and from a guest's built-in the trap
\* goes on to its caller.
TrapPoisons(t) ==
  /\ TopIsGuest /\ Top.task = t /\ ~MaySuspend(t)
  /\ pc' = [pc EXCEPT ![t] = "dead"]
  /\ poisoned' = poisoned \cup {InstOf[t]}
  /\ mayEnter' = RootReleased(Top.entry)
  /\ stack' = PopEntry
  /\ unwinding' = (Top.entry \in {"fact", "cancel"})
  /\ UNCHANGED <<state, ret, event, callerInst, raceVars, fault, gateVars, queueVars>>

-----------------------------------------------------------------------------
(* Cancellation: subtask.cancel and Task.requestCancellation.                 *)

SlotElsewhere(t) ==
  NeedsExclusive(t) /\ exclusiveThread[InstOf[t]] \notin {None, t}

Deliverable(t) == pc[t] \in {"loop", "spc"} /\ ~SlotElsewhere(t) /\ mayEnter[InstOf[t]]

StopWaiting(t) == \E k \in DOMAIN waiting : waiting[k] = t /\ waiting' = RemoveAt(waiting, k)

MayCancel(u, t) == /\ MayCallOut(u) /\ callerInst[t] = InstOf[u]
                   /\ pc[t] \notin {"none", "guest"}

\* Parked at the gate: it never starts.
CancelAtGate(u, t) ==
  /\ MayCancel(u, t) /\ pc[t] = "gate"
  /\ pc' = [pc EXCEPT ![t] = "done"]
  /\ state' = [state EXCEPT ![t] = "resolved"]
  /\ numWaitingToEnter' = LeaveGate(InstOf[t])
  /\ StopWaiting(t)
  /\ stack' = Calling(u)
  /\ UNCHANGED <<ret, event, callerInst, raceVars, lockVars, exclusiveThread, backpressure,
                 settled, pendingResumptions, unwinding>>

\* Between callback invocations: the callback runs with TASK_CANCELLED.
CancelAtLoop(u, t) ==
  /\ MayCancel(u, t) /\ Len(stack) < MaxDepth
  /\ state[t] = "started" /\ pc[t] = "loop" /\ Deliverable(t)
  /\ pc' = [pc EXCEPT ![t] = "guest"]
  /\ state' = [state EXCEPT ![t] = "cancel-delivered"]
  /\ exclusiveThread' = WithSlot(t, t)
  /\ StopWaiting(t)
  /\ stack' = Append(Calling(u), Frame(t, "cancel"))
  /\ mayEnter' = Entered({InstOf[t]})
  /\ fault' = (CannotEnter({InstOf[t]}) \/ exclusiveThread[InstOf[t]] # None)
  /\ UNCHANGED <<ret, event, callerInst, raceVars, poisoned, numWaitingToEnter, backpressure,
                 settled, pendingResumptions, unwinding>>

\* At a cancellable suspension point: its promise settles, the engine resumes
\* the activation later; the canceller's own pending entry is consumed.
CancelAtPoint(u, t) ==
  /\ MayCancel(u, t) /\ state[t] = "started" /\ pc[t] = "spc" /\ Deliverable(t)
  /\ pc' = [pc EXCEPT ![t] = "resumed"]
  /\ state' = [state EXCEPT ![t] = "cancel-delivered"]
  /\ StopWaiting(t)
  /\ pendingResumptions' = ConsumePending(u) \cup {t}
  /\ stack' = Calling(u)
  /\ fault' = CannotEnter({InstOf[t]})
  /\ UNCHANGED <<ret, event, callerInst, raceVars, mayEnter, poisoned, gateVars, settled, unwinding>>

\* No block point takes it now: the next cancellable one will.
CancelRecorded(u, t) ==
  /\ MayCancel(u, t) /\ state[t] = "started" /\ ~Deliverable(t)
  /\ state' = [state EXCEPT ![t] = "pending-cancel"]
  /\ stack' = Calling(u)
  /\ UNCHANGED <<pc, ret, event, callerInst, raceVars, lockVars, gateVars, queueVars, unwinding>>

-----------------------------------------------------------------------------
(* The engine's microtasks.                                                   *)

EngineResume(t) ==
  /\ stack = <<>> /\ pc[t] = "resumed"
  /\ pc' = [pc EXCEPT ![t] = "guest"]
  /\ stack' = <<Frame(t, "engine")>>
  /\ UNCHANGED <<state, ret, event, callerInst, raceVars, lockVars, gateVars, queueVars, unwinding>>

\* noteAwaiting's continuation; it also ends the race of deferred host calls.
Settle(t) ==
  /\ stack = <<>> /\ pc[t] = "hop"
  /\ pc' = [u \in DOMAIN pc |-> IF u = t THEN "tail"
                            ELSE IF pc[u] = "deferred" /\ t \in raced[u] THEN "woken"
                            ELSE pc[u]]
  /\ settled' = Append(settled, t)
  /\ pendingResumptions' = pendingResumptions \ {t}
  /\ UNCHANGED <<state, ret, event, callerInst, raceVars, lockVars, gateVars, waiting, jsVars>>

-----------------------------------------------------------------------------
(* The driving loops: Store.serviceSettled (or a race winner's resumeWith)    *)
(* and Store.tick.                                                            *)

TakeSettled(t) ==
  /\ DriverTurn
  /\ \E k \in DOMAIN settled : /\ settled[k] = t /\ Dispatchable(t)
                               /\ settled' = RemoveAt(settled, k)
  /\ ret' = [ret EXCEPT ![t] = "exit"]

\* resumeWith on a corpse: retired quietly.
ServiceRetired(t) ==
  /\ TakeSettled(t) /\ InstOf[t] \in poisoned
  /\ pc' = [pc EXCEPT ![t] = "dead"]
  /\ UNCHANGED <<state, event, callerInst, raceVars, lockVars, gateVars, waiting,
                 pendingResumptions, jsVars>>

\* The tail runs to its end or to the next wait inside a host bracket.
ServiceReturn(t) ==
  /\ TakeSettled(t) /\ InstOf[t] \notin poisoned
  /\ \/ ret[t] = "exit" /\ MayExit(t) /\ Finish(t)
     \/ ret[t] \in {"yield", "wait"} /\ state[t] # "pending-cancel" /\ Loop(t, ret[t])
  /\ fault' = (CannotEnter({InstOf[t], Root}) \/ SlotLost(t))
  /\ UNCHANGED <<callerInst, raceVars, mayEnter, poisoned, numWaitingToEnter, backpressure,
                 pendingResumptions, jsVars>>

ServiceToCancel(t) ==
  /\ TakeSettled(t) /\ InstOf[t] \notin poisoned /\ Len(stack) < MaxDepth
  /\ ret[t] \in {"yield", "wait"} /\ state[t] = "pending-cancel" /\ CancelAtWait(t)
  /\ stack' = Append(stack, Frame(t, "host"))
  /\ mayEnter' = Entered({InstOf[t], Root})
  /\ fault' = (CannotEnter({InstOf[t], Root}) \/ SlotLost(t))
  /\ UNCHANGED <<callerInst, raceVars, poisoned, numWaitingToEnter, backpressure,
                 pendingResumptions, unwinding>>

\* Mutant: the bracket is left as after a normal return.
LeftAfterTrap(i) == mayEnter

\* The bracket is never left, but the root is released.
Broken(i) == Entered({i})

\* Deferred host calls that service the settled tails before they look again.
Rechecking == {u \in Tasks : stack = <<>> /\ pc[u] = "woken"}

\* A rejection, or an exit without a resolution: the instance stays locked, and the
\* trap goes to whoever serviced the tail, a driver or the recheck of another call.
ServiceTrap(t) ==
  /\ TakeSettled(t) /\ InstOf[t] \notin poisoned
  /\ (ret[t] = "trap" \/ (ret[t] = "exit" /\ ~MayExit(t)))
  /\ \/ pc' = [pc EXCEPT ![t] = "dead"]
     \/ \E u \in Rechecking : pc' = [pc EXCEPT ![u] = "refused", ![t] = "dead"]
  /\ poisoned' = poisoned \cup {InstOf[t]}
  /\ mayEnter' = Broken(InstOf[t])
  /\ fault' = CannotEnter({InstOf[t], Root})
  /\ UNCHANGED <<state, event, callerInst, raceVars, gateVars, waiting,
                 pendingResumptions, jsVars>>

Ready(t) == CASE pc[t] = "gate" -> ~HasBackpressure(t)
              [] pc[t] = "loop" -> event[t] /\ exclusiveThread[InstOf[t]] = None
              [] pc[t] \in {"sp", "spc"} -> event[t]
              [] OTHER -> FALSE

Candidate(t) == Ready(t) /\ Enterable(InstOf[t])

\* Nothing resumed has still to run, no tail is due, t is chosen.
Chosen(t) ==
  /\ DriverTurn
  /\ \E k \in DOMAIN waiting :
       /\ waiting[k] = t /\ Candidate(t)
       /\ Fifo => \A j \in 1..(k - 1) : ~Candidate(waiting[j])
       /\ waiting' = RemoveAt(waiting, k)
  /\ pendingResumptions = {} /\ ~HasServiceableSettled

TickGate(t) ==
  /\ Chosen(t) /\ pc[t] = "gate" /\ Len(stack) < MaxDepth
  /\ numWaitingToEnter' = LeaveGate(InstOf[t])
  /\ Start(t, "host", stack)
  /\ UNCHANGED <<ret, event, callerInst, raceVars, poisoned, backpressure, settled,
                 pendingResumptions, unwinding>>

TickLoop(t) ==
  /\ Chosen(t) /\ pc[t] = "loop" /\ Len(stack) < MaxDepth
  /\ pc' = [pc EXCEPT ![t] = "guest"]
  /\ event' = [event EXCEPT ![t] = FALSE]
  /\ exclusiveThread' = WithSlot(t, t)
  /\ stack' = Append(stack, Frame(t, "host"))
  /\ mayEnter' = Entered({InstOf[t], Root})
  /\ fault' = (CannotEnter({InstOf[t], Root}) \/ exclusiveThread[InstOf[t]] # None)
  /\ UNCHANGED <<state, ret, callerInst, raceVars, poisoned, numWaitingToEnter,
                 backpressure, settled, pendingResumptions, unwinding>>

TickPoint(t) ==
  /\ Chosen(t) /\ pc[t] \in {"sp", "spc"}
  /\ pc' = [pc EXCEPT ![t] = "resumed"]
  /\ event' = [event EXCEPT ![t] = FALSE]
  /\ pendingResumptions' = {t}
  /\ fault' = CannotEnter({InstOf[t], Root})
  /\ UNCHANGED <<state, ret, callerInst, raceVars, mayEnter, poisoned, gateVars, settled, jsVars>>

\* Store.awaiting, without the tails that are queued.
Awaiting ==
  {t \in Promising : \/ pc[t] \in {"sp", "spc", "resumed", "hop"}
                     \/ \E k \in DOMAIN stack : stack[k].task = t /\ stack[k].entry = "engine"}

\* Nothing is left to service or to tick: the loop awaits every promise, and enters
\* one of their threads for the time of the race, for the engine may run it.
Race(d, t) ==
  /\ DriverTurn /\ racing[d] = None /\ t \in Awaiting
  /\ pendingResumptions = {} /\ ~HasServiceableSettled
  /\ \A k \in DOMAIN waiting : ~Candidate(waiting[k])
  /\ racing' = [racing EXCEPT ![d] = t]
  /\ pendingResumptions' = {t}
  /\ UNCHANGED <<state, pc, ret, event, callerInst, raced, lockVars, gateVars, waiting, settled, jsVars>>

\* Mutant: the loop leaves the entry of its race behind.
RaceEndsEntered(d) ==
  /\ stack = <<>> /\ racing[d] # None
  /\ racing' = [racing EXCEPT ![d] = None]
  /\ UNCHANGED <<state, pc, ret, event, callerInst, raced, lockVars, gateVars, queueVars, jsVars>>

\* One of the promises has settled, a host call's perhaps.  The entry goes by the
\* thread's identity, whoever else has entered it meanwhile.
RaceEnds(d) ==
  /\ stack = <<>> /\ racing[d] # None
  /\ racing' = [racing EXCEPT ![d] = None]
  /\ pendingResumptions' = pendingResumptions \ {racing[d]}
  /\ UNCHANGED <<state, pc, ret, event, callerInst, raced, lockVars, gateVars, waiting, settled, jsVars>>

\* The nested driver reaches its first await.
DriveYields ==
  /\ DriverTurn /\ stack # <<>>
  /\ stack' = Below
  /\ UNCHANGED <<taskVars, lockVars, gateVars, queueVars, unwinding>>

\* Outside this model: the awaited event, stream or subtask makes progress.
Signal(t) ==
  /\ pc[t] \in {"sp", "spc", "loop"} /\ ~event[t]
  /\ event' = [event EXCEPT ![t] = TRUE]
  /\ UNCHANGED <<state, pc, ret, callerInst, raceVars, lockVars, gateVars, queueVars, jsVars>>

-----------------------------------------------------------------------------
Engine(t) == EngineResume(t) \/ Settle(t)
Service(t) == ServiceRetired(t) \/ ServiceReturn(t) \/ ServiceToCancel(t) \/ ServiceTrap(t)
Tick(t) == TickGate(t) \/ TickLoop(t) \/ TickPoint(t)
HostGate(t) == RecheckHops(t) \/ AdmittedCall(t)
GuestReturn(t) == \E c \in Codes : ReturnHops(t, c) \/ ReturnPlain(t, c) \/ ReturnToCancel(t, c)
Trap(t) == TrapHops(t) \/ TrapPoisons(t)
GuestStep(t) == \/ GuestTaskReturn(t) \/ GuestTaskCancel(t) \/ GuestBackpressure(t)
                \/ GuestHops(t) \/ GuestMeetsCancel(t) \/ GuestBlocks(t)
Cancel(u, t) == \/ CancelAtGate(u, t) \/ CancelAtLoop(u, t)
                \/ CancelAtPoint(u, t) \/ CancelRecorded(u, t)

Next ==
  \/ \E t \in Tasks : \/ HostCall(t) \/ DeferHostCall(t) \/ HostGate(t)
                      \/ GuestStep(t) \/ GuestReturn(t) \/ Trap(t)
                      \/ Engine(t) \/ Service(t) \/ Tick(t) \/ Signal(t)
  \/ \E u, t \in Tasks : GuestCall(u, t) \/ Cancel(u, t)
  \/ \E d \in Loops : RaceEnds(d) \/ \E t \in Tasks : Race(d, t)
  \/ DriveYields

Spec == Init /\ [][Next]_vars

\* Fairness: every microtask runs, a live driver keeps servicing and ticking.
DriverFairness ==
  /\ \A t \in Tasks : /\ WF_vars(Engine(t)) /\ WF_vars(HostGate(t))
                      /\ WF_vars(Service(t)) /\ WF_vars(Tick(t))
  /\ WF_vars(DriveYields)
\* Guest code that runs leaves the stack, and does not only hop for ever: in
\* the end it returns to the host or blocks.
GuestFairness ==
  \A t \in Tasks : /\ WF_vars(GuestReturn(t) \/ Trap(t) \/ GuestHops(t))
                   /\ SF_vars(GuestReturn(t) \/ GuestBlocks(t))
\* Every invocation ends sooner or later, what it waits for happens, and a loop's race
\* is won in the end.
EndingFairness ==
  /\ \A t \in Tasks : SF_vars(GuestReturn(t)) /\ WF_vars(Signal(t))
  /\ \A d \in Loops : WF_vars(RaceEnds(d))

DrivenSpec == Spec /\ DriverFairness /\ GuestFairness
LiveSpec == DrivenSpec /\ EndingFairness

-----------------------------------------------------------------------------
(* Properties.                                                                *)

\* Every variable keeps its type.
TypeOK ==
  /\ state \in [Tasks -> States]
  /\ pc \in [Tasks -> Places]
  /\ ret \in [Tasks -> Codes]
  /\ event \in [Tasks -> BOOLEAN]
  /\ callerInst \in [Tasks -> Insts \cup {None}]
  /\ raced \in [Tasks -> SUBSET Tasks] /\ racing \in [Loops -> Tasks \cup {None}]
  /\ mayEnter \in [Insts \cup {Root} -> BOOLEAN]
  /\ poisoned \subseteq Insts
  /\ exclusiveThread \in [Insts -> Tasks \cup {None}]
  /\ numWaitingToEnter \in [Insts -> Int]
  /\ backpressure \in [Insts -> Nat]
  /\ waiting \in Seq(Tasks) /\ settled \in Seq(Tasks)
  /\ pendingResumptions \subseteq Tasks
  /\ stack \in Seq(Frames)
  /\ unwinding \in BOOLEAN /\ fault \in BOOLEAN

MidInvocation == {"guest", "sp", "spc", "resumed", "hop", "tail"}

\* A task that needs the exclusive slot holds it during the whole of every
\* core invocation, suspended or not, and nobody else holds it; only a dead
\* task may keep it (Task.enterImplicitThread, runCallbackLoop).
ExclusiveSlot ==
  /\ \A t \in Tasks : NeedsExclusive(t) /\ pc[t] \in MidInvocation
                        => exclusiveThread[InstOf[t]] = t
  /\ \A i \in Insts : exclusiveThread[i] # None =>
       /\ InstOf[exclusiveThread[i]] = i /\ NeedsExclusive(exclusiveThread[i])
       /\ pc[exclusiveThread[i]] \in MidInvocation \cup {"dead"}

\* Each task has at most one segment on the stack, and is at "guest" then.
Segments(s) ==
  /\ \A k \in DOMAIN s : s[k].task # None => pc[s[k].task] = "guest"
  /\ \A j, k \in DOMAIN s : s[k].task # None /\ s[j].task = s[k].task => j = k

\* A thread is in the settled queue at most once, with its tail still to run.
SettledTails ==
  /\ \A k \in DOMAIN settled : pc[settled[k]] = "tail"
  /\ \A j, k \in DOMAIN settled : settled[j] = settled[k] => j = k

\* Why the slot is safe: a task gives the slot up only from its own segment or
\* its own tail, and both are unique.  Inductive.
SlotInv == TypeOK /\ Segments(stack) /\ SettledTails /\ ExclusiveSlot

OnStack(entries, i) == \E k \in DOMAIN stack : /\ stack[k].entry \in entries
                                               /\ InstOf[stack[k].task] = i
HostFrames == {k \in DOMAIN stack : stack[k].entry = "host"}

\* The reentrance lock says what is on the stack: an instance is closed iff a
\* segment entered it or it is poisoned, the root iff one host entry is live.
LockBracket ==
  ~unwinding =>
    /\ \A i \in Insts : mayEnter[i] <=> ~OnStack({"host", "fact", "cancel"}, i) /\ i \notin poisoned
    /\ mayEnter[Root] <=> HostFrames = {}
    /\ Cardinality(HostFrames) <= 1

\* No assert_ of the lock, the gate or the callback loop ever fails.
NoAssertFails == ~fault

\* num_waiting_to_enter counts the parked entrants, and the scheduler's two
\* queues hold each parked thread and each settled tail exactly once.
QueuesExact ==
  /\ \A i \in Insts : numWaitingToEnter[i] =
                        Cardinality({t \in Tasks : pc[t] = "gate" /\ InstOf[t] = i})
  /\ ToSet(waiting) = {t \in Tasks : pc[t] \in {"gate", "sp", "spc", "loop"}}
  /\ ToSet(settled) = {t \in Tasks : pc[t] = "tail"}
  /\ IsInjective(waiting) /\ IsInjective(settled)

\* An entry of pendingResumptions, at which every loop of the store yields, names an
\* activation that is on its way or that a loop still races: none outlives the park
\* or the end of its activation, nor the race it was made for.
PendingOnTheWay ==
  \A t \in pendingResumptions :
    pc[t] \in {"resumed", "guest", "hop"} \/ \E d \in Loops : racing[d] = t

\* Once poisoned an instance stays closed, and no segment of it is entered
\* again by the scheduler, a host call, a guest call or a cancellation.
DeadStaysOut ==
  \A i \in poisoned :
    /\ i \in poisoned' /\ ~mayEnter'[i]
    /\ \A t \in Tasks : InstOf[t] = i /\ pc[t] \notin {"resumed", "guest"} => pc'[t] # "guest"

Precedes(t, u) == \E j, k \in DOMAIN waiting : j < k /\ waiting[j] = t /\ waiting[k] = u

\* Under the FIFO policy entry is a queue: a task is not started while one
\* with the same needs waits at the gate of its instance ahead of it.
NoOvertaking ==
  [][\A t, u \in Tasks :
       /\ t # u /\ InstOf[t] = InstOf[u] /\ IsAsync(u) /\ NeedsExclusive(t) = NeedsExclusive(u)
       /\ pc[t] = "gate" /\ (pc[u] = "gate" => Precedes(t, u))
       /\ pc[u] \in {"none", "admitted", "gate"}
       => pc'[u] # "guest"]_vars

\* The hop-quiescence gate: no host call enters an instance one of whose
\* activations is between its core function and its lift.  (No run: the code breaks it.)
HopQuiescence ==
  [][\A t \in HostTasks : /\ pc[t] \in {"none", "admitted"} /\ pc'[t] \in {"guest", "gate"}
                          => HopThreads(InstOf[t]) = {}]_vars

\* Nobody starves at the entry gate: once backpressure stays off, the FIFO and
\* the slot every invocation gives back bring each entrant in, unless its
\* instance dies.
GateProgress ==
  <>[](\A i \in Insts : backpressure[i] = 0) =>
    \A t \in Tasks : pc[t] = "gate" ~> (pc[t] # "gate" \/ InstOf[t] \in poisoned)

\* A settled tail is serviced, even if its instance died.
TailsServiced == \A t \in Tasks : pc[t] = "tail" ~> pc[t] # "tail"

\* Nobody is left waiting: an entrant at the gate and a settled tail are served.
EveryoneServed == GateProgress /\ TailsServiced

\* A deferred host call is let in or refused in the end, also when other activations
\* wait for ever.  (No run: the code breaks it.)
DeferredProgress ==
  \A t \in Tasks : pc[t] = "deferred" ~> pc[t] \notin {"deferred", "woken"}
=============================================================================
