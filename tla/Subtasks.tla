------------------------------ MODULE Subtasks ------------------------------
(* The caller's side of calls from one component instance to another: the     *)
(* subtask, the handles it lends, its events, its cancellation.               *)
(*   runtime/src/task/subtask.ts               Subtask                        *)
(*   runtime/src/task/waitable.ts              Waitable                       *)
(*   runtime/src/task/mod.ts                   Task                           *)
(*   runtime/src/intrinsics/fact_calls.ts      *-start-call                   *)
(*   runtime/src/intrinsics/async_builtins.ts  subtask.cancel, subtask.drop   *)
(*   runtime/src/intrinsics/mod.ts, runtime/src/cabi/handles.ts               *)
(*                                             borrows, resource.drop         *)
(*                                                                            *)
(* One caller instance, whose activations are not told apart, calls exports   *)
(* of one callee instance that need its exclusive slot.  Its handles are      *)
(* owning ones of resources that the callee does not implement.  JavaScript   *)
(* runs to completion: `run' is the callee in a segment now, started by the   *)
(* caller's built-in (`entered'), by a tick or by the engine.  The settlement *)
(* of a promising segment that returned or trapped is one more hop.           *)
EXTENDS Integers, FiniteSets

CONSTANTS
  Calls,    \* calls, each made at most once
  Handles,  \* the caller's own handles
  Lent,     \* Calls -> SUBSET Handles, the borrows a call passes
  Modes,    \* the suspension modes: wasm frames can suspend, or cannot
  None,     \* "no call"
  MaxTurns  \* bound on the segments of a callee after its first

ASSUME CallAssumption ==
  /\ Lent \in [Calls -> SUBSET Handles]
  /\ Modes \subseteq {"plain", "jspi"} /\ None \notin Calls /\ MaxTurns \in Nat
  /\ IsFiniteSet(Calls)

VARIABLES
  mode,       \* the suspension mode, for good
  st,         \* Subtask.state; of a synchronous call, whether results came
  place,      \* where the caller has the call: see Places
  lenders,    \* Subtask.lenders, or the lenders of a synchronous call
  delivered,  \* Subtask.lenders is null
  ev,         \* the subtask has a pending event
  inSet,      \* it is in a waitable set
  cancel,     \* subtask.cancel: not called, inside it, parked in it, or over
  told,       \* the state the caller's code last learnt
  handle,     \* whether the caller's table still holds a handle
  numLends,   \* ResourceHandle.numLends
  callee,     \* where the callee's implicit thread is: see Spots
  state,      \* Task.state
  woken,      \* the condition the callee's block point waits for holds
  borrows,    \* the borrow handles of the call in the callee's table
  turns,      \* segments the callee had after its first
  closed,     \* backpressure of the callee instance
  run,        \* the callee in a segment now
  entered,    \* the call in whose built-in the caller is, on the JS stack
  dead,       \* instances a trap has ended: "caller", "callee"
  fault       \* the assert_ the last step broke

subVars  == <<st, place, lenders, delivered, ev, inSet, cancel, told, numLends>>
taskVars == <<callee, state, woken, borrows, turns, closed>>
vars == <<subVars, handle, taskVars, run, entered, dead, fault, mode>>

Resolutions == {"returned", "cancelled-before-started", "cancelled-before-returned"}
SubtaskStates == {"starting", "started"} \cup Resolutions

(* async: in async-start-call; sync: in sync-start-call; table: in the handle *)
(* table; over: reported with its results, or failed; bailed: NeedsJspi.      *)
Places == {"none", "async", "sync", "table", "over", "bailed", "dropped"}
(* gate: before enter_implicit_thread; seg: running; hop: the engine will     *)
(* continue it; sp, spc: at a (cancellable) SuspensionPoint; loop: between    *)
(* callbacks; retired: its settlement found the instance poisoned.            *)
Spots == {"none", "gate", "seg", "hop", "sp", "spc", "loop", "done", "trapped", "retired"}
Cancels == {"no", "in-async", "in-sync", "at-async", "at-sync", "over"}

Init ==
  /\ mode \in Modes
  /\ st = [c \in Calls |-> "starting"] /\ place = [c \in Calls |-> "none"]
  /\ lenders = [c \in Calls |-> {}] /\ delivered = [c \in Calls |-> FALSE]
  /\ ev = [c \in Calls |-> FALSE] /\ inSet = [c \in Calls |-> FALSE]
  /\ cancel = [c \in Calls |-> "no"] /\ told = [c \in Calls |-> "nothing"]
  /\ handle = [h \in Handles |-> TRUE] /\ numLends = [h \in Handles |-> 0]
  /\ callee = [c \in Calls |-> "none"] /\ state = [c \in Calls |-> "initial"]
  /\ woken = [c \in Calls |-> FALSE] /\ borrows = [c \in Calls |-> {}]
  /\ turns = [c \in Calls |-> 0] /\ closed = FALSE
  /\ run = None /\ entered = None /\ dead = {} /\ fault = "none"

Resolved(c) == st[c] \in Resolutions

\* Nothing is on the JavaScript stack.
Idle == run = None /\ entered = None
\* Code of the caller runs, outside any built-in.
CallerRuns == Idle /\ "caller" \notin dead

-----------------------------------------------------------------------------
(* Lenders: Subtask.addLender, deliverResolve and unwindLenders, and the       *)
(* scope of sync-start-call.                                                   *)

Lend(c, S) ==
  /\ lenders' = [lenders EXCEPT ![c] = @ \cup S]
  /\ numLends' = [h \in Handles |-> IF h \in S THEN numLends[h] + 1 ELSE numLends[h]]

\* Mutant: what the call was to borrow is released, and not what it borrowed.
ReleaseDeclared(c) ==
  /\ numLends' = [h \in Handles |-> IF h \in Lent[c] THEN numLends[h] - 1 ELSE numLends[h]]
  /\ lenders' = [lenders EXCEPT ![c] = {}]
  /\ delivered' = [delivered EXCEPT ![c] = TRUE]

Release(c) ==
  /\ numLends' = [h \in Handles |-> IF h \in lenders[c] THEN numLends[h] - 1 ELSE numLends[h]]
  /\ lenders' = [lenders EXCEPT ![c] = {}]
  /\ delivered' = [delivered EXCEPT ![c] = TRUE]

LendsKept == UNCHANGED <<lenders, delivered, numLends>>

-----------------------------------------------------------------------------
(* The callee's thread.                                                        *)

\* The implicit thread holds the exclusive slot from the gate on, between
\* callbacks excepted.
HoldsSlot(d) == callee[d] \in {"seg", "hop", "sp", "spc", "trapped", "retired"}
SlotFree(c) == \A d \in Calls \ {c} : ~HoldsSlot(d)
GateOpen(c) == ~closed /\ SlotFree(c)

\* Thread.ready and SuspensionPoint.ready, of what is in Store.waiting.
Ready(d) == \/ callee[d] = "gate" /\ GateOpen(d)
            \/ callee[d] = "loop" /\ woken[d] /\ SlotFree(d)
            \/ callee[d] \in {"sp", "spc"} /\ woken[d]
Waits(d) == callee[d] \in {"gate", "loop", "sp", "spc"}
HasRunnableWork == \E d \in Calls : Ready(d) \/ callee[d] = "hop"

\* Subtask.unwindLenders, or releaseLenders of a synchronous call.
Unwind(c, s) ==
  /\ st' = IF Resolved(c) THEN st ELSE [st EXCEPT ![c] = s]
  /\ Release(c)

\* A trap in code of c poisons its instance.  A start-call it was entered from
\* unwinds the lenders; subtask.cancel does not, nor does a tick.  The caller's
\* code may catch the trap, or end by it (CallerTraps).
Traps(c) ==
  /\ callee' = [callee EXCEPT ![c] = "trapped"]
  /\ dead' = dead \cup {"callee"}
  /\ run' = None /\ entered' = None
  /\ IF entered = c /\ place[c] # "table"
       THEN /\ place' = [place EXCEPT ![c] = "over"]
            /\ Unwind(c, "cancelled-before-returned")
            /\ UNCHANGED cancel
       ELSE /\ cancel' = IF entered = c THEN [cancel EXCEPT ![c] = "over"] ELSE cancel
            /\ LendsKept
            /\ UNCHANGED <<place, st>>

\* Past the gate: Task.start runs [async-start], which transfers the borrows.
Start(c) ==
  /\ \A h \in Lent[c] : handle[h]
  /\ state' = [state EXCEPT ![c] = "started"]
  /\ Lend(c, Lent[c])
  /\ borrows' = [borrows EXCEPT ![c] = Lent[c]]
  /\ st' = [st EXCEPT ![c] = "started"]
  /\ ev' = [ev EXCEPT ![c] = place[c] = "table"]
  /\ callee' = [callee EXCEPT ![c] = "seg"]
  /\ run' = c
  /\ UNCHANGED <<place, entered, dead, cancel, delivered>>

\* A handle the caller passed is gone by now: the transfer traps.  In a
\* start-call what was lent so far is released again at once.
StartTraps(c) ==
  /\ \E h \in Lent[c] : ~handle[h]
  /\ state' = [state EXCEPT ![c] = "started"]
  /\ callee' = [callee EXCEPT ![c] = "trapped"]
  /\ dead' = dead \cup {"callee"}
  /\ run' = None /\ entered' = None
  /\ IF entered = c
       THEN /\ place' = [place EXCEPT ![c] = "over"]
            /\ Unwind(c, "cancelled-before-started")
       ELSE /\ \E S \in SUBSET {h \in Lent[c] : handle[h]} : Lend(c, S)
            /\ UNCHANGED <<place, st, delivered>>
  /\ UNCHANGED <<borrows, ev, cancel>>

\* prepare-call and a start-call.  A dead callee cannot be entered.
Call(c, how) ==
  /\ CallerRuns /\ "callee" \notin dead /\ place[c] = "none"
  /\ place' = [place EXCEPT ![c] = how]
  /\ entered' = c /\ fault' = "none"
  /\ UNCHANGED <<mode, st, lenders, delivered, ev, inSet, cancel, told, numLends, handle, taskVars,
                 run, dead>>

\* Task.enterImplicitThread.
EnterCallee(c) ==
  /\ run = None /\ entered = c /\ callee[c] = "none"
  /\ fault' = "none"
  /\ IF GateOpen(c) /\ \A d \in Calls : callee[d] # "gate"
       THEN Start(c) \/ StartTraps(c)
       ELSE /\ callee' = [callee EXCEPT ![c] = "gate"]
            /\ LendsKept
            /\ UNCHANGED <<st, place, ev, cancel, state, borrows, run, entered, dead>>
  /\ UNCHANGED <<mode, inSet, told, handle, woken, turns, closed>>

\* Store.tick: the gate, or a callback, whose segment runs now.
Tick(c) ==
  /\ Idle /\ "callee" \notin dead /\ Ready(c)
  /\ fault' = "none"
  /\ \/ callee[c] = "gate" /\ (Start(c) \/ StartTraps(c)) /\ UNCHANGED <<woken, turns>>
     \/ /\ callee[c] = "loop"
        /\ callee' = [callee EXCEPT ![c] = "seg"] /\ run' = c
        /\ woken' = [woken EXCEPT ![c] = FALSE]
        /\ turns' = [turns EXCEPT ![c] = @ + 1]
        /\ LendsKept
        /\ UNCHANGED <<st, place, ev, cancel, state, borrows, entered, dead>>
     \/ /\ callee[c] \in {"sp", "spc"}
        /\ callee' = [callee EXCEPT ![c] = "hop"]
        /\ woken' = [woken EXCEPT ![c] = FALSE]
        /\ LendsKept
        /\ UNCHANGED <<st, place, ev, cancel, state, borrows, turns, run, entered, dead>>
  /\ UNCHANGED <<mode, inSet, told, handle, closed>>

\* What the callee waits for happens.
Wake(c) ==
  /\ Idle /\ callee[c] \in {"loop", "sp", "spc"} /\ ~woken[c]
  /\ woken' = [woken EXCEPT ![c] = TRUE] /\ fault' = "none"
  /\ UNCHANGED <<mode, subVars, handle, callee, state, borrows, turns, closed, run, entered, dead>>

\* The engine continues an activation; Thread.resumeWith retires it in a
\* poisoned instance, and leaves its thread neither done nor waiting.
EngineResumes(c) ==
  /\ Idle /\ callee[c] = "hop"
  /\ fault' = "none"
  /\ IF "callee" \in dead
       THEN callee' = [callee EXCEPT ![c] = "retired"] /\ UNCHANGED <<run, turns>>
       ELSE /\ callee' = [callee EXCEPT ![c] = "seg"] /\ run' = c
            /\ turns' = [turns EXCEPT ![c] = @ + 1]
  /\ UNCHANGED <<mode, subVars, handle, state, woken, borrows, closed, entered, dead>>

-----------------------------------------------------------------------------
(* What the callee does in a segment.                                          *)

\* Mutant: a task may return while it still holds borrows.
MayReturnHolding(c) == run = c /\ state[c] # "resolved"

\* task.return and task.cancel trap while the task holds borrows.
MayResolve(c) == run = c /\ state[c] # "resolved" /\ borrows[c] = {}

\* Mutant: progress does not reach a subtask that is in the table.
NoProgress(c) == ev

\* onProgress, which does nothing before the caller has an index.
Progress(c) == [ev EXCEPT ![c] = @ \/ place[c] = "table"]

\* onCallerResults.
Resolve(c, s) ==
  /\ st' = IF Resolved(c) THEN st ELSE [st EXCEPT ![c] = s]
  /\ ev' = Progress(c)
  /\ state' = [state EXCEPT ![c] = "resolved"]

TaskReturn(c) ==
  /\ MayResolve(c) /\ Resolve(c, "returned") /\ fault' = "none"
  /\ LendsKept
  /\ UNCHANGED <<mode, place, inSet, cancel, told, handle, callee, woken, borrows, turns, closed,
                 run, entered, dead>>

TaskCancel(c) ==
  /\ MayResolve(c) /\ state[c] = "cancel-delivered"
  /\ Resolve(c, "cancelled-before-returned") /\ fault' = "none"
  /\ LendsKept
  /\ UNCHANGED <<mode, place, inSet, cancel, told, handle, callee, woken, borrows, turns, closed,
                 run, entered, dead>>

DropBorrow(c, h) ==
  /\ run = c /\ h \in borrows[c]
  /\ borrows' = [borrows EXCEPT ![c] = @ \ {h}] /\ fault' = "none"
  /\ UNCHANGED <<mode, subVars, handle, callee, state, woken, turns, closed, run, entered, dead>>

SetBackpressure(c) ==
  /\ run = c
  /\ closed' = ~closed /\ fault' = "none"
  /\ UNCHANGED <<mode, subVars, handle, callee, state, woken, borrows, turns, run, entered, dead>>

\* deliverPendingCancel, at a cancellable block point.
SeesCancel(c) ==
  /\ run = c /\ state[c] = "pending-cancel"
  /\ state' = [state EXCEPT ![c] = "cancel-delivered"] /\ fault' = "none"
  /\ UNCHANGED <<mode, subVars, handle, callee, woken, borrows, turns, closed, run, entered, dead>>

\* The end of a segment: a wait of the callback loop, a suspension, a hop
\* through the engine, or the end of the task.
SegmentEnds(c, where) ==
  /\ run = c
  /\ \/ where \in {"loop", "spc"} /\ state[c] # "pending-cancel"
     \/ where \in {"sp", "hop"}
     \/ where = "done" /\ state[c] = "resolved"
  /\ where \in {"sp", "spc", "hop"} => mode = "jspi"
  /\ where # "done" => turns[c] < MaxTurns
  /\ callee' = [callee EXCEPT ![c] = where]
  /\ run' = None
  /\ fault' = "none"
  /\ UNCHANGED <<mode, subVars, handle, state, woken, borrows, turns, closed, entered, dead>>

\* A task of the callee instance that is none of these calls traps.
OtherTraps ==
  /\ Idle /\ "callee" \notin dead
  /\ dead' = dead \cup {"callee"} /\ fault' = "none"
  /\ UNCHANGED <<mode, subVars, handle, taskVars, run, entered>>

SegmentTraps(c) ==
  /\ run = c
  /\ Traps(c) /\ fault' = "none"
  /\ UNCHANGED <<mode, ev, inSet, told, handle, state, woken, borrows, turns, closed>>
-----------------------------------------------------------------------------
(* What the caller sees of its calls.                                          *)

\* Mutant: a callee that waits does not settle the question.
AwaitsResult(c) ==
  IF callee[c] = "gate" THEN ~HasRunnableWork
  ELSE Resolved(c) \/ callee[c] \in {"done", "trapped"}

\* determinate() of async-start-call: at the gate, the callee's instance has no
\* runnable work left; past it, the callee resolved, ended or waits.
Determinate(c) ==
  IF callee[c] = "gate" THEN ~HasRunnableWork
  ELSE Resolved(c) \/ callee[c] \in {"done", "trapped"} \/ Waits(c)

\* report: a call that has resolved needs no handle.
DoReport(c) ==
  /\ IF Resolved(c)
       THEN /\ place' = [place EXCEPT ![c] = "over"]
            /\ told' = [told EXCEPT ![c] = "returned"]
            /\ Release(c)
       ELSE /\ place' = [place EXCEPT ![c] = "table"]
            /\ told' = [told EXCEPT ![c] = st[c]]
            /\ LendsKept
  /\ fault' = "none"
  /\ UNCHANGED <<mode, st, ev, inSet, cancel, handle, taskVars, run, dead>>

\* The callee has been started; async-start-call reports, or parks.
Called(c, how) == run = None /\ entered = c /\ place[c] = how /\ callee[c] # "none"
Parked(c, how) == CallerRuns /\ place[c] = how
Report(c) ==
  /\ Called(c, "async") /\ (mode = "jspi" => Determinate(c))
  /\ DoReport(c) /\ entered' = None
ReportParks(c) ==
  /\ Called(c, "async") /\ mode = "jspi" /\ ~Determinate(c)
  /\ entered' = None /\ fault' = "none"
  /\ UNCHANGED <<mode, subVars, handle, taskVars, run, dead>>
ReportLater(c) ==
  /\ Parked(c, "async") /\ Determinate(c)
  /\ DoReport(c) /\ UNCHANGED entered

\* sync-start-call: the results, a suspension, or NeedsJspi.
SyncReturns(c) ==
  /\ Called(c, "sync") \/ Parked(c, "sync")
  /\ Resolved(c)
  /\ place' = [place EXCEPT ![c] = "over"] /\ told' = [told EXCEPT ![c] = "returned"]
  /\ Release(c)
  /\ entered' = None /\ fault' = "none"
  /\ UNCHANGED <<mode, st, ev, inSet, cancel, handle, taskVars, run, dead>>
SyncParks(c) ==
  /\ Called(c, "sync") /\ ~Resolved(c) /\ mode = "jspi"
  /\ entered' = None /\ fault' = "none"
  /\ UNCHANGED <<mode, subVars, handle, taskVars, run, dead>>
SyncBails(c) ==
  /\ Called(c, "sync") /\ ~Resolved(c) /\ mode = "plain"
  /\ place' = [place EXCEPT ![c] = "bailed"] /\ Release(c)
  /\ entered' = None /\ fault' = "none"
  /\ UNCHANGED <<mode, st, ev, inSet, cancel, told, handle, taskVars, run, dead>>

\* Taking the event tells the state of now, and delivers a resolution.
TakeEvent(c) ==
  /\ told' = [told EXCEPT ![c] = st[c]]
  /\ ev' = [ev EXCEPT ![c] = FALSE]
  /\ IF Resolved(c) /\ ~delivered[c] THEN Release(c) ELSE LendsKept

\* A wait, a poll or the callback loop gets the event from the set.
Deliver(c) ==
  /\ CallerRuns /\ place[c] = "table" /\ inSet[c] /\ ev[c]
  /\ TakeEvent(c) /\ fault' = "none"
  /\ UNCHANGED <<mode, st, place, inSet, cancel, handle, taskVars, run, entered, dead>>

\* waitable.join, into a set or out of it.
Join(c, in) ==
  /\ CallerRuns /\ place[c] = "table" /\ cancel[c] # "at-sync" /\ in # inSet[c]
  /\ inSet' = [inSet EXCEPT ![c] = in] /\ fault' = "none"
  /\ UNCHANGED <<mode, st, place, lenders, delivered, ev, cancel, told, numLends, handle, taskVars,
                 run, entered, dead>>

\* subtask.drop of a call whose resolution was delivered; it has no event and no waiter left
\* (EventOwed).  Any other drop traps once the handle has left a table that nobody looks at
\* again, which CallerTraps stands for.
DropSubtask(c) ==
  /\ CallerRuns /\ place[c] = "table" /\ delivered[c] /\ ~ev[c] /\ cancel[c] # "at-sync"
  /\ place' = [place EXCEPT ![c] = "dropped"]
  /\ inSet' = [inSet EXCEPT ![c] = FALSE] /\ fault' = "none"
  /\ UNCHANGED <<mode, st, lenders, delivered, ev, cancel, told, numLends, handle, taskVars,
                 run, entered, dead>>

\* resource.drop of an owning handle, which is removed before the lends are
\* looked at; what is lent traps, and its destructor does not run.
DropHandle(h) ==
  /\ CallerRuns /\ handle[h] /\ numLends[h] = 0
  /\ handle' = [handle EXCEPT ![h] = FALSE] /\ fault' = "none"
  /\ UNCHANGED <<mode, subVars, taskVars, run, entered, dead>>

DropLent(h) ==
  /\ CallerRuns /\ handle[h] /\ numLends[h] # 0
  /\ handle' = [handle EXCEPT ![h] = FALSE]
  /\ dead' = dead \cup {"caller"} /\ fault' = "none"
  /\ UNCHANGED <<mode, subVars, taskVars, run, entered>>

\* A trap in the caller's code.
CallerTraps ==
  /\ CallerRuns
  /\ dead' = dead \cup {"caller"} /\ fault' = "none"
  /\ UNCHANGED <<mode, subVars, handle, taskVars, run, entered>>

-----------------------------------------------------------------------------
(* subtask.cancel.                                                             *)

\* finishSubtaskCancel, with its asserts.
FinishCancel(c) ==
  /\ TakeEvent(c)
  /\ cancel' = [cancel EXCEPT ![c] = "over"] /\ entered' = None
  /\ fault' = IF ~ev[c] THEN "no event"
              ELSE IF ~Resolved(c) THEN "not resolved" ELSE "none"
  /\ UNCHANGED <<mode, st, place, inSet, handle, taskVars, run, dead>>

MayCancel(c, async) ==
  /\ CallerRuns /\ place[c] = "table" /\ ~delivered[c] /\ cancel[c] = "no"
  /\ inSet[c] => async

CancelResolved(c, async) ==
  /\ MayCancel(c, async) /\ Resolved(c)
  /\ FinishCancel(c)

\* Task.requestCancellation: at the gate the task ends unstarted; at a
\* cancellable block point of a live callee it learns at once; else it is
\* recorded.
Cancel(c, async) ==
  /\ MayCancel(c, async) /\ ~Resolved(c)
  /\ cancel' = [cancel EXCEPT ![c] = IF async THEN "in-async" ELSE "in-sync"]
  /\ entered' = c /\ fault' = "none"
  /\ LET meets == \/ callee[c] = "loop" /\ SlotFree(c)
                  \/ callee[c] = "spc"
     IN \/ /\ callee[c] = "gate"
           /\ Resolve(c, "cancelled-before-started")
           /\ callee' = [callee EXCEPT ![c] = "done"]
           /\ UNCHANGED <<woken, run>>
        \/ /\ callee[c] # "gate" /\ meets /\ "callee" \notin dead
           /\ state' = [state EXCEPT ![c] = "cancel-delivered"]
           /\ callee' = [callee EXCEPT ![c] = IF @ = "loop" THEN "seg" ELSE "hop"]
           /\ run' = IF callee[c] = "loop" THEN c ELSE None
           /\ woken' = [woken EXCEPT ![c] = FALSE]
           /\ UNCHANGED <<st, ev>>
        \/ /\ callee[c] # "gate" /\ ~(meets /\ "callee" \notin dead)
           /\ state' = [state EXCEPT ![c] = "pending-cancel"]
           /\ UNCHANGED <<st, ev, callee, woken, run>>
  /\ LendsKept
  /\ UNCHANGED <<mode, place, inSet, told, handle, borrows, turns, closed, dead>>

\* determinate() of subtask.cancel, of the callee alone.
CancelDeterminate(c) == Resolved(c) \/ callee[c] \in {"done", "trapped"} \/ Waits(c)

\* After the request, an unresolved call: park, BLOCKED, or NeedsJspi.
Requested(c) == run = None /\ entered = c /\ cancel[c] \in {"in-async", "in-sync"}
CancelFinishes(c) == Requested(c) /\ Resolved(c) /\ FinishCancel(c)
CancelWaits(c) ==
  /\ Requested(c) /\ ~Resolved(c)
  /\ cancel' = [cancel EXCEPT ![c] =
       IF mode = "plain" \/ (@ = "in-async" /\ CancelDeterminate(c)) THEN "over"
       ELSE IF @ = "in-async" THEN "at-async" ELSE "at-sync"]
  /\ entered' = None /\ fault' = "none"
  /\ UNCHANGED <<mode, st, place, lenders, delivered, ev, inSet, told, numLends, handle, taskVars,
                 run, dead>>

\* The caller's suspension is over: a synchronous one when there is an event.
CancelReturns(c) ==
  /\ CallerRuns
  /\ \/ cancel[c] = "at-sync" /\ ev[c] /\ FinishCancel(c)
     \/ cancel[c] = "at-async" /\ Resolved(c) /\ FinishCancel(c)
     \/ /\ cancel[c] = "at-async" /\ ~Resolved(c) /\ CancelDeterminate(c)
        /\ cancel' = [cancel EXCEPT ![c] = "over"] /\ fault' = "none"
        /\ UNCHANGED <<mode, st, place, lenders, delivered, ev, inSet, told, numLends, handle,
                       taskVars, run, entered, dead>>

-----------------------------------------------------------------------------

CallerStep(c) ==
  \/ \E how \in {"async", "sync"} : Call(c, how)
  \/ Report(c) \/ ReportParks(c) \/ ReportLater(c)
  \/ SyncReturns(c) \/ SyncParks(c) \/ SyncBails(c)
  \/ Deliver(c) \/ DropSubtask(c)
  \/ \E in \in BOOLEAN : Join(c, in)
  \/ \E async \in BOOLEAN : CancelResolved(c, async) \/ Cancel(c, async)
  \/ CancelFinishes(c) \/ CancelWaits(c) \/ CancelReturns(c)

CalleeStep(c) ==
  \/ EnterCallee(c) \/ Tick(c) \/ Wake(c) \/ EngineResumes(c)
  \/ TaskReturn(c) \/ TaskCancel(c) \/ SetBackpressure(c) \/ SeesCancel(c)
  \/ \E h \in Handles : DropBorrow(c, h)
  \/ \E where \in {"loop", "sp", "spc", "hop", "done"} : SegmentEnds(c, where)
  \/ SegmentTraps(c)

Next == \/ \E c \in Calls : CallerStep(c) \/ CalleeStep(c)
        \/ \E h \in Handles : DropHandle(h) \/ DropLent(h)
        \/ CallerTraps \/ OtherTraps

Spec == Init /\ [][Next]_vars

\* Built-ins run on, segments end, a driver ticks and microtasks run.
Continues(c) == \/ EnterCallee(c) \/ Report(c) \/ ReportParks(c)
                \/ SyncReturns(c) \/ SyncParks(c) \/ SyncBails(c)
                \/ CancelFinishes(c) \/ CancelWaits(c)
EndsSegment(c) == \/ SegmentTraps(c)
                  \/ \E where \in {"loop", "sp", "spc", "hop", "done"} : SegmentEnds(c, where)
Fairness ==
  \A c \in Calls : /\ WF_vars(Continues(c)) /\ WF_vars(EndsSegment(c))
                   /\ WF_vars(Tick(c)) /\ WF_vars(EngineResumes(c)) /\ WF_vars(ReportLater(c))

LiveSpec == Spec /\ Fairness

-----------------------------------------------------------------------------
(* Properties.                                                                 *)

TypeOK ==
  /\ mode \in Modes
  /\ st \in [Calls -> SubtaskStates] /\ place \in [Calls -> Places]
  /\ lenders \in [Calls -> SUBSET Handles] /\ numLends \in [Handles -> Nat]
  /\ delivered \in [Calls -> BOOLEAN] /\ ev \in [Calls -> BOOLEAN]
  /\ inSet \in [Calls -> BOOLEAN] /\ cancel \in [Calls -> Cancels]
  /\ told \in [Calls -> SubtaskStates \cup {"nothing"}]
  /\ handle \in [Handles -> BOOLEAN]
  /\ callee \in [Calls -> Spots]
  /\ state \in [Calls -> {"initial", "started", "pending-cancel", "cancel-delivered", "resolved"}]
  /\ woken \in [Calls -> BOOLEAN] /\ borrows \in [Calls -> SUBSET Handles]
  /\ turns \in [Calls -> 0 .. MaxTurns + 1] /\ closed \in BOOLEAN
  /\ run \in Calls \cup {None} /\ entered \in Calls \cup {None}
  /\ dead \subseteq {"caller", "callee"}
  /\ fault \in {"none", "no event", "not resolved"}

\* A handle counts one lend for each call that has borrowed it and not yet
\* given it back: none is given back twice, none is forgotten.
LendsExact == \A h \in Handles : numLends[h] = Cardinality({c \in Calls : h \in lenders[c]})

\* A call that the caller is done with, by results, by a trap that it caught or
\* by a drop, lends nothing.
LendsGivenBack == \A c \in Calls : place[c] \in {"over", "dropped"} => lenders[c] = {}

\* While a callee holds a borrow, and neither instance has died, the handle it
\* came from exists; and no callee ends with a borrow.  A synchronous call that
\* was given up for want of JSPI is excepted: its lends are back, while its
\* callee stays in Store.waiting with the borrows.
BorrowAlive ==
  \A c \in Calls : place[c] # "bailed" =>
    /\ dead = {} => \A h \in borrows[c] : handle[h]
    /\ callee[c] = "done" => borrows[c] = {}

\* The accounts of lent handles, from both sides of the call.
LendsAndBorrows == LendsExact /\ LendsGivenBack /\ BorrowAlive

\* A resolution that the caller has not been told of has an event, or the
\* caller is still in the call; and one it has been told of has none left.
EventOwed ==
  \A c \in Calls : place[c] = "table" =>
    /\ Resolved(c) => ev[c] # delivered[c]
    /\ told[c] \in Resolutions <=> delivered[c]

\* The caller of async-start-call is answered: its wait for determinacy does not
\* depend on what the callee waits for.
Deciding(c) == place[c] = "async"
StartDecided == \A c \in Calls : Deciding(c) ~> (~Deciding(c) \/ dead # {})

\* A synchronous subtask.cancel that returns has delivered the resolution.
CancelDelivers == fault # "not resolved"
=============================================================================
