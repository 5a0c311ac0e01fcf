------------------------------ MODULE Drivers ------------------------------
(* exec/boundary.ts and exec/host_streams.ts: who keeps a store going.  An      *)
(* export call drives it until the call is over; between calls the settlement   *)
(* pump watches the outstanding host calls, and an operation of the embedder on *)
(* a stream or future pumps it on.  Their loops interleave at each await.       *)
(* Threads are the activations, one per export call; a loop's steps between two *)
(* awaits run to completion (running), everything else is a microtask, and what *)
(* the host and the embedder do.  Locks and traps of guests are TaskScheduler's. *)
EXTENDS Naturals, FiniteSets

CONSTANTS
  Threads, Calls,  \* activations, host calls a guest may make
  Fails,           \* TRUE: the promise of a host call may reject, under an asynchronous lower
  Hops,            \* TRUE: a Suspending import may complete at once, over a microtask
  Early,           \* TRUE: a task may be resolved before its activation is over
  Overlap,         \* TRUE: an export is called while another call is under way
  Prompt,          \* TRUE: a host call may settle before the event loop turns
  Settlement, Activity, Arm, None

VARIABLES
  mode,        \* "plain" or "jspi"
  armed,       \* a HostActivity has its arm among the pending host calls
  act, on,     \* of an activation: what it does, what it waits or will wait for
  gen,         \* how many promises it has parked on (Thread.awaiting)
  resolved,    \* tasks that have been resolved
  out, heard,  \* host calls outstanding; host calls answered, and Arm: the embedder acted
  rejected,    \* host calls whose promise has rejected
  failure,     \* Store.hostFailure
  pending,     \* Store.pendingResumptions
  settled,     \* Store.settled, entries <<thread, promise>>
  pc,          \* of each loop
  snap,        \* what a loop races: [tags, calls, chosen]
  woken,       \* loops that race an arm which has been resolved
  nudged,      \* the settlement pump's nudge was fired
  running,     \* the loop on the JavaScript stack
  stale        \* an activation was resumed with the value of an earlier promise

guest == <<act, on, gen, resolved, out>>
store == <<heard, rejected, failure, pending, settled>>
loops == <<pc, snap, woken, nudged, running>>
vars == <<mode, armed, guest, store, loops, stale>>

Pumps == {Settlement, Activity}
Drivers == Threads \cup Pumps
NoSnap == [tags |-> {}, calls |-> {}, chosen |-> None]

(* idle: not called; hop: the engine continues it in a microtask; susp: at a    *)
(* SuspensionPoint; resumed: that was settled; settling: its wasm has returned; *)
(* tail: the promise has settled; wait: a callback task between invocations.    *)
Acts == {"idle", "hop", "susp", "resumed", "settling", "tail", "wait", "done"}
\* race: entered from the top of the loop; again: from a probe that was won.
InLoop == {"service", "yield", "tick", "hop", "decide", "probe", "race", "again", "calls"}

Snaps == [tags : SUBSET (Threads \X Nat), calls : SUBSET (Calls \cup {Arm}), chosen : Threads \cup {None}]

TypeOK ==
  /\ mode \in {"plain", "jspi"} /\ armed \in BOOLEAN
  /\ act \in [Threads -> Acts] /\ on \in [Threads -> Calls \cup {Arm, None}]
  /\ gen \in [Threads -> Nat] /\ resolved \subseteq Threads
  /\ out \subseteq Calls /\ heard \subseteq Calls \cup {Arm} /\ rejected \subseteq Calls
  /\ out \cap heard = {} /\ (out \cup heard) \cap rejected = {}
  /\ failure \in BOOLEAN /\ pending \subseteq Threads
  /\ settled \subseteq Threads \X Nat
  /\ pc \in [Drivers -> InLoop \cup {"off", "drive", "stand", "park", "outer", "pump", "trapped", "failed"}]
  /\ snap \in [Drivers -> Snaps]
  /\ woken \subseteq Drivers /\ nudged \in BOOLEAN /\ running \in Drivers \cup {None}
  /\ stale \in BOOLEAN

Init ==
  /\ mode \in {"plain", "jspi"} /\ armed \in BOOLEAN
  /\ act = [t \in Threads |-> "idle"] /\ on = [t \in Threads |-> None]
  /\ gen = [t \in Threads |-> 0] /\ resolved = {}
  /\ out = {} /\ heard = {} /\ rejected = {} /\ failure = FALSE /\ pending = {} /\ settled = {}
  /\ pc = [d \in Drivers |-> "off"] /\ snap = [d \in Drivers |-> NoSnap]
  /\ woken = {} /\ nudged = FALSE /\ running = None /\ stale = FALSE

-----------------------------------------------------------------------------
(* The store.                                                                  *)

\* Store.awaiting.
Awaiting == {t \in Threads : act[t] \in {"hop", "susp", "resumed", "settling", "tail"} /\ mode = "jspi"}

\* Store.pendingHostCalls.
HostCalls == out \cup (IF armed THEN {Arm} ELSE {})

Ready == {t \in Threads : act[t] \in {"susp", "wait"} /\ on[t] \in heard}

Unserviced == settled # {}
Quiescent == ~Unserviced /\ Awaiting = {} /\ out = {}

Depth == Cardinality({d \in Drivers : pc[d] \in InLoop})

\* What a segment of wasm ends in: a microtask hop, a SuspensionPoint on a host call
\* or on the embedder, or the return to a callback loop that exits or waits.
Awaitable == (Calls \cup (IF armed THEN {Arm} ELSE {})) \ (out \cup heard \cup rejected)

Segment(t, g) ==
  /\ gen' = [gen EXCEPT ![t] = g]
  /\ \/ /\ mode = "jspi" /\ Hops
        /\ act' = [act EXCEPT ![t] = "hop"] /\ on' = [on EXCEPT ![t] = None]
        /\ UNCHANGED <<resolved, out, pending>>
     \/ \E x \in Awaitable :
          /\ mode = "jspi"
          /\ act' = [act EXCEPT ![t] = "susp"] /\ on' = [on EXCEPT ![t] = x]
          /\ out' = out \cup ({x} \ {Arm})
          /\ pending' = pending \ {t}
          /\ resolved' \in {resolved, IF Early THEN resolved \cup {t} ELSE resolved}
     \/ \E x \in Awaitable \cup {None} :
          /\ act' = [act EXCEPT ![t] = IF mode = "jspi" THEN "settling" ELSE IF x = None THEN "done" ELSE "wait"]
          /\ on' = [on EXCEPT ![t] = x]
          /\ out' = out \cup ({x} \ {Arm, None})
          /\ resolved' \in {IF x = None THEN resolved \cup {t} ELSE resolved,
                            IF x = None \/ Early THEN resolved \cup {t} ELSE resolved}
          /\ UNCHANGED pending

\* Thread.resumeWith: the rest of an activation that returned from wasm.
ResumeWith(t, g) ==
  /\ act' = [act EXCEPT ![t] = IF on[t] = None THEN "done" ELSE "wait"]
  /\ stale' = (stale \/ g # gen[t] \/ act[t] # "tail")

\* serviceSettled, one entry: one of a thread resumed elsewhere is dropped.
ServiceOne ==
  \E e \in settled :
    /\ settled' = settled \ {e}
    /\ IF e[1] \in Awaiting THEN ResumeWith(e[1], e[2]) ELSE UNCHANGED <<act, stale>>
    /\ UNCHANGED <<on, gen, resolved, out, pending>>

CanTick == pending = {} /\ ~Unserviced /\ Ready # {}

\* Store.tick.
TickOne ==
  /\ CanTick
  /\ \E t \in Ready :
       IF act[t] = "susp"
         THEN /\ act' = [act EXCEPT ![t] = "resumed"] /\ pending' = pending \cup {t}
              /\ UNCHANGED <<on, gen, resolved, out>>
         ELSE Segment(t, gen[t] + 1)
  /\ UNCHANGED <<settled, stale>>

\* The engine continues a hop or a resumed activation.
EngineRuns(t) ==
  /\ running = None /\ act[t] \in {"hop", "resumed"}
  /\ Segment(t, gen[t])
  /\ UNCHANGED <<mode, armed, heard, rejected, failure, settled, loops, stale>>

\* noteAwaiting's continuation.
Settles(t) ==
  /\ running = None /\ act[t] = "settling"
  /\ act' = [act EXCEPT ![t] = "tail"]
  /\ settled' = settled \cup {<<t, gen[t]>>}
  /\ pending' = pending \ {t}
  /\ UNCHANGED <<mode, armed, on, gen, resolved, out, heard, rejected, failure, loops, stale>>

-----------------------------------------------------------------------------
(* driveAsync.                                                                 *)

\* ensureSettlementPump, in the state that pcs and the stores' next values give.
Armed(pcs, live) ==
  IF pcs[Settlement] # "off"
    THEN /\ pc' = pcs /\ nudged' = (nudged \/ pcs[Settlement] = "park")
         /\ UNCHANGED snap
    ELSE IF failure' \/ out' = {}
    THEN pc' = pcs /\ UNCHANGED <<snap, nudged>>
    ELSE /\ pc' = [pcs EXCEPT ![Settlement] = IF live > 0 THEN "stand" ELSE "park"]
         /\ snap' = [snap EXCEPT ![Settlement] = [NoSnap EXCEPT !.calls = out']]
         /\ nudged' = FALSE

\* A loop ends: how is "off", "failed" or "trapped"; a pump goes on in its own loop.
Leaves(d, how) ==
  LET pcs == [pc EXCEPT ![d] = IF how = "off" /\ d \in Pumps THEN "outer"
                               ELSE IF how = "failed" /\ d = Settlement THEN "off" ELSE how]
  IN /\ IF Depth = 1 THEN Armed(pcs, 0) ELSE pc' = pcs /\ UNCHANGED <<snap, nudged>>
     /\ running' = None

\* The exception is the call's, or is parked again by a pump.
Throws(d, how) ==
  /\ failure' = (IF d \in Pumps THEN TRUE ELSE IF how = "failed" THEN FALSE ELSE failure)
  /\ Leaves(d, how)

Done(d) ==
  IF d \in Pumps THEN HostCalls = {} \/ Quiescent \/ Depth > 1
  ELSE d \in resolved /\ d \notin Awaiting

Goes(d, to) ==
  pc' = [pc EXCEPT ![d] = to] /\ snap' = [snap EXCEPT ![d] = NoSnap] /\ UNCHANGED nudged
Sleeps(d, at, tags, calls, chosen) ==
  /\ pc' = [pc EXCEPT ![d] = at]
  /\ snap' = [snap EXCEPT ![d] = [tags |-> tags, calls |-> calls, chosen |-> chosen]]
  /\ running' = None /\ UNCHANGED nudged

Loop(d, at) == running = d /\ pc[d] = at /\ UNCHANGED <<mode, armed, heard, rejected>>

Service(d) ==
  /\ Loop(d, "service")
  /\ \/ Unserviced /\ ServiceOne /\ UNCHANGED <<failure, loops>>
     \/ ~Unserviced /\ failure /\ UNCHANGED <<guest, pending, settled, woken, stale>> /\ Throws(d, "failed")
     \/ /\ ~Unserviced /\ ~failure
        /\ IF pending # {} THEN Goes(d, "yield") /\ running' = None ELSE Goes(d, "tick") /\ UNCHANGED running
        /\ UNCHANGED <<guest, failure, pending, settled, woken, stale>>

\* It yields a microtask, then looks again.
Yielded(d) ==
  /\ running = None /\ pc[d] = "yield"
  /\ Goes(d, "service") /\ running' = d
  /\ UNCHANGED <<mode, armed, guest, store, woken, stale>>

Tick(d) ==
  /\ Loop(d, "tick")
  /\ \/ /\ TickOne
        /\ IF failure THEN Throws(d, "failed")
           ELSE /\ UNCHANGED failure
                /\ IF Awaiting' # {} THEN Goes(d, "hop") /\ running' = None ELSE UNCHANGED <<pc, snap, nudged, running>>
        /\ UNCHANGED woken
     \/ /\ ~CanTick /\ Goes(d, "decide")
        /\ UNCHANGED <<guest, failure, pending, settled, woken, running, stale>>

Hopped(d) ==
  /\ running = None /\ pc[d] = "hop"
  /\ Goes(d, IF Unserviced THEN "decide" ELSE "tick") /\ running' = d
  /\ UNCHANGED <<mode, armed, guest, store, woken, stale>>

\* Threads whose settlement is queued are serviceSettled's, not the race's.
Parked == Awaiting \ {e[1] : e \in settled}
TagsOf(ts) == {<<t, gen[t]>> : t \in ts}

\* It races every outstanding promise, with a speculative entry for one thread.
RaceAll(d, at) ==
  \E chosen \in Parked :
    /\ pending' = pending \cup {chosen}
    /\ Sleeps(d, at, TagsOf(Parked), HostCalls, chosen)
    /\ woken' = woken \ {d}

Decide(d) ==
  /\ Loop(d, "decide") /\ UNCHANGED <<guest, settled, stale>>
  /\ \/ failure /\ Throws(d, "failed") /\ UNCHANGED <<pending, woken>>
     \/ ~failure /\ Done(d) /\ UNCHANGED failure /\ Leaves(d, "off") /\ UNCHANGED <<pending, woken>>
     \/ /\ ~failure /\ ~Done(d) /\ UNCHANGED failure
        /\ \/ /\ Unserviced \/ pending # {}
              /\ Goes(d, "service") /\ UNCHANGED <<pending, woken, running>>
           \/ /\ ~Unserviced /\ pending = {} /\ Awaiting # {}
              /\ IF HostCalls = {}
                   THEN Sleeps(d, "probe", TagsOf(Parked), {}, None) /\ UNCHANGED <<pending, woken>>
                   ELSE RaceAll(d, "race")
           \/ /\ ~Unserviced /\ pending = {} /\ Awaiting = {} /\ HostCalls # {}
              /\ Sleeps(d, "calls", {}, HostCalls, None)
              /\ woken' = woken \ {d} /\ UNCHANGED pending
     \/ /\ ~failure /\ ~Done(d) /\ ~Unserviced /\ pending = {} /\ Awaiting = {} /\ HostCalls = {}
        /\ Throws(d, "trapped") /\ UNCHANGED <<pending, woken>>

TagSettled(tag) == tag[2] < gen[tag[1]] \/ act[tag[1]] \in {"tail", "wait", "done"}
Winners(d) == {tag \in snap[d].tags : TagSettled(tag)}
CallWon(d) == snap[d].calls \cap Calls \cap (heard \cup rejected) # {} \/ d \in woken

\* A promise of the probe settled within the macrotask: what is parked now is raced,
\* without another look at done and at what is ready.
ProbeWon(d) ==
  /\ running = None /\ pc[d] = "probe" /\ Winners(d) # {}
  /\ IF Awaiting = {} \/ Unserviced \/ Parked = {}
       THEN Goes(d, "service") /\ running' = d /\ UNCHANGED <<pending, woken>>
       ELSE RaceAll(d, "again")
  /\ UNCHANGED <<mode, armed, guest, heard, rejected, failure, settled, stale>>

\* As if it was enough that the thread is parked.
Member(tag) == tag[1] \in Awaiting

\* The resumption of the winner: still parked, and on that promise.
SamePromise(tag) == tag[1] \in Awaiting /\ gen[tag[1]] = tag[2]

RaceWon(d) ==
  /\ running = None /\ pc[d] \in {"race", "again"}
  /\ pending' = pending \ {snap[d].chosen}
  /\ \/ \E tag \in Winners(d) :
          IF SamePromise(tag) THEN ResumeWith(tag[1], tag[2]) ELSE UNCHANGED <<act, stale>>
     \/ CallWon(d) /\ UNCHANGED <<act, stale>>
  /\ Goes(d, "service") /\ running' = d /\ woken' = woken \ {d}
  /\ UNCHANGED <<mode, armed, on, gen, resolved, out, heard, rejected, failure, settled>>

CallsWon(d) ==
  /\ running = None /\ pc[d] = "calls" /\ CallWon(d)
  /\ Goes(d, "service") /\ running' = d /\ woken' = woken \ {d}
  /\ UNCHANGED <<mode, armed, guest, store, stale>>

-----------------------------------------------------------------------------
(* The macrotask queue's turn: nothing is left that a microtask could do, but   *)
(* for loops that yield to a pending entry.                                     *)

Wakes(d) ==
  \/ pc[d] \in {"hop", "outer"}
  \/ d = Activity /\ pc[d] = "failed"
  \/ pc[d] = "probe" /\ Winners(d) # {}
  \/ pc[d] \in {"race", "again", "calls"} /\ (Winners(d) # {} \/ CallWon(d))
  \/ pc[d] = "park" /\ (nudged \/ CallWon(d))
  \/ pc[d] = "stand" /\ Depth = 0
  \/ pc[d] = "yield" /\ pending = {}

Quiet ==
  /\ running = None
  /\ \A t \in Threads : act[t] \notin {"hop", "resumed", "settling"}
  /\ \A d \in Drivers : ~Wakes(d)

\* A host call settles.  A failure is parked for a loop to raise; its subtask stays.
HostSettles(h) ==
  /\ running = None /\ h \in out /\ (Prompt \/ Quiet)
  /\ out' = out \ {h}
  /\ \/ heard' = heard \cup {h} /\ UNCHANGED <<rejected, failure>>
     \/ /\ Fails /\ \E t \in Threads : act[t] # "susp" /\ on[t] = h
        /\ rejected' = rejected \cup {h} /\ failure' = TRUE /\ UNCHANGED heard
  /\ UNCHANGED <<mode, armed, act, on, gen, resolved, pending, settled, loops, stale>>

\* As if the verdict rested on what was read before the macrotask.
ReprobesParked(d) == Parked # {tag[1] : tag \in snap[d].tags}

\* The probe's timer: membership, host calls, resumptions, tails and readiness are
\* looked at again before the verdict.
Reprobes(d) ==
  \/ Parked # {tag[1] : tag \in snap[d].tags}
  \/ HostCalls # {} \/ pending # {} \/ Unserviced
  \/ Ready # {}

ProbeTimeout(d) ==
  /\ Quiet /\ pc[d] = "probe"
  /\ UNCHANGED <<mode, armed, guest, heard, rejected, pending, settled, woken, stale>>
  /\ IF Reprobes(d) THEN Goes(d, "service") /\ running' = d /\ UNCHANGED failure
     ELSE Throws(d, "trapped")

\* Ten thousand hops, a hundred macrotasks among them, with an entry still pending.
GivesUp(d) ==
  /\ Quiet /\ pc[d] = "yield"
  /\ UNCHANGED <<mode, armed, guest, heard, rejected, pending, settled, woken, stale>>
  /\ failure' = (failure \/ d \in Pumps)
  /\ Leaves(d, "failed")

-----------------------------------------------------------------------------
(* Export calls, the pumps.                                                    *)

Calling == \E t \in Threads : pc[t] \in InLoop \cup {"drive"}

CallExport(t) ==
  /\ running = None /\ act[t] = "idle" /\ (Overlap \/ ~Calling)
  /\ Segment(t, 1)
  /\ pc' = [pc EXCEPT ![t] = "drive"] /\ running' = t
  /\ UNCHANGED <<mode, armed, heard, rejected, failure, settled, snap, woken, nudged, stale>>

\* drive: what can be done without a turn of the event loop, then driveAsync.
Drive(t) ==
  /\ Loop(t, "drive")
  /\ \/ /\ Awaiting = {} /\ TickOne
        /\ IF failure THEN failure' = FALSE /\ Goes(t, "failed") /\ running' = None
           ELSE UNCHANGED <<failure, pc, snap, nudged, running>>
     \/ /\ Awaiting # {} \/ ~CanTick
        /\ UNCHANGED <<guest, pending, settled, stale>>
        /\ \/ failure /\ failure' = FALSE /\ Goes(t, "failed") /\ running' = None
           \/ /\ ~failure /\ Done(t) /\ UNCHANGED failure
              /\ Armed([pc EXCEPT ![t] = "off"], Depth) /\ running' = None
           \/ /\ ~failure /\ ~Done(t) /\ UNCHANGED failure
              /\ IF Awaiting = {} /\ pending = {} /\ HostCalls = {}
                   THEN Goes(t, "trapped") /\ running' = None
                   ELSE Goes(t, "service") /\ UNCHANGED running
  /\ UNCHANGED woken

\* settlementPumpLoop, to its next await.
SettlementLoop ==
  /\ running = None
  /\ \/ pc[Settlement] = "outer"
     \/ pc[Settlement] = "stand" /\ Depth = 0
  /\ IF Depth > 0 THEN Goes(Settlement, "stand")
     ELSE IF failure \/ out = {} THEN Goes(Settlement, "off")
     ELSE /\ pc' = [pc EXCEPT ![Settlement] = "park"]
          /\ snap' = [snap EXCEPT ![Settlement] = [NoSnap EXCEPT !.calls = out]]
          /\ nudged' = FALSE
  /\ UNCHANGED <<mode, armed, guest, store, woken, running, stale>>

SettlementWakes ==
  /\ running = None /\ pc[Settlement] = "park" /\ (nudged \/ CallWon(Settlement))
  /\ IF Depth > 0 THEN Goes(Settlement, "stand") /\ UNCHANGED running
     ELSE Goes(Settlement, "service") /\ running' = Settlement
  /\ UNCHANGED <<mode, armed, guest, store, woken, stale>>

\* As if it woke only loops that race nothing but host calls.
NotifiedCallers == woken \cup {d \in Drivers : pc[d] = "calls" /\ Arm \in snap[d].calls}

\* HostActivity.notify: whoever races the arm wakes up.
Notified == woken \cup {d \in Drivers : pc[d] \in {"race", "again", "calls"} /\ Arm \in snap[d].calls}

\* An operation on the host's end: what waited for it is ready; notify, then pump.
EmbedderActs ==
  /\ running = None /\ armed /\ Arm \notin heard
  /\ heard' = heard \cup {Arm} /\ woken' = Notified
  /\ Goes(Activity, "pump") /\ running' = Activity
  /\ UNCHANGED <<mode, armed, guest, rejected, failure, pending, settled, stale>>

\* pump: the synchronous half, then pumpAsync unless nothing is left for it.
Pump ==
  /\ Loop(Activity, "pump") /\ UNCHANGED <<failure, woken>>
  /\ \/ Unserviced /\ ServiceOne /\ UNCHANGED <<pc, snap, nudged, running>>
     \/ TickOne /\ UNCHANGED <<pc, snap, nudged, running>>
     \/ /\ ~Unserviced /\ ~CanTick /\ UNCHANGED <<guest, pending, settled, stale>>
        /\ IF Quiescent THEN Goes(Activity, "off") /\ running' = None
           ELSE IF Depth > 0 THEN Goes(Activity, "stand") /\ running' = None
           ELSE Goes(Activity, "service") /\ UNCHANGED running

ActivityLoop ==
  /\ running = None
  /\ \/ pc[Activity] \in {"outer", "failed"}
     \/ pc[Activity] = "stand" /\ Depth = 0
  /\ IF Quiescent \/ pc[Activity] = "failed" THEN Goes(Activity, "off") /\ woken' = Notified /\ UNCHANGED running
     ELSE IF Depth > 0 THEN Goes(Activity, "stand") /\ UNCHANGED <<woken, running>>
     ELSE Goes(Activity, "service") /\ running' = Activity /\ UNCHANGED woken
  /\ UNCHANGED <<mode, armed, guest, store, stale>>

Next ==
  \/ \E t \in Threads : EngineRuns(t) \/ Settles(t) \/ CallExport(t) \/ Drive(t)
  \/ \E h \in Calls : HostSettles(h)
  \/ \E d \in Drivers :
       \/ Service(d) \/ Yielded(d) \/ Tick(d) \/ Hopped(d) \/ Decide(d)
       \/ ProbeWon(d) \/ RaceWon(d) \/ CallsWon(d) \/ ProbeTimeout(d) \/ GivesUp(d)
  \/ SettlementLoop \/ SettlementWakes \/ EmbedderActs \/ Pump \/ ActivityLoop

Spec == Init /\ [][Next]_vars

-----------------------------------------------------------------------------

\* No activation is resumed twice for one settlement, nor with the value of one it has
\* consumed already, however the loops overlap.
ResumedOnce == ~stale

\* The verdict of a deadlock is given only when nothing can move, and never by a pump.
RealDeadlock ==
  \A d \in Drivers : pc[d] # "trapped" /\ pc'[d] = "trapped" =>
    /\ d \in Threads
    /\ Ready = {} /\ HostCalls = {} /\ pending = {}
    /\ \A t \in Threads : act[t] \in {"idle", "susp", "wait", "done"}

\* While the loop of a call sleeps and the event loop rests, the activation of the call is
\* parked: at a suspension point, or, its task unresolved, in a wait for what has not come.
\* No loop sleeps beside the settled tail or the ready thread of its own call, whichever
\* other loop has moved that activation since it went to sleep.
OwnLoopWakes ==
  Quiet => \A t \in Threads : pc[t] \in {"probe", "race", "calls"} =>
             \/ act[t] = "susp"
             \/ act[t] = "wait" /\ on[t] \notin heard /\ t \notin resolved

\* Nor does it sleep when its call is over.  (No run: the code breaks it for a loop that
\* has won a probe, whose answer then waits for a host call of another call.)
DoneIsSeen ==
  Quiet => \A t \in Threads : pc[t] \in {"probe", "race", "again", "calls"} => ~Done(t)

\* Without JSPI, where no loop is left and the event loop rests, no thread is ready; until
\* a host call fails, since its failure waits for the next call of the embedder, which it
\* ends.
WorkIsSeen == mode = "plain" /\ Depth = 0 /\ Quiet /\ rejected = {} => Ready = {}

\* A host call that is outstanding is watched, under the same condition.
CallsWatched ==
  mode = "plain" /\ running = None /\ out # {} /\ rejected = {} => Depth > 0 \/ pc[Settlement] # "off"

\* "driveAsync drains ready threads before consulting done": the last loop of a store, a
\* pump, leaves nothing that it could run.  (No run: the code breaks it with JSPI, where
\* the drain stops at a settled tail and the pump's condition to leave may hold then.)
PumpDrains ==
  [][\A d \in Pumps : pc[d] = "decide" /\ pc'[d] = "outer" /\ Depth = 1 =>
       ~CanTick /\ ~Unserviced]_vars

\* With JSPI no tail is left beside a loop that sleeps.  (No run: three calls break it.  A
\* loop may tick the activation of another call and leave with its own; the loop that
\* sleeps did not race that promise.)
TailsSeen ==
  Quiet /\ Depth > 0 /\ rejected = {} /\ ~failure /\ (\A d \in Drivers : pc[d] \notin {"yield", "failed"}) =>
    ~Unserviced

\* A loop yields to an activation that is on its way.
YieldsToRunning == Quiet => \A d \in Drivers : pc[d] # "yield"
=============================================================================
