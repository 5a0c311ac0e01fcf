------------------------------- MODULE Futures -------------------------------
(* One component-model future: the shared rendezvous, its guest ends, the host *)
(* wrapper around it and the embedder's handles on the wrapper.                *)
(*   runtime/src/task/streams.ts               SharedFutureImpl, its teardown  *)
(*   runtime/src/intrinsics/stream_builtins.ts future.read, write, cancel, drop*)
(*   runtime/src/cabi/async_values.ts          lift and lower of the end       *)
(*   runtime/src/exec/host_streams.ts          HostFuture, HostActivity        *)
(*   runtime/src/embedder/streams.ts           Future, lowerFutureSource       *)
(*                                                                             *)
(* A future carries one value, and its writer owes it: a guest that drops the  *)
(* writable end unwritten traps, and a writer that goes otherwise abandons the *)
(* future, which is a trap for the reader.  The parties of the rendezvous are  *)
(* the guest ends r and w and the host's operations hr and hw.                 *)
EXTENDS Integers, FiniteSets

CONSTANTS
  Insts,      \* component instances
  Host,       \* the embedder
  Creators,   \* who may create the future: instances (future.new), Host (a promise
              \* is lowered)
  NumberElem, \* the element type is a number (or none): same-instance copies work
  Jspi,       \* a synchronous copy can block its wasm frame
  Careful,    \* the embedder passes a handle on only if it never awaited it, does
              \* not drop it afterwards, and cancels only a read of its own
  Deferred,   \* a call waits at a gate between the adaptation of its arguments
              \* and their lowering
  None        \* "nobody is parked"

Ends == {"r", "w"}
HostOps == {"hr", "hw"}

ASSUME FutureAssumption ==
  /\ Host \notin Insts /\ Creators \subseteq Insts \cup {Host} /\ None \notin Ends \cup HostOps
  /\ {NumberElem, Jspi, Careful, Deferred} \subseteq BOOLEAN

Readers == {"r", "hr"}

VARIABLES
  owner,     \* end -> who holds it, or held it last
  handle,    \* end -> held; dropped; or lost, removed by a built-in that then trapped
  cstate,    \* CopyEnd.state of a guest's end
  ev,        \* Waitable.pendingEvent of a guest's end
  wait,      \* the end is in a waitable set, has a synchronous waiter, or neither
  parked,    \* the party whose buffer the shared future holds
  dropped,   \* SharedFutureImpl.dropped
  abandoned, \* SharedFutureImpl.abandonReason is set
  crossed,   \* the parties whose copy completed
  poisoned,  \* instances a trap has ended
  host,      \* the wrapper (HostFuture and HostActivity), its handles, its producer
  fault      \* the last step broke an assert_

shared == <<parked, dropped, abandoned, crossed>>
vars == <<owner, handle, cstate, ev, wait, shared, poisoned, host, fault>>

\* kind: which end the wrapper was made for.  busy: parked.any.  delivered,
\* lowered: as in mkFuture.  bound, closed, disarmed: the HostActivity.
\* current: the handle that owns the readable end; stale: one was passed on and
\* not dropped.  producer: what lowerFutureSource waits for.
Wrapper(k) == [kind |-> k, busy |-> FALSE, delivered |-> FALSE, lowered |-> FALSE,
               bound |-> FALSE, closed |-> FALSE, disarmed |-> FALSE,
               current |-> "none", stale |-> FALSE,
               producer |-> IF k = "created" THEN "pending" ELSE "none"]

Init ==
  /\ owner \in {[e \in Ends |-> c] : c \in Creators}
  /\ handle = [e \in Ends |-> "held"]
  /\ cstate = [e \in Ends |-> "idle"]
  /\ ev = [e \in Ends |-> "none"]
  /\ wait = [e \in Ends |-> "no"]
  /\ parked = None /\ dropped = FALSE /\ abandoned = FALSE /\ crossed = {}
  /\ poisoned = {} /\ fault = FALSE
  /\ host = Wrapper(IF owner["w"] = Host THEN "created" ELSE "none")

Live(e) == handle[e] = "held" /\ owner[e] \in Insts \ poisoned
Armed == host.bound /\ ~host.closed /\ ~host.disarmed

-----------------------------------------------------------------------------
(* Notifications.                                                              *)

\* onCopyDone of a guest end: a reader is armed with the abandonment's trap.
Noted(p, result) ==
  IF p \notin Ends THEN ev
  ELSE [ev EXCEPT ![p] = IF p = "r" /\ result = "dropped" /\ abandoned'
                         THEN "abandoned" ELSE result]

\* settle, for an operation of the host.
Settled(h, p, result) ==
  IF p \notin HostOps THEN h
  ELSE [h EXCEPT !.busy = FALSE, !.delivered = @ \/ result = "completed",
                 !.closed = @ \/ result = "dropped"]

\* A readable end cannot observe DROPPED.
Refuses(p, result) == p = "r" /\ result = "dropped" /\ ~abandoned'

\* SharedFutureImpl.drop and dropSharedForTeardown: the parked side is told,
\* unless it is one of the dead; the observers close the wrapper's activity.
DropShared(h, dead) ==
  IF dropped
  THEN UNCHANGED <<dropped, parked, ev>> /\ host' = h /\ fault' = FALSE
  ELSE LET told == parked \in HostOps \/ (parked \in Ends /\ owner[parked] \notin dead)
       IN  /\ dropped' = TRUE /\ parked' = None
           /\ ev' = IF told THEN Noted(parked, "dropped") ELSE ev
           /\ host' = [(IF told THEN Settled(h, parked, "dropped") ELSE h)
                       EXCEPT !.closed = h.kind # "none"]
           /\ fault' = (told /\ Refuses(parked, "dropped"))

\* A writable end that is not DONE never delivered its value.
Owes(table) == "w" \in table /\ cstate["w"] # "done" /\ ~dropped

\* retireInstanceAsyncEnds over the handle table of a dying instance.
Retire(i, table) ==
  /\ poisoned' = poisoned \cup {i}
  /\ abandoned' = (abandoned \/ Owes(table))
  /\ IF table = {} THEN UNCHANGED <<dropped, parked, ev, host>> /\ fault' = FALSE
     ELSE DropShared(host, poisoned')
  /\ UNCHANGED crossed

\* Mutant: the walk over a dead instance's table sees readable ends only.
TableOfReaders(i) == {e \in {"r"} : handle[e] = "held" /\ owner[e] = i}

Table(i) == {e \in Ends : handle[e] = "held" /\ owner[e] = i}

-----------------------------------------------------------------------------
(* Guests: future.read and future.write, their events, cancellation, drop.     *)

MayCopy(e, async) == Live(e) /\ cstate[e] = "idle" /\ (wait[e] = "set" => async)

MayMeet(e) == ~NumberElem /\ parked \in Ends => owner[e] # owner[parked]

\* A write to a dropped future is answered at once.
WriteDropped(async) ==
  /\ MayCopy("w", async) /\ dropped
  /\ cstate' = [cstate EXCEPT !["w"] = "done"]
  /\ fault' = FALSE
  /\ UNCHANGED <<owner, handle, ev, wait, shared, poisoned, host>>

CopyParks(e, async) ==
  /\ MayCopy(e, async) /\ ~dropped /\ parked = None
  /\ parked' = e
  /\ cstate' = [cstate EXCEPT ![e] = "copying"]
  /\ wait' = IF ~async /\ Jspi THEN [wait EXCEPT ![e] = "sync"] ELSE wait
  /\ fault' = FALSE
  /\ UNCHANGED <<owner, handle, ev, dropped, abandoned, crossed, poisoned, host>>

CopyMeets(e, async) ==
  /\ MayCopy(e, async) /\ ~dropped /\ parked # None /\ MayMeet(e)
  /\ crossed' = crossed \cup {e, parked}
  /\ parked' = None
  /\ cstate' = [cstate EXCEPT ![e] = "done"]
  /\ UNCHANGED abandoned
  /\ ev' = Noted(parked, "completed")
  /\ host' = Settled(host, parked, "completed")
  /\ fault' = FALSE
  /\ UNCHANGED <<owner, handle, wait, dropped, poisoned>>

\* SharedFutureImpl.read traps on an abandoned future; on one that was dropped
\* otherwise its assert_ fails.
ReadDropped(async) ==
  /\ MayCopy("r", async) /\ dropped
  /\ IF abandoned THEN Retire(owner["r"], Table(owner["r"]))
     ELSE fault' = TRUE /\ UNCHANGED <<ev, shared, poisoned, host>>
  /\ UNCHANGED <<owner, handle, cstate, wait>>

\* futureEvent, or the thunk that throws the abandonment's trap.
TakeEvent(e) ==
  IF ev[e] = "abandoned"
  THEN Retire(owner[e], Table(owner[e])) /\ UNCHANGED <<owner, handle, cstate, wait>>
  ELSE /\ cstate' = [cstate EXCEPT ![e] = "done"]
       /\ ev' = [ev EXCEPT ![e] = "none"]
       /\ wait' = [wait EXCEPT ![e] = IF @ = "sync" THEN "no" ELSE @]
       /\ fault' = (cstate[e] # "copying")
       /\ UNCHANGED <<owner, handle, shared, poisoned, host>>

Deliver(e) == Live(e) /\ ev[e] # "none" /\ wait[e] # "no" /\ TakeEvent(e)

\* A settled copy answers with its event, a parked one is taken back.
CancelCopy(e, async) ==
  /\ Live(e) /\ cstate[e] = "copying" /\ wait[e] # "sync" /\ (wait[e] = "set" => async)
  /\ \/ ev[e] # "none" /\ TakeEvent(e)
     \/ /\ ev[e] = "none"
        /\ parked' = None
        /\ cstate' = [cstate EXCEPT ![e] = "idle"]
        /\ fault' = (parked # e)
        /\ UNCHANGED <<owner, handle, ev, wait, dropped, abandoned, crossed, poisoned, host>>

Join(e) ==
  /\ Live(e) /\ wait[e] # "sync"
  /\ wait' = [wait EXCEPT ![e] = IF @ = "set" THEN "no" ELSE "set"]
  /\ fault' = FALSE
  /\ UNCHANGED <<owner, handle, cstate, ev, shared, poisoned, host>>

\* Mutant: the obligation to write is not asked of the writable end.
MayDropUnwritten(e) == cstate[e] # "copying"

MayDrop(e) == cstate[e] # "copying" /\ (e = "w" => cstate["w"] = "done")

Drop(e) ==
  /\ Live(e) /\ MayDrop(e)
  /\ handle' = [handle EXCEPT ![e] = "dropped"]
  /\ wait' = [wait EXCEPT ![e] = "no"]
  /\ UNCHANGED abandoned
  /\ DropShared(host, {})
  /\ UNCHANGED <<owner, cstate, crossed, poisoned>>

\* Mutant: an end with a copy outstanding moves.
MovableBusy == Live("r") /\ wait["r"] = "no"

Movable == Live("r") /\ cstate["r"] = "idle" /\ wait["r"] = "no"

\* A drop or a transfer that traps has removed the handle before.
RemoveTraps(e) ==
  /\ Live(e) /\ (~MayDrop(e) \/ (e = "r" /\ ~Movable))
  /\ handle' = [handle EXCEPT ![e] = "lost"]
  /\ Retire(owner[e], Table(owner[e]) \ {e})
  /\ UNCHANGED <<owner, cstate, wait>>

\* Guest code traps, by itself or in a built-in it misused.
Trap(i) ==
  /\ i \in Insts \ poisoned
  /\ Retire(i, Table(i))
  /\ UNCHANGED <<owner, handle, cstate, wait>>

Transfer(i) ==
  /\ Movable /\ i \in Insts \ (poisoned \cup {owner["r"]})
  /\ owner' = [owner EXCEPT !["r"] = i]
  /\ fault' = FALSE
  /\ UNCHANGED <<handle, cstate, ev, wait, shared, poisoned, host>>

-----------------------------------------------------------------------------
(* The readable end crosses to the host and back.                              *)

\* Mutant: a lift does not bring the host's claim back.
StaysDisarmed(h) == h.disarmed

\* onLifted: rearm.
Rearmed(h) == FALSE

\* fromLifted over hostFutureFor: the one wrapper of this future, a new handle.
Lift ==
  /\ Movable
  /\ owner' = [owner EXCEPT !["r"] = Host]
  /\ host' = [(IF host.kind = "none" THEN Wrapper("lifted") ELSE host)
              EXCEPT !.bound = TRUE, !.disarmed = Rearmed(host), !.current = "fresh",
                     !.closed = @ \/ dropped]
  /\ fault' = FALSE
  /\ UNCHANGED <<handle, cstate, ev, wait, shared, poisoned>>

\* lowerFuture: onLowered disarms a lifted wrapper and binds a created one.
Lowered(h) == [h EXCEPT !.lowered = TRUE, !.bound = TRUE, !.disarmed = h.kind = "lifted"]

\* takeValue asks only whether the handle was passed on before; or the promise
\* of lowerFutureSource is lowered, which has no handle.
Lower(i) ==
  /\ owner["r"] = Host /\ i \in Insts \ poisoned
  /\ \/ /\ host.current # "none"
        /\ Careful => host.current = "fresh"
        /\ host' = [Lowered(host) EXCEPT !.current = "none", !.stale = ~Careful]
        /\ handle' = [handle EXCEPT !["r"] = "held"]
     \/ /\ host.kind = "created" /\ ~host.lowered
        /\ host' = Lowered(host)
        /\ UNCHANGED handle
  /\ owner' = [owner EXCEPT !["r"] = i]
  /\ fault' = FALSE
  /\ UNCHANGED <<cstate, ev, wait, shared, poisoned>>

-----------------------------------------------------------------------------
(* The host's operations.                                                      *)

\* A promise that settles with the value; a wrapper that is busy refuses the
\* write, and the refusal is reported like a failure of the producer.
MaySettle == host.producer = "pending" /\ (Deferred \/ host.lowered)

HostWrite ==
  /\ MaySettle /\ ~host.busy
  /\ LET h == [host EXCEPT !.producer = "done"]
     IN  \/ /\ dropped
            /\ host' = Settled(h, "hw", "dropped")
            /\ UNCHANGED <<ev, shared>>
         \/ /\ ~dropped /\ parked = None
            /\ parked' = "hw" /\ host' = [h EXCEPT !.busy = TRUE]
            /\ UNCHANGED <<ev, dropped, abandoned, crossed>>
         \/ /\ ~dropped /\ parked # None
            /\ crossed' = crossed \cup {"hw", parked}
            /\ parked' = None
            /\ UNCHANGED <<dropped, abandoned>>
            /\ ev' = Noted(parked, "completed")
            /\ host' = Settled(Settled(h, parked, "completed"), "hw", "completed")
  /\ fault' = FALSE
  /\ UNCHANGED <<owner, handle, cstate, wait, poisoned>>

\* With a store to report to, the future is left as it is: the call in flight
\* fails.  A future that was never lowered is dropped.
ProducerFails ==
  /\ MaySettle
  /\ UNCHANGED abandoned
  /\ LET h == [host EXCEPT !.producer = "failed"]
     IN  IF h.bound THEN host' = h /\ fault' = FALSE /\ UNCHANGED <<ev, parked, dropped>>
         ELSE DropShared(h, {})
  /\ UNCHANGED <<owner, handle, cstate, wait, crossed, poisoned>>

\* Awaiting a handle, once: it is refused for a busy wrapper, answered at once
\* for a dropped future, and a read of the shared future otherwise.
HostRead ==
  /\ host.current = "fresh"
  /\ LET h == [host EXCEPT !.current = "awaited"]
     IN  \/ /\ host.busy \/ dropped
            /\ host' = h
            /\ UNCHANGED <<ev, shared>>
         \/ /\ ~host.busy /\ ~dropped /\ parked = None
            /\ parked' = "hr" /\ host' = [h EXCEPT !.busy = TRUE]
            /\ UNCHANGED <<ev, dropped, abandoned, crossed>>
         \/ /\ ~host.busy /\ ~dropped /\ parked # None
            /\ crossed' = crossed \cup {"hr", parked}
            /\ parked' = None
            /\ UNCHANGED <<dropped, abandoned>>
            /\ ev' = Noted(parked, "completed")
            /\ host' = Settled(Settled(h, parked, "completed"), "hr", "completed")
  /\ fault' = FALSE
  /\ UNCHANGED <<owner, handle, cstate, wait, poisoned>>

\* Through any handle: it takes back whatever the wrapper has parked, be it the
\* write of the producer.
HostCancel ==
  /\ host.busy /\ (host.current # "none" \/ host.stale)
  /\ Careful => parked = "hr"
  /\ parked' = None
  /\ host' = [host EXCEPT !.busy = FALSE]
  /\ fault' = (parked \notin HostOps)
  /\ UNCHANGED <<owner, handle, cstate, ev, wait, dropped, abandoned, crossed, poisoned>>

\* HostFuture.drop, through the current handle or one that was passed on.
HostDrop ==
  /\ \/ /\ host.current \in {"fresh", "awaited"} /\ owner["r"] = Host /\ handle["r"] = "held"
        /\ handle' = [handle EXCEPT !["r"] = "dropped"]
     \/ host.stale /\ UNCHANGED handle
  /\ abandoned' = (abandoned \/ (~host.delivered /\ host.lowered /\ ~dropped))
  /\ DropShared([host EXCEPT !.current = IF handle' = handle THEN @ ELSE "none",
                             !.stale = @ /\ handle' # handle, !.closed = TRUE],
                IF abandoned' THEN poisoned ELSE {})
  /\ UNCHANGED <<owner, cstate, wait, crossed, poisoned>>

\* A host import that throws lets go of the future it was given, and its guest
\* caller traps.
ImportTraps ==
  /\ Movable
  /\ LET i == owner["r"]
     IN  /\ handle' = [handle EXCEPT !["r"] = "dropped"]
         /\ poisoned' = poisoned \cup {i}
         /\ UNCHANGED abandoned
         /\ DropShared(IF host.kind = "none" THEN Wrapper("lifted") ELSE host, poisoned)
  /\ UNCHANGED <<owner, cstate, wait, crossed>>

GuestNext ==
  \/ \E e \in Ends, async \in BOOLEAN : CopyParks(e, async) \/ CopyMeets(e, async) \/ CancelCopy(e, async)
  \/ \E async \in BOOLEAN : WriteDropped(async) \/ ReadDropped(async)
  \/ \E e \in Ends : Deliver(e) \/ Join(e) \/ Drop(e) \/ RemoveTraps(e)
  \/ \E i \in Insts : Trap(i) \/ Transfer(i)

HostNext ==
  \/ Lift \/ ImportTraps \/ HostWrite \/ ProducerFails \/ HostRead \/ HostCancel \/ HostDrop
  \/ \E i \in Insts : Lower(i)

Next == GuestNext \/ HostNext
Spec == Init /\ [][Next]_vars

-----------------------------------------------------------------------------
(* Properties.                                                                 *)

TypeOK ==
  /\ owner \in [Ends -> Insts \cup {Host}]
  /\ handle \in [Ends -> {"held", "dropped", "lost"}]
  /\ cstate \in [Ends -> {"idle", "copying", "done"}]
  /\ ev \in [Ends -> {"none", "completed", "dropped", "abandoned"}]
  /\ wait \in [Ends -> {"no", "set", "sync"}]
  /\ parked \in Ends \cup HostOps \cup {None}
  /\ dropped \in BOOLEAN /\ abandoned \in BOOLEAN /\ fault \in BOOLEAN
  /\ crossed \subseteq Ends \cup HostOps
  /\ poisoned \subseteq Insts

\* Whoever waits for the value and can still be told: a guest's outstanding
\* operation without an event, or the host's.
Waits(p) == IF p \in Ends THEN Live(p) /\ cstate[p] = "copying" /\ ev[p] = "none"
            ELSE host.busy /\ parked = p

\* Somebody can still write.
WriterAlive == \/ Live("w")
               \/ owner["w"] = Host /\ host.producer = "pending"
               \/ handle["w"] = "lost"

\* A reader, guest or host, never waits for a writer that is gone: whichever of
\* them came first, and however the writer went, it has its answer or its trap.
\* (A producer that failed leaves its reader to the failure of the call.)
ReaderTold == \A p \in Readers : Waits(p) => WriterAlive \/ host.producer = "failed"

\* The value crosses between one writer and one reader, and a reader can be told
\* of an abandonment only when it never crossed.
ValueOnce ==
  /\ crossed # {} => Cardinality(crossed \cap Readers) = 1 /\ Cardinality(crossed) = 2
  /\ abandoned /\ Live("r") /\ cstate["r"] # "done" /\ ev["r"] # "completed" => crossed = {}

\* No assert_ of the shared future, its ends or its wrapper fails; the one that
\* matters says that a readable end never observes DROPPED.
NoAssertFails == ~fault

\* The claim "the embedder may still act", which keeps deadlock from being
\* reported, stands exactly as long as the host holds an end of a live future.
RetentionClaim ==
  Armed <=> /\ ~dropped /\ host.bound
            /\ host.kind = "created" \/ (owner["r"] = Host /\ handle["r"] = "held")
=============================================================================
