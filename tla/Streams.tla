------------------------------- MODULE Streams -------------------------------
(* One component-model stream between guests: the shared rendezvous, its two   *)
(* ends, and what a trap leaves of them.                                       *)
(*   runtime/src/task/streams.ts              SharedStreamImpl, CopyEnd        *)
(*   runtime/src/task/waitable.ts             Waitable                         *)
(*   runtime/src/intrinsics/stream_builtins.ts  read, write, cancel, drop,     *)
(*                                            transfer                         *)
(*                                                                             *)
(* The stream is no buffer: at most one end is parked, with the buffer of its  *)
(* outstanding operation, and elements move when the other end arrives.  An    *)
(* element is a number, its place in what the writer sends; a buffer is its    *)
(* length and a cursor.  Each action is one built-in, which runs to completion *)
(* (so CANCELLING_COPY never shows between actions), or the delivery of an     *)
(* event.                                                                      *)
EXTENDS Integers

CONSTANTS
  Insts,      \* component instances
  Creator,    \* the instance that calls stream.new
  NumberElem, \* the element type is a number (or none): same-instance copies work
  Jspi,       \* a synchronous copy can block its wasm frame
  None,       \* "no end is parked"
  MaxLen,     \* bound on the length of a buffer
  MaxSent     \* bound on the elements the writer offers

ASSUME StreamAssumption == /\ Creator \in Insts
                           /\ NumberElem \in BOOLEAN /\ Jspi \in BOOLEAN
                           /\ MaxLen \in Nat /\ MaxSent \in Nat

Ends == {"r", "w"}
Peer(e) == IF e = "r" THEN "w" ELSE "r"

ASSUME NoneAssumption == None \notin Ends

VARIABLES
  owner,    \* the instance whose handle table holds the end, or held it last
  handle,   \* held; dropped; or lost, removed by a built-in that then trapped
  cstate,   \* CopyEnd.state
  len,      \* length of the outstanding operation's buffer
  progress, \* its cursor
  ev,       \* Waitable.pendingEvent: none, copied (a thunk that reclaims the
            \* parked buffer), completed, or dropped
  wait,     \* the end is in a waitable set, has a synchronous waiter, or neither
  parked,   \* the end whose buffer the shared stream holds (pendingBuffer)
  dropped,  \* SharedStreamImpl.dropped
  told,     \* elements the guest at the end was told of so far
  poisoned, \* instances a trap has ended
  fault     \* the last step broke an assert_

vars == <<owner, handle, cstate, len, progress, ev, wait, parked, dropped, told, poisoned, fault>>

States == {"idle", "copying", "done"}
Events == {"none", "copied", "completed", "dropped"}

Init ==
  /\ owner = [e \in Ends |-> Creator]
  /\ handle = [e \in Ends |-> "held"]
  /\ cstate = [e \in Ends |-> "idle"]
  /\ len = [e \in Ends |-> 0] /\ progress = [e \in Ends |-> 0]
  /\ ev = [e \in Ends |-> "none"]
  /\ wait = [e \in Ends |-> "no"]
  /\ parked = None /\ dropped = FALSE
  /\ told = [e \in Ends |-> 0]
  /\ poisoned = {} /\ fault = FALSE

\* A guest can name the end in a built-in: the code of a dead instance is over.
Live(e) == handle[e] = "held" /\ owner[e] \notin poisoned

-----------------------------------------------------------------------------
(* stream.read and stream.write.  Everything that makes them trap without a    *)
(* change of the stream is in Trap.                                            *)

\* Mutant: the cursor is not subtracted.
RemainUnread(e) == len[e]

Remain(e) == len[e] - progress[e]

MayCopy(e, n, async) ==
  /\ Live(e) /\ cstate[e] = "idle"
  /\ wait[e] = "set" => async
  /\ n \in 0..MaxLen
  /\ e = "w" => told[e] + n <= MaxSent

\* trapOnSameInstance.
MayMeet(e) == ~NumberElem /\ parked # None => owner[e] # owner[parked]

\* Nobody is parked, or the parked buffer is exhausted: it is retired, unless
\* an empty write meets an empty read, which completes as a handshake.
Parks(e, n) == parked # None =>
  Remain(parked) = 0 /\ ~(e = "w" /\ n = 0 /\ len[parked] = 0)

CopyDropped(e, n, async) ==
  /\ MayCopy(e, n, async) /\ dropped
  /\ cstate' = [cstate EXCEPT ![e] = "done"]
  /\ fault' = FALSE
  /\ UNCHANGED <<owner, handle, len, progress, ev, wait, parked, dropped, told, poisoned>>

\* A synchronous copy blocks its frame, where frames can block; the end is
\* left outstanding without a waiter otherwise (NeedsJspi).
CopyParks(e, n, async) ==
  /\ MayCopy(e, n, async) /\ ~dropped /\ MayMeet(e) /\ Parks(e, n)
  /\ ev' = [x \in Ends |-> IF x = parked THEN "completed" ELSE ev[x]]
  /\ parked' = e
  /\ cstate' = [cstate EXCEPT ![e] = "copying"]
  /\ len' = [len EXCEPT ![e] = n]
  /\ progress' = [progress EXCEPT ![e] = 0]
  /\ wait' = IF ~async /\ Jspi THEN [wait EXCEPT ![e] = "sync"] ELSE wait
  /\ fault' = FALSE
  /\ UNCHANGED <<owner, handle, dropped, told, poisoned>>

Least(m, n) == IF m < n THEN m ELSE n

\* The copy happens, and the arriving end is told at once; the parked one keeps
\* its buffer there until it takes its event.
CopyMeets(e, n, async) ==
  /\ MayCopy(e, n, async) /\ ~dropped /\ MayMeet(e) /\ ~Parks(e, n)
  /\ LET k == Least(n, Remain(parked))
     IN  /\ progress' = [progress EXCEPT ![parked] = @ + k]
         /\ told' = [told EXCEPT ![e] = @ + k]
         /\ ev' = IF k > 0 THEN [ev EXCEPT ![parked] = "copied"] ELSE ev
  /\ fault' = FALSE
  /\ UNCHANGED <<owner, handle, cstate, len, wait, parked, dropped, poisoned>>

-----------------------------------------------------------------------------
(* The end of an outstanding operation: its event, or a cancellation.          *)

\* Mutant: the thunk forgets to take the buffer back.
ReclaimNothing(e) == parked

\* resetPending, run by the thunk of a partial copy.
Reclaim(e) == IF ev[e] = "copied" THEN None ELSE parked

\* The event's payload is computed now, with the cursor as it is.
Take(e) ==
  /\ cstate' = [cstate EXCEPT ![e] = IF ev[e] = "dropped" THEN "done" ELSE "idle"]
  /\ ev' = [ev EXCEPT ![e] = "none"]
  /\ len' = [len EXCEPT ![e] = 0]
  /\ progress' = [progress EXCEPT ![e] = 0]

\* By a waitable set, or because the blocked frame resumes.
Deliver(e) ==
  /\ Live(e) /\ ev[e] # "none" /\ wait[e] # "no"
  /\ Take(e)
  /\ told' = [told EXCEPT ![e] = @ + progress[e]]
  /\ parked' = Reclaim(e)
  /\ wait' = [wait EXCEPT ![e] = IF @ = "sync" THEN "no" ELSE @]
  /\ fault' = (cstate[e] # "copying")
  /\ UNCHANGED <<owner, handle, dropped, poisoned>>

\* Mutant: a synchronous waiter does not keep a cancellation out.
CancellableAnyway(e, async) == Live(e) /\ cstate[e] = "copying" /\ (wait[e] = "set" => async)

Cancellable(e, async) ==
  Live(e) /\ cstate[e] = "copying" /\ wait[e] # "sync" /\ (wait[e] = "set" => async)

\* Mutant: a cancelled copy reports no progress.
ToldNothing(e) == told

\* CANCELLED supersedes COMPLETED, and keeps the count.
ToldOfCancel(e) == [told EXCEPT ![e] = @ + progress[e]]

CancelCopy(e, async) ==
  /\ Cancellable(e, async)
  /\ Take(e)
  /\ told' = ToldOfCancel(e)
  /\ parked' = IF ev[e] = "none" THEN None ELSE Reclaim(e)
  /\ fault' = (ev[e] = "none" /\ parked # e)
  /\ UNCHANGED <<owner, handle, wait, dropped, poisoned>>

Join(e) ==
  /\ Live(e) /\ wait[e] # "sync"
  /\ \E w \in {"no", "set"} : w # wait[e] /\ wait' = [wait EXCEPT ![e] = w]
  /\ fault' = FALSE
  /\ UNCHANGED <<owner, handle, cstate, len, progress, ev, parked, dropped, told, poisoned>>

-----------------------------------------------------------------------------
(* The ends come and go.                                                       *)

\* Mutant: dropping an end does not notify the parked one.
NotifyNobody == ev

\* resetAndNotifyPending(DROPPED).
NotifyParked == [x \in Ends |-> IF x = parked THEN "dropped" ELSE ev[x]]

Drop(e) ==
  /\ Live(e) /\ cstate[e] # "copying"
  /\ handle' = [handle EXCEPT ![e] = "dropped"]
  /\ wait' = [wait EXCEPT ![e] = "no"]
  /\ dropped' = TRUE
  /\ IF dropped THEN UNCHANGED <<ev, parked>> ELSE ev' = NotifyParked /\ parked' = None
  /\ fault' = (ev[e] # "none" \/ wait[e] = "sync")
  /\ UNCHANGED <<owner, cstate, len, progress, told, poisoned>>

\* Only the readable end is ever passed on, between operations.
Transfer(i) ==
  /\ Live("r") /\ cstate["r"] = "idle" /\ wait["r"] = "no" /\ i # owner["r"]
  /\ owner' = [owner EXCEPT !["r"] = i]
  /\ fault' = FALSE
  /\ UNCHANGED <<handle, cstate, len, progress, ev, wait, parked, dropped, told, poisoned>>

\* Mutant: whoever is parked when an instance dies is taken for dead.
EveryoneDead(p, i) == TRUE

\* The parked side belongs to a dead guest: its event would never be taken.
ParkedInDeadGuest(p, i) == owner[p] \in poisoned \cup {i}

\* retireInstanceAsyncEnds: the ends the table of a dying instance holds.
Retire(i, table) ==
  /\ poisoned' = poisoned \cup {i}
  /\ IF dropped \/ table = {} THEN UNCHANGED <<dropped, parked, ev>>
     ELSE /\ dropped' = TRUE /\ parked' = None
          /\ ev' = IF parked # None /\ ~ParkedInDeadGuest(parked, i) THEN NotifyParked ELSE ev
  /\ fault' = FALSE

Table(i) == {e \in Ends : handle[e] = "held" /\ owner[e] = i}

\* Guest code of i traps, by itself or in a built-in it misused.
Trap(i) ==
  /\ i \in Insts \ poisoned
  /\ Retire(i, Table(i))
  /\ UNCHANGED <<owner, handle, cstate, len, progress, wait, told>>

\* Dropping or passing on a busy end traps, after the handle was removed.
RemoveTraps(e) ==
  /\ Live(e)
  /\ cstate[e] = "copying" \/ (e = "r" /\ (cstate[e] = "done" \/ wait[e] = "set"))
  /\ handle' = [handle EXCEPT ![e] = "lost"]
  /\ Retire(owner[e], Table(owner[e]) \ {e})
  /\ UNCHANGED <<owner, cstate, len, progress, wait, told>>

Next ==
  \/ \E e \in Ends, n \in 0..MaxLen, async \in BOOLEAN :
       CopyDropped(e, n, async) \/ CopyParks(e, n, async) \/ CopyMeets(e, n, async)
  \/ \E e \in Ends : \/ Deliver(e) \/ Join(e) \/ Drop(e) \/ RemoveTraps(e)
                     \/ \E async \in BOOLEAN : CancelCopy(e, async)
  \/ \E i \in Insts : Transfer(i) \/ Trap(i)

Spec == Init /\ [][Next]_vars

-----------------------------------------------------------------------------
(* Properties.                                                                 *)

\* Every variable keeps its type, and no cursor leaves its buffer.
TypeOK ==
  /\ owner \in [Ends -> Insts]
  /\ handle \in [Ends -> {"held", "dropped", "lost"}]
  /\ cstate \in [Ends -> States]
  /\ len \in [Ends -> Nat] /\ progress \in [Ends -> Nat]
  /\ \A e \in Ends : progress[e] <= len[e]
  /\ ev \in [Ends -> Events]
  /\ wait \in [Ends -> {"no", "set", "sync"}]
  /\ parked \in Ends \cup {None}
  /\ dropped \in BOOLEAN
  /\ told \in [Ends -> Nat]
  /\ poisoned \subseteq Insts
  /\ fault \in BOOLEAN

\* The shared stream holds the buffer of an outstanding operation or none; a
\* live outstanding operation is parked or has its event; and the thunk of a
\* live end only ever takes back that end's own buffer.
ParkedSide ==
  /\ parked # None => /\ cstate[parked] = "copying" /\ ~dropped
                      /\ ev[parked] \in {"none", "copied"}
  /\ \A e \in Ends : Live(e) =>
       /\ ev[e] # "none" => cstate[e] = "copying"
       /\ cstate[e] = "copying" => parked = e \/ ev[e] # "none"
       /\ ev[e] = "copied" => parked = e

\* No element is lost or copied twice: what the writer was and will be told is
\* what the reader was and will be told, through partial copies, cancellations
\* and drops.
Conservation == told["w"] + progress["w"] = told["r"] + progress["r"]

\* No assert_ of the waitables or of the shared stream fails.
NoAssertFails == ~fault

Stranded(e) == Live(e) /\ cstate[e] = "copying" /\ ev[e] = "none"

\* Whoever waits for an end that was dropped is told.
DroppedEndTold == \A e \in Ends : handle[Peer(e)] = "dropped" => ~Stranded(e)

\* Whoever waits for an end that went with its instance is told; first an end
\* that a trapping built-in had removed, then one the dead instance holds.  (No run of
\* the second: the code breaks it.)
LostEndTold == \A e \in Ends : handle[Peer(e)] = "lost" => ~Stranded(e)
DeadEndTold == \A e \in Ends :
  handle[Peer(e)] = "held" /\ owner[Peer(e)] \in poisoned => ~Stranded(e)

\* The guests see a rendezvous channel.
Chan == INSTANCE Channel WITH
  Lengths <- 0..MaxLen,
  phase <- [e \in Ends |-> IF cstate[e] # "copying" THEN cstate[e]
                           ELSE IF ev[e] = "none" THEN "busy" ELSE "ready"],
  room <- [e \in Ends |-> Remain(e)],
  moved <- told["r"] + progress["r"],
  closed <- dropped
RendezvousChannel == Chan!ChanSpec
=============================================================================
