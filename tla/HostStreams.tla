----------------------------- MODULE HostStreams -----------------------------
(* One stream between a guest and the host: the guest's ends, the host's ends  *)
(* over the same rendezvous, the embedder's handles, and the pump that feeds   *)
(* a stream from a producer.                                                   *)
(*   runtime/src/exec/host_streams.ts   HostBuffer, HostStream, HostActivity   *)
(*   runtime/src/embedder/streams.ts    Stream, StreamWriter, the pump         *)
(*   runtime/src/task/streams.ts        SharedStreamImpl                       *)
(* What only guests do is in Streams.  The parties of the rendezvous are the   *)
(* guest ends r and w and the host's operations hr and hw; elements are        *)
(* counted.                                                                    *)
EXTENDS Integers

CONSTANTS
  Insts,    \* component instances
  Host,     \* the embedder
  Creators, \* who may create the stream: instances (stream.new), Host
  Careful,  \* the embedder passes a handle on only without a read in flight, and
            \* does not drop it afterwards
  Deferred, \* a call waits at a gate between the adaptation of its arguments
            \* and their lowering
  MaxLen,   \* bound on the length of a buffer
  MaxSent,  \* bound on the elements written
  None      \* "nobody is parked"

Ends == {"r", "w"}
HostOps == {"hr", "hw"}
Parties == Ends \cup HostOps

VARIABLES
  owner,    \* end -> who holds it
  handle,   \* end -> held or dropped
  phase,    \* party -> idle; out, its operation is outstanding; done, for a guest
            \* end told of DROPPED; back, for a host operation that has resolved
            \* and whose awaiter has not run yet
  ev,       \* guest end -> its pending event
  len, progress, \* party -> the buffer of its operation
  told,     \* party -> elements it was told of so far
  parked,   \* the party whose buffer the shared stream holds
  dropped,  \* SharedStreamImpl.dropped
  poisoned, \* instances a trap has ended
  peerDied, \* poisonFailures has the stream
  host,     \* the wrapper, its HostActivity, its handles
  feed      \* the host's writer: the producer's pump, or the embedder

guests == <<owner, handle, ev>>
vars == <<guests, phase, len, progress, told, parked, dropped, poisoned, peerDied, host, feed>>

\* kind: lifted; or of the host, for a StreamWriter or for a producer that is
\* pumped.  current: the handle that owns the readable end.  out: what its last read gave.
Wrapper(k) == [kind |-> k, bound |-> FALSE, closed |-> FALSE, disarmed |-> FALSE,
               current |-> k = "writer", stale |-> FALSE, out |-> "none"]

Created == {"writer", "pumped"}
Pumped == host.kind = "pumped"

\* at: idle; pull, the producer is asked; gone, it was told that the reader
\* went; batch, a batch is being written; over.  rest: of the batch.  loop: writeAll.
NoFeed == [at |-> "idle", rest |-> 0, loop |-> FALSE, lowered |-> 0, released |-> 0,
           failed |-> FALSE, reported |-> FALSE]

Init ==
  /\ owner \in {[e \in Ends |-> c] : c \in Creators}
  /\ handle = [e \in Ends |-> "held"]
  /\ phase = [p \in Parties |-> "idle"]
  /\ ev = [e \in Ends |-> "none"]
  /\ len = [p \in Parties |-> 0] /\ progress = len /\ told = len
  /\ parked = None /\ dropped = FALSE /\ poisoned = {} /\ peerDied = FALSE
  /\ host \in {Wrapper(k) : k \in IF owner["w"] = Host THEN Created ELSE {"none"}}
  /\ feed = [NoFeed EXCEPT !.at = IF Pumped THEN "pull" ELSE "idle"]

Live(e) == handle[e] = "held" /\ owner[e] \in Insts \ poisoned
Remain(p) == len[p] - progress[p]
Least(m, n) == IF m < n THEN m ELSE n
Sum(f, S) == (IF "w" \in S THEN f["w"] ELSE 0) + (IF "hw" \in S THEN f["hw"] ELSE 0)
           + (IF "r" \in S THEN f["r"] ELSE 0) + (IF "hr" \in S THEN f["hr"] ELSE 0)
Sent == Sum(told, {"w", "hw"}) + Sum(progress, {"w", "hw"})
Armed == host.bound /\ ~host.closed /\ ~host.disarmed

-----------------------------------------------------------------------------
(* The rendezvous, with a buffer of n elements of party p arriving.            *)

\* onCopy: a host read resolves with what it got, a host write stays parked
\* until its offer is exhausted.
LetsGo(q, k) == q = "hr" \/ (q = "hw" /\ Remain(q) = k)

Parks(n, writing) == parked # None => Remain(parked) = 0 /\ ~(writing /\ n = 0 /\ len[parked] = 0)

\* pendingBuffer is retired with COMPLETED and p takes its place.  t: what the
\* parties were told before.
Park(p, n, t) ==
  /\ parked' = p
  /\ len' = [len EXCEPT ![p] = n]
  /\ progress' = [progress EXCEPT ![p] = 0]
  /\ phase' = [q \in Parties |-> IF q = p THEN "out"
                                 ELSE IF q = parked /\ q \in HostOps THEN "back" ELSE phase[q]]
  /\ ev' = [e \in Ends |-> IF e = parked THEN "completed" ELSE ev[e]]
  /\ told' = t

\* Mutant: a copy is not capped by what the parked side has left.
MeetUncapped(p, n, t, after) ==
  /\ progress' = [progress EXCEPT ![parked] = @ + n]
  /\ len' = [len EXCEPT ![p] = 0]
  /\ told' = [t EXCEPT ![p] = @ + n]
  /\ UNCHANGED <<ev, parked, phase>>

\* The copy happens; p is told at once, the parked side through its event or,
\* a host operation, when it is let go.
Meet(p, n, t, after) ==
  LET k == Least(n, Remain(parked))
      freed == k > 0 /\ LetsGo(parked, k)
  IN  /\ progress' = [progress EXCEPT ![parked] = @ + k, ![p] = IF p \in HostOps THEN k ELSE 0]
      /\ len' = [len EXCEPT ![p] = IF p \in HostOps THEN n ELSE 0]
      /\ told' = [t EXCEPT ![p] = IF p \in HostOps THEN @ ELSE @ + k]
      /\ ev' = IF k > 0 /\ parked \in Ends THEN [ev EXCEPT ![parked] = "copied"] ELSE ev
      /\ parked' = IF freed THEN None ELSE parked
      /\ phase' = [q \in Parties |-> IF q = p THEN after
                                     ELSE IF q = parked /\ freed THEN "back" ELSE phase[q]]

\* A host operation that finds the stream dropped resolves with nothing.
Nothing(p, n, t) ==
  /\ phase' = [phase EXCEPT ![p] = "back"]
  /\ len' = [len EXCEPT ![p] = n]
  /\ progress' = [progress EXCEPT ![p] = 0]
  /\ told' = t
  /\ UNCHANGED <<ev, parked>>

HostCopy(p, n, t) ==
  /\ \/ dropped /\ Nothing(p, n, t)
     \/ ~dropped /\ Parks(n, p = "hw") /\ Park(p, n, t)
     \/ ~dropped /\ ~Parks(n, p = "hw") /\ Meet(p, n, t, "back")
  /\ UNCHANGED <<owner, handle, dropped, poisoned, peerDied>>

\* notifyDropped: the observers close the wrapper's activity.
Closed(h) == [h EXCEPT !.closed = h.kind # "none"]

\* SharedStreamImpl.drop, dropSharedForTeardown: a side parked in a dead guest
\* is not told.
DropShared(dead) ==
  /\ dropped' = TRUE
  /\ IF dropped THEN UNCHANGED <<parked, ev>>
     ELSE /\ parked' = None
          /\ ev' = [e \in Ends |-> IF e = parked /\ owner[e] \notin dead THEN "dropped" ELSE ev[e]]

\* Mutant: the promise of the host's operation stays pending.
FreedNobody == phase

\* ... and a host operation resolves with what had crossed.
Freed == [q \in Parties |-> IF ~dropped /\ q = parked /\ q \in HostOps THEN "back" ELSE phase[q]]

-----------------------------------------------------------------------------
(* The guest's ends.                                                           *)

GuestCopy(e, n) ==
  /\ Live(e) /\ phase[e] = "idle"
  /\ e = "w" => Sent + n <= MaxSent
  /\ \/ /\ dropped /\ phase' = [phase EXCEPT ![e] = "done"]
        /\ UNCHANGED <<ev, len, progress, told, parked>>
     \/ ~dropped /\ Parks(n, e = "w") /\ Park(e, n, told)
     \/ ~dropped /\ ~Parks(n, e = "w") /\ Meet(e, n, told, "idle")
  /\ UNCHANGED <<owner, handle, dropped, poisoned, peerDied, host, feed>>

\* The event is taken, or the copy is cancelled.
GuestTakes(e) ==
  /\ Live(e) /\ phase[e] = "out"
  /\ phase' = [phase EXCEPT ![e] = IF ev[e] = "dropped" THEN "done" ELSE "idle"]
  /\ told' = [told EXCEPT ![e] = @ + progress[e]]
  /\ parked' = IF parked = e THEN None ELSE parked
  /\ ev' = [ev EXCEPT ![e] = "none"]
  /\ len' = [len EXCEPT ![e] = 0] /\ progress' = [progress EXCEPT ![e] = 0]
  /\ UNCHANGED <<owner, handle, dropped, poisoned, peerDied, host, feed>>

GuestDrop(e) ==
  /\ Live(e) /\ phase[e] # "out"
  /\ handle' = [handle EXCEPT ![e] = "dropped"]
  /\ DropShared({})
  /\ phase' = Freed
  /\ host' = Closed(host)
  /\ UNCHANGED <<owner, len, progress, told, poisoned, peerDied, feed>>

\* retireInstanceAsyncEnds.
Trap(i) ==
  /\ i \in Insts \ poisoned
  /\ poisoned' = poisoned \cup {i}
  /\ IF \E e \in Ends : handle[e] = "held" /\ owner[e] = i
     THEN /\ DropShared(poisoned')
          /\ phase' = Freed /\ peerDied' = TRUE /\ host' = Closed(host)
     ELSE UNCHANGED <<dropped, parked, ev, phase, peerDied, host>>
  /\ UNCHANGED <<owner, handle, len, progress, told, feed>>

Transfer(i) ==
  /\ Live("r") /\ phase["r"] = "idle" /\ i \in Insts \ (poisoned \cup {owner["r"]})
  /\ owner' = [owner EXCEPT !["r"] = i]
  /\ UNCHANGED <<handle, phase, ev, len, progress, told, parked, dropped, poisoned, peerDied, host, feed>>

-----------------------------------------------------------------------------
(* The readable end crosses to the host and back.                              *)

\* onLifted: rearm.
Rearmed == FALSE

\* fromLifted over hostStreamFor, the one wrapper of this stream.
Lift ==
  /\ Live("r") /\ phase["r"] = "idle"
  /\ owner' = [owner EXCEPT !["r"] = Host]
  /\ host' = [(IF host.kind = "none" THEN Wrapper("lifted") ELSE host)
              EXCEPT !.bound = TRUE, !.disarmed = Rearmed, !.current = TRUE, !.closed = @ \/ dropped]
  /\ UNCHANGED <<handle, phase, ev, len, progress, told, parked, dropped, poisoned, peerDied, feed>>

\* takeValue and lowerStream; a pumped stream has no handle.
Lower(i) ==
  /\ owner["r"] = Host /\ handle["r"] = "held" /\ i \in Insts \ poisoned
  /\ host.current \/ ~host.bound
  /\ Careful => phase["hr"] = "idle"
  /\ owner' = [owner EXCEPT !["r"] = i]
  /\ phase' = [phase EXCEPT !["r"] = "idle"]
  /\ host' = [host EXCEPT !.bound = TRUE, !.disarmed = host.kind = "lifted",
                          !.current = FALSE, !.stale = @ \/ (host.current /\ ~Careful)]
  /\ UNCHANGED <<handle, ev, len, progress, told, parked, dropped, poisoned, peerDied, feed>>

\* A host import that throws drops the stream it was given, and its caller traps.
ImportTraps ==
  /\ Live("r") /\ phase["r"] = "idle"
  /\ handle' = [handle EXCEPT !["r"] = "dropped"]
  /\ DropShared(poisoned)
  /\ poisoned' = poisoned \cup {owner["r"]}
  /\ peerDied' = (peerDied \/ (handle["w"] = "held" /\ owner["w"] = owner["r"]))
  /\ phase' = Freed /\ host' = Closed(host)
  /\ UNCHANGED <<owner, len, progress, told, feed>>

-----------------------------------------------------------------------------
(* The host reads.                                                             *)

\* #require and throwIfPeerTrapped refuse a handle that was passed on and a
\* stream whose guest died.
HostRead(n) ==
  /\ host.current /\ host.bound /\ ~peerDied /\ phase["hr"] = "idle" /\ n > 0
  /\ HostCopy("hr", n, told)
  /\ UNCHANGED <<host, feed>>

\* An empty chunk is the end of the stream, unless the guest died.
Empty == IF peerDied THEN "fault" ELSE "end"

ReadReturns ==
  /\ phase["hr"] = "back"
  /\ phase' = [phase EXCEPT !["hr"] = "idle"]
  /\ told' = [told EXCEPT !["hr"] = @ + progress["hr"]]
  /\ host' = [host EXCEPT !.out = IF progress["hr"] > 0 THEN "data" ELSE Empty]
  /\ len' = [len EXCEPT !["hr"] = 0] /\ progress' = [progress EXCEPT !["hr"] = 0]
  /\ UNCHANGED <<guests, parked, dropped, poisoned, peerDied, feed>>

\* Mutant: a cancelled operation reports nothing.
HostCancelReset(p) ==
  /\ phase[p] = "out" /\ p \in HostOps /\ (p = "hw" => ~Pumped)
  /\ parked' = None
  /\ phase' = [phase EXCEPT ![p] = "back"]
  /\ progress' = [progress EXCEPT ![p] = 0]
  /\ UNCHANGED <<guests, len, told, dropped, poisoned, peerDied, host, feed>>

\* cancelRead and cancelWrite: only an operation that is parked.
HostCancel(p) ==
  /\ phase[p] = "out" /\ p \in HostOps /\ (p = "hw" => ~Pumped)
  /\ parked' = None
  /\ phase' = [phase EXCEPT ![p] = "back"]
  /\ UNCHANGED <<guests, len, progress, told, dropped, poisoned, peerDied, host, feed>>

\* Stream.drop, through the current handle or one that was passed on.
HostDrop ==
  /\ \/ /\ host.current /\ host.bound /\ owner["r"] = Host
        /\ handle' = [handle EXCEPT !["r"] = "dropped"]
        /\ host' = [Closed(host) EXCEPT !.current = FALSE]
     \/ host.stale /\ host' = [Closed(host) EXCEPT !.stale = FALSE] /\ UNCHANGED handle
  /\ DropShared({})
  /\ phase' = Freed
  /\ UNCHANGED <<owner, len, progress, told, poisoned, peerDied, feed>>

-----------------------------------------------------------------------------
(* The host writes: StreamWriter, or the pump of a producer.                   *)

\* write and writeAll of a StreamWriter, which wait until the stream is bound.
StartWrite(n, all) ==
  /\ feed.at = "idle" /\ host.kind = "writer" /\ (host.bound \/ Deferred) /\ ~peerDied
  /\ n > 0 /\ Sent + n <= MaxSent
  /\ HostCopy("hw", n, told)
  /\ feed' = [feed EXCEPT !.at = "batch", !.rest = n, !.loop = all]
  /\ UNCHANGED host

\* The producer yields a batch, which is lowered and offered.
Pull(n) ==
  /\ feed.at = "pull" /\ (host.bound \/ Deferred)
  /\ n > 0 /\ Sent + n <= MaxSent
  /\ HostCopy("hw", n, told)
  /\ feed' = [feed EXCEPT !.at = "batch", !.rest = n, !.loop = TRUE, !.lowered = @ + n]
  /\ UNCHANGED host

\* releaseUntaken.
Untaken(rest) == rest

\* The end of the pump: the writable end is dropped.
EndOfPump(f) ==
  /\ feed' = [f EXCEPT !.at = "over", !.rest = 0]
  /\ DropShared({})
  /\ host' = Closed(host)
  /\ UNCHANGED <<owner, handle, poisoned, peerDied>>

\* writeAll: what a write did not take is offered again.
Rest(n) == feed.rest - n

\* The awaiter of a write runs: it offers the rest again, or the batch is over,
\* and with it a pump whose batch was not taken whole.
WriteReturns ==
  LET n == progress["hw"]
      t == [told EXCEPT !["hw"] = @ + n]
      goesOn == feed.loop /\ n > 0 /\ Rest(n) > 0 /\ ~dropped
      short == Pumped /\ Rest(n) > 0
  IN  /\ phase["hw"] = "back"
      /\ \/ /\ goesOn
            /\ HostCopy("hw", Rest(n), t)
            /\ feed' = [feed EXCEPT !.rest = Rest(n)]
            /\ UNCHANGED host
         \/ /\ ~goesOn
            /\ told' = t
            /\ len' = [len EXCEPT !["hw"] = 0] /\ progress' = [progress EXCEPT !["hw"] = 0]
            /\ phase' = [(IF short THEN Freed ELSE phase) EXCEPT !["hw"] = "idle"]
            /\ IF short
               THEN EndOfPump([feed EXCEPT !.released = @ + Untaken(Rest(n))])
               ELSE /\ feed' = [feed EXCEPT !.at = IF Pumped THEN "pull" ELSE "idle", !.rest = 0]
                    /\ UNCHANGED <<guests, parked, dropped, poisoned, peerDied, host>>

\* The producer is exhausted or fails.  A failure is told to the store, where
\* the stream has one, before the reader can see the end.
ProducerEnds(fails) ==
  /\ feed.at = "pull" /\ (host.bound \/ Deferred)
  /\ EndOfPump([feed EXCEPT !.failed = fails, !.reported = fails /\ host.bound])
  /\ phase' = Freed
  /\ UNCHANGED <<told, len, progress>>

\* Mutant: only a short write tells the pump.
ReaderGoneDeaf == FALSE /\ UNCHANGED vars

\* READER_GONE wins the race with the pull: the source is cancelled, and its
\* pending pull drained; a batch that comes then is released.
ReaderGone ==
  /\ feed.at = "pull" /\ dropped
  /\ feed' = [feed EXCEPT !.at = "gone"]
  /\ UNCHANGED <<guests, phase, len, progress, told, parked, dropped, poisoned, peerDied, host>>

Drained(n) ==
  /\ feed.at = "gone"
  /\ EndOfPump([feed EXCEPT !.lowered = @ + n, !.released = @ + Untaken(n)])
  /\ phase' = Freed
  /\ UNCHANGED <<told, len, progress>>

\* StreamWriter.close.
CloseWriter ==
  /\ feed.at = "idle" /\ host.kind = "writer" /\ (host.bound \/ Deferred)
  /\ EndOfPump(feed)
  /\ phase' = Freed
  /\ UNCHANGED <<told, len, progress>>
GuestNext ==
  \/ \E e \in Ends : GuestTakes(e) \/ GuestDrop(e) \/ \E n \in 0..MaxLen : GuestCopy(e, n)
  \/ \E i \in Insts : Trap(i) \/ Transfer(i)

HostNext ==
  \/ Lift \/ ImportTraps \/ ReadReturns \/ HostDrop \/ WriteReturns \/ ReaderGone \/ CloseWriter
  \/ \E i \in Insts : Lower(i)
  \/ \E n \in 0..MaxLen : HostRead(n) \/ StartWrite(n, FALSE) \/ StartWrite(n, TRUE) \/ Pull(n) \/ Drained(n)
  \/ \E p \in HostOps : HostCancel(p)
  \/ \E fails \in BOOLEAN : ProducerEnds(fails)

Next == GuestNext \/ HostNext

\* Microtasks run, and a cancelled source settles its pending pull.
Fairness == WF_vars(WriteReturns) /\ WF_vars(ReaderGone) /\ WF_vars(\E n \in 0..MaxLen : Drained(n))

Spec == Init /\ [][Next]_vars
LiveSpec == Spec /\ Fairness

-----------------------------------------------------------------------------
(* Properties.                                                                 *)

TypeOK ==
  /\ owner \in [Ends -> Insts \cup {Host}]
  /\ handle \in [Ends -> {"held", "dropped"}]
  /\ phase \in [Parties -> {"idle", "out", "done", "back"}]
  /\ ev \in [Ends -> {"none", "copied", "completed", "dropped"}]
  /\ len \in [Parties -> Nat] /\ progress \in [Parties -> Nat] /\ told \in [Parties -> Nat]
  /\ \A p \in Parties : progress[p] <= len[p]
  /\ parked \in Parties \cup {None}
  /\ dropped \in BOOLEAN /\ peerDied \in BOOLEAN /\ poisoned \subseteq Insts
  /\ feed.at \in {"idle", "pull", "gone", "batch", "over"}

\* Every element a writer was or will be told of is one a reader was or will be
\* told of, whichever of guest and host they are.
Conservation == Sent = Sum(told, {"r", "hr"}) + Sum(progress, {"r", "hr"})

\* An operation in flight is parked or has been told its outcome: a drop, a
\* trap of the other side or a cancellation leaves no host promise pending.
OperationsSettle ==
  /\ \A p \in HostOps : phase[p] = "out" <=> parked = p
  /\ \A e \in Ends : Live(e) /\ phase[e] = "out" => parked = e \/ ev[e] # "none"

\* A producer's elements are taken by the reader or released, each once; and its
\* failure is not shown as the end of the stream, unless it is on its way to the
\* call (releaseUntaken, reportProducerFailure).
ProducerKept ==
  /\ Pumped => feed.lowered = told["hw"] + feed.rest + feed.released
  /\ feed.failed /\ Live("r") /\ ~feed.reported => ev["r"] # "dropped" /\ phase["r"] # "done"

\* A host read is not answered with the end of the stream when the writer did
\* not end it but died.
FaultIsNotEnd ==
  [][phase["hr"] = "back" /\ host'.out = "end" /\ phase'["hr"] = "idle"
     => ~(handle["w"] = "held" /\ owner["w"] \in poisoned)]_vars

\* The claim "the embedder may still act", which keeps deadlock from being
\* reported, stands exactly as long as the host holds an end of a live stream.
RetentionClaim ==
  Armed <=> /\ ~dropped /\ host.bound
            /\ host.kind \in Created \/ (owner["r"] = Host /\ handle["r"] = "held")

\* A pump whose reader went stops, and the producer with it.
PumpStops == Pumped /\ dropped ~> feed.at = "over"
=============================================================================
