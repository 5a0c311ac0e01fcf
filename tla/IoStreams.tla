------------------------------- MODULE IoStreams -------------------------------
(* The parking kernel of wasi:io@0.2 (wasi/src/io.ts): an input stream that is  *)
(* fed from an asynchronous source, an output stream over an asynchronous sink, *)
(* and the guest's frames that park in blocking calls and in poll.  The source  *)
(* and the sink are whatever the component that EXTENDS this module makes of    *)
(* them; bytes are counted.                                                     *)
EXTENDS Integers, Sequences

CONSTANTS
  Frames,    \* guest frames that may park
  PollSets,  \* the sets of pollables they poll
  HighWater, \* STREAM_HIGH_WATER, in bytes
  MaxChunk   \* bound on the size of one chunk

ASSUME IoAssumption == HighWater \in Nat \ {0} /\ MaxChunk \in Nat

VARIABLES
  input,  \* FedInputStream
  output, \* SinkOutputStream
  frames  \* frame -> what it is parked in, and whether its wait promise has settled

\* feed: pull, it awaits the source; full, it is paused at the high-water mark;
\* resumed, the pause is over and it has not run yet; ended.
NoInput == [buffered |-> 0, eof |-> FALSE, failed |-> FALSE, closed |-> FALSE, feed |-> "pull"]

\* queue: the writes that have not drained, queued: their bytes; busy: the sink works
\* on the first of them.
NoOutput == [queue |-> <<>>, queued |-> 0, busy |-> FALSE, closed |-> FALSE, failed |-> FALSE]

Idle == [in |-> "none", on |-> {}, woken |-> FALSE]
Chunks == 1..MaxChunk

InReady == input.buffered > 0 \/ input.eof \/ input.closed
OutReady == output.closed \/ output.failed \/ output.queued < HighWater
OutDrained == ~(output.queued > 0) \/ output.failed

\* #signal of the owner of the pollables ps: every wait promise of this epoch settles.
Signal(ps) == frames' = [f \in Frames |-> [frames[f] EXCEPT !.woken = @ \/ frames[f].on \cap ps # {}]]

-----------------------------------------------------------------------------
(* The feed of the input stream.                                               *)

Fed(n) ==
  /\ input.feed = "pull"
  /\ IF input.closed
     THEN input' = [input EXCEPT !.feed = "ended"] /\ UNCHANGED frames
     ELSE /\ input' = [input EXCEPT !.buffered = @ + n,
                                    !.feed = IF input.buffered + n >= HighWater THEN "full" ELSE "pull"]
          /\ Signal({"in"})

FeedEnds(failed) ==
  /\ input.feed = "pull"
  /\ input' = [input EXCEPT !.feed = "ended", !.eof = TRUE, !.failed = failed]
  /\ Signal({"in"})

\* The paused feed looks again at the high-water mark.
FeedResumes ==
  /\ input.feed = "resumed"
  /\ input' = [input EXCEPT !.feed =
       IF input.buffered >= HighWater /\ ~input.closed THEN "full" ELSE "pull"]
  /\ UNCHANGED frames

Resume(i) == IF i.feed = "full" THEN [i EXCEPT !.feed = "resumed"] ELSE i

\* read(len) of an open stream: what is buffered comes before the failure and the end.
Taken(len) ==
  LET left == input.buffered - (IF len < input.buffered THEN len ELSE input.buffered)
      took == [input EXCEPT !.buffered = left]
  IN  IF left < HighWater THEN Resume(took) ELSE took

Read(len) ==
  /\ ~input.closed /\ input.buffered > 0
  /\ input' = Taken(len) /\ UNCHANGED <<output, frames>>

\* Mutant: the drop does not resume a paused feed.
CloseInputOnly(i) == [i EXCEPT !.closed = TRUE]

CloseInput(i) == Resume([i EXCEPT !.closed = TRUE])

DropInput ==
  /\ ~input.closed
  /\ input' = CloseInput(input) /\ Signal({"in"}) /\ UNCHANGED output

-----------------------------------------------------------------------------
(* The output stream and its serialized chain of sink calls.                   *)

Writable == ~output.closed /\ ~output.failed

\* Within the permit of check-write; past it the guest traps.
Write(n) ==
  /\ Writable /\ n <= HighWater - output.queued
  /\ output' = [output EXCEPT !.queue = Append(@, n), !.queued = @ + n]
  /\ UNCHANGED <<input, frames>>

SinkCalled ==
  /\ output.queue # <<>> /\ ~output.busy /\ ~output.failed
  /\ output' = [output EXCEPT !.busy = TRUE]
  /\ UNCHANGED frames

SinkSettles(ok) ==
  /\ output.busy
  /\ output' = [output EXCEPT !.queue = Tail(@), !.queued = @ - Head(output.queue),
                              !.busy = FALSE, !.failed = ~ok]
  /\ Signal({"out"})

\* After a failure the rest of the queue is let go unwritten.
SinkSkips ==
  /\ output.queue # <<>> /\ ~output.busy /\ output.failed
  /\ output' = [output EXCEPT !.queue = Tail(@), !.queued = @ - Head(output.queue)]
  /\ Signal({"out"})

DropOutput ==
  /\ ~output.closed
  /\ output' = [output EXCEPT !.closed = TRUE]
  /\ Signal({"out"}) /\ UNCHANGED input

-----------------------------------------------------------------------------
(* Frames that park: blocking-read, blocking-flush, and block and poll.  ready *)
(* is the set of the pollables that are ready; those other than the two        *)
(* streams' belong to the component that uses this module.                     *)

Park(f, what, on) ==
  /\ frames[f] = Idle
  /\ frames' = [frames EXCEPT ![f] = [in |-> what, on |-> on, woken |-> FALSE]]

BlockingRead(f) == ~InReady /\ Park(f, "read", {"in"}) /\ UNCHANGED <<input, output>>

BlockingFlush(f) ==
  Writable /\ output.queued > 0 /\ Park(f, "flush", {"out"}) /\ UNCHANGED <<input, output>>

Poll(f, ps, ready) ==
  ps \cap ready = {} /\ Park(f, "poll", ps) /\ UNCHANGED <<input, output>>

\* What the frame waits for is there.
Satisfied(f, ready) ==
  CASE frames[f].in = "read" -> InReady
    [] frames[f].in = "flush" -> OutDrained
    [] OTHER -> frames[f].on \cap ready # {}

\* The awaiting loop runs again: it returns, or awaits the promise of the new epoch.
Wakes(f, len, ready) ==
  /\ frames[f].woken
  /\ IF Satisfied(f, ready)
     THEN /\ frames' = [frames EXCEPT ![f] = Idle]
          /\ input' = IF frames[f].in = "read" /\ ~input.closed THEN Taken(len) ELSE input
     ELSE frames' = [frames EXCEPT ![f].woken = FALSE] /\ UNCHANGED input
  /\ UNCHANGED output

IoTypeOK ==
  /\ input \in [buffered : 0..(HighWater + MaxChunk), eof : BOOLEAN, failed : BOOLEAN,
                closed : BOOLEAN, feed : {"pull", "full", "resumed", "ended"}]
  /\ output \in [queue : Seq(Chunks), queued : 0..HighWater, busy : BOOLEAN,
                 closed : BOOLEAN, failed : BOOLEAN]
  /\ frames \in [Frames -> [in : {"none", "read", "flush", "poll"},
                            on : {{}, {"in"}, {"out"}} \cup PollSets, woken : BOOLEAN]]
=============================================================================
