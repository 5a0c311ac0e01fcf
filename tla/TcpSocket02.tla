----------------------------- MODULE TcpSocket02 -----------------------------
(* A tcp-socket of wasi:sockets@0.2 (wasi/src/internal/sockets_02.ts) over a   *)
(* node connection or listener (sockets_platform.ts), with the pair of wasi:io *)
(* streams it mints.  Every slow operation is a start and a finish; the guest  *)
(* waits on pollables in between.                                              *)
EXTENDS IoStreams

CONSTANTS
  MaxQueuedConnections, \* MAX_QUEUED_CONNECTIONS
  MaxInbound            \* bound on what has been received and not read

ASSUME TcpAssumption == MaxQueuedConnections \in Nat /\ MaxInbound \in Nat

VARIABLES
  sock,     \* TcpSocket02; alive: the guest holds the resource
  conn,     \* the OS connection; held: it is #conn
  listener, \* the OS listener
  fin       \* shutdown(send): what the FIN waits for (queued: for the write node still
            \* holds), and how many writes accepted before the shutdown have not begun

io == <<input, output, frames>>
vars == <<sock, conn, listener, fin, io>>

NoConn == [os |-> "none", held |-> FALSE, inbound |-> 0, peer |-> "open"]
NoFin == [at |-> "none", behind |-> 0]

Init ==
  /\ input = NoInput /\ output = NoOutput /\ frames = [f \in Frames |-> Idle]
  /\ listener = [up |-> "none", closed |-> FALSE, queue |-> 0] /\ fin = NoFin
  \* made by create-tcp-socket, or by accept
  /\ \/ /\ sock = [state |-> "unbound", dial |-> "none", minted |-> FALSE, alive |-> TRUE]
        /\ conn = NoConn
     \/ /\ sock = [state |-> "connected", dial |-> "none", minted |-> TRUE, alive |-> TRUE]
        /\ conn = [NoConn EXCEPT !.os = "open", !.held = TRUE]

In(states) == sock.alive /\ sock.state \in states
Goto(s) == sock' = [sock EXCEPT !.state = s]
Connectable == {"unbound", "bound"}

Pollables == {"in", "out", "dial", "listen", "accept"}

\* Readiness of the pollables subscribe hands out, each over what it was made for.
Ready(p) ==
  CASE p = "in" -> InReady
    [] p = "out" -> OutReady
    [] p = "dial" -> sock.dial \in {"ok", "failed"}
    [] p = "listen" -> listener.up \in {"live", "failed"}
    [] OTHER -> listener.queue > 0 \/ listener.up = "failed" \/ listener.closed

ReadyNow == {p \in Pollables : Ready(p)}

Exists(p) ==
  CASE p \in {"in", "out"} -> sock.minted
    [] p = "dial" -> sock.dial # "none"
    [] p = "listen" -> listener.up # "none"
    [] OTHER -> sock.state = "listening"

-----------------------------------------------------------------------------
(* The guest's calls.  A call that the state refuses, or that would block,     *)
(* changes nothing.                                                            *)

StartBind == In({"unbound"}) /\ Goto("bind-in-progress") /\ UNCHANGED <<conn, listener, fin, io>>
FinishBind == In({"bind-in-progress"}) /\ Goto("bound") /\ UNCHANGED <<conn, listener, fin, io>>

StartConnect ==
  /\ In(Connectable)
  /\ sock' = [sock EXCEPT !.state = "connect-in-progress", !.dial = "pending"]
  /\ UNCHANGED <<conn, listener, fin, io>>

\* The platform may refuse the keep-alive: then the socket is connected and has no
\* streams.
FinishConnect ==
  /\ In({"connect-in-progress"}) /\ sock.dial # "pending"
  /\ IF sock.dial = "failed"
     THEN Goto("closed") /\ UNCHANGED conn
     ELSE /\ \E applied \in BOOLEAN :
               sock' = [sock EXCEPT !.state = "connected", !.minted = applied]
          /\ conn' = [conn EXCEPT !.held = TRUE]
  /\ UNCHANGED <<listener, fin, io>>

StartListen ==
  /\ In(Connectable)
  /\ Goto("listen-in-progress")
  /\ listener' = [listener EXCEPT !.up = "binding"]
  /\ UNCHANGED <<conn, fin, io>>

\* The listener's own close signals whoever polls it, once.
Closed(l) == [l EXCEPT !.closed = TRUE, !.queue = 0]

FinishListen ==
  /\ In({"listen-in-progress"}) /\ listener.up # "binding"
  /\ IF listener.up = "failed"
     THEN Goto("closed") /\ listener' = Closed(listener) /\ Signal({"accept"})
     ELSE Goto("listening") /\ UNCHANGED <<listener, frames>>
  /\ UNCHANGED <<conn, fin, input, output>>

\* The accepted connection becomes a socket of its own.
Accept ==
  /\ In({"listening"}) /\ listener.up = "live" /\ listener.queue > 0
  /\ listener' = [listener EXCEPT !.queue = @ - 1]
  /\ UNCHANGED <<sock, conn, fin, io>>

\* The FIN waits for #lastWrite, the sink call begun last: settle, it is in
\* flight; begin, the chain is at rest and the write at its head begins before the
\* FIN's reaction runs; now, nothing is left to wait for.
FinAsked ==
  [at |-> CASE output.busy -> "settle"
            [] ~output.busy /\ output.queue # <<>> /\ ~output.failed -> "begin"
            [] OTHER -> "now",
   behind |-> Len(output.queue) - (IF output.busy THEN 1 ELSE 0)]

Shutdown(how) ==
  /\ In({"connected"}) /\ conn.held
  /\ how \in {"send", "both"} => fin.at = "none"
  /\ fin' = IF how \in {"send", "both"} THEN FinAsked ELSE fin
  /\ IF how \in {"receive", "both"} /\ sock.minted
     THEN input' = CloseInput(input) /\ Signal({"in"})
     ELSE UNCHANGED <<input, frames>>
  /\ UNCHANGED <<sock, conn, listener, output>>

Closes(c) == IF c.held THEN [c EXCEPT !.os = "closed", !.held = FALSE] ELSE c

Dispose ==
  /\ sock.alive
  /\ sock' = [sock EXCEPT !.alive = FALSE, !.state = "closed"]
  /\ input' = (IF sock.minted THEN CloseInput(input) ELSE input)
  /\ output' = (IF sock.minted THEN [output EXCEPT !.closed = TRUE] ELSE output)
  /\ conn' = Closes(conn)
  /\ listener' = IF listener.up = "none" THEN listener ELSE Closed(listener)
  /\ Signal({"in", "out", "accept"})
  /\ UNCHANGED fin

-----------------------------------------------------------------------------
(* The platform.                                                               *)

DialSettles(ok) ==
  /\ sock.dial = "pending"
  /\ sock' = [sock EXCEPT !.dial = IF ok THEN "ok" ELSE "failed"]
  /\ conn' = IF ~ok THEN conn
             ELSE [conn EXCEPT !.os = IF sock.state = "connect-in-progress" THEN "open" ELSE "closed"]
  /\ Signal({"dial"})
  /\ UNCHANGED <<listener, fin, input, output>>

\* Mutant: a bind that fails is told to those who poll for connections only.
ListenSettlesUntold(ok) ==
  /\ listener.up = "binding"
  /\ listener' = [listener EXCEPT !.up = IF ok THEN "live" ELSE "failed"]
  /\ Signal(IF ok THEN {"listen"} ELSE {"accept"})
  /\ UNCHANGED <<sock, conn, fin, input, output>>

ListenSettles(ok) ==
  /\ listener.up = "binding"
  /\ listener' = [listener EXCEPT !.up = IF ok THEN "live" ELSE "failed"]
  /\ Signal(IF ok THEN {"listen"} ELSE {"listen", "accept"})
  /\ UNCHANGED <<sock, conn, fin, input, output>>

ListenerFails ==
  /\ listener.up = "live" /\ ~listener.closed
  /\ listener' = [listener EXCEPT !.up = "failed"]
  /\ Signal({"accept"})
  /\ UNCHANGED <<sock, conn, fin, input, output>>

\* A connection comes in: it is queued, or refused at the bound.
Connection ==
  /\ listener.up = "live" /\ ~listener.closed /\ listener.queue < MaxQueuedConnections
  /\ listener' = [listener EXCEPT !.queue = @ + 1]
  /\ Signal({"accept"})
  /\ UNCHANGED <<sock, conn, fin, input, output>>

PeerSends ==
  /\ conn.os = "open" /\ conn.peer = "open" /\ conn.inbound < MaxInbound
  /\ conn' = [conn EXCEPT !.inbound = @ + 1]
  /\ UNCHANGED <<sock, listener, fin, io>>

PeerStops(how) ==
  /\ conn.os = "open" /\ conn.peer # "reset" /\ conn.peer # how
  /\ conn' = [conn EXCEPT !.peer = how]
  /\ UNCHANGED <<sock, listener, fin, io>>

\* conn.read, which the feed of the input stream awaits: a failure comes before
\* what has been received, the end after it.
Receives ==
  /\ sock.minted
  /\ IF conn.peer = "reset" THEN FeedEnds(TRUE) /\ UNCHANGED conn
     ELSE IF conn.inbound > 0
     THEN \E n \in 1..conn.inbound : n <= MaxChunk /\ Fed(n) /\ conn' = [conn EXCEPT !.inbound = @ - n]
     ELSE /\ conn.peer = "fin" \/ conn.os = "closed"
          /\ FeedEnds(conn.peer # "fin") /\ UNCHANGED conn
  /\ UNCHANGED <<sock, listener, fin, output>>

\* conn.closeWrite: what was handed to it before goes out first.
FinGoes ==
  /\ fin.at = "now"
  /\ fin' = [fin EXCEPT !.at = IF output.busy THEN "queued" ELSE "sent"]
  /\ UNCHANGED <<sock, conn, listener, io>>

\* conn.write, which the sink awaits.
Deliverable == conn.os = "open" /\ conn.peer # "reset" /\ fin.at # "sent"

\* The reaction of the FIN was registered before the next link of the chain.
SinkBegins ==
  /\ fin.at # "now" /\ SinkCalled
  /\ fin' = CASE fin.at \in {"begin", "settle"} ->
                   [at |-> IF fin.at = "begin" THEN "now" ELSE fin.at, behind |-> fin.behind - 1]
              [] OTHER -> fin
  /\ UNCHANGED <<sock, conn, listener, input>>

SinkEnds ==
  /\ SinkSettles(Deliverable)
  /\ fin' = CASE fin.at = "settle" -> [fin EXCEPT !.at = "now"]
              [] fin.at = "queued" -> [fin EXCEPT !.at = "sent"]
              [] OTHER -> fin
  /\ UNCHANGED <<sock, conn, listener, input>>

SinkDrains == SinkSkips /\ UNCHANGED <<sock, conn, listener, fin, input>>

SinkStep == SinkBegins \/ SinkEnds \/ SinkDrains

-----------------------------------------------------------------------------
Still == UNCHANGED <<sock, conn, listener, fin>>

Return(f) == \E n \in Chunks : Wakes(f, n, ReadyNow) /\ Still

Guest ==
  \/ StartBind \/ FinishBind \/ StartConnect \/ FinishConnect
  \/ StartListen \/ FinishListen \/ Accept \/ Dispose
  \/ \E how \in {"receive", "send", "both"} : Shutdown(how)
  \/ /\ sock.minted
     /\ \/ \E n \in Chunks : Read(n) \/ Write(n)
        \/ DropInput \/ DropOutput
        \/ \E f \in Frames : BlockingRead(f) \/ BlockingFlush(f)
     /\ Still
  \/ /\ \E f \in Frames, ps \in PollSets : (\A p \in ps : Exists(p)) /\ Poll(f, ps, ReadyNow)
     /\ Still

Resumption == FeedResumes /\ UNCHANGED output /\ Still

Platform ==
  \/ \E ok \in BOOLEAN : DialSettles(ok) \/ ListenSettles(ok)
  \/ ListenerFails \/ Connection \/ PeerSends \/ (\E how \in {"fin", "reset"} : PeerStops(how))
  \/ Receives \/ FinGoes \/ SinkStep \/ Resumption

Next == Guest \/ Platform \/ \E f \in Frames : Return(f)

\* The platform ends a dial, the bind of a listener nobody closed and a write that can
\* reach nobody; microtasks run.  A peer need not take what is written to it.
Fairness ==
  /\ WF_vars(\E ok \in BOOLEAN : DialSettles(ok))
  /\ WF_vars(\E ok \in BOOLEAN : ~listener.closed /\ ListenSettles(ok))
  /\ WF_vars(FinGoes) /\ WF_vars(SinkBegins) /\ WF_vars(SinkDrains)
  /\ WF_vars(~Deliverable /\ SinkEnds)
  /\ (\A f \in Frames : WF_vars(Return(f))) /\ WF_vars(Resumption)

Spec == Init /\ [][Next]_vars /\ Fairness

-----------------------------------------------------------------------------
States == {"unbound", "bind-in-progress", "bound", "connect-in-progress", "connected",
           "listen-in-progress", "listening", "closed"}

TypeOK ==
  /\ IoTypeOK
  /\ sock \in [state : States, dial : {"none", "pending", "ok", "failed"}, minted : BOOLEAN,
               alive : BOOLEAN]
  /\ conn \in [os : {"none", "open", "closed"}, held : BOOLEAN, inbound : 0..MaxInbound,
               peer : {"open", "fin", "reset"}]
  /\ listener \in [up : {"none", "binding", "live", "failed"}, closed : BOOLEAN,
                   queue : 0..MaxQueuedConnections]

\* Nobody sleeps beside what he waits for: a frame that is parked, and was not
\* signalled, waits for something that is not there, and a feed that is paused has
\* the high-water mark above it (promise-swap in io.ts and sockets_platform.ts).
NoLostWakeup ==
  /\ \A f \in Frames : frames[f] # Idle /\ ~frames[f].woken => ~Satisfied(f, ReadyNow)
  /\ input.feed = "full" => input.buffered >= HighWater /\ ~input.closed

\* A resource that was dropped leaves nothing open but the connection of a dial
\* that had settled before and was never finished (the disposer does not look at
\* #dial): no listener, no queued connection, no connection that was #conn or that
\* came up after the drop.
DropReleases ==
  ~sock.alive =>
    /\ conn.os = "open" => ~conn.held /\ sock.dial = "ok" /\ ~sock.minted
    /\ listener.up # "none" => listener.closed /\ listener.queue = 0

\* A dial that comes up after the drop of the socket is hung up.
DropClosesDial == [][~sock.alive => conn'.os \in {conn.os, "closed"}]_vars

\* A frame parked in a poll of an attempt to connect runs on, and so does one that
\* polls an attempt to listen whose listener nobody closes.  A spent permit of
\* check-write comes back, unless some write stays in the hands of a live peer for ever
\* (a flush may starve while others write).
ParkedReturns ==
  /\ \A f \in Frames :
       /\ "dial" \in frames[f].on ~> frames[f] = Idle
       /\ "listen" \in frames[f].on ~> (frames[f] = Idle \/ listener.closed)
  /\ []<>(~output.busy \/ ~Deliverable) =>
       ((output.queued = HighWater) ~> (output.queued < HighWater))

\* "FIN after everything the output stream already accepted": at the FIN every
\* write accepted before the shutdown has begun.  (No run: the code breaks it.)
FinAfterAccepted == fin.at = "sent" => fin.behind = 0 \/ output.failed

=============================================================================
