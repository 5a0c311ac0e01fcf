----------------------------- MODULE TcpSocket03 -----------------------------
(* A tcp-socket of wasi:sockets@0.3 (wasi/src/internal/sockets_03.ts): one OS  *)
(* socket shared by the guest's handle, the pump of send, the source of        *)
(* receive and the accept streams.  connect and listen are awaited, and the    *)
(* guest may call again meanwhile.  The streams' own pumps are those of        *)
(* HostStreams: they pull, and stop when the reader goes.                      *)
EXTENDS Integers, FiniteSets

CONSTANTS
  Listens,   \* the calls of listen, numbered in the order in which they begin
  MaxQueue,  \* MAX_QUEUED_CONNECTIONS
  None

VARIABLES
  state,    \* #state
  refs,     \* #refs
  handle,   \* the guest holds the resource
  dial,     \* the call of connect: none, pending, over
  conn,     \* the OS connection; held: it is #conn; peer: what the remote did
  listener, \* call of listen -> its OS listener and the call's own progress
  current,  \* #listener
  accepts,  \* call of listen -> the generator of its accept stream
  sending,  \* the pump of send: at, and the future it settles
  receiving \* the generator of receive: at, whether the reader is gone, the future

vars == <<state, refs, handle, dial, conn, listener, current, accepts, sending, receiving>>

Init ==
  /\ refs = 1 /\ handle = TRUE /\ dial = "none" /\ current = None
  /\ \/ state = "unbound" /\ conn = [os |-> "none", held |-> FALSE, peer |-> "open", data |-> FALSE]
     \/ \* an element of an accept stream
        state = "connected" /\ conn = [os |-> "open", held |-> TRUE, peer |-> "open", data |-> FALSE]
  /\ listener = [l \in Listens |-> [call |-> "none", up |-> "none", queue |-> 0]]
  /\ accepts = [l \in Listens |-> [at |-> "none", gone |-> FALSE]]
  /\ sending = [at |-> "none", future |-> "none", source |-> "none"]
  /\ receiving = [at |-> "none", gone |-> FALSE, future |-> "none"]

Connectable == {"unbound", "bound"}

Close(l) == [listener EXCEPT ![l].up = "closed", ![l].queue = 0]

\* Mutant: the first release of two closes.
ReleaseEarly(c) ==
  /\ refs' = refs - 1
  /\ conn' = IF c.held /\ refs <= 2 THEN [c EXCEPT !.os = "closed", !.held = FALSE] ELSE c
  /\ UNCHANGED <<listener, current>>

\* #release: the last reference closes #conn and #listener.
ReleaseOf(c) ==
  /\ refs' = refs - 1
  /\ IF refs > 1 THEN conn' = c /\ UNCHANGED <<listener, current>>
     ELSE /\ conn' = IF c.held THEN [c EXCEPT !.os = "closed", !.held = FALSE] ELSE c
          /\ listener' = IF current = None THEN listener ELSE Close(current)
          /\ current' = None

Release == ReleaseOf(conn)

-----------------------------------------------------------------------------
(* The guest's calls.                                                          *)

Bind ==
  /\ handle /\ state = "unbound" /\ state' = "bound"
  /\ UNCHANGED <<refs, handle, dial, conn, listener, current, accepts, sending, receiving>>

Connect ==
  /\ handle /\ state \in Connectable
  /\ state' = "connecting" /\ dial' = "pending"
  /\ UNCHANGED <<refs, handle, conn, listener, current, accepts, sending, receiving>>

\* The dial settles; whoever changed the state meanwhile has the fresh connection closed.
Dialled(ok) ==
  /\ dial = "pending" /\ dial' = "over"
  /\ state' = CASE ~ok -> "closed"
                [] ok /\ state = "connecting" -> "connected"
                [] OTHER -> state
  /\ conn' = CASE ~ok -> conn
               [] ok /\ state = "connecting" -> [conn EXCEPT !.os = "open", !.held = TRUE]
               [] OTHER -> [conn EXCEPT !.os = "closed"]
  /\ UNCHANGED <<refs, handle, listener, current, accepts, sending, receiving>>

Listen(l) ==
  /\ handle /\ state \in Connectable /\ listener[l].call = "none"
  /\ \A k \in Listens : k < l => listener[k].call # "none"
  /\ listener' = [listener EXCEPT ![l].call = "parked", ![l].up = "binding"]
  /\ UNCHANGED <<state, refs, handle, dial, conn, current, accepts, sending, receiving>>

\* The bind settles and listen runs on, whatever has happened since.
Listened(l, ok) ==
  /\ listener[l].call = "parked"
  /\ IF ok
     THEN /\ listener' = [listener EXCEPT ![l].call = "over", ![l].up = "live"]
          /\ state' = "listening" /\ current' = l /\ refs' = refs + 1
          /\ accepts' = [accepts EXCEPT ![l].at = "accept"]
     ELSE /\ listener' = [listener EXCEPT ![l].call = "over", ![l].up = "closed"]
          /\ state' = "closed"
          /\ UNCHANGED <<refs, current, accepts>>
  /\ UNCHANGED <<handle, dial, conn, sending, receiving>>

Usable == handle /\ state = "connected" /\ conn.held

\* send: a second call, or one of a socket that is not connected, drops the guest's stream.
Send ==
  /\ Usable /\ sending.at = "none"
  /\ sending' = [at |-> "pull", future |-> "pending", source |-> "open"]
  /\ refs' = refs + 1
  /\ UNCHANGED <<state, handle, dial, conn, listener, current, accepts, receiving>>

Receive ==
  /\ Usable /\ receiving.at = "none"
  /\ receiving' = [at |-> "read", gone |-> FALSE, future |-> "pending"]
  /\ refs' = refs + 1
  /\ UNCHANGED <<state, handle, dial, conn, listener, current, accepts, sending>>

Dispose ==
  /\ handle /\ handle' = FALSE
  /\ state' = IF state \in Connectable \cup {"connecting"} THEN "closed" ELSE state
  /\ Release
  /\ UNCHANGED <<dial, accepts, sending, receiving>>

-----------------------------------------------------------------------------
(* The pump of send.                                                           *)

\* A chunk of the guest's stream, its end, or its failure (the peer trapped).
SendPull(what) ==
  /\ sending.at = "pull"
  /\ CASE what = "chunk" -> /\ sending' = [sending EXCEPT !.at = "write"]
                            /\ UNCHANGED <<refs, conn, listener, current>>
       [] what = "end" -> /\ sending' = [sending EXCEPT !.at = "fin", !.source = "ended"]
                          /\ UNCHANGED <<refs, conn, listener, current>>
       [] OTHER -> sending' = [at |-> "over", future |-> "rejected", source |-> "ended"] /\ Release
  /\ UNCHANGED <<state, handle, dial, accepts, receiving>>

\* conn.write: on failure the guest's stream is dropped, so that its writer settles.
SendWritten ==
  /\ sending.at = "write"
  /\ IF conn.os = "open" /\ conn.peer # "reset"
     THEN sending' = [sending EXCEPT !.at = "pull"] /\ UNCHANGED <<refs, conn, listener, current>>
     ELSE sending' = [at |-> "over", future |-> "err", source |-> "dropped"] /\ Release
  /\ UNCHANGED <<state, handle, dial, accepts, receiving>>

SendFin ==
  /\ sending.at = "fin"
  /\ sending' = [sending EXCEPT !.at = "over", !.future = "ok"] /\ Release
  /\ UNCHANGED <<state, handle, dial, accepts, receiving>>

(* The source of receive.                                                      *)

Retire(f) == receiving' = [receiving EXCEPT !.at = "over", !.future = f] /\ Release

\* conn.read settles: a failure first, then data, then the end.
ReceiveRead ==
  /\ receiving.at = "read"
  /\ \/ conn.peer = "reset" /\ Retire("err")
     \/ /\ conn.peer # "reset" /\ conn.data
        \* of a chunk that nobody is left to take the pump lets go, and returns the generator
        /\ IF receiving.gone
           THEN /\ receiving' = [receiving EXCEPT !.at = "over", !.future = "ok"]
                /\ ReleaseOf([conn EXCEPT !.data = FALSE])
           ELSE /\ receiving' = [receiving EXCEPT !.at = "yield"]
                /\ conn' = [conn EXCEPT !.data = FALSE]
                /\ UNCHANGED <<refs, listener, current>>
     \/ conn.peer = "fin" /\ ~conn.data /\ Retire("ok")
  /\ UNCHANGED <<state, handle, dial, accepts, sending>>

\* The guest takes the chunk.
ReceiveTaken ==
  /\ receiving.at = "yield" /\ ~receiving.gone
  /\ receiving' = [receiving EXCEPT !.at = "read"]
  /\ UNCHANGED <<state, refs, handle, dial, conn, listener, current, accepts, sending>>

\* The guest drops the reader: at a yield the generator returns; in a read it stays,
\* for the source of receive has no cancel hook.
ReceiveDropped ==
  /\ receiving.at \in {"read", "yield"} /\ ~receiving.gone
  /\ IF receiving.at = "yield"
     THEN receiving' = [at |-> "over", gone |-> TRUE, future |-> "ok"] /\ Release
     ELSE receiving' = [receiving EXCEPT !.gone = TRUE] /\ UNCHANGED <<refs, conn, listener, current>>
  /\ UNCHANGED <<state, handle, dial, accepts, sending>>

-----------------------------------------------------------------------------
(* The generator of an accept stream.                                          *)

\* accept settles with a connection that waited or comes in.
Accepted(l) ==
  /\ accepts[l].at = "accept" /\ listener[l].up = "live" /\ listener[l].queue > 0
  /\ listener' = [listener EXCEPT ![l].queue = @ - 1]
  /\ accepts' = [accepts EXCEPT ![l].at = "yield"]
  /\ UNCHANGED <<state, refs, handle, dial, conn, current, sending, receiving>>

AcceptTaken(l) ==
  /\ accepts[l].at = "yield" /\ ~accepts[l].gone
  /\ accepts' = [accepts EXCEPT ![l].at = "accept"]
  /\ UNCHANGED <<state, refs, handle, dial, conn, listener, current, sending, receiving>>

\* accept rejects with a failure that is skipped as one connection's; the platform's
\* listener keeps it, so that every later accept rejects with it at once.
AcceptRetries(l) ==
  /\ accepts[l].at = "accept" /\ listener[l].up = "failed"
  /\ accepts' = [accepts EXCEPT ![l].at = "spin"]
  /\ UNCHANGED <<state, refs, handle, dial, conn, listener, current, sending, receiving>>

\* The listener is dead: accept rejects, the stream ends.
AcceptEnds(l) ==
  /\ accepts[l].at = "accept" /\ listener[l].up \in {"closed", "failed"}
  /\ accepts' = [accepts EXCEPT ![l].at = "over"]
  /\ Release
  /\ UNCHANGED <<state, handle, dial, sending, receiving>>

\* The guest drops the accept stream: out of a yield the hook closes the listener; at a
\* yield the element is destroyed and the generator returns.
AcceptDropped(l) ==
  /\ accepts[l].at \in {"accept", "spin", "yield"} /\ ~accepts[l].gone
  /\ IF accepts[l].at # "yield"
     THEN /\ accepts' = [accepts EXCEPT ![l].gone = TRUE]
          /\ listener' = Close(l) /\ UNCHANGED <<refs, conn, current>>
     ELSE accepts' = [accepts EXCEPT ![l] = [at |-> "over", gone |-> TRUE]] /\ Release
  /\ UNCHANGED <<state, handle, dial, sending, receiving>>

-----------------------------------------------------------------------------
(* The network.                                                                *)

Connection(l) ==
  /\ listener[l].up = "live" /\ listener[l].queue < MaxQueue
  /\ listener' = [listener EXCEPT ![l].queue = @ + 1]
  /\ UNCHANGED <<state, refs, handle, dial, conn, current, accepts, sending, receiving>>

ListenerFails(l) ==
  /\ listener[l].up = "live"
  /\ listener' = [listener EXCEPT ![l].up = "failed"]
  /\ UNCHANGED <<state, refs, handle, dial, conn, current, accepts, sending, receiving>>

Peer(what) ==
  /\ conn.os = "open" /\ conn.peer \notin {"reset", what} /\ (what = "data" => conn.peer = "open")
  /\ conn' = IF what = "data" THEN [conn EXCEPT !.data = TRUE] ELSE [conn EXCEPT !.peer = what]
  /\ UNCHANGED <<state, refs, handle, dial, listener, current, accepts, sending, receiving>>

Next ==
  \/ Bind \/ Connect \/ Send \/ Receive \/ Dispose
  \/ \E ok \in BOOLEAN : Dialled(ok) \/ \E l \in Listens : Listened(l, ok)
  \/ \E what \in {"chunk", "end", "trap"} : SendPull(what)
  \/ SendWritten \/ SendFin \/ ReceiveRead \/ ReceiveTaken \/ ReceiveDropped
  \/ \E l \in Listens : \/ Listen(l) \/ Accepted(l) \/ AcceptTaken(l) \/ AcceptEnds(l)
                        \/ AcceptRetries(l) \/ AcceptDropped(l) \/ Connection(l) \/ ListenerFails(l)
  \/ \E what \in {"data", "fin", "reset"} : Peer(what)

\* The platform ends a dial, a bind and a write that can reach nobody, and hands over
\* what has come in; microtasks run.  Neither the peer nor the guest need act.
Fairness ==
  /\ WF_vars(\E ok \in BOOLEAN : Dialled(ok))
  /\ \A l \in Listens : /\ WF_vars(\E ok \in BOOLEAN : Listened(l, ok))
                       /\ WF_vars(AcceptEnds(l) \/ AcceptRetries(l))
  /\ WF_vars(~(conn.os = "open" /\ conn.peer # "reset") /\ SendWritten)
  /\ WF_vars(SendFin) /\ WF_vars(ReceiveRead)

Spec == Init /\ [][Next]_vars /\ Fairness

-----------------------------------------------------------------------------
SendLive == sending.at \notin {"none", "over"}
ReceiveLive == receiving.at \notin {"none", "over"}
AcceptLive(l) == accepts[l].at \notin {"none", "over"}

TypeOK ==
  /\ state \in {"unbound", "bound", "connecting", "connected", "listening", "closed"}
  /\ refs \in 0..(3 + Cardinality(Listens)) /\ handle \in BOOLEAN
  /\ dial \in {"none", "pending", "over"} /\ current \in Listens \cup {None}
  /\ conn \in [os : {"none", "open", "closed"}, held : BOOLEAN, peer : {"open", "fin", "reset"},
               data : BOOLEAN]
  /\ listener \in [Listens -> [call : {"none", "parked", "over"},
                               up : {"none", "binding", "live", "failed", "closed"},
                               queue : 0..MaxQueue]]
  /\ accepts \in [Listens -> [at : {"none", "accept", "spin", "yield", "over"}, gone : BOOLEAN]]
  /\ sending \in [at : {"none", "pull", "write", "fin", "over"},
                  future : {"none", "pending", "ok", "err", "rejected"},
                  source : {"none", "open", "ended", "dropped"}]
  /\ receiving \in [at : {"none", "read", "yield", "over"}, gone : BOOLEAN,
                    future : {"none", "pending", "ok", "err"}]

\* Shared ownership: "the OS socket is closed only after the last handle is dropped".
\* While the handle, a pump or an accept stream is there, nobody closes under them.
StaysOpen ==
  /\ SendLive \/ ReceiveLive => conn.os = "open"
  /\ handle /\ conn.held => conn.os = "open"
  /\ \A l \in Listens : AcceptLive(l) /\ ~accepts[l].gone => listener[l].up \in {"live", "failed"}

\* And it is closed then: once the handle is dropped and every pump is over, no
\* connection is open; of the listeners, only one can be live whose accept stream was
\* dropped at a yield after a second call of listen had taken its place.
ClosesAtLast ==
  ~handle /\ ~SendLive /\ ~ReceiveLive /\ (\A l \in Listens : ~AcceptLive(l)) =>
    /\ conn.os # "open"
    /\ \A l \in Listens : listener[l].up = "live" => \E k \in Listens \ {l} : accepts[k].at = "over"

\* The futures of send and receive settle with the operation, and the guest's stream
\* given to send is never left with a writer that nobody reads.
FuturesSettle ==
  /\ sending.at = "over" => sending.future # "pending" /\ sending.source # "open"
  /\ receiving.at = "over" => receiving.future # "pending"

\* "Dropping the stream's reader stops the pump [...] and settles the future ok."
\* (No run: the code breaks it.)
ReaderDropSettles == receiving.gone ~> receiving.future # "pending"

\* The drop of an accept stream ends it, whatever its generator is in.  (No run: the code
\* breaks it, for a listener whose failure is taken for one connection's is asked for ever.)
AcceptDropEnds == \A l \in Listens : accepts[l].gone ~> accepts[l].at = "over"
=============================================================================
