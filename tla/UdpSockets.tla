------------------------------ MODULE UdpSockets ------------------------------
(* A udp-socket of wasi:sockets (wasi/src/internal/sockets_03.ts of 0.3,       *)
(* sockets_02.ts of 0.2) over a node datagram socket (sockets_platform.ts): a  *)
(* queue, the receives parked on it, and a connected mode that the OS, the     *)
(* provider and the guest each have their own idea of.  Datagrams are the      *)
(* addresses they come from.                                                   *)
EXTENDS Naturals, Sequences

CONSTANTS
  Addrs,       \* remote addresses
  None,
  Receivers,   \* guest frames that receive, or wait for the socket to be ready
  MaxDatagrams,\* MAX_QUEUED_DATAGRAMS
  MaxPairs     \* bound on the calls of stream(): the generations of stream pairs

VARIABLES
  track,   \* "p2", wasi:sockets@0.2, or "p3", 0.3
  filters, \* the OS filters by source once connected (node does, Deno's compat layer does not)
  bound,   \* #state of 0.2; of 0.3 whether #conn is there
  conn,    \* NodeDatagramConn; link: what the OS socket is connected to
  remote,  \* #remote, or the remote of the current pair of streams
  dials,   \* 0.3: the calls of connect whose callback is still to come
  pairs,   \* of each generation its remote, the sends on their way to fail, #failure
  calls,   \* receiver -> what it is parked in, and what it has been given
  went     \* the last datagram sent: where the guest meant it to go, where it went

vars == <<track, filters, bound, conn, remote, dials, pairs, calls, went>>

NoConn == [up |-> "none", link |-> None, queue |-> <<>>, failed |-> FALSE]
Idle == [at |-> "none", got |-> None]
Undirected == [meant |-> None, to |-> None]

Init ==
  /\ track \in {"p2", "p3"} /\ filters \in BOOLEAN
  /\ bound = "unbound" /\ conn = NoConn /\ remote = None /\ dials = {}
  /\ pairs = <<>> /\ calls = [r \in Receivers |-> Idle] /\ went = Undirected

In(at) == {r \in Receivers : calls[r].at = at}
Live == conn.up = "open"
Readable == conn.queue # <<>> \/ conn.failed \/ conn.up = "closed"

\* #failWaiters and #signal: parked receives are told, parked polls look again.
Wake(waiters) ==
  calls' = [r \in Receivers |->
              IF r \in waiters THEN [at |-> "fails", got |-> None]
              ELSE IF calls[r].at = "poll" THEN [at |-> "woken", got |-> None] ELSE calls[r]]

\* connect of the OS socket: node refuses a second one at once, without a callback of the OS.
Dials(a, ok) == conn' = [conn EXCEPT !.up = "open", !.link = IF ok /\ @ = None THEN a ELSE @]

-----------------------------------------------------------------------------
(* wasi:sockets@0.3: connect parks the call, receive parks in the socket.      *)

Bind ==
  /\ conn.up = "none" /\ bound = "unbound"
  /\ conn' = [conn EXCEPT !.up = "open"]
  /\ bound' = IF track = "p2" THEN "bind-in-progress" ELSE "bound"
  /\ UNCHANGED <<track, filters, remote, dials, pairs, calls, went>>

\* An unbound socket is bound first; several calls may be under way.
Connect(a, ok) ==
  /\ track = "p3" /\ bound # "closed" /\ remote = None
  /\ Dials(a, ok) /\ bound' = "bound"
  /\ dials' = dials \cup {[to |-> a, ok |-> ok /\ conn.link = None]}
  /\ UNCHANGED <<track, filters, remote, pairs, calls, went>>

Connected(d) ==
  /\ d \in dials /\ dials' = dials \ {d}
  /\ remote' = IF d.ok THEN d.to ELSE remote
  /\ UNCHANGED <<track, filters, bound, conn, pairs, calls, went>>

Disconnect ==
  /\ track = "p3" /\ remote # None /\ Live
  /\ remote' = None /\ conn' = [conn EXCEPT !.link = None]
  /\ UNCHANGED <<track, filters, bound, dials, pairs, calls, went>>

\* send: to a remote of its own, or to the one it is connected to; a connected OS
\* socket refuses an address, an unconnected one the lack of it.
Send(to) ==
  /\ track = "p3" /\ bound # "closed" /\ (to = None) = (remote # None)
  /\ conn' = [conn EXCEPT !.up = "open"] /\ bound' = "bound"
  /\ went' = IF to # None
             THEN IF conn.link = None THEN [meant |-> to, to |-> to] ELSE Undirected
             ELSE IF conn.link # None THEN [meant |-> remote, to |-> conn.link] ELSE Undirected
  /\ UNCHANGED <<track, filters, remote, dials, pairs, calls>>

Receive(r) ==
  /\ track = "p3" /\ Live /\ ~conn.failed /\ calls[r] = Idle
  /\ IF conn.queue = <<>>
     THEN calls' = [calls EXCEPT ![r].at = "receive"] /\ UNCHANGED conn
     ELSE /\ calls' = [calls EXCEPT ![r] = [at |-> "given", got |-> Head(conn.queue)]]
          /\ conn' = [conn EXCEPT !.queue = Tail(@)]
  /\ UNCHANGED <<track, filters, bound, remote, dials, pairs, went>>

\* The await of receive is over: the source is held against the remote of now, and a
\* datagram of somebody else is let go for the next one.
Matches(a) == remote = None \/ a = remote

Returns(r) ==
  /\ calls[r].at = "given" /\ Matches(calls[r].got)
  /\ calls' = [calls EXCEPT ![r] = Idle]
  /\ UNCHANGED <<track, filters, bound, conn, remote, dials, pairs, went>>

LooksOn(r) ==
  /\ calls[r].at = "given" /\ ~Matches(calls[r].got)
  /\ CASE ~Live \/ conn.failed ->
            calls' = [calls EXCEPT ![r] = [at |-> "fails", got |-> None]] /\ UNCHANGED conn
       [] Live /\ ~conn.failed /\ conn.queue # <<>> ->
            /\ calls' = [calls EXCEPT ![r].got = Head(conn.queue)]
            /\ conn' = [conn EXCEPT !.queue = Tail(@)]
       [] OTHER -> calls' = [calls EXCEPT ![r] = [at |-> "receive", got |-> None]] /\ UNCHANGED conn
  /\ UNCHANGED <<track, filters, bound, remote, dials, pairs, went>>

Fails(r) ==
  /\ calls[r].at = "fails" /\ calls' = [calls EXCEPT ![r] = Idle]
  /\ UNCHANGED <<track, filters, bound, conn, remote, dials, pairs, went>>

-----------------------------------------------------------------------------
(* wasi:sockets@0.2: pairs of datagram streams; only the last pair is live.    *)

FinishBind ==
  /\ bound = "bind-in-progress" /\ bound' = "bound"
  /\ UNCHANGED <<track, filters, conn, remote, dials, pairs, calls, went>>

\* stream(a): connect is fired and its failure swallowed; without a remote a connected
\* socket is disconnected.
Stream(a, ok) ==
  /\ track = "p2" /\ bound = "bound" /\ Len(pairs) < MaxPairs
  /\ pairs' = Append(pairs, [remote |-> a, failing |-> 0, failure |-> FALSE])
  /\ remote' = a
  /\ IF a # None THEN Dials(a, ok)
     ELSE conn' = [conn EXCEPT !.link = IF remote # None THEN None ELSE @]
  /\ UNCHANGED <<track, filters, bound, dials, calls, went>>

LivePair == track = "p2" /\ bound = "bound" /\ pairs # <<>>

\* check-send, and send: an earlier failure is surfaced once and forgotten.
Surfaces ==
  /\ LivePair /\ pairs[Len(pairs)].failure
  /\ pairs' = [pairs EXCEPT ![Len(pairs)].failure = FALSE]
  /\ UNCHANGED <<track, filters, bound, conn, remote, dials, calls, went>>

\* A datagram handed to the OS, to a remote of its own on an unconnected pair only.
SendPair(to, ok) ==
  /\ LivePair /\ ~pairs[Len(pairs)].failure /\ (to = None) = (remote # None)
  /\ pairs[Len(pairs)].failing = 0
  /\ LET sent == ok /\ (to = None) = (conn.link # None)
     IN  /\ pairs' = IF sent THEN pairs ELSE [pairs EXCEPT ![Len(pairs)].failing = 1]
         /\ went' = IF ~sent THEN Undirected
                    ELSE [meant |-> IF to = None THEN remote ELSE to,
                          to |-> IF to = None THEN conn.link ELSE to]
  /\ UNCHANGED <<track, filters, bound, conn, remote, dials, calls>>

\* The callback of a send that failed; its pair may be stale by now.
SendFailed(g) ==
  /\ g \in DOMAIN pairs /\ pairs[g].failing = 1
  /\ pairs' = [pairs EXCEPT ![g].failing = 0, ![g].failure = TRUE]
  /\ UNCHANGED <<track, filters, bound, conn, remote, dials, calls, went>>

\* receive of the live pair: it empties the queue up to a datagram that matches.
ReceivePair ==
  /\ LivePair /\ ~conn.failed /\ conn.queue # <<>>
  /\ LET hits == {i \in 1..Len(conn.queue) : Matches(conn.queue[i])}
         n == IF hits = {} THEN Len(conn.queue) ELSE CHOOSE i \in hits : \A j \in hits : i <= j
     IN  conn' = [conn EXCEPT !.queue = SubSeq(@, n + 1, Len(@))]
  /\ UNCHANGED <<track, filters, bound, remote, dials, pairs, calls, went>>

\* The pollable of any pair, stale ones too, waits on the socket.
Polls(r) ==
  /\ track = "p2" /\ pairs # <<>> /\ calls[r] = Idle /\ ~Readable
  /\ calls' = [calls EXCEPT ![r].at = "poll"]
  /\ UNCHANGED <<track, filters, bound, conn, remote, dials, pairs, went>>

\* The loop of poll looks again.
PollWakes(r) ==
  /\ calls[r].at = "woken"
  /\ calls' = [calls EXCEPT ![r] = IF Readable THEN Idle ELSE [at |-> "poll", got |-> None]]
  /\ UNCHANGED <<track, filters, bound, conn, remote, dials, pairs, went>>

-----------------------------------------------------------------------------
(* Both: the drop of the socket, and the network.                              *)

Dispose ==
  /\ bound # "closed" /\ bound' = "closed"
  /\ conn' = [conn EXCEPT !.up = IF @ = "none" THEN "none" ELSE "closed"]
  /\ IF Live THEN Wake(In("receive")) ELSE UNCHANGED calls
  /\ UNCHANGED <<track, filters, remote, dials, pairs, went>>

\* Mutant: the queue has no bound.
MessageUnbounded(a, r) ==
  /\ Live /\ (filters => conn.link \in {None, a}) /\ Len(conn.queue) <= MaxDatagrams
  /\ IF In("receive") # {}
     THEN r \in In("receive") /\ calls' = [calls EXCEPT ![r] = [at |-> "given", got |-> a]] /\ UNCHANGED conn
     ELSE conn' = [conn EXCEPT !.queue = Append(@, a)] /\ Wake({})
  /\ UNCHANGED <<track, filters, bound, remote, dials, pairs, went>>

\* A datagram goes to the first parked receive, or queues, or is dropped at the bound.
Message(a, r) ==
  /\ Live /\ (filters => conn.link \in {None, a})
  /\ IF In("receive") # {}
     THEN /\ r \in In("receive") /\ calls' = [calls EXCEPT ![r] = [at |-> "given", got |-> a]]
          /\ UNCHANGED conn
     ELSE /\ Len(conn.queue) < MaxDatagrams
          /\ conn' = [conn EXCEPT !.queue = Append(@, a)]
          /\ Wake({})
  /\ UNCHANGED <<track, filters, bound, remote, dials, pairs, went>>

Error ==
  /\ Live /\ ~conn.failed
  /\ conn' = [conn EXCEPT !.failed = TRUE] /\ Wake(In("receive"))
  /\ UNCHANGED <<track, filters, bound, remote, dials, pairs, went>>

Next ==
  \/ Bind \/ FinishBind \/ (\E d \in dials : Connected(d)) \/ Disconnect \/ Surfaces \/ ReceivePair \/ Dispose \/ Error
  \/ \E a \in Addrs, ok \in BOOLEAN : Connect(a, ok)
  \/ \E a \in Addrs \cup {None}, ok \in BOOLEAN : Stream(a, ok) \/ SendPair(a, ok)
  \/ \E a \in Addrs \cup {None} : Send(a)
  \/ \E g \in 1..MaxPairs : SendFailed(g)
  \/ \E r \in Receivers : \/ Receive(r) \/ Returns(r) \/ LooksOn(r) \/ Fails(r)
                          \/ Polls(r) \/ PollWakes(r)
                          \/ \E a \in Addrs : Message(a, r)

Spec == Init /\ [][Next]_vars

-----------------------------------------------------------------------------
TypeOK ==
  /\ track \in {"p2", "p3"} /\ filters \in BOOLEAN
  /\ bound \in {"unbound", "bind-in-progress", "bound", "closed"}
  /\ conn \in [up : {"none", "open", "closed"}, link : Addrs \cup {None}, queue : Seq(Addrs),
               failed : BOOLEAN]
  /\ Len(conn.queue) <= MaxDatagrams
  /\ remote \in Addrs \cup {None} /\ dials \subseteq [to : Addrs, ok : BOOLEAN]
  /\ pairs \in Seq([remote : Addrs \cup {None}, failing : 0..1, failure : BOOLEAN])
  /\ calls \in [Receivers -> [at : {"none", "receive", "given", "fails", "poll", "woken"},
                              got : Addrs \cup {None}]]
  /\ went \in [meant : Addrs \cup {None}, to : Addrs \cup {None}]

\* No receive is parked beside a datagram, nor under a socket that has failed or is
\* closed; no poll sleeps beside a socket that is ready.
NoneParkedBeside ==
  /\ In("receive") # {} => Live /\ ~conn.failed /\ conn.queue = <<>>
  /\ In("poll") # {} => ~Readable

\* 0.3: while the provider takes itself for connected, the OS socket is connected there,
\* so that the kernel filters and a send without a remote goes where the guest meant.
LinkAgrees ==
  track = "p3" => /\ (remote # None => conn.link = remote)
                  /\ (conn.link # None => conn.link = remote \/ [to |-> conn.link, ok |-> TRUE] \in dials)
                  /\ went.to = went.meant

\* "a connect failure surfaces on the first send/receive": at least, a datagram of a
\* connected pair goes to the remote of that pair.  (No run: the code breaks it for 0.2.)
SendsToRemote == went.to = went.meant
=============================================================================
