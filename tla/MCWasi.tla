------------------------------- MODULE MCWasi -------------------------------
(* Small instances of the WASI providers: a TCP socket of 0.2 with its streams, *)
(* one of 0.3, a UDP socket, an HTTP message and a directory.  They share       *)
(* nothing; in a behaviour one of them runs, and the others keep one state.     *)
EXTENDS TcpSocket02, FiniteSets

CONSTANTS
  None,
  Listens, MaxQueue,                        \* TcpSocket03
  Addrs, Receivers, MaxDatagrams, MaxPairs, \* UdpSockets
  Names,                                    \* Http: header names; Filesystem: entries
  Calls, MaxSize                            \* Filesystem

ASSUME ProviderAssumption ==
  /\ None \notin Addrs \cup Listens /\ IsFiniteSet(Listens)
  /\ MaxQueue \in Nat /\ MaxDatagrams \in Nat /\ MaxSize \in Nat

VARIABLES
  part, \* the provider that runs
  state, refs, handle, dial, conn3, listener3, current, accepts, sending, receiving,
  track, filters, bound, conn4, remote, dials, pairs, parked, went,
  options, fields, message, source, egress, resp, reading, trailers,
  grant, disk, ideal, calls, past

T3 == INSTANCE TcpSocket03 WITH conn <- conn3, listener <- listener3
U == INSTANCE UdpSockets WITH conn <- conn4, calls <- parked
H == INSTANCE Http
F == INSTANCE Filesystem

tvars == <<state, refs, handle, dial, conn3, listener3, current, accepts, sending, receiving>>
uvars == <<track, filters, bound, conn4, remote, dials, pairs, parked, went>>
hvars == <<options, fields, message, source, egress, resp, reading, trailers>>
fvars == <<grant, disk, ideal, calls, past>>

Started ==
  /\ part \in {"tcp02", "tcp03", "udp", "http", "fs"}
  /\ Init /\ T3!Init /\ U!Init /\ H!Init /\ F!Init
  /\ part # "tcp02" => sock.state = "unbound"
  /\ part # "tcp03" => state = "unbound"
  /\ part # "udp" => track = "p2" /\ filters
  /\ part # "http" => options = [policy |-> "deny", firstByte |-> FALSE, betweenBytes |-> FALSE] /\ source = "none"
  /\ part # "fs" => /\ grant = [writable |-> FALSE, backend |-> "node", moves |-> TRUE]
                    /\ disk = [n \in Names |-> F!Absent]

Step ==
  \/ part = "tcp02" /\ Next /\ UNCHANGED <<part, tvars, uvars, hvars, fvars>>
  \/ part = "tcp03" /\ T3!Next /\ UNCHANGED <<part, vars, uvars, hvars, fvars>>
  \/ part = "udp" /\ U!Next /\ UNCHANGED <<part, vars, tvars, hvars, fvars>>
  \/ part = "http" /\ H!Next /\ UNCHANGED <<part, vars, tvars, uvars, fvars>>
  \/ part = "fs" /\ F!Next /\ UNCHANGED <<part, vars, tvars, uvars, hvars>>

WasiSpec ==
  Started /\ [][Step]_<<part, vars, tvars, uvars, hvars, fvars>> /\ Fairness

\* Type correctness of the five.
WasiTypeOK == TypeOK /\ T3!TypeOK /\ U!TypeOK /\ H!TypeOK /\ F!TypeOK

\* Nobody sleeps beside what he waits for, at a stream, a socket or a datagram queue.
NoneSleepsOn == NoLostWakeup /\ U!NoneParkedBeside

\* What the OS lends is given back after a drop, and not before the last user is through.
Released == DropReleases /\ T3!StaysOpen /\ T3!ClosesAtLast /\ H!BodyReleased

\* Every result future tells the outcome, and a guest's stream is not left without a reader.
Settled == T3!FuturesSettle /\ H!FuturesTruthful /\ F!WriterReleased

\* What the provider takes the platform's state for is what it is: the remote of a UDP
\* socket, the contents of a directory.
PlatformAgrees == U!LinkAgrees /\ F!SerialExact /\ F!NodeExact

\* What no step may do: open a connection of a dropped socket, let a request out or drain
\* its body without the policy's word, change the headers of a message, write through a
\* read-only preopen.
NeverAfter == DropClosesDial /\ []H!FailsClosed /\ H!HeadersFrozen /\ F!ReadOnlyUntouched
=============================================================================
