------------------------------- MODULE MCHost -------------------------------
(* A small instance of Futures and one of HostStreams: instances a and b, and a *)
(* future or a stream that a guest creates or the host.  In a behaviour one of  *)
(* the two components runs.                                                     *)
EXTENDS Futures

CONSTANTS a, b, MaxLen, MaxSent

ASSUME LengthAssumption == MaxLen \in Nat

VARIABLES
  part, \* "future" or "stream"
  sowner, shandle, phase, sev, len, progress, told, sparked, sdropped, spoisoned, peerDied,
  shost, feed

HS == INSTANCE HostStreams WITH
  owner <- sowner, handle <- shandle, ev <- sev, parked <- sparked, dropped <- sdropped,
  poisoned <- spoisoned, host <- shost

svars == <<sowner, shandle, phase, sev, len, progress, told, sparked, sdropped, spoisoned,
           peerDied, shost, feed>>

Started ==
  /\ part \in {"future", "stream"} /\ Init /\ HS!Init
  /\ LET any == CHOOSE c \in Creators : TRUE
     IN  IF part = "future" THEN sowner["w"] = any /\ shost.kind # "pumped" ELSE owner["w"] = any

Future == part = "future" /\ Next /\ UNCHANGED <<part, svars>>
Stream == part = "stream" /\ HS!Next /\ UNCHANGED <<part, vars>>

HostSpec ==
  Started /\ [][Future \/ Stream]_<<part, vars, svars>> /\ (part = "stream" => HS!Fairness)

\* Type correctness of both components.
HostTypeOK == TypeOK /\ HS!TypeOK

\* The claim of the host on a future and on a stream.
HostClaims == RetentionClaim /\ HS!RetentionClaim

\* No element is lost or doubled, between the ends or in a producer's hands.
ElementsKept == HS!Conservation /\ HS!ProducerKept
ProducerKept == HS!ProducerKept

\* Nobody waits for a writer that is gone, and the other end of a stream always answers.
NobodyHangs == ReaderTold /\ HS!OperationsSettle

\* The value of a future crosses once, and no assert_ of its code fails.
FutureKept == ValueOnce /\ NoAssertFails

\* The end of a stream is neither made up nor missed.
EndsTold == HS!FaultIsNotEnd /\ HS!PumpStops
=============================================================================
