-------------------------- MODULE MCTaskScheduler --------------------------
(* Small instances of TaskScheduler: named tasks h1.. (called by the embedder) *)
(* and g1.. (called by a guest), instances a and b.                            *)
EXTENDS TaskScheduler

CONSTANTS h1, h2, h3, h4, g1, g2, a, b, d1

NoLinks == {}
AtoB == {<<a, b>>}

\* One instance, calls of the embedder: three that compete for the slot, or two of which
\* one is stackful and needs none.
OneInst == [t \in Tasks |-> a]
GateKinds == [t \in Tasks |-> CASE t = h1 -> "callback" [] t = h4 -> "stackful" [] OTHER -> "syncOpt"]

\* Init, but only the calls of a group are to be made.
Gathered ==
  /\ Fresh
  /\ \E group \in {{h1, h2, h3}, {h2, h4}} :
       pc = [t \in Tasks |-> IF t \in group THEN "none" ELSE "done"]

GateSpec == Gathered /\ [][Next]_vars /\ DriverFairness /\ GuestFairness /\ EndingFairness

\* h1 in a calls g1 and g2 in b, which the embedder calls too (h2).
TwoInsts == [t \in Tasks |-> IF t = h1 THEN a ELSE b]
TwoKinds == [t \in Tasks |-> CASE t \in {h2, g2} -> "syncOpt" [] OTHER -> "callback"]
=============================================================================
