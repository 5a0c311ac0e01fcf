---------------------------- MODULE MCSchedulers ----------------------------
(* Three small instances of TaskScheduler in one run: in each a first task, in   *)
(* instance a, calls tasks of instance b, which the embedder calls too.        *)
(*   nested  promising tasks                                                   *)
(*   plain   no JSPI                                                           *)
(*   mixed   a promising caller with a plain and a promising callee            *)
(* In a behaviour the tasks of one of them run; the others' are never called.   *)
EXTENDS TaskScheduler

CONSTANTS h1, h2, g1, p1, p2, q1, q2, m1, r1, r2, a, b, d1

NestedTasks == {h1, h2, g1}
PlainTasks == {p1, p2, q1, q2}
MixedTasks == {m1, r1, r2}
Groups == {NestedTasks, PlainTasks, MixedTasks}
AllTasks == UNION Groups

Inst == [t \in AllTasks |-> IF t \in {h1, p1, m1} THEN a ELSE b]
Lifts == [t \in AllTasks |-> IF t \in {h2, p2, q2} THEN "syncOpt" ELSE "callback"]
AtoB == {<<a, b>>}

\* The module itself is the mixed instance; the groups have no task in common.
ASSUME GroupAssumption ==
  /\ Tasks = MixedTasks
  /\ \A t \in AllTasks : InstOf[t] \in Insts /\ Kind[t] \in Kinds
  /\ None \notin AllTasks
  /\ NestedTasks \cap PlainTasks = {}
  /\ NestedTasks \cap MixedTasks = {}
  /\ PlainTasks \cap MixedTasks = {}

\* The others; the instances bring the lemmas of TaskScheduler_proofs along.
Nested == INSTANCE TaskScheduler_proofs WITH
  Tasks <- AllTasks, HostTasks <- {h1, h2}, Promising <- AllTasks, Fifo <- TRUE,
  MaxBackpressure <- 0, MaxDepth <- 5

Plain == INSTANCE TaskScheduler_proofs WITH
  Tasks <- AllTasks, HostTasks <- {p1, p2}, Promising <- {}, Fifo <- FALSE,
  MaxBackpressure <- 1, MaxDepth <- 4

\* Init, but the tasks of one group only are to be called.
Started ==
  /\ \E group \in Groups : pc = [t \in AllTasks |-> IF t \in group THEN "none" ELSE "done"]
  /\ state = [t \in AllTasks |-> "initial"]
  /\ ret = [t \in AllTasks |-> "exit"]
  /\ event = [t \in AllTasks |-> FALSE]
  /\ callerInst = [t \in AllTasks |-> None]
  /\ raced = [t \in AllTasks |-> {}] /\ racing = [d \in Loops |-> None]
  /\ mayEnter = [i \in Insts \cup {Root} |-> TRUE]
  /\ poisoned = {}
  /\ exclusiveThread = [i \in Insts |-> None]
  /\ numWaitingToEnter = [i \in Insts |-> 0]
  /\ backpressure = [i \in Insts |-> 0]
  /\ waiting = <<>> /\ settled = <<>> /\ pendingResumptions = {}
  /\ stack = <<>> /\ unwinding = FALSE /\ fault = FALSE

\* A task of the group is to be called, or was.
Active(group) == ~\A t \in group : pc[t] = "done" /\ state[t] = "initial"

\* Next is that of the mixed tasks; if none of them is to be called, no action of it
\* is enabled but a driver's yield and the end of a race, the same in all three.
Step ==
  \/ Next
  \/ Active(NestedTasks) /\ Nested!Next
  \/ Active(PlainTasks) /\ Plain!Next

SchedulersSpec == Started /\ [][Step]_vars

\* No assert_ of the lock, the gate or the callback loop fails.  (See above.)
NoneAsserts == Active(MixedTasks) \/ ~fault

\* The scheduler's queues and counters hold each parked thread once, and the lock
\* mirrors the stack.  (Not so in the mixed instance: MCRootRelease.)
BookkeepingExact ==
  /\ Active(NestedTasks) => Nested!LockBracket /\ Nested!QueuesExact
  /\ Active(PlainTasks) => Plain!LockBracket
  /\ Active(MixedTasks) => QueuesExact

\* A poisoned instance stays closed.
DeadStayOut ==
  [][/\ Active(NestedTasks) => Nested!DeadStaysOut
     /\ Active(PlainTasks) => Plain!DeadStaysOut
     /\ Active(MixedTasks) => DeadStaysOut]_vars
=============================================================================
