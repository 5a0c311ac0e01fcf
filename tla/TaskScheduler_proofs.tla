----------------------- MODULE TaskScheduler_proofs -----------------------
(* The exclusive slot, the store's queues and gate counts, and the           *)
(* reentrance lock, proved for every number of tasks and instances, every    *)
(* assignment of lift kinds, suspension modes and links, and both policies.  *)
EXTENDS TaskScheduler, SequenceTheorems, FiniteSetTheorems, TLAPS

-----------------------------------------------------------------------------
(* Sequences of frames and threads.                                          *)

\* RemoveAt, by which a driver or a cancellation takes a thread out of a
\* queue: the result has the queue's type and holds the elements around k.
LEMMA RemoveAtProperties ==
  ASSUME NEW S, NEW s \in Seq(S), NEW k \in DOMAIN s
  PROVE  /\ RemoveAt(s, k) \in Seq(S)
         /\ DOMAIN RemoveAt(s, k) = 1..(Len(s) - 1)
         /\ \A j \in 1..(Len(s) - 1) :
              RemoveAt(s, k)[j] = s[IF j < k THEN j ELSE j + 1]
<1>1. k \in 1..Len(s) /\ Len(s) \in Nat
  BY LenProperties
<1> DEFINE x == SubSeq(s, 1, k - 1)
           y == SubSeq(s, k + 1, Len(s))
<1>2. /\ x \in Seq(S) /\ Len(x) = k - 1
      /\ \A j \in 1..(k - 1) : x[j] = s[j]
  <2>1. \A j \in 1..(k - 1) : s[j] \in S
    BY <1>1, ElementOfSeq
  <2> QED BY <1>1, <2>1, SubSeqProperties
<1>3. /\ y \in Seq(S) /\ Len(y) = Len(s) - k
      /\ \A j \in 1..(Len(s) - k) : y[j] = s[k + j]
  <2>1. \A j \in (k + 1)..Len(s) : s[j] \in S
    BY <1>1, ElementOfSeq
  <2>2. /\ y \in Seq(S)
        /\ Len(y) = IF k + 1 <= Len(s) THEN Len(s) - (k + 1) + 1 ELSE 0
        /\ \A j \in 1..(Len(s) - (k + 1) + 1) : y[j] = s[(k + 1) + j - 1]
    BY <1>1, <2>1, SubSeqProperties
  <2> HIDE DEF y
  <2> QED BY <1>1, <2>2
<1>4. RemoveAt(s, k) = x \o y
  BY DEF RemoveAt
<1> HIDE DEF x, y
<1>5. /\ x \o y \in Seq(S)
      /\ Len(x \o y) = Len(s) - 1
      /\ \A j \in 1..(Len(s) - 1) : (x \o y)[j] = IF j <= k - 1 THEN x[j] ELSE y[j - (k - 1)]
  <2>1. Len(x) + Len(y) = Len(s) - 1
    BY <1>1, <1>2, <1>3
  <2>2. /\ x \o y \in Seq(S)
        /\ Len(x \o y) = Len(x) + Len(y)
        /\ \A j \in 1..(Len(x) + Len(y)) :
             (x \o y)[j] = IF j <= Len(x) THEN x[j] ELSE y[j - Len(x)]
    BY <1>2, <1>3, ConcatProperties
  <2> QED BY <1>2, <2>1, <2>2
<1>6. DOMAIN (x \o y) = 1..(Len(s) - 1)
  BY <1>5, LenProperties
<1>7. ASSUME NEW j \in 1..(Len(s) - 1)
      PROVE  (x \o y)[j] = s[IF j < k THEN j ELSE j + 1]
  <2>1. CASE j < k
    BY <1>1, <1>2, <1>5, <2>1
  <2>2. CASE ~(j < k)
    <3>1. j - (k - 1) \in 1..(Len(s) - k) /\ k + (j - (k - 1)) = j + 1 /\ ~(j <= k - 1)
      BY <1>1, <2>2
    <3>2. y[j - (k - 1)] = s[k + (j - (k - 1))]
      BY <1>3, <3>1
    <3> QED BY <1>5, <2>2, <3>1, <3>2
  <2> QED BY <2>1, <2>2
<1> QED BY <1>4, <1>5, <1>6, <1>7

\* A frame pushed for a call is a frame.
LEMMA FrameType ==
  ASSUME NEW t \in Tasks \cup {None}, NEW e \in Entries
  PROVE  Frame(t, e) \in Frames
BY DEF Frame, Frames

\* The top segment and the segments below it.
LEMMA TopAndBelow ==
  ASSUME stack \in Seq(Frames), stack # <<>>
  PROVE  /\ Len(stack) \in Nat \ {0}
         /\ Top \in Frames
         /\ Below \in Seq(Frames)
         /\ Len(Below) = Len(stack) - 1
         /\ \A k \in 1..(Len(stack) - 1) : Below[k] = stack[k]
<1>1. PICK n \in Nat \ {0} : Len(stack) = n
  BY EmptySeq
<1>2. /\ \A k \in 1..n : stack[k] \in Frames
      /\ \A k \in 1..(n - 1) : stack[k] \in Frames
      /\ Below = SubSeq(stack, 1, n - 1)
      /\ n - 1 \in Int
  BY <1>1, ElementOfSeq DEF Below
<1>3. /\ Below \in Seq(Frames)
      /\ Len(Below) = IF 1 <= n - 1 THEN (n - 1) - 1 + 1 ELSE 0
      /\ \A k \in 1..((n - 1) - 1 + 1) : Below[k] = stack[1 + k - 1]
  BY <1>2, SubSeqProperties
<1>4. Top \in Frames
  BY <1>1, <1>2 DEF Top
<1>5. (IF 1 <= n - 1 THEN (n - 1) - 1 + 1 ELSE 0) = n - 1
  OBVIOUS
<1>6. ASSUME NEW k \in 1..(n - 1)
      PROVE  Below[k] = stack[k]
  <2>1. k \in 1..((n - 1) - 1 + 1) /\ 1 + k - 1 = k
    OBVIOUS
  <2> QED BY <1>3, <2>1
<1> QED BY <1>1, <1>3, <1>4, <1>5, <1>6

\* The stacks a call is pushed on: unchanged, with a nested driver, or with the
\* caller's segment waiting in its import.
LEMMA HostBaseType ==
  ASSUME stack \in Seq(Frames)
  PROVE  HostBase \in Seq(Frames)
<1>1. Frame(None, "drive") \in Frames
  BY FrameType DEF Entries
<1>2. Append(stack, Frame(None, "drive")) \in Seq(Frames)
  BY <1>1, AppendProperties
<1> QED BY <1>2, EmptySeq DEF HostBase

\* The same, for the stack of a caller that waits in its import.
LEMMA CallingType ==
  ASSUME stack \in Seq(Frames), stack # <<>>, NEW u \in Tasks
  PROVE  Calling(u) \in Seq(Frames)
<1>1. Top \in Frames /\ MaySuspend(u) \in BOOLEAN
  BY TopAndBelow DEF MaySuspend
<1>2. [Top EXCEPT !.susp = MaySuspend(u)] \in Frames
  BY <1>1 DEF Frames
<1> QED BY <1>2, TopAndBelow, AppendProperties DEF Calling

-----------------------------------------------------------------------------
(* Types.                                                                    *)

\* Taking and leaving brackets keeps the lock a Boolean per instance.
LEMMA LockType ==
  ASSUME NEW S
  PROVE  /\ Entered(S) \in [Insts \cup {Root} -> BOOLEAN]
         /\ Left(S) \in [Insts \cup {Root} -> BOOLEAN]
BY DEF Entered, Left

\* A segment that ends leaves a stack of frames and a lock.
LEMMA EndSegmentType ==
  ASSUME TypeOK, stack # <<>>, EndSegment
  PROVE  /\ stack' \in Seq(Frames)
         /\ mayEnter' \in [Insts \cup {Root} -> BOOLEAN]
         /\ fault' \in BOOLEAN
<1>1. stack' \in Seq(Frames)
  BY TopAndBelow DEF EndSegment, TypeOK
<1>2. mayEnter' \in [Insts \cup {Root} -> BOOLEAN]
  BY LockType DEF EndSegment
<1>3. fault' \in BOOLEAN
  BY Zenon DEF EndSegment, CannotLeave
<1> QED BY <1>1, <1>2, <1>3

\* Entering: the types of everything Start changes.
LEMMA StartType ==
  ASSUME TypeOK, NEW t \in Tasks, NEW entry \in Entries, NEW base \in Seq(Frames),
         Start(t, entry, base)
  PROVE  /\ pc' \in [Tasks -> Places] /\ state' \in [Tasks -> States]
         /\ exclusiveThread' \in [Insts -> Tasks \cup {None}]
         /\ stack' \in Seq(Frames)
         /\ mayEnter' \in [Insts \cup {Root} -> BOOLEAN]
         /\ fault' \in BOOLEAN
<1>1. pc' \in [Tasks -> Places] /\ state' \in [Tasks -> States]
  BY DEF Start, TypeOK, Places, States
<1>2. exclusiveThread' \in [Insts -> Tasks \cup {None}]
  BY TaskAssumption DEF Start, WithSlot, TypeOK
<1>3. stack' \in Seq(Frames)
  BY FrameType, AppendProperties DEF Start
<1>4. mayEnter' \in [Insts \cup {Root} -> BOOLEAN]
  BY LockType DEF Start
<1>5. fault' \in BOOLEAN
  BY Zenon DEF Start
<1> QED BY <1>1, <1>2, <1>3, <1>4, <1>5

\* Entering or parking at the gate.
LEMMA EnterType ==
  ASSUME TypeOK, NEW t \in Tasks, NEW entry \in Entries, NEW base \in Seq(Frames),
         Enter(t, entry, base)
  PROVE  /\ pc' \in [Tasks -> Places] /\ state' \in [Tasks -> States]
         /\ exclusiveThread' \in [Insts -> Tasks \cup {None}]
         /\ stack' \in Seq(Frames)
         /\ mayEnter' \in [Insts \cup {Root} -> BOOLEAN]
         /\ fault' \in BOOLEAN
         /\ waiting' \in Seq(Tasks)
         /\ numWaitingToEnter' \in [Insts -> Int]
<1>1. CASE /\ pc' = [pc EXCEPT ![t] = "gate"]
           /\ waiting' = Append(waiting, t)
           /\ numWaitingToEnter' = [numWaitingToEnter EXCEPT ![InstOf[t]] = @ + 1]
           /\ stack' = base
           /\ fault' = CannotEnter(Bracket(Frame(t, entry)))
           /\ UNCHANGED <<state, exclusiveThread, mayEnter>>
  <2>1. waiting' \in Seq(Tasks)
    BY <1>1, AppendProperties DEF TypeOK
  <2>2. fault' \in BOOLEAN
    <3>1. fault' = CannotEnter(Bracket(Frame(t, entry)))
      BY <1>1
    <3> QED BY <3>1, Zenon DEF CannotEnter
  <2>3. pc' \in [Tasks -> Places]
    BY <1>1 DEF TypeOK, Places
  <2>4. numWaitingToEnter' \in [Insts -> Int]
    <3>1. numWaitingToEnter[InstOf[t]] + 1 \in Int
      BY TaskAssumption DEF TypeOK
    <3> QED BY <1>1, <3>1 DEF TypeOK
  <2> QED BY <1>1, <2>1, <2>2, <2>3, <2>4 DEF TypeOK
<1>2. CASE Start(t, entry, base) /\ UNCHANGED <<waiting, numWaitingToEnter>>
  BY <1>2, StartType DEF TypeOK
<1> QED BY <1>1, <1>2 DEF Enter

\* Taking a thread out of a queue.
LEMMA QueueTypes ==
  ASSUME TypeOK, NEW t
  PROVE  /\ StopWaiting(t) => waiting' \in Seq(Tasks)
         /\ Chosen(t) => waiting' \in Seq(Tasks)
         /\ TakeSettled(t) => settled' \in Seq(Tasks) /\ ret' \in [Tasks -> Codes]
<1>1. \A k \in DOMAIN waiting : RemoveAt(waiting, k) \in Seq(Tasks)
  BY RemoveAtProperties DEF TypeOK
<1>2. \A k \in DOMAIN settled : RemoveAt(settled, k) \in Seq(Tasks)
  BY RemoveAtProperties DEF TypeOK
<1> QED BY <1>1, <1>2 DEF StopWaiting, Chosen, TakeSettled, TypeOK, Codes

\* One entrant fewer at a gate.
LEMMA GateType ==
  ASSUME TypeOK, NEW i \in Insts
  PROVE  LeaveGate(i) \in [Insts -> Int]
<1>1. numWaitingToEnter[i] - 1 \in Int
  BY DEF TypeOK
<1> QED BY <1>1 DEF LeaveGate, TypeOK

\* The end of a core invocation: exit, wait, or straight on into the callback.
LEMMA TailType ==
  ASSUME TypeOK, NEW t \in Tasks, NEW c \in Codes,
         Finish(t) \/ Loop(t, c) \/ CancelAtWait(t)
  PROVE  /\ pc' \in [Tasks -> Places] /\ state' \in [Tasks -> States]
         /\ event' \in [Tasks -> BOOLEAN]
         /\ exclusiveThread' \in [Insts -> Tasks \cup {None}]
         /\ waiting' \in Seq(Tasks)
<1>1. CASE Finish(t)
  BY <1>1, TaskAssumption DEF Finish, WithSlot, TypeOK, Places, States
<1>2. CASE Loop(t, c)
  <2>1. waiting' \in Seq(Tasks)
    BY <1>2, AppendProperties DEF Loop, TypeOK
  <2>2. pc' \in [Tasks -> Places] /\ state' \in [Tasks -> States]
    BY <1>2 DEF Loop, TypeOK, Places
  <2>3. event' \in [Tasks -> BOOLEAN]
    BY <1>2 DEF Loop, TypeOK
  <2>4. exclusiveThread' \in [Insts -> Tasks \cup {None}]
    BY <1>2, TaskAssumption DEF Loop, WithSlot, TypeOK
  <2> QED BY <2>1, <2>2, <2>3, <2>4
<1>3. CASE CancelAtWait(t)
  BY <1>3 DEF CancelAtWait, TypeOK, Places, States
<1> QED BY <1>1, <1>2, <1>3

\* What a trap of a plain segment leaves on the stack: the segments below, or
\* those below the driver of a nested host call.
LEMMA PopEntryProperties ==
  ASSUME stack \in Seq(Frames), stack # <<>>
  PROVE  /\ PopEntry \in Seq(Frames)
         /\ Len(PopEntry) <= Len(stack) - 1
         /\ \A k \in 1..Len(PopEntry) : PopEntry[k] = stack[k]
<1>1. PICK n \in Nat : Len(stack) - 1 = n /\ Len(Below) = n
  BY TopAndBelow
<1>2. CASE PopEntry = Below
  BY <1>1, <1>2, TopAndBelow
<1>3. CASE Below # <<>> /\ PopEntry = SubSeq(Below, 1, Len(Below) - 1)
  <2>1. PICK m \in Nat : n = m + 1
    BY <1>1, <1>3, TopAndBelow, EmptySeq
  <2>2. \A k \in 1..m : Below[k] = stack[k] /\ Below[k] \in Frames
    BY <1>1, <2>1, TopAndBelow, ElementOfSeq
  <2>3. PopEntry = SubSeq(Below, 1, m)
    BY <1>1, <1>3, <2>1
  <2>4. /\ PopEntry \in Seq(Frames)
        /\ Len(PopEntry) = IF 1 <= m THEN m - 1 + 1 ELSE 0
        /\ \A k \in 1..(m - 1 + 1) : PopEntry[k] = Below[1 + k - 1]
    BY <2>2, <2>3, SubSeqProperties
  <2>5. Len(PopEntry) = m
    BY <2>4
  <2>6. ASSUME NEW k \in 1..m PROVE PopEntry[k] = Below[k]
    <3>1. k \in 1..(m - 1 + 1) /\ 1 + k - 1 = k
      OBVIOUS
    <3> QED BY <2>4, <3>1
  <2> QED BY <1>1, <2>1, <2>2, <2>4, <2>5, <2>6
<1> QED BY <1>2, <1>3 DEF PopEntry

\* Init, where some of the tasks may never be called.
Begun ==
  /\ pc \in [Tasks -> {"none", "done"}]
  /\ state = [t \in Tasks |-> "initial"]
  /\ ret = [t \in Tasks |-> "exit"]
  /\ event = [t \in Tasks |-> FALSE]
  /\ callerInst = [t \in Tasks |-> None]
  /\ raced = [t \in Tasks |-> {}] /\ racing = [d \in Loops |-> None]
  /\ mayEnter = [i \in Insts \cup {Root} |-> TRUE]
  /\ poisoned = {}
  /\ exclusiveThread = [i \in Insts |-> None]
  /\ numWaitingToEnter = [i \in Insts |-> 0]
  /\ backpressure = [i \in Insts |-> 0]
  /\ waiting = <<>> /\ settled = <<>> /\ pendingResumptions = {}
  /\ stack = <<>> /\ unwinding = FALSE /\ fault = FALSE

\* In the initial states every task may be called.
LEMMA InitBegins == Init => Begun
BY DEF Init, Fresh, Begun

\* The initial values have the types of the variables.
LEMMA TypeInit == Begun => TypeOK
<1>1. <<>> \in Seq(Tasks) /\ <<>> \in Seq(Frames)
  BY EmptySeq
<1> SUFFICES ASSUME Begun PROVE TypeOK
  OBVIOUS
<1>2. /\ state \in [Tasks -> States] /\ pc \in [Tasks -> Places] /\ ret \in [Tasks -> Codes]
      /\ event \in [Tasks -> BOOLEAN] /\ callerInst \in [Tasks -> Insts \cup {None}]
      /\ raced \in [Tasks -> SUBSET Tasks] /\ racing \in [Loops -> Tasks \cup {None}]
  BY DEF Begun, States, Places, Codes
<1>3. /\ mayEnter \in [Insts \cup {Root} -> BOOLEAN]
      /\ exclusiveThread \in [Insts -> Tasks \cup {None}]
      /\ numWaitingToEnter \in [Insts -> Int] /\ backpressure \in [Insts -> Nat]
  BY DEF Begun
<1> QED BY <1>1, <1>2, <1>3 DEF Begun, TypeOK

\* Host calls and the hop gate keep the types.
LEMMA TypeHost ==
  ASSUME TypeOK, NEW t \in Tasks, HostCall(t) \/ DeferHostCall(t) \/ HostGate(t)
  PROVE  TypeOK'
<1> USE DEF taskVars, raceVars, lockVars, gateVars, queueVars, jsVars
<1>1. CASE HostCall(t)
  <2>1. HostBase \in Seq(Frames)
    BY HostBaseType DEF TypeOK
  <2>2. Enter(t, "host", HostBase)
    BY <1>1 DEF HostCall
  <2>3. UNCHANGED <<ret, event, callerInst, raceVars, poisoned, backpressure, settled,
                    pendingResumptions, unwinding>>
    BY <1>1 DEF HostCall
  <2> QED BY <2>1, <2>2, <2>3, EnterType DEF TypeOK, Entries
<1>2. CASE DeferHostCall(t)
  <2>1. RaceHops(t) \in Places /\ HopThreads(InstOf[t]) \in SUBSET Tasks
    BY TaskAssumption DEF RaceHops, Places, HopThreads
  <2>2. pc' \in [Tasks -> Places] /\ raced' \in [Tasks -> SUBSET Tasks]
    BY <1>2, <2>1 DEF DeferHostCall, TypeOK
  <2> QED BY <1>2, <2>2 DEF DeferHostCall, TypeOK
<1>3. CASE RecheckHops(t)
  <2>1. /\ RaceHops(t) \in Places /\ "admitted" \in Places
        /\ HopThreads(InstOf[t]) \in SUBSET Tasks
    BY TaskAssumption DEF RaceHops, Places, HopThreads
  <2>2. pc' \in [Tasks -> Places] /\ raced' \in [Tasks -> SUBSET Tasks]
    BY <1>3, <2>1 DEF RecheckHops, TypeOK
  <2> QED BY <1>3, <2>2 DEF RecheckHops, TypeOK
<1>4. CASE AdmittedCall(t)
  <2>1. CASE /\ Enter(t, "host", <<>>)
             /\ UNCHANGED <<ret, event, callerInst, raceVars, poisoned, backpressure, settled,
                            pendingResumptions, unwinding>>
    <3>1. <<>> \in Seq(Frames)
      BY EmptySeq
    <3> QED BY <2>1, <3>1, EnterType DEF TypeOK, Entries
  <2>2. CASE /\ pc' = [pc EXCEPT ![t] = "refused"]
             /\ UNCHANGED <<state, ret, event, callerInst, raceVars, lockVars, gateVars,
                            queueVars, jsVars>>
    BY <2>2 DEF TypeOK, Places
  <2> QED BY <1>4, <2>1, <2>2 DEF AdmittedCall
<1> QED BY <1>1, <1>2, <1>3, <1>4 DEF HostGate

\* So does what running guest code does to its own task,
LEMMA TypeGuestStep ==
  ASSUME TypeOK, NEW t \in Tasks, GuestStep(t)
  PROVE  TypeOK'
<1> USE DEF taskVars, raceVars, lockVars, gateVars, queueVars, jsVars
<1>1. CASE GuestTaskReturn(t) \/ GuestTaskCancel(t)
  BY <1>1 DEF GuestTaskReturn, GuestTaskCancel, TypeOK, States
<1>2. CASE GuestBackpressure(t)
  <2>1. PICK d \in {1, -1} :
          /\ backpressure[InstOf[t]] + d \in 0..MaxBackpressure
          /\ backpressure' = [backpressure EXCEPT ![InstOf[t]] = @ + d]
    BY <1>2 DEF GuestBackpressure
  <2>2. backpressure[InstOf[t]] + d \in Nat
    BY <2>1, BoundAssumption
  <2>3. backpressure' \in [Insts -> Nat]
    BY <2>1, <2>2 DEF TypeOK
  <2> QED BY <1>2, <2>3 DEF GuestBackpressure, TypeOK
<1>3. CASE GuestHops(t)
  <2>1. stack # <<>> /\ EndSegment
    BY <1>3 DEF GuestHops, TopOf
  <2>2. pc' \in [Tasks -> Places]
    BY <1>3 DEF GuestHops, TypeOK, Places
  <2> QED BY <1>3, <2>1, <2>2, EndSegmentType DEF GuestHops, TypeOK
<1>4. CASE GuestMeetsCancel(t)
  <2>1. stack # <<>> /\ EndSegment
    BY <1>4 DEF GuestMeetsCancel, Running
  <2>2. state' \in [Tasks -> States] /\ pc' \in [Tasks -> Places]
    BY <1>4 DEF GuestMeetsCancel, TypeOK, States, Places
  <2> QED BY <1>4, <2>1, <2>2, EndSegmentType DEF GuestMeetsCancel, TypeOK
<1>5. CASE GuestBlocks(t)
  <2>1. stack # <<>> /\ EndSegment
    BY <1>5 DEF GuestBlocks, TopOf
  <2>2. pc' \in [Tasks -> Places] /\ event' \in [Tasks -> BOOLEAN]
    BY <1>5 DEF GuestBlocks, TypeOK, Places
  <2>3. waiting' \in Seq(Tasks) /\ pendingResumptions' \subseteq Tasks
    BY <1>5, AppendProperties DEF GuestBlocks, ConsumePending, TypeOK
  <2> QED BY <1>5, <2>1, <2>2, <2>3, EndSegmentType DEF GuestBlocks, TypeOK
<1> QED BY <1>1, <1>2, <1>3, <1>4, <1>5 DEF GuestStep

\* what its invocation leaves behind when it returns or traps,
LEMMA TypeGuestReturn ==
  ASSUME TypeOK, NEW t \in Tasks, GuestReturn(t) \/ Trap(t)
  PROVE  TypeOK'
<1> USE DEF taskVars, raceVars, lockVars, gateVars, queueVars, jsVars
<1>1. ASSUME NEW c \in Codes, ReturnHops(t, c)
      PROVE  TypeOK'
  <2>1. stack # <<>> /\ EndSegment
    BY <1>1 DEF ReturnHops, Running
  <2>2. pc' \in [Tasks -> Places] /\ ret' \in [Tasks -> Codes]
    BY <1>1 DEF ReturnHops, TypeOK, Places
  <2> QED BY <1>1, <2>1, <2>2, EndSegmentType DEF ReturnHops, TypeOK
<1>2. ASSUME NEW c \in Codes, ReturnPlain(t, c)
      PROVE  TypeOK'
  <2>1. stack' \in Seq(Frames)
    BY <1>2, TopAndBelow DEF ReturnPlain, Running, TypeOK
  <2>2. mayEnter' \in [Insts \cup {Root} -> BOOLEAN]
    BY <1>2, LockType DEF ReturnPlain
  <2>3. fault' \in BOOLEAN
    BY <1>2, Zenon DEF ReturnPlain, CannotLeave, SlotLost
  <2>4. Finish(t) \/ Loop(t, c)
    BY <1>2 DEF ReturnPlain
  <2> QED BY <1>2, <2>1, <2>2, <2>3, <2>4, TailType DEF ReturnPlain, TypeOK
<1>3. ASSUME NEW c \in Codes, ReturnToCancel(t, c)
      PROVE  TypeOK'
  <2>1. fault' \in BOOLEAN
    BY <1>3, Zenon DEF ReturnToCancel, SlotLost
  <2>2. CancelAtWait(t)
    BY <1>3 DEF ReturnToCancel
  <2> QED BY <1>3, <2>1, <2>2, TailType DEF ReturnToCancel, TypeOK
<1>4. CASE TrapHops(t)
  <2>1. stack # <<>> /\ EndSegment
    BY <1>4 DEF TrapHops, TopIsGuest
  <2>2. pc' \in [Tasks -> Places] /\ ret' \in [Tasks -> Codes]
    BY <1>4 DEF TrapHops, TypeOK, Places, Codes
  <2> QED BY <1>4, <2>1, <2>2, EndSegmentType DEF TrapHops, TypeOK
<1>5. CASE TrapPoisons(t)
  <2>1. stack' \in Seq(Frames)
    BY <1>5, PopEntryProperties DEF TrapPoisons, TopIsGuest, TypeOK
  <2>2. mayEnter' \in [Insts \cup {Root} -> BOOLEAN]
    BY <1>5 DEF TrapPoisons, RootReleased, TypeOK
  <2>3. pc' \in [Tasks -> Places] /\ poisoned' \subseteq Insts
    BY <1>5, TaskAssumption DEF TrapPoisons, TypeOK, Places
  <2>4. unwinding' \in BOOLEAN
    BY <1>5 DEF TrapPoisons
  <2> QED BY <1>5, <2>1, <2>2, <2>3, <2>4 DEF TrapPoisons, TypeOK
<1> QED BY <1>1, <1>2, <1>3, <1>4, <1>5 DEF GuestReturn, Trap

\* a call of another instance and a cancellation,
LEMMA TypeGuestCall ==
  ASSUME TypeOK, NEW u \in Tasks, NEW t \in Tasks, GuestCall(u, t) \/ Cancel(u, t)
  PROVE  TypeOK'
<1> USE DEF taskVars, raceVars, lockVars, gateVars, queueVars, jsVars
<1>0. stack # <<>> => Calling(u) \in Seq(Frames)
  BY CallingType DEF TypeOK
<1>1. CASE GuestCall(u, t)
  <2>1. Calling(u) \in Seq(Frames) /\ Enter(t, "fact", Calling(u))
    BY <1>0, <1>1 DEF GuestCall, MayCallOut, Running
  <2>2. callerInst' \in [Tasks -> Insts \cup {None}]
    BY <1>1, TaskAssumption DEF GuestCall, TypeOK
  <2> QED BY <1>1, <2>1, <2>2, EnterType DEF GuestCall, TypeOK, Entries
<1>2. ASSUME MayCancel(u, t)
      PROVE  Calling(u) \in Seq(Frames)
  BY <1>0, <1>2 DEF MayCancel, MayCallOut, Running
<1>3. CASE CancelAtGate(u, t)
  <2>1. Calling(u) \in Seq(Frames) /\ waiting' \in Seq(Tasks)
    BY <1>2, <1>3, QueueTypes DEF CancelAtGate
  <2>2. pc' \in [Tasks -> Places] /\ state' \in [Tasks -> States]
    BY <1>3 DEF CancelAtGate, TypeOK, Places, States
  <2>3. numWaitingToEnter' \in [Insts -> Int]
    <3>1. LeaveGate(InstOf[t]) \in [Insts -> Int]
      BY GateType, TaskAssumption
    <3> QED BY <1>3, <3>1 DEF CancelAtGate
  <2> QED BY <1>3, <2>1, <2>2, <2>3 DEF CancelAtGate, TypeOK
<1>4. CASE CancelAtLoop(u, t)
  <2>1. Calling(u) \in Seq(Frames) /\ waiting' \in Seq(Tasks)
    BY <1>2, <1>4, QueueTypes DEF CancelAtLoop
  <2>2. stack' \in Seq(Frames)
    BY <1>4, <2>1, FrameType, AppendProperties DEF CancelAtLoop, Entries
  <2>3. pc' \in [Tasks -> Places] /\ state' \in [Tasks -> States]
    BY <1>4 DEF CancelAtLoop, TypeOK, Places, States
  <2>4. exclusiveThread' \in [Insts -> Tasks \cup {None}]
    BY <1>4, TaskAssumption DEF CancelAtLoop, WithSlot, TypeOK
  <2>5. mayEnter' \in [Insts \cup {Root} -> BOOLEAN]
    BY <1>4, LockType DEF CancelAtLoop
  <2>6. fault' \in BOOLEAN
    BY <1>4, Zenon DEF CancelAtLoop
  <2> QED BY <1>4, <2>1, <2>2, <2>3, <2>4, <2>5, <2>6 DEF CancelAtLoop, TypeOK
<1>5. CASE CancelAtPoint(u, t)
  <2>1. Calling(u) \in Seq(Frames) /\ waiting' \in Seq(Tasks)
    BY <1>2, <1>5, QueueTypes DEF CancelAtPoint
  <2>2. pc' \in [Tasks -> Places] /\ state' \in [Tasks -> States]
    BY <1>5 DEF CancelAtPoint, TypeOK, Places, States
  <2>3. pendingResumptions' \subseteq Tasks
    BY <1>5 DEF CancelAtPoint, ConsumePending, TypeOK
  <2>4. fault' \in BOOLEAN
    BY <1>5, Zenon DEF CancelAtPoint, CannotEnter
  <2> QED BY <1>5, <2>1, <2>2, <2>3, <2>4 DEF CancelAtPoint, TypeOK
<1>6. CASE CancelRecorded(u, t)
  <2>1. Calling(u) \in Seq(Frames)
    BY <1>2, <1>6 DEF CancelRecorded
  <2>2. state' \in [Tasks -> States]
    BY <1>6 DEF CancelRecorded, TypeOK, States
  <2> QED BY <1>6, <2>1, <2>2 DEF CancelRecorded, TypeOK
<1> QED BY <1>1, <1>3, <1>4, <1>5, <1>6 DEF Cancel

\* the microtasks of the engine,
LEMMA TypeEngine ==
  ASSUME TypeOK, NEW t \in Tasks, Engine(t) \/ Signal(t)
  PROVE  TypeOK'
<1> USE DEF taskVars, raceVars, lockVars, gateVars, queueVars, jsVars
<1>1. CASE EngineResume(t)
  <2>1. Frame(t, "engine") \in Frames
    BY FrameType DEF Entries
  <2>2. stack' \in Seq(Frames) /\ pc' \in [Tasks -> Places]
    BY <1>1, <2>1 DEF EngineResume, TypeOK, Places
  <2> QED BY <1>1, <2>2 DEF EngineResume, TypeOK
<1>2. CASE Settle(t)
  <2>1. pc' \in [Tasks -> Places]
    BY <1>2 DEF Settle, TypeOK, Places
  <2>2. settled' \in Seq(Tasks) /\ pendingResumptions' \subseteq Tasks
    BY <1>2, AppendProperties DEF Settle, TypeOK
  <2> QED BY <1>2, <2>1, <2>2 DEF Settle, TypeOK
<1>3. CASE Signal(t)
  BY <1>3 DEF Signal, TypeOK
<1> QED BY <1>1, <1>2, <1>3 DEF Engine

\* the servicing of a settled tail,
LEMMA TypeService ==
  ASSUME TypeOK, NEW t \in Tasks, Service(t)
  PROVE  TypeOK'
<1> USE DEF taskVars, raceVars, lockVars, gateVars, queueVars, jsVars
<1>1. settled' \in Seq(Tasks) /\ ret' \in [Tasks -> Codes]
  BY QueueTypes DEF Service, ServiceRetired, ServiceReturn, ServiceToCancel, ServiceTrap
<1>2. CASE ServiceRetired(t)
  <2>1. pc' \in [Tasks -> Places]
    BY <1>2 DEF ServiceRetired, TypeOK, Places
  <2> QED BY <1>1, <1>2, <2>1 DEF ServiceRetired, TypeOK
<1>3. CASE ServiceReturn(t)
  <2>1. fault' \in BOOLEAN
    BY <1>3, Zenon DEF ServiceReturn, CannotEnter, SlotLost
  <2>2. ret[t] \in Codes
    BY DEF TypeOK
  <2>3. Finish(t) \/ Loop(t, ret[t])
    BY <1>3 DEF ServiceReturn
  <2> QED BY <1>1, <1>3, <2>1, <2>2, <2>3, TailType DEF ServiceReturn, TypeOK
<1>4. CASE ServiceToCancel(t)
  <2>1. stack' \in Seq(Frames)
    BY <1>4, FrameType, AppendProperties DEF ServiceToCancel, TypeOK, Entries
  <2>2. mayEnter' \in [Insts \cup {Root} -> BOOLEAN]
    BY <1>4, LockType DEF ServiceToCancel
  <2>3. fault' \in BOOLEAN
    BY <1>4, Zenon DEF ServiceToCancel, CannotEnter, SlotLost
  <2>4. CancelAtWait(t) /\ "exit" \in Codes
    BY <1>4 DEF ServiceToCancel, Codes
  <2> QED BY <1>1, <1>4, <2>1, <2>2, <2>3, <2>4, TailType DEF ServiceToCancel, TypeOK
<1>5. CASE ServiceTrap(t)
  <2>1. pc' \in [Tasks -> Places] /\ poisoned' \subseteq Insts
    <3>1. pc' \in [Tasks -> Places]
      BY <1>5 DEF ServiceTrap, Rechecking, TypeOK, Places
    <3>2. poisoned' \subseteq Insts
      <4>1. poisoned' = poisoned \cup {InstOf[t]} /\ InstOf[t] \in Insts
        BY <1>5, TaskAssumption DEF ServiceTrap
      <4> QED BY <4>1 DEF TypeOK
    <3> QED BY <3>1, <3>2
  <2>2. mayEnter' \in [Insts \cup {Root} -> BOOLEAN]
    BY <1>5, LockType DEF ServiceTrap, Broken
  <2>3. fault' \in BOOLEAN
    BY <1>5, Zenon DEF ServiceTrap, CannotEnter
  <2> QED BY <1>1, <1>5, <2>1, <2>2, <2>3 DEF ServiceTrap, TypeOK
<1> QED BY <1>2, <1>3, <1>4, <1>5 DEF Service

\* and the ticks of the driver.
LEMMA TypeTick ==
  ASSUME TypeOK, NEW t \in Tasks, Tick(t)
  PROVE  TypeOK'
<1> USE DEF taskVars, raceVars, lockVars, gateVars, queueVars, jsVars
<1>1. waiting' \in Seq(Tasks)
  BY QueueTypes DEF Tick, TickGate, TickLoop, TickPoint
<1>2. CASE TickGate(t)
  <2>1. numWaitingToEnter' \in [Insts -> Int]
    <3>1. LeaveGate(InstOf[t]) \in [Insts -> Int]
      BY GateType, TaskAssumption
    <3> QED BY <1>2, <3>1 DEF TickGate
  <2>2. Start(t, "host", stack) /\ stack \in Seq(Frames) /\ "host" \in Entries
    BY <1>2 DEF TickGate, TypeOK, Entries
  <2> QED BY <1>1, <1>2, <2>1, <2>2, StartType DEF TickGate, TypeOK
<1>3. CASE TickLoop(t)
  <2>1. stack' \in Seq(Frames)
    BY <1>3, FrameType, AppendProperties DEF TickLoop, TypeOK, Entries
  <2>2. pc' \in [Tasks -> Places] /\ event' \in [Tasks -> BOOLEAN]
    BY <1>3 DEF TickLoop, TypeOK, Places
  <2>3. exclusiveThread' \in [Insts -> Tasks \cup {None}]
    BY <1>3, TaskAssumption DEF TickLoop, WithSlot, TypeOK
  <2>4. mayEnter' \in [Insts \cup {Root} -> BOOLEAN]
    BY <1>3, LockType DEF TickLoop
  <2>5. fault' \in BOOLEAN
    BY <1>3, Zenon DEF TickLoop
  <2> QED BY <1>1, <1>3, <2>1, <2>2, <2>3, <2>4, <2>5 DEF TickLoop, TypeOK
<1>4. CASE TickPoint(t)
  <2>1. pc' \in [Tasks -> Places] /\ event' \in [Tasks -> BOOLEAN]
    BY <1>4 DEF TickPoint, TypeOK, Places
  <2>2. fault' \in BOOLEAN
    BY <1>4, Zenon DEF TickPoint, CannotEnter
  <2> QED BY <1>1, <1>4, <2>1, <2>2 DEF TickPoint, TypeOK
<1> QED BY <1>2, <1>3, <1>4 DEF Tick

\* A nested driver that yields only shortens the stack.
LEMMA TypeDriveYields ==
  ASSUME TypeOK, DriveYields
  PROVE  TypeOK'
<1>1. stack' \in Seq(Frames)
  BY TopAndBelow DEF DriveYields, TypeOK
<1> QED BY <1>1 DEF DriveYields, TypeOK, taskVars, raceVars, lockVars, gateVars, queueVars

\* A race of the promises begins or ends: its thread is entered, or no longer.
Races == \E d \in Loops : RaceEnds(d) \/ \E t \in Tasks : Race(d, t)

\* It touches nothing else.
LEMMA RacesStill ==
  ASSUME Races
  PROVE  UNCHANGED <<state, pc, ret, event, callerInst, raced, lockVars, gateVars, waiting, settled,
                     jsVars>>
BY DEF Races, Race, RaceEnds

\* What is entered is a task of the store.
LEMMA TypeRaces ==
  ASSUME TypeOK, Races
  PROVE  TypeOK'
<1>1. PICK d \in Loops : RaceEnds(d) \/ \E t \in Tasks : Race(d, t)
  BY DEF Races
<1>2. racing' \in [Loops -> Tasks \cup {None}] /\ pendingResumptions' \subseteq Tasks
  BY <1>1 DEF Race, RaceEnds, TypeOK
<1> QED BY <1>2, RacesStill DEF TypeOK, lockVars, gateVars, jsVars

\* A step of any actor keeps the types of all variables.
LEMMA TypeNext ==
  ASSUME TypeOK, [Next]_vars
  PROVE  TypeOK'
<1>1. CASE UNCHANGED vars
  BY <1>1 DEF vars, taskVars, raceVars, lockVars, gateVars, queueVars, jsVars, TypeOK
<1>2. ASSUME NEW t \in Tasks,
             \/ HostCall(t) \/ DeferHostCall(t) \/ HostGate(t)
             \/ GuestStep(t) \/ GuestReturn(t) \/ Trap(t)
             \/ Engine(t) \/ Service(t) \/ Tick(t) \/ Signal(t)
      PROVE  TypeOK'
  BY <1>2, TypeHost, TypeGuestStep, TypeGuestReturn, TypeEngine, TypeService, TypeTick
<1>3. ASSUME NEW u \in Tasks, NEW t \in Tasks, GuestCall(u, t) \/ Cancel(u, t)
      PROVE  TypeOK'
  BY <1>3, TypeGuestCall
<1>4. CASE DriveYields
  BY <1>4, TypeDriveYields
<1> QED BY <1>1, <1>2, <1>3, <1>4, TypeRaces DEF Next, Races

\* Every variable keeps its type, in every step of every actor: TypeOK is
\* inductive by itself.
THEOREM TypeCorrect == Spec => []TypeOK
<1>1. Init => TypeOK
  BY InitBegins, TypeInit
<1>2. TypeOK /\ [Next]_vars => TypeOK'
  BY TypeNext
<1> QED BY <1>1, <1>2, PTL DEF Spec

-----------------------------------------------------------------------------
(* The three ways a step treats the stack of segments.                       *)

\* The stacks a call is pushed on hold the segments there were.
LEMMA SegmentsBases ==
  ASSUME TypeOK, Segments(stack)
  PROVE  /\ Segments(<<>>)
         /\ Segments(HostBase)
         /\ stack # <<>> => \A u \in Tasks : Segments(Calling(u))
<1>1. Segments(<<>>)
  BY DEF Segments
<1>2. Segments(HostBase)
  <2>1. CASE stack = <<>>
    BY <1>1, <2>1 DEF HostBase
  <2>2. CASE stack # <<>>
    <3>1. Frame(None, "drive") \in Frames /\ Frame(None, "drive").task = None
      BY FrameType DEF Entries, Frame
    <3>2. PICK n \in Nat : Len(stack) = n /\ DOMAIN stack = 1..n
      BY LenProperties DEF TypeOK
    <3>3. /\ HostBase \in Seq(Frames) /\ Len(HostBase) = n + 1
          /\ \A k \in 1..n : HostBase[k] = stack[k]
          /\ HostBase[n + 1].task = None
      BY <2>2, <3>1, <3>2, AppendProperties DEF HostBase, TypeOK
    <3>4. DOMAIN HostBase = 1..(n + 1)
      BY <3>3, LenProperties
    <3>5. \A k \in DOMAIN HostBase : HostBase[k].task # None =>
            k \in DOMAIN stack /\ HostBase[k] = stack[k]
      BY <3>2, <3>3, <3>4
    <3> QED BY <3>5 DEF Segments
  <2> QED BY <2>1, <2>2
<1>3. ASSUME stack # <<>>, NEW u \in Tasks
      PROVE  Segments(Calling(u))
  <2> DEFINE f == [Top EXCEPT !.susp = MaySuspend(u)]
  <2>1. PICK n \in Nat : Len(stack) = n + 1 /\ Len(Below) = n /\ DOMAIN stack = 1..(n + 1)
    BY <1>3, TopAndBelow, LenProperties DEF TypeOK
  <2>2. /\ Below \in Seq(Frames) /\ Top = stack[n + 1]
        /\ \A k \in 1..n : Below[k] = stack[k]
    BY <1>3, <2>1, TopAndBelow DEF TypeOK, Top
  <2>3. f \in Frames /\ f.task = Top.task
    <3>1. Top \in Frames /\ MaySuspend(u) \in BOOLEAN
      BY <1>3, TopAndBelow DEF TypeOK, MaySuspend
    <3> QED BY <3>1 DEF Frames
  <2>4. Calling(u) = Append(Below, f)
    BY DEF Calling
  <2> HIDE DEF f
  <2>5. /\ Calling(u) \in Seq(Frames) /\ Len(Calling(u)) = n + 1
        /\ \A k \in 1..n : Calling(u)[k] = stack[k]
        /\ Calling(u)[n + 1] = f
    BY <2>1, <2>2, <2>3, <2>4, AppendProperties
  <2>6. DOMAIN Calling(u) = DOMAIN stack
    BY <2>1, <2>5, LenProperties
  <2>7. \A k \in DOMAIN stack : Calling(u)[k].task = stack[k].task
    BY <2>1, <2>2, <2>3, <2>5
  <2> QED BY <2>6, <2>7 DEF Segments
<1> QED BY <1>1, <1>2, <1>3

\* A segment belongs to a task, a nested driver to none.
LEMMA FrameTask ==
  ASSUME NEW s \in Seq(Frames), NEW k \in DOMAIN s
  PROVE  s[k].task \in Tasks \cup {None}
<1>1. s[k] \in Frames
  BY ElementOfSeq, LenProperties
<1> QED BY <1>1 DEF Frames

\* A step that leaves such a stack and takes no task from "guest".
LEMMA SegmentsKept ==
  ASSUME NEW s \in Seq(Frames), Segments(s), stack' = s,
         \A u \in Tasks : pc[u] = "guest" => pc'[u] = "guest"
  PROVE  Segments(stack)'
<1>1. \A k \in DOMAIN s : s[k].task \in Tasks \cup {None}
  BY FrameTask
<1> QED BY <1>1 DEF Segments

\* A step that pushes a segment of a task that had none.
LEMMA SegmentsPushed ==
  ASSUME TypeOK, NEW s \in Seq(Frames), Segments(s),
         NEW t \in Tasks, NEW e \in Entries, pc[t] # "guest",
         stack' = Append(s, Frame(t, e)), pc' = [pc EXCEPT ![t] = "guest"]
  PROVE  Segments(stack)'
<1>1. PICK n \in Nat : Len(s) = n /\ DOMAIN s = 1..n
  BY LenProperties
<1>2. Frame(t, e) \in Frames /\ Frame(t, e).task = t
  BY FrameType DEF Frame
<1>3. /\ stack' \in Seq(Frames) /\ Len(stack') = n + 1
      /\ \A k \in 1..n : stack'[k] = s[k]
      /\ stack'[n + 1].task = t
  BY <1>1, <1>2, AppendProperties
<1>4. DOMAIN stack' = 1..(n + 1)
  BY <1>3, LenProperties
<1>5. \A k \in 1..n : s[k].task # None => pc[s[k].task] = "guest" /\ s[k].task # t
  BY <1>1 DEF Segments
<1>6. \A u \in Tasks : pc'[u] = IF u = t THEN "guest" ELSE pc[u]
  BY DEF TypeOK
<1>7. \A k \in 1..n : s[k].task \in Tasks \cup {None}
  BY <1>1, FrameTask
<1>8. \A k \in 1..(n + 1) : stack'[k].task # None => pc'[stack'[k].task] = "guest"
  BY <1>3, <1>5, <1>6, <1>7
<1>9. \A j, k \in 1..(n + 1) :
        stack'[k].task # None /\ stack'[j].task = stack'[k].task => j = k
  <2>1. \A j, k \in 1..n : s[k].task # None /\ s[j].task = s[k].task => j = k
    BY <1>1 DEF Segments
  <2> QED BY <1>3, <1>5, <2>1, TaskAssumption
<1> QED BY <1>4, <1>8, <1>9 DEF Segments

\* A step that ends the top segment.
LEMMA SegmentsPopped ==
  ASSUME TypeOK, Segments(stack), stack # <<>>,
         NEW s \in Seq(Frames), Len(s) <= Len(stack) - 1,
         \A k \in 1..Len(s) : s[k] = stack[k],
         stack' = s,
         \A u \in Tasks : pc[u] = "guest" /\ u # Top.task => pc'[u] = "guest"
  PROVE  Segments(stack)'
<1>1. PICK n \in Nat : Len(stack) = n + 1 /\ DOMAIN stack = 1..(n + 1)
  BY TopAndBelow, LenProperties DEF TypeOK
<1>2. PICK m \in Nat : Len(s) = m /\ DOMAIN s = 1..m /\ m <= n
  BY <1>1, LenProperties
<1>3. \A k \in DOMAIN s : k \in DOMAIN stack /\ k # n + 1 /\ s[k] = stack[k]
  BY <1>1, <1>2
<1>4. \A k \in DOMAIN s : s[k].task # None => s[k].task # Top.task
  <2>1. n + 1 \in DOMAIN stack /\ Top = stack[n + 1]
    BY <1>1 DEF Top
  <2> QED BY <1>3, <2>1 DEF Segments
<1>5. \A k \in DOMAIN s : s[k].task \in Tasks \cup {None}
  BY FrameTask
<1>6. \A k \in DOMAIN s : s[k].task # None => pc'[s[k].task] = "guest"
  BY <1>3, <1>4, <1>5 DEF Segments
<1>7. \A j, k \in DOMAIN s : s[k].task # None /\ s[j].task = s[k].task => j = k
  BY <1>3 DEF Segments
<1> QED BY <1>6, <1>7 DEF Segments

-----------------------------------------------------------------------------
(* The ways a step treats the settled tails and the exclusive slot.          *)

\* A step that takes nothing from the settled queue and moves no tail.
LEMMA TailsKept ==
  ASSUME TypeOK, SettledTails, settled' = settled,
         \A u \in Tasks : pc[u] = "tail" => pc'[u] = "tail"
  PROVE  SettledTails'
<1>1. \A k \in DOMAIN settled : settled[k] \in Tasks
  BY ElementOfSeq, LenProperties DEF TypeOK
<1> QED BY <1>1 DEF SettledTails

\* A serviced tail was still to run, and no second copy of it is left.
LEMMA TailsTaken ==
  ASSUME TypeOK, SettledTails, NEW t \in Tasks, TakeSettled(t),
         \A u \in Tasks : u # t /\ pc[u] = "tail" => pc'[u] = "tail"
  PROVE  SettledTails' /\ pc[t] = "tail"
<1>1. PICK k \in DOMAIN settled : settled[k] = t /\ settled' = RemoveAt(settled, k)
  BY DEF TakeSettled
<1>2. PICK n \in Nat : Len(settled) = n /\ DOMAIN settled = 1..n
  BY LenProperties DEF TypeOK
<1> DEFINE old(j) == IF j < k THEN j ELSE j + 1
<1>3. /\ DOMAIN settled' = 1..(n - 1)
      /\ \A j \in 1..(n - 1) : settled'[j] = settled[old(j)]
  BY <1>1, <1>2, RemoveAtProperties DEF TypeOK
<1>4. \A j \in 1..(n - 1) : old(j) \in 1..n /\ old(j) # k
  BY <1>1, <1>2
<1>5. \A i, j \in 1..(n - 1) : old(i) = old(j) => i = j
  BY <1>1, <1>2
<1> HIDE DEF old
<1>6. \A j \in 1..(n - 1) : settled[old(j)] \in Tasks /\ settled[old(j)] # t
  BY <1>1, <1>2, <1>4, ElementOfSeq DEF SettledTails, TypeOK
<1>7. \A j \in DOMAIN settled' : pc'[settled'[j]] = "tail"
  BY <1>2, <1>3, <1>4, <1>6 DEF SettledTails
<1>8. \A i, j \in DOMAIN settled' : settled'[i] = settled'[j] => i = j
  BY <1>2, <1>3, <1>4, <1>5 DEF SettledTails
<1>9. pc[t] = "tail"
  BY <1>1 DEF SettledTails
<1> QED BY <1>7, <1>8, <1>9 DEF SettledTails

\* A task moves without entering a core invocation or leaving one alive.
LEMMA SlotKept ==
  ASSUME TypeOK, ExclusiveSlot, exclusiveThread' = exclusiveThread,
         \A u \in Tasks : \/ pc'[u] = pc[u]
                          \/ pc'[u] = "dead"
                          \/ pc[u] \in MidInvocation /\ pc'[u] \in MidInvocation
                          \/ pc[u] \notin MidInvocation \cup {"dead"} /\ pc'[u] \notin MidInvocation
  PROVE  ExclusiveSlot'
<1>1. "dead" \notin MidInvocation
  BY DEF MidInvocation
<1>2. \A i \in Insts : exclusiveThread[i] \in Tasks \cup {None}
  BY DEF TypeOK
<1>3. ASSUME NEW u \in Tasks, NeedsExclusive(u), pc'[u] \in MidInvocation
      PROVE  exclusiveThread'[InstOf[u]] = u
  BY <1>1, <1>3 DEF ExclusiveSlot
<1>4. ASSUME NEW i \in Insts, exclusiveThread'[i] # None
      PROVE  /\ InstOf[exclusiveThread'[i]] = i /\ NeedsExclusive(exclusiveThread'[i])
             /\ pc'[exclusiveThread'[i]] \in MidInvocation \cup {"dead"}
  BY <1>1, <1>2, <1>4 DEF ExclusiveSlot
<1> QED BY <1>3, <1>4 DEF ExclusiveSlot, NeedsExclusive

\* A core invocation begins; if it needs the slot, the slot was free.
LEMMA SlotTaken ==
  ASSUME TypeOK, ExclusiveSlot, NEW t \in Tasks,
         NeedsExclusive(t) => exclusiveThread[InstOf[t]] = None,
         pc' = [pc EXCEPT ![t] = "guest"],
         exclusiveThread' = WithSlot(t, t)
  PROVE  ExclusiveSlot'
<1>1. \A u \in Tasks : pc'[u] = IF u = t THEN "guest" ELSE pc[u]
  BY DEF TypeOK
<1>2. \A i \in Insts :
        exclusiveThread'[i] = IF NeedsExclusive(t) /\ i = InstOf[t] THEN t ELSE exclusiveThread[i]
  BY DEF WithSlot, TypeOK
<1>3. \A i \in Insts : exclusiveThread[i] \in Tasks \cup {None}
  BY DEF TypeOK
<1>4. "guest" \in MidInvocation
  BY DEF MidInvocation
<1>5. ASSUME NEW u \in Tasks, NeedsExclusive(u), pc'[u] \in MidInvocation
      PROVE  exclusiveThread'[InstOf[u]] = u
  <2>1. InstOf[u] \in Insts /\ InstOf[t] \in Insts
    BY TaskAssumption
  <2>2. CASE u = t
    BY <1>2, <1>5, <2>1, <2>2
  <2>3. CASE u # t
    <3>1. exclusiveThread[InstOf[u]] = u
      BY <1>1, <1>5, <2>3 DEF ExclusiveSlot
    <3> QED BY <1>2, <2>1, <3>1, TaskAssumption
  <2> QED BY <2>2, <2>3
<1>6. ASSUME NEW i \in Insts, exclusiveThread'[i] # None
      PROVE  /\ InstOf[exclusiveThread'[i]] = i /\ NeedsExclusive(exclusiveThread'[i])
             /\ pc'[exclusiveThread'[i]] \in MidInvocation \cup {"dead"}
  BY <1>1, <1>2, <1>3, <1>4, <1>6 DEF ExclusiveSlot
<1> QED BY <1>5, <1>6 DEF ExclusiveSlot, NeedsExclusive

\* A core invocation ends, and the slot is given back if it was taken.
LEMMA SlotGiven ==
  ASSUME TypeOK, ExclusiveSlot, NEW t \in Tasks, NEW p,
         pc[t] \in MidInvocation, p \notin MidInvocation,
         pc' = [pc EXCEPT ![t] = p],
         exclusiveThread' = WithSlot(t, None)
  PROVE  ExclusiveSlot'
<1>1. \A u \in Tasks : pc'[u] = IF u = t THEN p ELSE pc[u]
  BY DEF TypeOK
<1>2. \A i \in Insts :
        exclusiveThread'[i] =
          IF NeedsExclusive(t) /\ i = InstOf[t] THEN None ELSE exclusiveThread[i]
  BY DEF WithSlot, TypeOK
<1>3. \A i \in Insts : exclusiveThread[i] \in Tasks \cup {None}
  BY DEF TypeOK
<1>4. NeedsExclusive(t) => exclusiveThread[InstOf[t]] = t
  BY DEF ExclusiveSlot
<1>5. ASSUME NEW u \in Tasks, NeedsExclusive(u), pc'[u] \in MidInvocation
      PROVE  exclusiveThread'[InstOf[u]] = u
  <2>1. u # t /\ exclusiveThread[InstOf[u]] = u /\ InstOf[u] \in Insts
    BY <1>1, <1>5, TaskAssumption DEF ExclusiveSlot
  <2> QED BY <1>2, <1>4, <2>1
<1>6. ASSUME NEW i \in Insts, exclusiveThread'[i] # None
      PROVE  /\ InstOf[exclusiveThread'[i]] = i /\ NeedsExclusive(exclusiveThread'[i])
             /\ pc'[exclusiveThread'[i]] \in MidInvocation \cup {"dead"}
  BY <1>1, <1>2, <1>3, <1>4, <1>6 DEF ExclusiveSlot
<1> QED BY <1>5, <1>6 DEF ExclusiveSlot, NeedsExclusive

-----------------------------------------------------------------------------
(* SlotInv is preserved by each actor's steps.                               *)

SlotSafe == Segments(stack) /\ SettledTails /\ ExclusiveSlot

\* Only a slot-needing lift can be kept out by the slot, and then it is async.
LEMMA GateFreesSlot ==
  ASSUME NEW t \in Tasks, NeedsExclusive(t), ~HasBackpressure(t) \/ ~GateClosed(t)
  PROVE  exclusiveThread[InstOf[t]] = None
BY DEF NeedsExclusive, IsAsync, HasBackpressure, GateClosed

\* A new call, from the embedder or from a guest: at the gate or inside.
LEMMA SafeEnter ==
  ASSUME SlotInv, NEW t \in Tasks, NEW entry \in Entries, NEW s \in Seq(Frames),
         Segments(s), Enter(t, entry, s), settled' = settled,
         pc[t] \in {"none", "admitted"}
  PROVE  SlotSafe'
<1> USE DEF SlotInv
<1>1. CASE GateClosed(t) /\ pc' = [pc EXCEPT ![t] = "gate"] /\ stack' = s
           /\ exclusiveThread' = exclusiveThread
  <2>1. \A u \in Tasks : pc'[u] = IF u = t THEN "gate" ELSE pc[u]
    BY <1>1 DEF TypeOK
  <2>2. Segments(stack)'
    BY <1>1, <2>1, SegmentsKept
  <2>3. SettledTails'
    BY <2>1, TailsKept
  <2>4. ExclusiveSlot'
    BY <1>1, <2>1, SlotKept DEF MidInvocation
  <2> QED BY <2>2, <2>3, <2>4 DEF SlotSafe
<1>2. CASE ~GateClosed(t) /\ Start(t, entry, s)
  <2>1. /\ pc' = [pc EXCEPT ![t] = "guest"]
        /\ exclusiveThread' = WithSlot(t, t)
        /\ stack' = Append(s, Frame(t, entry))
    BY <1>2 DEF Start
  <2>2. Segments(stack)'
    BY <2>1, SegmentsPushed
  <2>3. \A u \in Tasks : pc'[u] = IF u = t THEN "guest" ELSE pc[u]
    BY <2>1 DEF TypeOK
  <2>4. SettledTails'
    BY <2>3, TailsKept
  <2>5. ExclusiveSlot'
    BY <1>2, <2>1, GateFreesSlot, SlotTaken
  <2> QED BY <2>2, <2>4, <2>5 DEF SlotSafe
<1> QED BY <1>1, <1>2 DEF Enter

\* A task moves between two places outside its core invocations, the stack
\* as it was or with the caller's import marked.
LEMMA SafeMove ==
  ASSUME SlotInv, NEW t \in Tasks, NEW p, NEW s \in Seq(Frames), Segments(s),
         stack' = s, settled' = settled, exclusiveThread' = exclusiveThread,
         pc' = [pc EXCEPT ![t] = p],
         pc[t] \notin MidInvocation \cup {"dead"}, p \notin MidInvocation
  PROVE  SlotSafe'
<1> USE DEF SlotInv
<1>1. \A u \in Tasks : pc'[u] = IF u = t THEN p ELSE pc[u]
  BY DEF TypeOK
<1>2. pc[t] # "guest" /\ pc[t] # "tail"
  BY DEF MidInvocation
<1>3. Segments(stack)'
  BY <1>1, <1>2, SegmentsKept
<1>4. SettledTails'
  BY <1>1, <1>2, TailsKept
<1>5. ExclusiveSlot'
  BY <1>1, SlotKept
<1> QED BY <1>3, <1>4, <1>5 DEF SlotSafe

\* The task of the top segment ends it, still inside its invocation, or dies.
LEMMA SafeSuspend ==
  ASSUME SlotInv, stack # <<>>, Top.task \in Tasks, NEW p,
         p \in MidInvocation \cup {"dead"},
         pc' = [pc EXCEPT ![Top.task] = p],
         NEW s \in Seq(Frames), stack' = s, Len(s) <= Len(stack) - 1,
         \A k \in 1..Len(s) : s[k] = stack[k],
         settled' = settled, exclusiveThread' = exclusiveThread
  PROVE  SlotSafe'
<1> USE DEF SlotInv
<1>1. pc[Top.task] = "guest"
  <2>1. Len(stack) \in DOMAIN stack /\ Top = stack[Len(stack)]
    BY TopAndBelow, LenProperties DEF TypeOK, Top
  <2> QED BY <2>1, TaskAssumption DEF Segments
<1>2. \A u \in Tasks : pc'[u] = IF u = Top.task THEN p ELSE pc[u]
  BY DEF TypeOK
<1>3. Segments(stack)'
  BY <1>2, SegmentsPopped
<1>4. SettledTails'
  BY <1>1, <1>2, TailsKept
<1>5. ExclusiveSlot'
  BY <1>1, <1>2, SlotKept DEF MidInvocation
<1> QED BY <1>3, <1>4, <1>5 DEF SlotSafe

\* Host calls and the hop gate keep the slot safe.
LEMMA SafeHost ==
  ASSUME SlotInv, NEW t \in Tasks, HostCall(t) \/ DeferHostCall(t) \/ HostGate(t)
  PROVE  SlotSafe'
<1> USE DEF SlotInv, taskVars, raceVars, lockVars, gateVars, queueVars, jsVars
<1>1. Segments(<<>>) /\ Segments(HostBase) /\ HostBase \in Seq(Frames) /\ <<>> \in Seq(Frames)
      /\ stack \in Seq(Frames)
  BY SegmentsBases, HostBaseType, EmptySeq DEF TypeOK
<1>2. CASE HostCall(t)
  <2>1. Enter(t, "host", HostBase) /\ settled' = settled /\ pc[t] = "none" /\ "host" \in Entries
    BY <1>2 DEF HostCall, Entries
  <2> QED BY <1>1, <2>1, SafeEnter
<1>3. CASE DeferHostCall(t)
  <2>1. /\ pc' = [pc EXCEPT ![t] = RaceHops(t)] /\ pc[t] = "none" /\ stack' = stack
        /\ settled' = settled /\ exclusiveThread' = exclusiveThread
    BY <1>3 DEF DeferHostCall
  <2>2. RaceHops(t) \notin MidInvocation /\ pc[t] \notin MidInvocation \cup {"dead"}
    BY <2>1 DEF RaceHops, MidInvocation
  <2> QED BY <1>1, <2>1, <2>2, SafeMove
<1>4. CASE RecheckHops(t)
  <2> DEFINE p == IF HopThreads(InstOf[t]) = {} THEN "admitted" ELSE RaceHops(t)
  <2>1. /\ pc' = [pc EXCEPT ![t] = p] /\ pc[t] = "woken" /\ stack' = stack
        /\ settled' = settled /\ exclusiveThread' = exclusiveThread
    BY <1>4 DEF RecheckHops
  <2>2. p \notin MidInvocation /\ pc[t] \notin MidInvocation \cup {"dead"}
    BY <2>1 DEF RaceHops, MidInvocation
  <2> HIDE DEF p
  <2> QED BY <1>1, <2>1, <2>2, SafeMove
<1>5. CASE AdmittedCall(t)
  <2>1. CASE Enter(t, "host", <<>>) /\ settled' = settled
    <3>1. pc[t] = "admitted" /\ "host" \in Entries
      BY <1>5 DEF AdmittedCall, Entries
    <3> QED BY <1>1, <2>1, <3>1, SafeEnter
  <2>2. CASE /\ pc' = [pc EXCEPT ![t] = "refused"]
             /\ UNCHANGED <<lockVars, gateVars, queueVars, jsVars>>
    <3>1. pc[t] \notin MidInvocation \cup {"dead"} /\ "refused" \notin MidInvocation
      BY <1>5 DEF AdmittedCall, MidInvocation
    <3> QED BY <1>1, <2>2, <3>1, SafeMove
  <2> QED BY <1>5, <2>1, <2>2 DEF AdmittedCall
<1> QED BY <1>2, <1>3, <1>4, <1>5 DEF HostGate

\* A step that moves no task and takes no slot.
LEMMA SafeStill ==
  ASSUME SlotInv, pc' = pc, settled' = settled, exclusiveThread' = exclusiveThread,
         NEW s \in Seq(Frames), Segments(s), stack' = s
  PROVE  SlotSafe'
<1> USE DEF SlotInv
<1>1. Segments(stack)'
  BY SegmentsKept
<1>2. SettledTails' /\ ExclusiveSlot'
  BY TailsKept, SlotKept
<1> QED BY <1>1, <1>2 DEF SlotSafe

\* The segment below the top one, after an EndSegment.
LEMMA SafeEndSegment ==
  ASSUME SlotInv, stack # <<>>, NEW t \in Tasks, Top.task = t, NEW p,
         p \in MidInvocation \cup {"dead"}, pc' = [pc EXCEPT ![t] = p],
         stack' = Below, settled' = settled, exclusiveThread' = exclusiveThread
  PROVE  SlotSafe'
<1>1. /\ Below \in Seq(Frames) /\ Len(Below) <= Len(stack) - 1
      /\ \A k \in 1..Len(Below) : Below[k] = stack[k]
  BY TopAndBelow DEF SlotInv, TypeOK
<1> QED BY <1>1, SafeSuspend

\* Running guest code suspends or moves within its own invocation.
LEMMA SafeGuestStep ==
  ASSUME SlotInv, NEW t \in Tasks, GuestStep(t)
  PROVE  SlotSafe'
<1> USE DEF taskVars, raceVars, lockVars, gateVars, queueVars, jsVars
<1>0. stack \in Seq(Frames) /\ Segments(stack)
  BY DEF SlotInv, TypeOK
<1>1. CASE GuestTaskReturn(t) \/ GuestTaskCancel(t) \/ GuestBackpressure(t)
  BY <1>0, <1>1, SafeStill DEF GuestTaskReturn, GuestTaskCancel, GuestBackpressure
<1>2. CASE GuestHops(t)
  BY <1>2, SafeEndSegment DEF GuestHops, TopOf, EndSegment, MidInvocation
<1>3. CASE GuestMeetsCancel(t)
  BY <1>3, SafeEndSegment DEF GuestMeetsCancel, Running, EndSegment, MidInvocation
<1>4. CASE GuestBlocks(t)
  <2>1. PICK cancellable \in BOOLEAN :
          pc' = [pc EXCEPT ![t] = IF cancellable THEN "spc" ELSE "sp"]
    BY <1>4 DEF GuestBlocks
  <2>2. (IF cancellable THEN "spc" ELSE "sp") \in MidInvocation
    BY DEF MidInvocation
  <2>3. /\ stack # <<>> /\ Top.task = t /\ stack' = Below
        /\ settled' = settled /\ exclusiveThread' = exclusiveThread
    BY <1>4 DEF GuestBlocks, TopOf, EndSegment
  <2> QED BY <2>1, <2>2, <2>3, SafeEndSegment
<1> QED BY <1>1, <1>2, <1>3, <1>4 DEF GuestStep

\* Finish and Loop give the slot up, from the task's own segment or tail.
LEMMA SlotAfterTail ==
  ASSUME SlotInv, NEW t \in Tasks, NEW c, pc[t] \in {"guest", "tail"},
         Finish(t) \/ Loop(t, c)
  PROVE  /\ ExclusiveSlot'
         /\ \A u \in Tasks : u # t => pc'[u] = pc[u]
<1>1. PICK p \in {"done", "loop"} :
        pc' = [pc EXCEPT ![t] = p] /\ exclusiveThread' = WithSlot(t, None)
  BY DEF Finish, Loop
<1>2. pc[t] \in MidInvocation /\ p \notin MidInvocation
  BY DEF MidInvocation
<1> QED BY <1>1, <1>2, SlotGiven DEF SlotInv, TypeOK

\* A core invocation returns or traps: it gives its own slot up, or dies with it.
LEMMA SafeGuestReturn ==
  ASSUME SlotInv, NEW t \in Tasks, GuestReturn(t) \/ Trap(t)
  PROVE  SlotSafe'
<1> USE DEF taskVars, raceVars, lockVars, gateVars, queueVars, jsVars
<1>0. stack \in Seq(Frames) /\ Segments(stack)
  BY DEF SlotInv, TypeOK
<1>1. ASSUME NEW c \in Codes, ReturnHops(t, c)
      PROVE  SlotSafe'
  BY <1>1, SafeEndSegment DEF ReturnHops, Running, EndSegment, MidInvocation
<1>2. ASSUME NEW c \in Codes, ReturnPlain(t, c)
      PROVE  SlotSafe'
  <2>1. /\ stack # <<>> /\ Top.task = t /\ pc[t] = "guest" /\ stack' = Below
        /\ settled' = settled /\ (Finish(t) \/ Loop(t, c))
    BY <1>2 DEF ReturnPlain, Running
  <2>2. ExclusiveSlot' /\ \A u \in Tasks : u # t => pc'[u] = pc[u]
    BY <2>1, SlotAfterTail
  <2>3. /\ Below \in Seq(Frames) /\ Len(Below) <= Len(stack) - 1
        /\ \A k \in 1..Len(Below) : Below[k] = stack[k]
    BY <1>0, <2>1, TopAndBelow
  <2>4. Segments(stack)'
    BY <2>1, <2>2, <2>3, SegmentsPopped DEF SlotInv
  <2>5. SettledTails'
    BY <2>1, <2>2, TailsKept DEF SlotInv
  <2> QED BY <2>2, <2>4, <2>5 DEF SlotSafe
<1>3. ASSUME NEW c \in Codes, ReturnToCancel(t, c)
      PROVE  SlotSafe'
  <2>1. pc' = [pc EXCEPT ![t] = "guest"] /\ pc[t] = "guest"
    BY <1>3 DEF ReturnToCancel, CancelAtWait, Running
  <2>2. pc' = pc
    BY <2>1 DEF SlotInv, TypeOK
  <2>3. stack' = stack /\ settled' = settled /\ exclusiveThread' = exclusiveThread
    BY <1>3 DEF ReturnToCancel, CancelAtWait
  <2> QED BY <1>0, <2>2, <2>3, SafeStill
<1>4. CASE TrapHops(t)
  BY <1>4, SafeEndSegment DEF TrapHops, TopIsGuest, EndSegment, MidInvocation
<1>5. CASE TrapPoisons(t)
  <2>1. /\ stack # <<>> /\ Top.task = t /\ stack' = PopEntry
        /\ pc' = [pc EXCEPT ![t] = "dead"]
        /\ settled' = settled /\ exclusiveThread' = exclusiveThread
    BY <1>5 DEF TrapPoisons, TopIsGuest
  <2> QED BY <1>0, <2>1, PopEntryProperties, SafeSuspend
<1> QED BY <1>1, <1>2, <1>3, <1>4, <1>5 DEF GuestReturn, Trap

\* A guest's calls and cancellations start an invocation only with a free slot.
LEMMA SafeGuestCall ==
  ASSUME SlotInv, NEW u \in Tasks, NEW t \in Tasks, GuestCall(u, t) \/ Cancel(u, t)
  PROVE  SlotSafe'
<1> USE DEF taskVars, raceVars, lockVars, gateVars, queueVars, jsVars
<1>0. stack # <<>> => Calling(u) \in Seq(Frames) /\ Segments(Calling(u))
  BY CallingType, SegmentsBases DEF SlotInv, TypeOK
<1>1. CASE GuestCall(u, t)
  <2>1. /\ stack # <<>> /\ pc[t] = "none" /\ settled' = settled
        /\ Enter(t, "fact", Calling(u)) /\ "fact" \in Entries
    BY <1>1 DEF GuestCall, MayCallOut, Running, Entries
  <2> QED BY <1>0, <2>1, SafeEnter
<1>2. MayCancel(u, t) => stack # <<>>
  BY DEF MayCancel, MayCallOut, Running
<1>3. CASE CancelAtGate(u, t)
  <2>1. pc[t] \notin MidInvocation \cup {"dead"} /\ "done" \notin MidInvocation
    BY <1>3 DEF CancelAtGate, MidInvocation
  <2> QED BY <1>0, <1>2, <1>3, <2>1, SafeMove DEF CancelAtGate
<1>4. CASE CancelAtLoop(u, t)
  <2>1. /\ pc' = [pc EXCEPT ![t] = "guest"] /\ pc[t] = "loop" /\ stack # <<>>
        /\ exclusiveThread' = WithSlot(t, t) /\ settled' = settled
        /\ stack' = Append(Calling(u), Frame(t, "cancel"))
    BY <1>2, <1>4 DEF CancelAtLoop
  <2>2. \A v \in Tasks : v # t => pc'[v] = pc[v]
    BY <2>1 DEF SlotInv, TypeOK
  <2>3. Segments(stack)'
    BY <1>0, <2>1, SegmentsPushed DEF SlotInv, Entries
  <2>4. SettledTails'
    BY <2>1, <2>2, TailsKept DEF SlotInv
  <2>5. NeedsExclusive(t) => exclusiveThread[InstOf[t]] = None
    <3>1. NeedsExclusive(t) => exclusiveThread[InstOf[t]] \in {None, t}
      BY <1>4 DEF CancelAtLoop, Deliverable, SlotElsewhere
    <3>2. pc[t] \notin MidInvocation \cup {"dead"} /\ InstOf[t] \in Insts
      BY <2>1, TaskAssumption DEF MidInvocation
    <3> QED BY <3>1, <3>2, TaskAssumption DEF SlotInv, ExclusiveSlot
  <2>6. ExclusiveSlot'
    BY <2>1, <2>5, SlotTaken DEF SlotInv
  <2> QED BY <2>3, <2>4, <2>6 DEF SlotSafe
<1>5. CASE CancelAtPoint(u, t)
  <2>1. /\ pc' = [pc EXCEPT ![t] = "resumed"] /\ pc[t] = "spc" /\ stack # <<>>
        /\ exclusiveThread' = exclusiveThread /\ settled' = settled
        /\ stack' = Calling(u)
    BY <1>2, <1>5 DEF CancelAtPoint
  <2>2. \A v \in Tasks : pc'[v] = IF v = t THEN "resumed" ELSE pc[v]
    BY <2>1 DEF SlotInv, TypeOK
  <2>3. Segments(stack)'
    BY <1>0, <2>1, <2>2, SegmentsKept
  <2>4. SettledTails'
    BY <2>1, <2>2, TailsKept DEF SlotInv
  <2>5. ExclusiveSlot'
    BY <2>1, <2>2, SlotKept DEF SlotInv, MidInvocation
  <2> QED BY <2>3, <2>4, <2>5 DEF SlotSafe
<1>6. CASE CancelRecorded(u, t)
  BY <1>0, <1>2, <1>6, SafeStill DEF CancelRecorded
<1> QED BY <1>1, <1>3, <1>4, <1>5, <1>6 DEF Cancel

\* The engine's microtasks leave the slot where it is.
LEMMA SafeEngine ==
  ASSUME SlotInv, NEW t \in Tasks, Engine(t) \/ Signal(t)
  PROVE  SlotSafe'
<1> USE DEF taskVars, raceVars, lockVars, gateVars, queueVars, jsVars
<1>0. stack \in Seq(Frames) /\ Segments(stack) /\ Segments(<<>>) /\ <<>> \in Seq(Frames)
  BY SegmentsBases, EmptySeq DEF SlotInv, TypeOK
<1>1. CASE EngineResume(t)
  <2>1. /\ pc' = [pc EXCEPT ![t] = "guest"] /\ pc[t] = "resumed"
        /\ stack' = <<Frame(t, "engine")>>
        /\ exclusiveThread' = exclusiveThread /\ settled' = settled
    BY <1>1 DEF EngineResume
  <2>2. \A v \in Tasks : pc'[v] = IF v = t THEN "guest" ELSE pc[v]
    BY <2>1 DEF SlotInv, TypeOK
  <2>3. Segments(stack)'
    <3>1. <<Frame(t, "engine")>> = Append(<<>>, Frame(t, "engine"))
      OBVIOUS
    <3> QED BY <1>0, <2>1, <3>1, SegmentsPushed DEF SlotInv, Entries
  <2>4. SettledTails'
    BY <2>1, <2>2, TailsKept DEF SlotInv
  <2>5. ExclusiveSlot'
    BY <2>1, <2>2, SlotKept DEF SlotInv, MidInvocation
  <2> QED BY <2>3, <2>4, <2>5 DEF SlotSafe
<1>2. CASE Settle(t)
  <2>1. /\ pc[t] = "hop" /\ pc'[t] = "tail"
        /\ \A u \in Tasks : u # t => \/ pc'[u] = pc[u]
                                     \/ pc[u] = "deferred" /\ pc'[u] = "woken"
        /\ settled' = Append(settled, t) /\ exclusiveThread' = exclusiveThread
        /\ stack' = stack
    BY <1>2 DEF Settle, TypeOK, SlotInv
  <2>2. Segments(stack)'
    BY <1>0, <2>1, SegmentsKept
  <2>3. SettledTails'
    <3>0. settled \in Seq(Tasks) /\ settled' = Append(settled, t)
      BY <2>1 DEF SlotInv, TypeOK
    <3>1. PICK n \in Nat : Len(settled) = n /\ DOMAIN settled = 1..n
      BY <3>0, LenProperties
    <3>2. /\ settled' \in Seq(Tasks) /\ Len(settled') = n + 1
          /\ \A k \in 1..n : settled'[k] = settled[k]
          /\ settled'[n + 1] = t
      BY <3>0, <3>1, AppendProperties
    <3>3. DOMAIN settled' = 1..(n + 1)
      BY <3>2, LenProperties
    <3>4. \A k \in 1..n : settled[k] \in Tasks /\ pc[settled[k]] = "tail"
      BY <3>1, ElementOfSeq DEF SlotInv, TypeOK, SettledTails
    <3>5. \A k \in 1..n : settled[k] # t /\ pc'[settled[k]] = "tail"
      BY <2>1, <3>4
    <3>6. \A j, k \in 1..n : settled[j] = settled[k] => j = k
      BY <3>1 DEF SlotInv, SettledTails
    <3>7. \A k \in 1..(n + 1) : pc'[settled'[k]] = "tail"
      BY <2>1, <3>2, <3>5
    <3>8. \A j, k \in 1..(n + 1) : settled'[j] = settled'[k] => j = k
      BY <3>2, <3>5, <3>6
    <3> QED BY <3>3, <3>7, <3>8 DEF SettledTails
  <2>4. ExclusiveSlot'
    BY <2>1, SlotKept DEF SlotInv, MidInvocation
  <2> QED BY <2>2, <2>3, <2>4 DEF SlotSafe
<1>3. CASE Signal(t)
  BY <1>0, <1>3, SafeStill DEF Signal
<1> QED BY <1>1, <1>2, <1>3 DEF Engine

\* The trap of a tail ends its task, and refuses the call whose recheck met it.
LEMMA TrapRefuses ==
  ASSUME SlotInv, NEW t \in Tasks, ServiceTrap(t)
  PROVE  /\ pc'[t] = "dead"
         /\ \A u \in Tasks : u # t => \/ pc'[u] = pc[u]
                                      \/ pc[u] = "woken" /\ pc'[u] = "refused"
<1>1. pc \in [Tasks -> Places]
  BY DEF SlotInv, TypeOK
<1>2. \/ pc' = [pc EXCEPT ![t] = "dead"]
      \/ \E u \in Tasks : pc[u] = "woken" /\ pc' = [pc EXCEPT ![u] = "refused", ![t] = "dead"]
  BY DEF ServiceTrap, Rechecking
<1> QED BY <1>1, <1>2

\* A tail is serviced: it is t's own, so the slot it gives up is t's.
LEMMA SafeService ==
  ASSUME SlotInv, NEW t \in Tasks, Service(t)
  PROVE  SlotSafe'
<1> USE DEF taskVars, raceVars, lockVars, gateVars, queueVars, jsVars
<1>0. stack \in Seq(Frames) /\ Segments(stack) /\ TakeSettled(t)
  BY DEF SlotInv, TypeOK, Service, ServiceRetired, ServiceReturn, ServiceToCancel, ServiceTrap
<1>1. \A u \in Tasks : u # t => \/ pc'[u] = pc[u]
                                \/ pc[u] = "woken" /\ pc'[u] = "refused"
  <2>1. CASE ServiceRetired(t) \/ ServiceReturn(t) \/ ServiceToCancel(t)
    BY <2>1 DEF ServiceRetired, ServiceReturn, ServiceToCancel, Finish, Loop, CancelAtWait,
                SlotInv, TypeOK
  <2> QED BY <2>1, TrapRefuses DEF Service
<1>2. SettledTails' /\ pc[t] = "tail"
  BY <1>0, <1>1, TailsTaken DEF SlotInv
<1>3. CASE ServiceRetired(t) \/ ServiceTrap(t)
  <2>1. stack' = stack /\ exclusiveThread' = exclusiveThread
    BY <1>3 DEF ServiceRetired, ServiceTrap
  <2>2. pc'[t] = "dead"
    <3>1. CASE ServiceRetired(t)
      BY <3>1 DEF ServiceRetired, SlotInv, TypeOK
    <3> QED BY <1>3, <3>1, TrapRefuses
  <2>3. Segments(stack)'
    BY <1>0, <1>1, <1>2, <2>1, SegmentsKept
  <2>4. ExclusiveSlot'
    BY <1>1, <2>1, <2>2, SlotKept DEF SlotInv, MidInvocation
  <2> QED BY <1>2, <2>3, <2>4 DEF SlotSafe
<1>4. CASE ServiceReturn(t)
  <2>1. stack' = stack /\ (Finish(t) \/ Loop(t, ret[t]))
    BY <1>4 DEF ServiceReturn
  <2>2. Segments(stack)'
    BY <1>0, <1>1, <1>2, <2>1, SegmentsKept
  <2>3. ExclusiveSlot'
    BY <1>2, <2>1, SlotAfterTail
  <2> QED BY <1>2, <2>2, <2>3 DEF SlotSafe
<1>5. CASE ServiceToCancel(t)
  <2>1. /\ pc' = [pc EXCEPT ![t] = "guest"] /\ exclusiveThread' = exclusiveThread
        /\ stack' = Append(stack, Frame(t, "host"))
    BY <1>5 DEF ServiceToCancel, CancelAtWait
  <2>2. Segments(stack)'
    BY <1>0, <1>2, <2>1, SegmentsPushed DEF SlotInv, Entries
  <2>3. \A u \in Tasks : pc'[u] = IF u = t THEN "guest" ELSE pc[u]
    BY <2>1 DEF SlotInv, TypeOK
  <2>4. ExclusiveSlot'
    BY <1>2, <2>1, <2>3, SlotKept DEF SlotInv, MidInvocation
  <2> QED BY <1>2, <2>2, <2>4 DEF SlotSafe
<1> QED BY <1>3, <1>4, <1>5 DEF Service

\* A tick starts an invocation only with a free slot.
LEMMA SafeTick ==
  ASSUME SlotInv, NEW t \in Tasks, Tick(t)
  PROVE  SlotSafe'
<1> USE DEF taskVars, raceVars, lockVars, gateVars, queueVars, jsVars
<1>0. stack \in Seq(Frames) /\ Segments(stack)
  BY DEF SlotInv, TypeOK
<1>1. Ready(t)
  BY DEF Tick, TickGate, TickLoop, TickPoint, Chosen, Candidate
<1>2. CASE TickGate(t) \/ TickLoop(t)
  <2>1. /\ pc' = [pc EXCEPT ![t] = "guest"] /\ pc[t] \in {"gate", "loop"}
        /\ exclusiveThread' = WithSlot(t, t) /\ settled' = settled
        /\ stack' = Append(stack, Frame(t, "host"))
    BY <1>2 DEF TickGate, TickLoop, Start
  <2>2. \A v \in Tasks : pc'[v] = IF v = t THEN "guest" ELSE pc[v]
    BY <2>1 DEF SlotInv, TypeOK
  <2>3. Segments(stack)'
    BY <1>0, <2>1, SegmentsPushed DEF SlotInv, Entries
  <2>4. SettledTails'
    BY <2>1, <2>2, TailsKept DEF SlotInv
  <2>5. NeedsExclusive(t) => exclusiveThread[InstOf[t]] = None
    BY <1>1, <2>1, GateFreesSlot DEF Ready
  <2>6. ExclusiveSlot'
    BY <2>1, <2>5, SlotTaken DEF SlotInv
  <2> QED BY <2>3, <2>4, <2>6 DEF SlotSafe
<1>3. CASE TickPoint(t)
  <2>1. /\ pc' = [pc EXCEPT ![t] = "resumed"] /\ pc[t] \in {"sp", "spc"}
        /\ exclusiveThread' = exclusiveThread /\ settled' = settled /\ stack' = stack
    BY <1>3 DEF TickPoint
  <2>2. \A v \in Tasks : pc'[v] = IF v = t THEN "resumed" ELSE pc[v]
    BY <2>1 DEF SlotInv, TypeOK
  <2>3. Segments(stack)'
    BY <1>0, <2>1, <2>2, SegmentsKept
  <2>4. SettledTails'
    BY <2>1, <2>2, TailsKept DEF SlotInv
  <2>5. ExclusiveSlot'
    BY <2>1, <2>2, SlotKept DEF SlotInv, MidInvocation
  <2> QED BY <2>3, <2>4, <2>5 DEF SlotSafe
<1> QED BY <1>2, <1>3 DEF Tick

\* A nested driver that yields belongs to no task.
LEMMA SafeDriveYields ==
  ASSUME SlotInv, DriveYields
  PROVE  SlotSafe'
<1>1. /\ stack # <<>> /\ stack' = Below /\ pc' = pc /\ settled' = settled
      /\ exclusiveThread' = exclusiveThread
  BY DEF DriveYields, taskVars, raceVars, gateVars, queueVars
<1>2. /\ Below \in Seq(Frames) /\ Len(Below) <= Len(stack) - 1
      /\ \A k \in 1..Len(Below) : Below[k] = stack[k]
  BY <1>1, TopAndBelow DEF SlotInv, TypeOK
<1>3. Segments(stack)'
  BY <1>1, <1>2, SegmentsPopped DEF SlotInv
<1>4. SettledTails' /\ ExclusiveSlot'
  BY <1>1, TailsKept, SlotKept DEF SlotInv
<1> QED BY <1>3, <1>4 DEF SlotSafe

-----------------------------------------------------------------------------
(* The theorems.                                                             *)

\* Nothing runs and nobody holds a slot at the beginning.
LEMMA SlotInit == Begun => SlotInv
<1> SUFFICES ASSUME Begun PROVE SlotInv
  OBVIOUS
<1>1. Segments(stack) /\ SettledTails
  BY DEF Begun, Segments, SettledTails
<1>2. ExclusiveSlot
  BY DEF Begun, ExclusiveSlot, MidInvocation
<1> QED BY <1>1, <1>2, TypeInit DEF SlotInv

\* A step of any actor keeps what is known of the slot.
LEMMA SlotNext ==
  ASSUME SlotInv, [Next]_vars
  PROVE  SlotInv'
<1>0. SUFFICES SlotSafe'
  BY TypeNext DEF SlotInv, SlotSafe
<1>1. CASE UNCHANGED vars
  <2>1. stack \in Seq(Frames) /\ Segments(stack)
    BY DEF SlotInv, TypeOK
  <2> QED BY <1>1, <2>1, SafeStill DEF vars, taskVars, raceVars, gateVars, queueVars, jsVars
<1>2. ASSUME NEW t \in Tasks,
             \/ HostCall(t) \/ DeferHostCall(t) \/ HostGate(t)
             \/ GuestStep(t) \/ GuestReturn(t) \/ Trap(t)
             \/ Engine(t) \/ Service(t) \/ Tick(t) \/ Signal(t)
      PROVE  SlotSafe'
  BY <1>2, SafeHost, SafeGuestStep, SafeGuestReturn, SafeEngine, SafeService, SafeTick
<1>3. ASSUME NEW u \in Tasks, NEW t \in Tasks, GuestCall(u, t) \/ Cancel(u, t)
      PROVE  SlotSafe'
  BY <1>3, SafeGuestCall
<1>4. CASE DriveYields
  BY <1>4, SafeDriveYields
<1>5. CASE Races
  <2>1. stack \in Seq(Frames) /\ Segments(stack)
    BY DEF SlotInv, TypeOK
  <2> QED BY <1>5, <2>1, SafeStill, RacesStill DEF gateVars, jsVars
<1> QED BY <1>1, <1>2, <1>3, <1>4, <1>5 DEF Next, Races

\* Whatever suspends, hops, is cancelled or traps, in any interleaving: every
\* running task has one segment, every settled tail one copy, and the slot is
\* held by exactly the task whose core invocation needs it.
THEOREM SlotInvariant == Spec => []SlotInv
<1>1. Init => SlotInv
  BY InitBegins, SlotInit
<1>2. SlotInv /\ [Next]_vars => SlotInv'
  BY SlotNext
<1> QED BY <1>1, <1>2, PTL DEF Spec

\* A task that needs the exclusive slot holds it through the whole of every
\* core invocation, suspended or not (Task.enterImplicitThread).
THEOREM SlotHeld == Spec => []ExclusiveSlot
<1>1. SlotInv => ExclusiveSlot
  BY DEF SlotInv
<1> QED BY <1>1, SlotInvariant, PTL

-----------------------------------------------------------------------------
(* Errands: what a task that is under way may be.                            *)

Travelling == {"sp", "spc", "resumed", "hop", "tail"}

\* Only a promising activation is ever suspended or between its core function
\* and its tail, only a callback lift waits between invocations, and an entry of
\* pendingResumptions is of an activation on its way or in the race of a loop.
Errands ==
  /\ \A t \in Tasks : pc[t] \in Travelling => t \in Promising
  /\ \A t \in Tasks : pc[t] = "loop" => Kind[t] = "callback"
  /\ \A t \in Tasks : ret[t] \in {"yield", "wait"} => Kind[t] = "callback"
  /\ pendingResumptions \subseteq Promising
  /\ PendingOnTheWay

\* The task of the top segment is at "guest".
LEMMA TopAtGuest ==
  ASSUME SlotInv, stack # <<>>, Top.task \in Tasks
  PROVE  pc[Top.task] = "guest"
<1>1. Len(stack) \in DOMAIN stack /\ Top = stack[Len(stack)]
  BY TopAndBelow, LenProperties DEF SlotInv, TypeOK, Top
<1> QED BY <1>1, TaskAssumption DEF SlotInv, Segments

\* A thread that is chosen waits, and a tail that is taken is one.
LEMMA TakenIsTail ==
  ASSUME SlotInv, NEW t \in Tasks, TakeSettled(t)
  PROVE  pc[t] = "tail"
BY DEF TakeSettled, SlotInv, SettledTails

\* Host calls and the hop gate start no errand.
LEMMA ErrandsHost ==
  ASSUME SlotInv, Errands, NEW t \in Tasks, HostCall(t) \/ DeferHostCall(t) \/ HostGate(t)
  PROVE  Errands'
<1> USE DEF taskVars, raceVars, lockVars, gateVars, queueVars, jsVars, SlotInv, TypeOK, Errands,
            Travelling, PendingOnTheWay
<1>1. CASE HostCall(t)
  BY <1>1 DEF HostCall, Enter, Start
<1>2. CASE DeferHostCall(t)
  BY <1>2 DEF DeferHostCall, RaceHops
<1>3. CASE RecheckHops(t)
  BY <1>3 DEF RecheckHops, RaceHops
<1>4. CASE AdmittedCall(t)
  BY <1>4 DEF AdmittedCall, Enter, Start
<1> QED BY <1>1, <1>2, <1>3, <1>4 DEF HostGate

\* Running guest code parks only where it may suspend,
LEMMA ErrandsGuest ==
  ASSUME SlotInv, Errands, NEW t \in Tasks, GuestStep(t) \/ GuestReturn(t) \/ Trap(t)
  PROVE  Errands'
<1> USE DEF taskVars, raceVars, lockVars, gateVars, queueVars, jsVars, SlotInv, TypeOK, Errands,
            Travelling, PendingOnTheWay, MaySuspend, Codes
<1>1. CASE GuestTaskReturn(t) \/ GuestTaskCancel(t) \/ GuestBackpressure(t)
  BY <1>1 DEF GuestTaskReturn, GuestTaskCancel, GuestBackpressure
<1>2. CASE GuestHops(t)
  BY <1>2 DEF GuestHops, TopOf
<1>3. CASE GuestMeetsCancel(t)
  BY <1>3 DEF GuestMeetsCancel, Running
<1>4. CASE GuestBlocks(t)
  BY <1>4 DEF GuestBlocks, TopOf, ConsumePending
<1>5. ASSUME NEW c \in Codes, ReturnHops(t, c) PROVE Errands'
  BY <1>5 DEF ReturnHops, Running, CodesOf
<1>6. ASSUME NEW c \in Codes, ReturnPlain(t, c) PROVE Errands'
  BY <1>6 DEF ReturnPlain, Running, Finish, Loop, CodesOf
<1>7. ASSUME NEW c \in Codes, ReturnToCancel(t, c) PROVE Errands'
  BY <1>7 DEF ReturnToCancel, Running, CancelAtWait
<1>8. CASE TrapHops(t)
  BY <1>8, TopAtGuest DEF TrapHops, TopIsGuest
<1>9. CASE TrapPoisons(t)
  BY <1>9, TopAtGuest DEF TrapPoisons, TopIsGuest
<1> QED BY <1>1, <1>2, <1>3, <1>4, <1>5, <1>6, <1>7, <1>8, <1>9 DEF GuestStep, GuestReturn, Trap

\* so what it calls or cancels keeps the errands of others,
LEMMA ErrandsCall ==
  ASSUME SlotInv, Errands, NEW u \in Tasks, NEW t \in Tasks, GuestCall(u, t) \/ Cancel(u, t)
  PROVE  Errands'
<1> USE DEF taskVars, raceVars, lockVars, gateVars, queueVars, jsVars, SlotInv, TypeOK, Errands,
            Travelling, PendingOnTheWay
<1>1. CASE GuestCall(u, t)
  BY <1>1 DEF GuestCall, Enter, Start
<1>2. CASE CancelAtGate(u, t)
  BY <1>2 DEF CancelAtGate
<1>3. CASE CancelAtLoop(u, t)
  BY <1>3 DEF CancelAtLoop
<1>4. CASE CancelAtPoint(u, t)
  BY <1>4 DEF CancelAtPoint, ConsumePending
<1>5. CASE CancelRecorded(u, t)
  BY <1>5 DEF CancelRecorded
<1> QED BY <1>1, <1>2, <1>3, <1>4, <1>5 DEF Cancel

\* and so do the engine, the drivers and the clock.
LEMMA ErrandsDriven ==
  ASSUME SlotInv, Errands, NEW t \in Tasks, Engine(t) \/ Service(t) \/ Tick(t) \/ Signal(t)
  PROVE  Errands'
<1> USE DEF taskVars, raceVars, lockVars, gateVars, queueVars, jsVars, SlotInv, TypeOK, Errands,
            Travelling, PendingOnTheWay
<1>1. CASE EngineResume(t)
  BY <1>1 DEF EngineResume
<1>2. CASE Settle(t)
  BY <1>2 DEF Settle
<1>3. CASE ServiceRetired(t)
  BY ZenonT(60), <1>3, TakenIsTail DEF ServiceRetired, TakeSettled
<1>10. CASE ServiceTrap(t)
  <2>1. /\ pc[t] = "tail" /\ pc'[t] = "dead"
        /\ \A u \in Tasks : u # t => \/ pc'[u] = pc[u]
                                     \/ pc[u] = "woken" /\ pc'[u] = "refused"
    BY <1>10, TakenIsTail, TrapRefuses DEF ServiceTrap
  <2>2. /\ pendingResumptions' = pendingResumptions /\ racing' = racing
        /\ \A u \in Tasks : ret'[u] \in {ret[u], "exit"}
    BY <1>10 DEF ServiceTrap, TakeSettled
  <2> QED BY <2>1, <2>2
<1>4. CASE ServiceReturn(t)
  BY ZenonT(60), <1>4, TakenIsTail DEF ServiceReturn, TakeSettled, Finish, Loop
<1>5. CASE ServiceToCancel(t)
  BY <1>5, TakenIsTail DEF ServiceToCancel, TakeSettled, CancelAtWait
<1>6. CASE TickGate(t)
  BY <1>6 DEF TickGate, Start
<1>7. CASE TickLoop(t)
  BY <1>7 DEF TickLoop
<1>8. CASE TickPoint(t)
  BY <1>8 DEF TickPoint
<1>9. CASE Signal(t)
  BY <1>9 DEF Signal
<1> QED BY <1>1, <1>2, <1>3, <1>4, <1>5, <1>6, <1>7, <1>8, <1>9, <1>10
        DEF Engine, Service, Tick

\* A loop enters a promising activation, and drops the entry with the race.
LEMMA ErrandsRaces ==
  ASSUME SlotInv, Errands, Races
  PROVE  Errands'
<1>1. PICK d \in Loops : RaceEnds(d) \/ \E t \in Tasks : Race(d, t)
  BY DEF Races
<1>2. pc' = pc /\ ret' = ret /\ racing \in [Loops -> Tasks \cup {None}]
  BY RacesStill DEF SlotInv, TypeOK
<1>3. CASE RaceEnds(d)
  <2>1. /\ racing' = [racing EXCEPT ![d] = None]
        /\ pendingResumptions' = pendingResumptions \ {racing[d]}
    BY <1>3 DEF RaceEnds
  <2> QED BY <1>2, <2>1 DEF Errands, PendingOnTheWay
<1>4. ASSUME NEW t \in Tasks, Race(d, t)
      PROVE  Errands'
  <2>1. racing' = [racing EXCEPT ![d] = t] /\ pendingResumptions' = {t} /\ t \in Promising
    BY <1>4 DEF Race, Awaiting
  <2> QED BY <1>2, <2>1 DEF Errands, PendingOnTheWay
<1> QED BY <1>1, <1>3, <1>4

\* The errands stay right.
LEMMA ErrandsNext ==
  ASSUME SlotInv, Errands, [Next]_vars
  PROVE  Errands'
<1>1. ASSUME NEW t \in Tasks,
             \/ HostCall(t) \/ DeferHostCall(t) \/ HostGate(t)
             \/ GuestStep(t) \/ GuestReturn(t) \/ Trap(t)
             \/ Engine(t) \/ Service(t) \/ Tick(t) \/ Signal(t)
      PROVE  Errands'
  BY <1>1, ErrandsHost, ErrandsGuest, ErrandsDriven
<1>2. ASSUME NEW u \in Tasks, NEW t \in Tasks, GuestCall(u, t) \/ Cancel(u, t)
      PROVE  Errands'
  BY <1>2, ErrandsCall
<1>3. CASE DriveYields \/ UNCHANGED vars
  BY <1>3 DEF DriveYields, Errands, PendingOnTheWay, vars, taskVars, raceVars, queueVars
<1>4. CASE Races
  BY <1>4, ErrandsRaces
<1> QED BY <1>1, <1>2, <1>3, <1>4 DEF Next, Races

\* No task is under way in the first state.
LEMMA ErrandsInit == Begun => Errands
BY DEF Begun, Errands, Travelling, PendingOnTheWay

-----------------------------------------------------------------------------
(* The queues.                                                               *)

Parking == {"gate", "sp", "spc", "loop"}
Gated(i) == {t \in Tasks : pc[t] = "gate" /\ InstOf[t] = i}
Parked == {t \in Tasks : pc[t] \in Parking}
Tails == {t \in Tasks : pc[t] = "tail"}

\* A queue that holds each thread of a set once.
Holds(q, S) == ToSet(q) = S /\ IsInjective(q)

\* QueuesExact, with what it says of a gate's count finite.
Queued ==
  /\ \A i \in Insts : IsFiniteSet(Gated(i)) /\ numWaitingToEnter[i] = Cardinality(Gated(i))
  /\ Holds(waiting, Parked)
  /\ Holds(settled, Tails)

\* Who waits, at which gate, and whose tail is due, is as it was.
QueuesStill ==
  /\ waiting' = waiting /\ settled' = settled /\ numWaitingToEnter' = numWaitingToEnter
  /\ \A t \in Tasks : /\ pc'[t] \in Parking \cup {"tail"} => pc'[t] = pc[t]
                      /\ pc[t] \in Parking \cup {"tail"} => pc'[t] = pc[t]

\* A thread that joins a queue it is not in.
LEMMA HoldsJoined ==
  ASSUME NEW q \in Seq(Tasks), NEW S, Holds(q, S), NEW t \in Tasks, t \notin S
  PROVE  Holds(Append(q, t), S \cup {t})
<1>1. PICK n \in Nat : Len(q) = n /\ DOMAIN q = 1..n
  BY LenProperties
<1> DEFINE r == Append(q, t)
<1>2. /\ r \in Seq(Tasks) /\ Len(r) = n + 1
      /\ \A k \in 1..n : r[k] = q[k]
      /\ r[n + 1] = t
  BY <1>1, AppendProperties
<1>3. DOMAIN r = 1..(n + 1)
  BY <1>2, LenProperties
<1> HIDE DEF r
<1>4. \A k \in 1..n : q[k] \in S
  BY <1>1 DEF Holds, ToSet
<1>5. \A x \in S : \E k \in 1..n : q[k] = x
  BY <1>1 DEF Holds, ToSet
<1>6. ToSet(r) = S \cup {t}
  <2>1. \A k \in 1..(n + 1) : r[k] \in S \cup {t}
    BY <1>2, <1>4
  <2>2. \A x \in S \cup {t} : \E k \in 1..(n + 1) : r[k] = x
    BY <1>2, <1>5
  <2> QED BY <1>3, <2>1, <2>2 DEF ToSet
<1>7. IsInjective(r)
  <2>1. \A j, k \in 1..n : q[j] = q[k] => j = k
    BY <1>1 DEF Holds, IsInjective
  <2>2. \A j, k \in 1..(n + 1) : r[j] = r[k] => j = k
    BY <1>2, <1>4, <2>1
  <2> QED BY <1>3, <2>2 DEF IsInjective
<1> QED BY <1>6, <1>7 DEF Holds, r

\* A thread that is taken out of its queue.
LEMMA HoldsLeft ==
  ASSUME NEW q \in Seq(Tasks), NEW S, Holds(q, S), NEW k \in DOMAIN q
  PROVE  Holds(RemoveAt(q, k), S \ {q[k]})
<1>1. PICK n \in Nat : Len(q) = n /\ DOMAIN q = 1..n
  BY LenProperties
<1> DEFINE r == RemoveAt(q, k)
           old(j) == IF j < k THEN j ELSE j + 1
<1>2. /\ DOMAIN r = 1..(n - 1)
      /\ \A j \in 1..(n - 1) : r[j] = q[old(j)]
  BY <1>1, RemoveAtProperties
<1>3. \A j \in 1..(n - 1) : old(j) \in 1..n /\ old(j) # k
  BY <1>1
<1>4. \A i, j \in 1..(n - 1) : old(i) = old(j) => i = j
  BY <1>1
<1>5. \A m \in 1..n : m # k => \E j \in 1..(n - 1) : old(j) = m
  <2>1. ASSUME NEW m \in 1..n, m < k PROVE m \in 1..(n - 1) /\ old(m) = m
    BY <1>1, <2>1
  <2>2. ASSUME NEW m \in 1..n, m > k PROVE m - 1 \in 1..(n - 1) /\ old(m - 1) = m
    BY <1>1, <2>2
  <2> QED BY <1>1, <2>1, <2>2
<1> HIDE DEF r, old
<1>6. \A i, j \in 1..n : q[i] = q[j] => i = j
  BY <1>1 DEF Holds, IsInjective
<1>7. ToSet(r) = S \ {q[k]}
  <2>1. S = {q[j] : j \in 1..n}
    BY <1>1 DEF Holds, ToSet
  <2>2. \A j \in 1..(n - 1) : r[j] \in S \ {q[k]}
    BY <1>1, <1>2, <1>3, <1>6, <2>1
  <2>3. \A x \in S \ {q[k]} : \E j \in 1..(n - 1) : r[j] = x
    BY <1>2, <1>5, <2>1
  <2> QED BY <1>2, <2>2, <2>3 DEF ToSet
<1>8. IsInjective(r)
  BY SMTT(60), <1>2, <1>3, <1>4, <1>6 DEF IsInjective
<1> QED BY <1>7, <1>8 DEF Holds, r

\* Steps that leave the queues alone.
LEMMA QueuedStill ==
  ASSUME Queued, QueuesStill
  PROVE  Queued'
<1>1. Parked' = Parked /\ Tails' = Tails /\ \A i \in Insts : Gated(i)' = Gated(i)
  BY DEF QueuesStill, Parked, Tails, Gated, Parking
<1> QED BY <1>1 DEF Queued, QueuesStill

\* A task that joins the waiters away from the gate.
LEMMA QueuedParks ==
  ASSUME SlotInv, Queued, NEW t \in Tasks, NEW p \in Parking \ {"gate"},
         pc[t] \notin Parking \cup {"tail"}, pc' = [pc EXCEPT ![t] = p],
         waiting' = Append(waiting, t), settled' = settled,
         numWaitingToEnter' = numWaitingToEnter
  PROVE  Queued'
<1>1. \A u \in Tasks : pc'[u] = IF u = t THEN p ELSE pc[u]
  BY DEF SlotInv, TypeOK
<1>2. /\ Parked' = Parked \cup {t} /\ t \notin Parked /\ Tails' = Tails
      /\ \A i \in Insts : Gated(i)' = Gated(i)
  BY <1>1 DEF Parked, Tails, Gated, Parking
<1>3. Holds(waiting', Parked')
  BY <1>2, HoldsJoined DEF Queued, SlotInv, TypeOK
<1> QED BY <1>2, <1>3 DEF Queued

\* A task that joins them at the gate, and is counted.
LEMMA QueuedAtGate ==
  ASSUME SlotInv, Queued, NEW t \in Tasks,
         pc[t] \notin Parking \cup {"tail"}, pc' = [pc EXCEPT ![t] = "gate"],
         waiting' = Append(waiting, t), settled' = settled,
         numWaitingToEnter' = [numWaitingToEnter EXCEPT ![InstOf[t]] = @ + 1]
  PROVE  Queued'
<1>1. \A u \in Tasks : pc'[u] = IF u = t THEN "gate" ELSE pc[u]
  BY DEF SlotInv, TypeOK
<1>2. /\ Parked' = Parked \cup {t} /\ t \notin Parked /\ Tails' = Tails
      /\ \A i \in Insts : Gated(i)' = IF i = InstOf[t] THEN Gated(i) \cup {t} ELSE Gated(i)
  BY <1>1 DEF Parked, Tails, Gated, Parking
<1>3. Holds(waiting', Parked')
  BY <1>2, HoldsJoined DEF Queued, SlotInv, TypeOK
<1>4. ASSUME NEW i \in Insts
      PROVE  IsFiniteSet(Gated(i)') /\ numWaitingToEnter'[i] = Cardinality(Gated(i)')
  <2>1. numWaitingToEnter'[i] = IF i = InstOf[t] THEN numWaitingToEnter[i] + 1
                                                 ELSE numWaitingToEnter[i]
    BY DEF SlotInv, TypeOK
  <2>2. t \notin Gated(i)
    BY DEF Gated, Parking
  <2>3. IsFiniteSet(Gated(i)) /\ numWaitingToEnter[i] = Cardinality(Gated(i))
    BY DEF Queued
  <2> QED BY <1>2, <2>1, <2>2, <2>3, FS_AddElement
<1> QED BY <1>2, <1>3, <1>4 DEF Queued

\* A waiter that is taken, from the gate with its count or from elsewhere.
LEMMA QueuedLeaves ==
  ASSUME SlotInv, Queued, NEW t \in Tasks, NEW p, p \notin Parking \cup {"tail"},
         pc[t] \in Parking, pc' = [pc EXCEPT ![t] = p],
         StopWaiting(t), settled' = settled,
         numWaitingToEnter' = IF pc[t] = "gate" THEN LeaveGate(InstOf[t]) ELSE numWaitingToEnter
  PROVE  Queued'
<1>1. \A u \in Tasks : pc'[u] = IF u = t THEN p ELSE pc[u]
  BY DEF SlotInv, TypeOK
<1>2. /\ Parked' = Parked \ {t} /\ Tails' = Tails
      /\ \A i \in Insts : Gated(i)' = Gated(i) \ {t}
  BY <1>1 DEF Parked, Tails, Gated, Parking
<1>3. Holds(waiting', Parked')
  <2>1. PICK k \in DOMAIN waiting : waiting[k] = t /\ waiting' = RemoveAt(waiting, k)
    BY DEF StopWaiting
  <2>2. waiting \in Seq(Tasks) /\ Holds(waiting, Parked)
    BY DEF Queued, SlotInv, TypeOK
  <2> QED BY <1>2, <2>1, <2>2, HoldsLeft
<1>4. ASSUME NEW i \in Insts
      PROVE  IsFiniteSet(Gated(i)') /\ numWaitingToEnter'[i] = Cardinality(Gated(i)')
  <2>1. numWaitingToEnter'[i] = IF t \in Gated(i) THEN numWaitingToEnter[i] - 1
                                                  ELSE numWaitingToEnter[i]
    BY DEF SlotInv, TypeOK, LeaveGate, Gated
  <2>2. IsFiniteSet(Gated(i)) /\ numWaitingToEnter[i] = Cardinality(Gated(i))
    BY DEF Queued
  <2> QED BY <1>2, <2>1, <2>2, FS_RemoveElement
<1> QED BY <1>2, <1>3, <1>4 DEF Queued

\* A tail that is serviced: its task ends, waits again, or goes on.
LEMMA QueuedServiced ==
  ASSUME SlotInv, Queued, NEW t \in Tasks, TakeSettled(t), NEW p, p \notin {"gate", "tail"},
         pc'[t] = p,
         \A u \in Tasks : u # t => pc'[u] = pc[u] \/ (pc[u] = "woken" /\ pc'[u] = "refused"),
         waiting' = IF p \in Parking THEN Append(waiting, t) ELSE waiting,
         numWaitingToEnter' = numWaitingToEnter
  PROVE  Queued'
<1>0. pc[t] = "tail"
  BY TakenIsTail
<1>1. /\ pc'[t] = p
      /\ \A u \in Tasks : u # t => pc'[u] = pc[u] \/ (pc[u] = "woken" /\ pc'[u] = "refused")
  OBVIOUS
<1>2. /\ Parked' = IF p \in Parking THEN Parked \cup {t} ELSE Parked
      /\ t \notin Parked /\ Tails' = Tails \ {t}
      /\ \A i \in Insts : Gated(i)' = Gated(i)
  BY <1>0, <1>1 DEF Parked, Tails, Gated, Parking
<1>3. Holds(waiting', Parked')
  BY <1>2, HoldsJoined DEF Queued, SlotInv, TypeOK
<1>4. Holds(settled', Tails')
  <2>1. PICK k \in DOMAIN settled : settled[k] = t /\ settled' = RemoveAt(settled, k)
    BY DEF TakeSettled
  <2>2. settled \in Seq(Tasks) /\ Holds(settled, Tails)
    BY DEF Queued, SlotInv, TypeOK
  <2> QED BY <1>2, <2>1, <2>2, HoldsLeft
<1> QED BY <1>2, <1>3, <1>4 DEF Queued

\* Entering parks at the gate or leaves the queues alone.
LEMMA QueuedEnter ==
  ASSUME SlotInv, Queued, NEW t \in Tasks, NEW e, NEW s, Enter(t, e, s), settled' = settled,
         pc[t] \in {"none", "admitted"}
  PROVE  Queued'
<1>1. CASE GateClosed(t) /\ pc' = [pc EXCEPT ![t] = "gate"]
           /\ waiting' = Append(waiting, t)
           /\ numWaitingToEnter' = [numWaitingToEnter EXCEPT ![InstOf[t]] = @ + 1]
  BY <1>1, QueuedAtGate DEF Parking
<1>2. CASE Start(t, e, s) /\ UNCHANGED <<waiting, numWaitingToEnter>>
  <2>1. QueuesStill
    BY <1>2 DEF Start, QueuesStill, Parking, SlotInv, TypeOK
  <2> QED BY <2>1, QueuedStill
<1> QED BY <1>1, <1>2 DEF Enter

\* A host call waits at most once, and is counted while it does,
LEMMA QueuedHost ==
  ASSUME SlotInv, Queued, NEW t \in Tasks, HostCall(t) \/ DeferHostCall(t) \/ HostGate(t)
  PROVE  Queued'
<1> USE DEF taskVars, raceVars, lockVars, gateVars, queueVars, jsVars
<1>1. CASE HostCall(t)
  BY <1>1, QueuedEnter DEF HostCall
<1>2. CASE DeferHostCall(t) \/ RecheckHops(t)
  <2>1. QueuesStill
    BY <1>2 DEF DeferHostCall, RecheckHops, RaceHops, QueuesStill, Parking, SlotInv, TypeOK
  <2> QED BY <2>1, QueuedStill
<1>3. CASE AdmittedCall(t)
  <2>1. CASE Enter(t, "host", <<>>) /\ settled' = settled
    BY <1>3, <2>1, QueuedEnter DEF AdmittedCall
  <2>2. CASE pc' = [pc EXCEPT ![t] = "refused"] /\ UNCHANGED <<gateVars, queueVars>>
    <3>1. QueuesStill
      BY <1>3, <2>2 DEF AdmittedCall, QueuesStill, Parking, SlotInv, TypeOK
    <3> QED BY <3>1, QueuedStill
  <2> QED BY <1>3, <2>1, <2>2 DEF AdmittedCall
<1> QED BY <1>1, <1>2, <1>3 DEF HostGate

\* so does an activation that blocks, loops or is trapped,
LEMMA QueuedGuest ==
  ASSUME SlotInv, Queued, NEW t \in Tasks, GuestStep(t) \/ GuestReturn(t) \/ Trap(t)
  PROVE  Queued'
<1> USE DEF taskVars, raceVars, lockVars, gateVars, queueVars, jsVars
<1>1. CASE GuestTaskReturn(t) \/ GuestTaskCancel(t) \/ GuestBackpressure(t) \/ GuestHops(t)
  <2>1. QueuesStill
    BY <1>1 DEF GuestTaskReturn, GuestTaskCancel, GuestBackpressure, GuestHops, TopOf,
                QueuesStill, Parking, SlotInv, TypeOK
  <2> QED BY <2>1, QueuedStill
<1>2. CASE GuestMeetsCancel(t)
  <2>1. QueuesStill
    BY <1>2 DEF GuestMeetsCancel, Running, QueuesStill, Parking, SlotInv, TypeOK
  <2> QED BY <2>1, QueuedStill
<1>3. CASE GuestBlocks(t)
  <2>1. PICK p \in {"sp", "spc"} : pc' = [pc EXCEPT ![t] = p]
    BY <1>3 DEF GuestBlocks
  <2>2. /\ pc[t] \notin Parking \cup {"tail"} /\ p \in Parking \ {"gate"}
        /\ waiting' = Append(waiting, t) /\ settled' = settled
        /\ numWaitingToEnter' = numWaitingToEnter
    BY <1>3 DEF GuestBlocks, TopOf, Parking
  <2> QED BY <2>1, <2>2, QueuedParks
<1>4. ASSUME NEW c \in Codes, ReturnHops(t, c) \/ ReturnToCancel(t, c) PROVE Queued'
  <2>1. QueuesStill
    BY <1>4 DEF ReturnHops, ReturnToCancel, CancelAtWait, Running, QueuesStill, Parking,
                SlotInv, TypeOK
  <2> QED BY <2>1, QueuedStill
<1>5. ASSUME NEW c \in Codes, ReturnPlain(t, c) PROVE Queued'
  <2>1. /\ pc[t] = "guest" /\ settled' = settled /\ numWaitingToEnter' = numWaitingToEnter
    BY <1>5 DEF ReturnPlain, Running
  <2>2. CASE Finish(t)
    <3>1. QueuesStill
      BY <2>1, <2>2 DEF Finish, QueuesStill, Parking, SlotInv, TypeOK
    <3> QED BY <3>1, QueuedStill
  <2>3. CASE Loop(t, c)
    BY <2>1, <2>3, QueuedParks DEF Loop, Parking
  <2> QED BY <1>5, <2>2, <2>3 DEF ReturnPlain
<1>6. CASE Trap(t)
  <2>1. pc[t] = "guest"
    BY <1>6, TopAtGuest DEF Trap, TrapHops, TrapPoisons, TopIsGuest
  <2>2. QueuesStill
    BY <1>6, <2>1 DEF Trap, TrapHops, TrapPoisons, QueuesStill, Parking, SlotInv, TypeOK
  <2> QED BY <2>2, QueuedStill
<1> QED BY <1>1, <1>2, <1>3, <1>4, <1>5, <1>6 DEF GuestStep, GuestReturn

\* what a guest calls or cancels,
LEMMA QueuedCall ==
  ASSUME SlotInv, Queued, NEW u \in Tasks, NEW t \in Tasks, GuestCall(u, t) \/ Cancel(u, t)
  PROVE  Queued'
<1> USE DEF taskVars, raceVars, lockVars, gateVars, queueVars, jsVars
<1>1. CASE GuestCall(u, t)
  BY <1>1, QueuedEnter DEF GuestCall
<1>2. CASE CancelAtGate(u, t)
  BY <1>2, QueuedLeaves DEF CancelAtGate, Parking
<1>3. CASE CancelAtLoop(u, t)
  BY <1>3, QueuedLeaves DEF CancelAtLoop, Parking
<1>4. CASE CancelAtPoint(u, t)
  BY <1>4, QueuedLeaves DEF CancelAtPoint, Parking
<1>5. CASE CancelRecorded(u, t)
  <2>1. QueuesStill
    BY <1>5 DEF CancelRecorded, QueuesStill
  <2> QED BY <2>1, QueuedStill
<1> QED BY <1>1, <1>2, <1>3, <1>4, <1>5 DEF Cancel

\* and what the engine, the drivers and the scheduler move.
LEMMA QueuedDriven ==
  ASSUME SlotInv, Queued, NEW t \in Tasks, Engine(t) \/ Service(t) \/ Tick(t) \/ Signal(t)
  PROVE  Queued'
<1> USE DEF taskVars, raceVars, lockVars, gateVars, queueVars, jsVars
<1>1. CASE EngineResume(t) \/ Signal(t)
  <2>1. QueuesStill
    BY <1>1 DEF EngineResume, Signal, QueuesStill, Parking, SlotInv, TypeOK
  <2> QED BY <2>1, QueuedStill
<1>2. CASE Settle(t)
  <2>1. \A u \in Tasks : \/ u = t /\ pc[u] = "hop" /\ pc'[u] = "tail"
                         \/ u # t /\ pc[u] = "deferred" /\ pc'[u] = "woken"
                         \/ u # t /\ pc'[u] = pc[u]
    BY <1>2 DEF Settle, SlotInv, TypeOK
  <2>2. /\ Tails' = Tails \cup {t} /\ t \notin Tails /\ Parked' = Parked
        /\ \A i \in Insts : Gated(i)' = Gated(i)
    BY <2>1 DEF Parked, Tails, Gated, Parking
  <2>3. Holds(settled', Tails')
    BY <1>2, <2>2, HoldsJoined DEF Settle, Queued, SlotInv, TypeOK
  <2> QED BY <1>2, <2>2, <2>3 DEF Settle, Queued
<1>0. pc \in [Tasks -> Places]
  BY DEF SlotInv, TypeOK
<1>3. CASE ServiceRetired(t)
  BY <1>0, <1>3, QueuedServiced DEF ServiceRetired, Parking
<1>10. CASE ServiceTrap(t)
  BY <1>10, QueuedServiced, TrapRefuses DEF ServiceTrap, Parking
<1>4. CASE ServiceReturn(t)
  BY <1>0, <1>4, QueuedServiced DEF ServiceReturn, Finish, Loop, Parking
<1>5. CASE ServiceToCancel(t)
  BY <1>0, <1>5, QueuedServiced DEF ServiceToCancel, CancelAtWait, Parking
<1>6. Chosen(t) => StopWaiting(t)
  BY DEF Chosen, StopWaiting
<1>7. CASE TickGate(t)
  BY <1>6, <1>7, QueuedLeaves DEF TickGate, Start, Parking
<1>8. CASE TickLoop(t)
  BY <1>6, <1>8, QueuedLeaves DEF TickLoop, Parking
<1>9. CASE TickPoint(t)
  BY <1>6, <1>9, QueuedLeaves DEF TickPoint, Parking
<1> QED BY <1>1, <1>2, <1>3, <1>4, <1>5, <1>7, <1>8, <1>9, <1>10 DEF Engine, Service, Tick

\* The queues stay exact.
LEMMA QueuedNext ==
  ASSUME SlotInv, Queued, [Next]_vars
  PROVE  Queued'
<1>1. ASSUME NEW t \in Tasks,
             \/ HostCall(t) \/ DeferHostCall(t) \/ HostGate(t)
             \/ GuestStep(t) \/ GuestReturn(t) \/ Trap(t)
             \/ Engine(t) \/ Service(t) \/ Tick(t) \/ Signal(t)
      PROVE  Queued'
  BY <1>1, QueuedHost, QueuedGuest, QueuedDriven
<1>2. ASSUME NEW u \in Tasks, NEW t \in Tasks, GuestCall(u, t) \/ Cancel(u, t)
      PROVE  Queued'
  BY <1>2, QueuedCall
<1>3. CASE DriveYields \/ UNCHANGED vars
  <2>1. QueuesStill
    BY <1>3 DEF DriveYields, QueuesStill, vars, taskVars, raceVars, queueVars, gateVars
  <2> QED BY <2>1, QueuedStill
<1>4. CASE Races
  <2>1. QueuesStill
    BY <1>4, RacesStill DEF QueuesStill, gateVars
  <2> QED BY <2>1, QueuedStill
<1> QED BY <1>1, <1>2, <1>3, <1>4 DEF Next, Races

\* All queues are empty in the first state.
LEMMA QueuedInit == Begun => Queued
<1> SUFFICES ASSUME Begun PROVE Queued
  OBVIOUS
<1>1. Parked = {} /\ Tails = {} /\ \A i \in Insts : Gated(i) = {}
  BY DEF Begun, Parked, Tails, Gated, Parking
<1>2. Holds(<<>>, {})
  BY DEF Holds, ToSet, IsInjective
<1> QED BY <1>1, <1>2, FS_EmptySet DEF Begun, Queued

-----------------------------------------------------------------------------
(* The stack of segments and what it closes.                                 *)

Bracketed == {"host", "fact", "cancel"}

\* A bracketed segment of instance i, or one entered from the host, is on s.
Occupied(s, i) == \E k \in DOMAIN s : s[k].entry \in Bracketed /\ InstOf[s[k].task] = i
HostOn(s) == \E k \in DOMAIN s : s[k].entry = "host"

\* At the bottom of a stack is the host or the engine, only a driver has no task,
\* the engine continues promising activations only, and no instance is entered
\* twice.
StackShape(s) ==
  /\ \A k \in DOMAIN s : /\ s[k].entry = "drive" <=> s[k].task = None
                         /\ s[k].entry = "engine" => s[k].task \in Promising
                         /\ s[k].entry = "cancel" => Kind[s[k].task] = "callback"
  /\ s # <<>> => s[1].entry \in {"host", "engine"}
  /\ \A j, k \in DOMAIN s :
       /\ s[j].entry \in Bracketed /\ s[k].entry \in Bracketed
       /\ InstOf[s[j].task] = InstOf[s[k].task]
       => j = k

HostsOnce(s) == \A j, k \in DOMAIN s : s[j].entry = "host" /\ s[k].entry = "host" => j = k

\* What the stack s closes, and how it is shaped, it has from r.
SameBrackets(r, s) ==
  /\ StackShape(s) /\ s \in Seq(Frames)
  /\ \A i \in Insts : Occupied(s, i) <=> Occupied(r, i)
  /\ HostOn(s) <=> HostOn(r)
  /\ HostsOnce(r) => HostsOnce(s)

\* The same without r's top segment.
WithoutTop(r, s) ==
  /\ StackShape(s) /\ s \in Seq(Frames)
  /\ \A i \in Insts : Occupied(s, i) <=>
       /\ Occupied(r, i)
       /\ ~(r[Len(r)].entry \in Bracketed /\ InstOf[r[Len(r)].task] = i)
  /\ HostsOnce(r) => HostsOnce(s) /\ (HostOn(s) <=> HostOn(r) /\ r[Len(r)].entry # "host")

\* And with a segment on top.
WithSegment(r, s, t, e) ==
  /\ StackShape(s) /\ s \in Seq(Frames)
  /\ \A i \in Insts : Occupied(s, i) <=> Occupied(r, i) \/ (e \in Bracketed /\ InstOf[t] = i)
  /\ HostOn(s) <=> HostOn(r) \/ e = "host"
  /\ HostsOnce(r) /\ (e = "host" => ~HostOn(r)) => HostsOnce(s)

\* A stack whose frames agree with those of another, but for a driver on top.
LEMMA BracketsLike ==
  ASSUME NEW r \in Seq(Frames), NEW s \in Seq(Frames), StackShape(r),
         Len(s) \in {Len(r), Len(r) + 1}, r = <<>> => s = <<>>,
         \A k \in 1..Len(r) : s[k].entry = r[k].entry /\ s[k].task = r[k].task,
         Len(s) = Len(r) + 1 => s[Len(s)].entry = "drive" /\ s[Len(s)].task = None
  PROVE  SameBrackets(r, s)
<1>1. PICK n \in Nat : Len(r) = n /\ DOMAIN r = 1..n
  BY LenProperties
<1>2. PICK m \in Nat : Len(s) = m /\ DOMAIN s = 1..m
  BY LenProperties
<1>3. m = n \/ m = n + 1
  BY <1>1, <1>2
<1>4. \A k \in 1..m : \/ k \in 1..n /\ s[k].entry = r[k].entry /\ s[k].task = r[k].task
                      \/ k = n + 1 /\ m = n + 1 /\ s[k].entry = "drive" /\ s[k].task = None
  BY <1>1, <1>2, <1>3
<1>5. 1..n \subseteq 1..m
  BY <1>3
<1>6. "drive" \notin Bracketed /\ "host" \in Bracketed
  BY DEF Bracketed
<1>7. s # <<>> => s[1].entry \in {"host", "engine"}
  <2>1. ASSUME s # <<>> PROVE r # <<>> /\ 1 \in 1..n
    BY <1>1, <2>1, EmptySeq
  <2> QED BY <1>1, <2>1 DEF StackShape
<1>8. \A i \in Insts : Occupied(s, i) <=> Occupied(r, i)
  BY <1>1, <1>2, <1>4, <1>5, <1>6 DEF Occupied
<1>9. HostOn(s) <=> HostOn(r)
  BY <1>1, <1>2, <1>4, <1>5 DEF HostOn
<1>10. HostsOnce(r) => HostsOnce(s)
  BY <1>1, <1>2, <1>4 DEF HostsOnce
<1>11. StackShape(s)
  <2>1. \A j, k \in 1..m : /\ s[j].entry \in Bracketed /\ s[k].entry \in Bracketed
                           /\ InstOf[s[j].task] = InstOf[s[k].task]
                           => j = k
    BY <1>1, <1>4, <1>6 DEF StackShape
  <2>2. \A k \in 1..m : /\ s[k].entry = "drive" <=> s[k].task = None
                        /\ s[k].entry = "engine" => s[k].task \in Promising
                        /\ s[k].entry = "cancel" => Kind[s[k].task] = "callback"
    BY <1>1, <1>4 DEF StackShape
  <2> QED BY <1>2, <1>7, <2>1, <2>2 DEF StackShape
<1> QED BY <1>8, <1>9, <1>10, <1>11 DEF SameBrackets

\* The stacks that calls are pushed on.
LEMMA BracketsOfBases ==
  ASSUME stack \in Seq(Frames), StackShape(stack)
  PROVE  /\ SameBrackets(stack, stack)
         /\ SameBrackets(stack, HostBase)
         /\ stack # <<>> => \A u \in Tasks : SameBrackets(stack, Calling(u))
<1>1. SameBrackets(stack, stack)
  BY DEF SameBrackets
<1>2. SameBrackets(stack, HostBase)
  <2>1. CASE stack = <<>>
    BY <1>1, <2>1 DEF HostBase
  <2>2. CASE stack # <<>>
    <3>1. HostBase = Append(stack, Frame(None, "drive")) /\ Frame(None, "drive") \in Frames
      BY <2>2, FrameType DEF HostBase, Entries
    <3>2. Frame(None, "drive").entry = "drive" /\ Frame(None, "drive").task = None
      BY DEF Frame
    <3>3. /\ HostBase \in Seq(Frames) /\ Len(HostBase) = Len(stack) + 1
          /\ \A k \in 1..Len(stack) : HostBase[k] = stack[k]
          /\ HostBase[Len(HostBase)] = Frame(None, "drive")
      BY <3>1, AppendProperties
    <3> QED BY <2>2, <3>2, <3>3, BracketsLike
  <2> QED BY <2>1, <2>2
<1>3. ASSUME stack # <<>>, NEW u \in Tasks
      PROVE  SameBrackets(stack, Calling(u))
  <2> DEFINE f == [Top EXCEPT !.susp = MaySuspend(u)]
  <2>1. PICK n \in Nat : Len(stack) = n + 1 /\ Len(Below) = n
    BY <1>3, TopAndBelow
  <2>2. /\ Below \in Seq(Frames) /\ Top = stack[n + 1]
        /\ \A k \in 1..n : Below[k] = stack[k]
    BY <1>3, <2>1, TopAndBelow DEF Top
  <2>3. f \in Frames /\ f.task = Top.task /\ f.entry = Top.entry
    <3>1. Top \in Frames /\ MaySuspend(u) \in BOOLEAN
      BY <1>3, TopAndBelow DEF MaySuspend
    <3> QED BY <3>1 DEF Frames
  <2>4. Calling(u) = Append(Below, f)
    BY DEF Calling
  <2> HIDE DEF f
  <2>5. /\ Calling(u) \in Seq(Frames) /\ Len(Calling(u)) = n + 1
        /\ \A k \in 1..n : Calling(u)[k] = stack[k]
        /\ Calling(u)[n + 1] = f
    BY <2>1, <2>2, <2>3, <2>4, AppendProperties
  <2>6. \A k \in 1..(n + 1) : /\ Calling(u)[k].entry = stack[k].entry
                              /\ Calling(u)[k].task = stack[k].task
    BY <2>2, <2>3, <2>5
  <2>7. Len(Calling(u)) # Len(stack) + 1 /\ Len(Calling(u)) = Len(stack)
    BY <2>1, <2>5
  <2> QED BY <1>3, <2>1, <2>5, <2>6, <2>7, BracketsLike
<1> QED BY <1>1, <1>2, <1>3

\* A segment is pushed.
LEMMA BracketsPushed ==
  ASSUME NEW r \in Seq(Frames), StackShape(r), NEW t \in Tasks,
         NEW e \in Bracketed \cup {"engine"},
         e \in Bracketed => ~Occupied(r, InstOf[t]),
         e = "engine" => t \in Promising,
         e = "cancel" => Kind[t] = "callback",
         r = <<>> => e \in {"host", "engine"}
  PROVE  WithSegment(r, Append(r, Frame(t, e)), t, e)
<1> DEFINE s == Append(r, Frame(t, e))
<1>1. PICK n \in Nat : Len(r) = n /\ DOMAIN r = 1..n
  BY LenProperties
<1>2. /\ Frame(t, e) \in Frames /\ Frame(t, e).task = t /\ Frame(t, e).entry = e
  BY FrameType DEF Frame, Bracketed, Entries
<1>3. /\ s \in Seq(Frames) /\ Len(s) = n + 1
      /\ \A k \in 1..n : s[k] = r[k]
      /\ s[n + 1].task = t /\ s[n + 1].entry = e
  BY <1>1, <1>2, AppendProperties
<1>4. DOMAIN s = 1..(n + 1)
  BY <1>3, LenProperties
<1> HIDE DEF s
<1>5. /\ "drive" \notin Bracketed \cup {"engine"} /\ t # None
      /\ "engine" \notin Bracketed /\ {"host", "cancel"} \subseteq Bracketed
  BY TaskAssumption DEF Bracketed
<1>6. \A k \in 1..(n + 1) : k \in 1..n \/ k = n + 1
  OBVIOUS
<1>7. 1..n \subseteq 1..(n + 1) /\ n + 1 \in 1..(n + 1) /\ n + 1 \notin 1..n
  OBVIOUS
<1>8. \A i \in Insts : Occupied(s, i) <=> Occupied(r, i) \/ (e \in Bracketed /\ InstOf[t] = i)
  BY <1>1, <1>3, <1>4, <1>6, <1>7 DEF Occupied
<1>9. HostOn(s) <=> HostOn(r) \/ e = "host"
  BY <1>1, <1>3, <1>4, <1>6, <1>7 DEF HostOn
<1>10. HostsOnce(r) /\ (e = "host" => ~HostOn(r)) => HostsOnce(s)
  BY <1>1, <1>3, <1>4, <1>6 DEF HostsOnce, HostOn
<1>11. StackShape(s)
  <2>1. \A j, k \in 1..(n + 1) : /\ s[j].entry \in Bracketed /\ s[k].entry \in Bracketed
                                 /\ InstOf[s[j].task] = InstOf[s[k].task]
                                 => j = k
    <3>1. \A j, k \in 1..n : /\ r[j].entry \in Bracketed /\ r[k].entry \in Bracketed
                             /\ InstOf[r[j].task] = InstOf[r[k].task]
                             => j = k
      BY <1>1 DEF StackShape
    <3>2. \A k \in 1..n : /\ r[k].entry \in Bracketed /\ e \in Bracketed
                          => InstOf[r[k].task] # InstOf[t]
      BY <1>1 DEF Occupied
    <3> QED BY <1>3, <1>6, <3>1, <3>2
  <2>2. \A k \in 1..(n + 1) : /\ s[k].entry = "drive" <=> s[k].task = None
                              /\ s[k].entry = "engine" => s[k].task \in Promising
                              /\ s[k].entry = "cancel" => Kind[s[k].task] = "callback"
    BY <1>1, <1>3, <1>5, <1>6 DEF StackShape
  <2>3. s[1].entry \in {"host", "engine"}
    <3>1. CASE n = 0
      BY <1>1, <1>3, <3>1, EmptySeq
    <3>2. CASE n # 0
      BY <1>1, <1>3, <3>2, EmptySeq DEF StackShape
    <3> QED BY <3>1, <3>2
  <2> QED BY <1>4, <2>1, <2>2, <2>3 DEF StackShape
<1> QED BY <1>3, <1>8, <1>9, <1>10, <1>11 DEF WithSegment, s

\* The top segment is left, with the driver under it or alone.
LEMMA BracketsPopped ==
  ASSUME NEW r \in Seq(Frames), StackShape(r), r # <<>>,
         NEW s \in Seq(Frames), Len(s) <= Len(r) - 1,
         \A k \in 1..Len(s) : s[k] = r[k],
         \A k \in (Len(s) + 1)..(Len(r) - 1) : r[k].entry = "drive"
  PROVE  WithoutTop(r, s)
<1>1. PICK n \in Nat : Len(r) = n + 1 /\ DOMAIN r = 1..(n + 1)
  <2>1. PICK l \in Nat : Len(r) = l /\ DOMAIN r = 1..l
    BY LenProperties
  <2>2. l - 1 \in Nat /\ l = (l - 1) + 1
    BY <2>1, EmptySeq
  <2> QED BY <2>1, <2>2
<1>2. PICK m \in Nat : Len(s) = m /\ DOMAIN s = 1..m /\ m <= n
  BY <1>1, LenProperties
<1>3. /\ \A k \in 1..m : s[k] = r[k] /\ k \in 1..(n + 1) /\ k # n + 1
      /\ \A k \in 1..(n + 1) : k \in 1..m \/ k = n + 1 \/ r[k].entry = "drive"
  <2>1. \A k \in 1..(n + 1) : k \in 1..m \/ k = n + 1 \/ k \in (m + 1)..(n + 1 - 1)
    BY <1>2
  <2> QED BY <1>1, <1>2, <2>1
<1>4. n + 1 \in 1..(n + 1) /\ "drive" \notin Bracketed /\ "host" \in Bracketed
  BY DEF Bracketed
<1>5. \A j, k \in 1..(n + 1) : /\ r[j].entry \in Bracketed /\ r[k].entry \in Bracketed
                               /\ InstOf[r[j].task] = InstOf[r[k].task]
                               => j = k
  BY <1>1 DEF StackShape
<1>6. \A i \in Insts : Occupied(s, i) <=>
       /\ Occupied(r, i)
       /\ ~(r[n + 1].entry \in Bracketed /\ InstOf[r[n + 1].task] = i)
  BY <1>1, <1>2, <1>3, <1>4, <1>5 DEF Occupied
<1>7. HostsOnce(r) => HostsOnce(s) /\ (HostOn(s) <=> HostOn(r) /\ r[n + 1].entry # "host")
  <2>1. HostsOnce(r) => HostsOnce(s)
    BY <1>1, <1>2, <1>3 DEF HostsOnce
  <2>2. HostsOnce(r) => (HostOn(s) <=> HostOn(r) /\ r[n + 1].entry # "host")
    BY <1>1, <1>2, <1>3, <1>4 DEF HostOn, HostsOnce
  <2> QED BY <2>1, <2>2
<1>8. StackShape(s)
  <2>1. \A j, k \in 1..m : /\ s[j].entry \in Bracketed /\ s[k].entry \in Bracketed
                           /\ InstOf[s[j].task] = InstOf[s[k].task]
                           => j = k
    BY <1>3, <1>5
  <2>2. \A k \in 1..m : /\ s[k].entry = "drive" <=> s[k].task = None
                        /\ s[k].entry = "engine" => s[k].task \in Promising
                        /\ s[k].entry = "cancel" => Kind[s[k].task] = "callback"
    BY <1>1, <1>3 DEF StackShape
  <2>3. s # <<>> => s[1].entry \in {"host", "engine"}
    <3>1. ASSUME s # <<>> PROVE 1 \in 1..m
      BY <1>2, <3>1, EmptySeq
    <3> QED BY <1>3, <3>1 DEF StackShape
  <2> QED BY <1>2, <2>1, <2>2, <2>3 DEF StackShape
<1> QED BY <1>1, <1>6, <1>7, <1>8 DEF WithoutTop

\* What ends a segment leaves, the driver of a nested host call included.
LEMMA BracketsBelow ==
  ASSUME stack \in Seq(Frames), StackShape(stack), stack # <<>>
  PROVE  WithoutTop(stack, Below) /\ WithoutTop(stack, PopEntry)
<1>1. PICK n \in Nat : Len(stack) = n + 1 /\ Len(Below) = n
  BY TopAndBelow
<1>2. Below \in Seq(Frames) /\ \A k \in 1..n : Below[k] = stack[k]
  BY <1>1, TopAndBelow
<1>3. WithoutTop(stack, Below)
  BY <1>1, <1>2, BracketsPopped
<1>4. CASE PopEntry = Below
  BY <1>3, <1>4
<1>5. CASE /\ Below # <<>> /\ Last(Below).entry = "drive"
           /\ PopEntry = SubSeq(Below, 1, Len(Below) - 1)
  <2>1. PICK m \in Nat : n = m + 1
    BY <1>1, <1>2, <1>5, EmptySeq
  <2>2. stack[n].entry = "drive"
    BY <1>1, <1>2, <1>5, <2>1 DEF Last
  <2>3. \A k \in 1..m : Below[k] = stack[k] /\ Below[k] \in Frames
    BY <1>1, <1>2, <2>1, ElementOfSeq
  <2>4. PopEntry = SubSeq(Below, 1, m)
    BY <1>1, <1>5, <2>1
  <2>5. /\ PopEntry \in Seq(Frames)
        /\ Len(PopEntry) = IF 1 <= m THEN m - 1 + 1 ELSE 0
    BY <2>3, <2>4, SubSeqProperties
  <2>6. Len(PopEntry) = m
    BY <2>5
  <2>7. \A k \in 1..Len(PopEntry) : PopEntry[k] = stack[k]
    BY PopEntryProperties
  <2>8. \A k \in (m + 1)..(n + 1 - 1) : k = n
    BY <2>1
  <2>9. \A k \in (Len(PopEntry) + 1)..(Len(stack) - 1) : stack[k].entry = "drive"
    BY <1>1, <2>2, <2>6, <2>8
  <2>10. Len(PopEntry) <= Len(stack) - 1
    BY <1>1, <2>1, <2>6
  <2> QED BY <1>3, <2>5, <2>7, <2>9, <2>10, BracketsPopped
<1> QED BY <1>4, <1>5 DEF PopEntry

-----------------------------------------------------------------------------
(* The lock mirrors the stack.                                               *)

\* An instance is closed while a segment that entered it is on the stack, and for
\* ever once it is poisoned; a poisoned one has no such segment left.
Locked ==
  /\ StackShape(stack)
  /\ unwinding => stack # <<>>
  /\ \A i \in Insts : Occupied(stack, i) => i \notin poisoned
  /\ \A i \in Insts : mayEnter[i] <=> ~Occupied(stack, i) /\ i \notin poisoned

\* The root is closed while a host entry is on the stack, except that without JSPI
\* a trap under way has released it already.
RootLocked ==
  /\ HostsOnce(stack)
  /\ \/ mayEnter[Root] <=> ~HostOn(stack)
     \/ unwinding /\ Promising = {}

\* With JSPI, every callback lift is wrapped: a cancellation never enters a plain
\* one.  (What happens otherwise is MCRootRelease's.)
WrappedCallbacks ==
  Promising = {} \/ \A t \in Tasks : Kind[t] = "callback" => t \in Promising

Lock == Locked /\ (WrappedCallbacks => RootLocked)

\* The entering set of a segment, by its entry.
LEMMA BracketSets ==
  ASSUME NEW t, NEW e
  PROVE  \A x : x \in Bracket(Frame(t, e)) <=>
           \/ e \in Bracketed /\ x = InstOf[t]
           \/ e = "host" /\ x = Root
BY DEF Bracket, Frame, Bracketed

\* The same of the top segment.
LEMMA TopBrackets ==
  ASSUME SlotInv, Locked, stack # <<>>
  PROVE  /\ \A x : x \in Bracket(Top) <=>
              \/ Top.entry \in Bracketed /\ x = InstOf[Top.task]
              \/ Top.entry = "host" /\ x = Root
         /\ Top = stack[Len(stack)]
         /\ Top.entry \in Entries /\ (Top.entry = "drive" <=> Top.task = None)
         /\ Top.entry # "drive" => Top.task \in Tasks
         /\ Top.entry \in Bracketed => Occupied(stack, InstOf[Top.task])
         /\ Top.entry = "host" => HostOn(stack)
<1>1. Len(stack) \in DOMAIN stack /\ Top = stack[Len(stack)] /\ Top \in Frames
  BY TopAndBelow, LenProperties DEF SlotInv, TypeOK, Top
<1>2. \A x : x \in Bracket(Top) <=>
              \/ Top.entry \in Bracketed /\ x = InstOf[Top.task]
              \/ Top.entry = "host" /\ x = Root
  BY DEF Bracket, Bracketed
<1>3. Top.entry \in Entries /\ (Top.entry = "drive" <=> Top.task = None)
  BY <1>1 DEF Frames, Locked, StackShape
<1>4. Top.entry # "drive" => Top.task \in Tasks
  BY <1>1, <1>3 DEF Frames
<1>5. Top.entry \in Bracketed => Occupied(stack, InstOf[Top.task])
  BY <1>1 DEF Occupied
<1>6. Top.entry = "host" => HostOn(stack)
  BY <1>1 DEF HostOn
<1> QED BY <1>1, <1>2, <1>3, <1>4, <1>5, <1>6

\* The stack keeps its brackets, and the lock stays.
LEMMA LockSame ==
  ASSUME Lock, NEW s, SameBrackets(stack, s), stack' = s, mayEnter' = mayEnter,
         poisoned' = poisoned, unwinding' = unwinding, unwinding => stack' = stack
  PROVE  Lock'
<1>1. /\ StackShape(stack') /\ \A i \in Insts : Occupied(stack', i) <=> Occupied(stack, i)
      /\ HostOn(stack') <=> HostOn(stack)
      /\ HostsOnce(stack) => HostsOnce(stack')
  BY DEF SameBrackets
<1>2. Locked'
  BY <1>1 DEF Lock, Locked
<1>3. WrappedCallbacks => RootLocked'
  BY <1>1 DEF Lock, RootLocked
<1> QED BY <1>2, <1>3 DEF Lock, WrappedCallbacks

\* A segment enters an instance that may be entered.
LEMMA LockEntered ==
  ASSUME SlotInv, Lock, NEW t \in Tasks, NEW e \in Bracketed \cup {"engine"}, NEW s,
         SameBrackets(stack, s), stack' = Append(s, Frame(t, e)),
         mayEnter' = Entered(Bracket(Frame(t, e))), poisoned' = poisoned,
         ~unwinding, ~unwinding',
         e \in Bracketed => mayEnter[InstOf[t]],
         e = "host" => mayEnter[Root],
         e = "engine" => t \in Promising,
         e = "cancel" => Kind[t] = "callback",
         s = <<>> => e \in {"host", "engine"}
  PROVE  Lock'
<1>1. InstOf[t] \in Insts /\ Root \notin Insts /\ "host" \in Bracketed
  BY TaskAssumption DEF Bracketed
<1>2. e \in Bracketed => ~Occupied(stack, InstOf[t]) /\ InstOf[t] \notin poisoned
  BY <1>1 DEF Lock, Locked
<1>3. WithSegment(s, stack', t, e)
  <2>1. e \in Bracketed => ~Occupied(s, InstOf[t])
    BY <1>1, <1>2 DEF SameBrackets
  <2> QED BY <2>1, BracketsPushed DEF SameBrackets
<1>4. /\ \A i \in Insts : mayEnter'[i] <=> mayEnter[i] /\ ~(e \in Bracketed /\ i = InstOf[t])
      /\ mayEnter'[Root] <=> mayEnter[Root] /\ e # "host"
  <2>1. \A x \in Insts \cup {Root} : mayEnter'[x] <=> mayEnter[x] /\ x \notin Bracket(Frame(t, e))
    BY DEF Entered
  <2> QED BY <1>1, <2>1, BracketSets
<1>5. stack' # <<>>
  BY <1>3 DEF WithSegment, SameBrackets, Occupied, HostOn
<1>6. Locked'
  <2>1. \A i \in Insts :
          Occupied(stack', i) <=> Occupied(stack, i) \/ (e \in Bracketed /\ InstOf[t] = i)
    BY <1>3 DEF WithSegment, SameBrackets
  <2>2. StackShape(stack')
    BY <1>3 DEF WithSegment
  <2> QED BY <1>2, <1>4, <2>1, <2>2 DEF Lock, Locked
<1>7. WrappedCallbacks => RootLocked'
  <2>1. HostOn(stack') <=> HostOn(stack) \/ e = "host"
    BY <1>3 DEF WithSegment, SameBrackets
  <2>2. HostsOnce(stack) /\ (e = "host" => ~HostOn(stack)) => HostsOnce(stack')
    BY <1>3 DEF WithSegment, SameBrackets
  <2> QED BY <1>4, <2>1, <2>2 DEF Lock, RootLocked
<1> QED BY <1>6, <1>7 DEF Lock, WrappedCallbacks

\* The top segment ends, and leaves what it entered.
LEMMA LockLeft ==
  ASSUME SlotInv, Lock, stack # <<>>, ~(unwinding /\ Promising = {}),
         stack' = Below, mayEnter' = Left(Bracket(Top)), poisoned' = poisoned,
         ~unwinding'
  PROVE  Lock'
<1>1. WithoutTop(stack, stack')
  BY BracketsBelow DEF Lock, Locked, SlotInv, TypeOK
<1>2. /\ \A i \in Insts : mayEnter'[i] <=>
           mayEnter[i] \/ (Top.entry \in Bracketed /\ i = InstOf[Top.task])
      /\ mayEnter'[Root] <=> mayEnter[Root] \/ Top.entry = "host"
  <2>1. Top.entry \in Bracketed => InstOf[Top.task] \in Insts
    BY TopBrackets, TaskAssumption DEF Lock, Bracketed
  <2>2. Root \notin Insts
    BY TaskAssumption
  <2>3. \A x : x \in Bracket(Top) <=>
              \/ Top.entry \in Bracketed /\ x = InstOf[Top.task]
              \/ Top.entry = "host" /\ x = Root
    BY TopBrackets DEF Lock
  <2>4. \A x \in Insts \cup {Root} : mayEnter'[x] <=> mayEnter[x] \/ x \in Bracket(Top)
    BY DEF Left
  <2> QED BY <2>1, <2>2, <2>3, <2>4
<1>3. Top = stack[Len(stack)] /\ (Top.entry \in Bracketed => Occupied(stack, InstOf[Top.task]))
  BY TopBrackets DEF Lock
<1>4. Locked'
  <2>1. \A i \in Insts : Occupied(stack', i) <=>
          Occupied(stack, i) /\ ~(Top.entry \in Bracketed /\ InstOf[Top.task] = i)
    BY <1>1, <1>3 DEF WithoutTop
  <2>2. StackShape(stack')
    BY <1>1 DEF WithoutTop
  <2> QED BY <1>2, <1>3, <2>1, <2>2 DEF Lock, Locked
<1>5. WrappedCallbacks => RootLocked'
  BY <1>1, <1>2, <1>3 DEF Lock, RootLocked, WithoutTop
<1> QED BY <1>4, <1>5 DEF Lock, WrappedCallbacks

\* A plain segment traps: its instance is poisoned, and the trap goes on to its
\* caller unless the host entered it.
LEMMA LockPoisoned ==
  ASSUME SlotInv, Lock, NEW t \in Tasks, TrapPoisons(t)
  PROVE  Lock'
<1>1. /\ stack # <<>> /\ Top.task = t /\ t \notin Promising
      /\ poisoned' = poisoned \cup {InstOf[t]}
      /\ mayEnter' = RootReleased(Top.entry)
      /\ stack' = PopEntry /\ unwinding' = (Top.entry \in {"fact", "cancel"})
  BY DEF TrapPoisons, TopIsGuest, MaySuspend
<1>2. WithoutTop(stack, stack')
  BY <1>1, BracketsBelow DEF Lock, Locked, SlotInv, TypeOK
<1>3. /\ Top = stack[Len(stack)] /\ Len(stack) \in DOMAIN stack
      /\ Top.entry \in Entries /\ (Top.entry = "drive" <=> Top.task = None)
      /\ Top.entry \in Bracketed => Occupied(stack, InstOf[Top.task])
      /\ Top.entry = "host" => HostOn(stack)
  BY <1>1, TopBrackets, TopAndBelow, LenProperties DEF Lock, SlotInv, TypeOK
<1>4. Top.entry \in Bracketed
  <2>1. Top.entry = "engine" => Top.task \in Promising
    BY <1>3 DEF Lock, Locked, StackShape
  <2> QED BY <1>1, <1>3, <2>1, TaskAssumption DEF Entries, Bracketed
<1>5. InstOf[t] \in Insts /\ Root \notin Insts
  BY TaskAssumption
<1>6. /\ \A i \in Insts : mayEnter'[i] <=> mayEnter[i]
      /\ mayEnter'[Root] <=> mayEnter[Root] \/ Top.entry \in {"host", "cancel"}
  BY <1>1, <1>5 DEF RootReleased, SlotInv, TypeOK
<1>7. unwinding' => stack' # <<>>
  <2>1. SUFFICES ASSUME Top.entry \in {"fact", "cancel"} PROVE PopEntry # <<>>
    BY <1>1
  <2>2. PopEntry = Below
    BY <2>1 DEF PopEntry
  <2>3. PICK n \in Nat : Len(stack) = n + 1 /\ Len(Below) = n
    BY <1>1, TopAndBelow DEF SlotInv, TypeOK
  <2>4. n # 0
    BY <1>1, <1>3, <2>1, <2>3 DEF Lock, Locked, StackShape
  <2> QED BY <2>2, <2>3, <2>4, EmptySeq
<1>8. Locked'
  <2>1. \A i \in Insts : Occupied(stack', i) <=> Occupied(stack, i) /\ InstOf[t] # i
    BY <1>1, <1>2, <1>3, <1>4 DEF WithoutTop
  <2>2. StackShape(stack')
    BY <1>2 DEF WithoutTop
  <2> QED BY <1>1, <1>3, <1>4, <1>6, <1>7, <2>1, <2>2 DEF Lock, Locked
<1>9. WrappedCallbacks => RootLocked'
  <2>1. SUFFICES ASSUME WrappedCallbacks PROVE RootLocked'
    OBVIOUS
  <2>2. /\ HostsOnce(stack) /\ HostsOnce(stack')
        /\ HostOn(stack') <=> HostOn(stack) /\ Top.entry # "host"
    BY <1>2, <1>3, <2>1 DEF WithoutTop, Lock, RootLocked
  <2>3. CASE Top.entry = "host"
    BY <1>6, <2>2, <2>3 DEF RootLocked
  <2>4. CASE Top.entry \in {"fact", "cancel"} /\ Promising = {}
    BY <1>1, <2>2, <2>4 DEF RootLocked
  <2>5. CASE Top.entry \in {"fact", "cancel"} /\ Promising # {}
    <3>1. Top.entry = "cancel" => Kind[t] = "callback"
      BY <1>1, <1>3 DEF Lock, Locked, StackShape
    <3>2. Top.entry = "fact"
      BY <1>1, <2>1, <2>5, <3>1 DEF WrappedCallbacks
    <3> QED BY <1>6, <2>1, <2>2, <2>5, <3>2 DEF Lock, RootLocked
  <2> QED BY <1>4, <2>3, <2>4, <2>5 DEF Bracketed
<1> QED BY <1>8, <1>9 DEF Lock, WrappedCallbacks

\* A rejection, or an exit without a resolution, closes the instance for good.
LEMMA LockBroken ==
  ASSUME SlotInv, Lock, NEW t \in Tasks, ServiceTrap(t)
  PROVE  Lock'
<1>1. /\ stack' = stack /\ unwinding' = unwinding /\ ~unwinding
      /\ InstOf[t] \notin poisoned /\ Enterable(InstOf[t])
      /\ poisoned' = poisoned \cup {InstOf[t]} /\ mayEnter' = Broken(InstOf[t])
  BY DEF ServiceTrap, TakeSettled, DriverTurn, Dispatchable, raceVars, jsVars
<1>2. InstOf[t] \in Insts /\ Root \notin Insts
  BY TaskAssumption
<1>3. /\ \A i \in Insts : mayEnter'[i] <=> mayEnter[i] /\ i # InstOf[t]
      /\ mayEnter'[Root] <=> mayEnter[Root]
  BY <1>1, <1>2 DEF Broken, Entered
<1>4. ~Occupied(stack, InstOf[t])
  BY <1>1, <1>2 DEF Enterable, Lock, Locked
<1>5. Locked'
  BY <1>1, <1>3, <1>4 DEF Lock, Locked
<1>6. WrappedCallbacks => RootLocked'
  BY <1>1, <1>3 DEF Lock, RootLocked
<1> QED BY <1>5, <1>6 DEF Lock, WrappedCallbacks

\* A call is let in or parks at the gate.
LEMMA LockEnter ==
  ASSUME SlotInv, Lock, NEW t \in Tasks, NEW e \in {"host", "fact"}, NEW s,
         SameBrackets(stack, s), Enter(t, e, s), poisoned' = poisoned,
         ~unwinding, unwinding' = unwinding, mayEnter[InstOf[t]],
         e = "host" => mayEnter[Root],
         s = <<>> => e = "host"
  PROVE  Lock'
<1>1. CASE stack' = s /\ mayEnter' = mayEnter
  BY <1>1, LockSame
<1>2. CASE Start(t, e, s)
  BY <1>2, LockEntered DEF Start, Bracketed
<1> QED BY <1>1, <1>2 DEF Enter

\* Host calls and the hop gate enter what is open,
LEMMA LockHost ==
  ASSUME SlotInv, Lock, NEW t \in Tasks, HostCall(t) \/ DeferHostCall(t) \/ HostGate(t)
  PROVE  Lock'
<1> USE DEF taskVars, raceVars, lockVars, gateVars, queueVars, jsVars
<1>0. /\ SameBrackets(stack, stack) /\ SameBrackets(stack, HostBase)
      /\ stack = <<>> => ~unwinding
  BY BracketsOfBases DEF SlotInv, TypeOK, Lock, Locked
<1>1. CASE HostCall(t)
  BY <1>0, <1>1, LockEnter DEF HostCall, EmbedderTurn, Enterable
<1>2. CASE DeferHostCall(t) \/ RecheckHops(t)
  BY <1>0, <1>2, LockSame DEF DeferHostCall, RecheckHops
<1>3. CASE AdmittedCall(t)
  <2>1. CASE /\ Enterable(InstOf[t]) /\ Enter(t, "host", <<>>)
             /\ poisoned' = poisoned /\ unwinding' = unwinding
    BY <1>0, <1>3, <2>1, LockEnter DEF AdmittedCall, Enterable
  <2>2. CASE UNCHANGED <<lockVars, jsVars>>
    BY <1>0, <2>2, LockSame
  <2> QED BY <1>3, <2>1, <2>2 DEF AdmittedCall
<1> QED BY <1>1, <1>2, <1>3 DEF HostGate

\* a segment that ends leaves what it entered,
LEMMA LockGuest ==
  ASSUME SlotInv, Lock, NEW t \in Tasks, GuestStep(t) \/ GuestReturn(t) \/ Trap(t)
  PROVE  Lock'
<1> USE DEF taskVars, raceVars, lockVars, gateVars, queueVars, jsVars
<1>0. SameBrackets(stack, stack)
  BY BracketsOfBases DEF SlotInv, TypeOK, Lock, Locked
<1>1. CASE GuestTaskReturn(t) \/ GuestTaskCancel(t) \/ GuestBackpressure(t)
  BY <1>0, <1>1, LockSame DEF GuestTaskReturn, GuestTaskCancel, GuestBackpressure
<1>2. CASE GuestHops(t)
  BY <1>2, LockLeft DEF GuestHops, TopOf, EndSegment
<1>3. CASE GuestMeetsCancel(t)
  BY <1>3, LockLeft DEF GuestMeetsCancel, Running, EndSegment
<1>4. CASE GuestBlocks(t)
  BY <1>4, LockLeft DEF GuestBlocks, TopOf, EndSegment
<1>5. ASSUME NEW c \in Codes, ReturnHops(t, c) \/ ReturnPlain(t, c) PROVE Lock'
  BY <1>5, LockLeft DEF ReturnHops, ReturnPlain, Running, EndSegment
<1>6. ASSUME NEW c \in Codes, ReturnToCancel(t, c) PROVE Lock'
  BY <1>0, <1>6, LockSame DEF ReturnToCancel
<1>7. CASE TrapHops(t)
  BY <1>7, LockLeft DEF TrapHops, TopIsGuest, MaySuspend, EndSegment
<1> QED BY <1>1, <1>2, <1>3, <1>4, <1>5, <1>6, <1>7, LockPoisoned DEF GuestStep, GuestReturn, Trap

\* a guest enters its callee alone,
LEMMA LockCall ==
  ASSUME SlotInv, Errands, Lock, NEW u \in Tasks, NEW t \in Tasks, GuestCall(u, t) \/ Cancel(u, t)
  PROVE  Lock'
<1> USE DEF taskVars, raceVars, lockVars, gateVars, queueVars, jsVars
<1>0. stack # <<>> /\ ~unwinding
  BY DEF GuestCall, Cancel, CancelAtGate, CancelAtLoop, CancelAtPoint, CancelRecorded,
         MayCancel, MayCallOut, Running
<1>1. SameBrackets(stack, Calling(u)) /\ Calling(u) # <<>>
  <2>1. SameBrackets(stack, Calling(u))
    BY <1>0, BracketsOfBases DEF SlotInv, TypeOK, Lock, Locked
  <2>2. Below \in Seq(Frames) /\ [Top EXCEPT !.susp = MaySuspend(u)] \in Frames
    <3>1. Below \in Seq(Frames) /\ Top \in Frames /\ MaySuspend(u) \in BOOLEAN
      BY <1>0, TopAndBelow DEF SlotInv, TypeOK, MaySuspend
    <3> QED BY <3>1 DEF Frames
  <2> QED BY <2>1, <2>2, AppendProperties DEF Calling
<1>2. CASE GuestCall(u, t)
  BY <1>0, <1>1, <1>2, LockEnter DEF GuestCall, CalleeEnterable
<1>3. CASE CancelAtLoop(u, t)
  <2>1. Bracket(Frame(t, "cancel")) = {InstOf[t]}
    BY DEF Bracket, Frame
  <2>2. Kind[t] = "callback" /\ mayEnter[InstOf[t]]
    BY <1>3 DEF CancelAtLoop, Deliverable, Errands
  <2> QED BY <1>0, <1>1, <1>3, <2>1, <2>2, LockEntered DEF CancelAtLoop, Bracketed
<1>4. CASE CancelAtGate(u, t)
  BY <1>0, <1>1, <1>4, LockSame DEF CancelAtGate
<1>5. CASE CancelAtPoint(u, t)
  BY <1>0, <1>1, <1>5, LockSame DEF CancelAtPoint
<1>6. CASE CancelRecorded(u, t)
  BY <1>0, <1>1, <1>6, LockSame DEF CancelRecorded
<1> QED BY <1>2, <1>3, <1>4, <1>5, <1>6 DEF Cancel

\* and the engine, the drivers and the scheduler enter what is open.
LEMMA LockDriven ==
  ASSUME SlotInv, Errands, Lock, NEW t \in Tasks, Engine(t) \/ Service(t) \/ Tick(t) \/ Signal(t)
  PROVE  Lock'
<1> USE DEF taskVars, raceVars, lockVars, gateVars, queueVars, jsVars
<1>0. /\ SameBrackets(stack, stack) /\ (stack = <<>> => ~unwinding)
      /\ DriverTurn => ~unwinding
      /\ Bracket(Frame(t, "host")) = {InstOf[t], Root} /\ Bracket(Frame(t, "engine")) = {}
  BY BracketsOfBases DEF SlotInv, TypeOK, Lock, Locked, DriverTurn, Bracket, Frame
<1>1. CASE EngineResume(t)
  <2>1. stack' = Append(stack, Frame(t, "engine")) /\ t \in Promising
    BY <1>1 DEF EngineResume, Errands, Travelling
  <2>2. mayEnter' = Entered({})
    BY <1>1 DEF EngineResume, Entered, SlotInv, TypeOK
  <2> QED BY <1>0, <1>1, <2>1, <2>2, LockEntered DEF EngineResume, Bracketed
<1>2. CASE Settle(t) \/ Signal(t)
  BY <1>0, <1>2, LockSame DEF Settle, Signal
<1>3. CASE ServiceRetired(t) \/ ServiceReturn(t)
  BY <1>0, <1>3, LockSame DEF ServiceRetired, ServiceReturn
<1>4. CASE ServiceToCancel(t)
  <2>1. Enterable(InstOf[t]) /\ DriverTurn
    BY <1>4 DEF ServiceToCancel, TakeSettled, Dispatchable
  <2> QED BY <1>0, <1>4, <2>1, LockEntered DEF ServiceToCancel, Enterable, Bracketed
<1>5. Chosen(t) => Enterable(InstOf[t]) /\ DriverTurn
  BY DEF Chosen, Candidate
<1>6. CASE TickGate(t)
  BY <1>0, <1>5, <1>6, LockEntered DEF TickGate, Start, Enterable, Bracketed
<1>7. CASE TickLoop(t)
  BY <1>0, <1>5, <1>7, LockEntered DEF TickLoop, Enterable, Bracketed
<1>8. CASE TickPoint(t)
  BY <1>0, <1>8, LockSame DEF TickPoint
<1> QED BY <1>1, <1>2, <1>3, <1>4, <1>6, <1>7, <1>8, LockBroken DEF Engine, Service, Tick

\* A nested driver holds nothing.
LEMMA LockDriveYields ==
  ASSUME SlotInv, Lock, DriveYields
  PROVE  Lock'
<1>1. /\ stack # <<>> /\ Top.entry = "drive" /\ ~unwinding /\ stack' = Below
      /\ mayEnter' = mayEnter /\ poisoned' = poisoned /\ ~unwinding'
  BY DEF DriveYields, DriverTurn, raceVars, lockVars
<1>2. mayEnter = Left(Bracket(Top))
  <2>1. Bracket(Top) = {}
    BY <1>1 DEF Bracket
  <2> QED BY <2>1 DEF Left, SlotInv, TypeOK
<1> QED BY <1>1, <1>2, LockLeft

\* The lock mirrors the stack, step by step.
LEMMA LockNext ==
  ASSUME SlotInv, Errands, Lock, [Next]_vars
  PROVE  Lock'
<1>1. ASSUME NEW t \in Tasks,
             \/ HostCall(t) \/ DeferHostCall(t) \/ HostGate(t)
             \/ GuestStep(t) \/ GuestReturn(t) \/ Trap(t)
             \/ Engine(t) \/ Service(t) \/ Tick(t) \/ Signal(t)
      PROVE  Lock'
  BY <1>1, LockHost, LockGuest, LockDriven
<1>2. ASSUME NEW u \in Tasks, NEW t \in Tasks, GuestCall(u, t) \/ Cancel(u, t)
      PROVE  Lock'
  BY <1>2, LockCall
<1>3. CASE UNCHANGED vars
  <2>1. SameBrackets(stack, stack)
    BY BracketsOfBases DEF SlotInv, TypeOK, Lock, Locked
  <2> QED BY <1>3, <2>1, LockSame DEF vars, raceVars, lockVars, jsVars
<1>4. CASE Races
  <2>1. SameBrackets(stack, stack)
    BY BracketsOfBases DEF SlotInv, TypeOK, Lock, Locked
  <2> QED BY <1>4, <2>1, LockSame, RacesStill DEF lockVars, jsVars
<1> QED BY <1>1, <1>2, <1>3, <1>4, LockDriveYields DEF Next, Races

\* Nothing is closed in the first state.
LEMMA LockInit == Begun => Lock
<1> SUFFICES ASSUME Begun PROVE Lock
  OBVIOUS
<1>1. ~HostOn(stack) /\ HostsOnce(stack) /\ StackShape(stack)
      /\ \A i \in Insts : ~Occupied(stack, i)
  BY DEF Begun, HostOn, HostsOnce, StackShape, Occupied
<1> QED BY <1>1 DEF Begun, Lock, Locked, RootLocked

-----------------------------------------------------------------------------
(* What follows.                                                             *)

\* With the asserts of the lock: all that is known of a store.
StoreInv == SlotInv /\ Errands /\ Queued /\ Lock /\ (WrappedCallbacks => NoAssertFails)

\* What a segment is about to enter is open, and what one leaves is closed.
LEMMA LockAsserts ==
  ASSUME SlotInv, Lock, WrappedCallbacks
  PROVE  /\ stack # <<>> /\ ~(unwinding /\ Promising = {}) => ~CannotLeave(Bracket(Top))
         /\ \A t \in Tasks, e \in Entries :
              /\ e \in Bracketed => mayEnter[InstOf[t]]
              /\ e = "host" => mayEnter[Root]
              => ~CannotEnter(Bracket(Frame(t, e)))
<1>1. ASSUME stack # <<>>, ~(unwinding /\ Promising = {})
      PROVE  ~CannotLeave(Bracket(Top))
  <2>1. SUFFICES ASSUME NEW x \in Bracket(Top) PROVE ~mayEnter[x]
    BY DEF CannotLeave
  <2>2. CASE Top.entry \in Bracketed /\ x = InstOf[Top.task]
    BY <1>1, <2>2, TopBrackets, TaskAssumption DEF Lock, Locked, Bracketed
  <2>3. CASE Top.entry = "host" /\ x = Root
    BY <1>1, <2>3, TopBrackets DEF Lock, RootLocked
  <2> QED BY <1>1, <2>1, <2>2, <2>3, TopBrackets DEF Lock
<1>2. ASSUME NEW t \in Tasks, NEW e \in Entries,
             e \in Bracketed => mayEnter[InstOf[t]], e = "host" => mayEnter[Root]
      PROVE  ~CannotEnter(Bracket(Frame(t, e)))
  BY <1>2, BracketSets DEF CannotEnter
<1> QED BY <1>1, <1>2

\* Entering an open instance breaks no assert.
LEMMA EnterAsserts ==
  ASSUME SlotInv, Lock, WrappedCallbacks, NEW t \in Tasks, NEW e \in {"host", "fact"}, NEW s,
         Enter(t, e, s), mayEnter[InstOf[t]], e = "host" => mayEnter[Root]
  PROVE  NoAssertFails'
<1>1. ~CannotEnter(Bracket(Frame(t, e)))
  BY LockAsserts DEF Entries
<1>2. ~GateClosed(t) => ~(NeedsExclusive(t) /\ exclusiveThread[InstOf[t]] # None)
  BY GateFreesSlot
<1> QED BY <1>1, <1>2 DEF Enter, Start, NoAssertFails

\* Ending the top segment breaks none,
LEMMA EndAsserts ==
  ASSUME SlotInv, Lock, WrappedCallbacks, stack # <<>>, ~(unwinding /\ Promising = {}), EndSegment
  PROVE  NoAssertFails'
BY LockAsserts DEF EndSegment, NoAssertFails

\* nor does any other step, where a trap in a cancellation cannot release the
\* root under a host entry.
LEMMA AssertsNext ==
  ASSUME StoreInv, WrappedCallbacks, [Next]_vars
  PROVE  NoAssertFails'
<1> USE DEF taskVars, raceVars, lockVars, gateVars, queueVars, jsVars
<1>0. SlotInv /\ Errands /\ Lock /\ NoAssertFails /\ (stack = <<>> => ~unwinding)
  BY DEF StoreInv, Lock, Locked
<1>1. ASSUME NEW t \in Tasks, HostCall(t) \/ DeferHostCall(t) \/ HostGate(t)
      PROVE  NoAssertFails'
  <2>1. CASE HostCall(t)
    BY <1>0, <2>1, EnterAsserts DEF HostCall, Enterable
  <2>2. CASE DeferHostCall(t) \/ RecheckHops(t)
    BY <1>0, <2>2 DEF DeferHostCall, RecheckHops, NoAssertFails
  <2>3. CASE AdmittedCall(t)
    <3>1. CASE Enterable(InstOf[t]) /\ Enter(t, "host", <<>>)
      BY <1>0, <3>1, EnterAsserts DEF Enterable
    <3>2. CASE UNCHANGED lockVars
      BY <1>0, <3>2 DEF NoAssertFails
    <3> QED BY <2>3, <3>1, <3>2 DEF AdmittedCall
  <2> QED BY <1>1, <2>1, <2>2, <2>3 DEF HostGate
<1>2. ASSUME NEW t \in Tasks, GuestStep(t)
      PROVE  NoAssertFails'
  <2>1. CASE GuestTaskReturn(t) \/ GuestTaskCancel(t) \/ GuestBackpressure(t)
    BY <1>0, <2>1 DEF GuestTaskReturn, GuestTaskCancel, GuestBackpressure, NoAssertFails
  <2>2. CASE GuestHops(t) \/ GuestMeetsCancel(t) \/ GuestBlocks(t)
    BY <1>0, <2>2, EndAsserts DEF GuestHops, GuestMeetsCancel, GuestBlocks, TopOf, Running
  <2> QED BY <1>2, <2>1, <2>2 DEF GuestStep
<1>3. ASSUME NEW t \in Tasks, pc[t] \in {"guest", "tail"}
      PROVE  ~SlotLost(t)
  BY <1>0, <1>3 DEF SlotLost, SlotInv, ExclusiveSlot, MidInvocation
<1>4. ASSUME NEW t \in Tasks, NEW c \in Codes,
             ReturnHops(t, c) \/ ReturnPlain(t, c) \/ ReturnToCancel(t, c)
      PROVE  NoAssertFails'
  <2>1. stack # <<>> /\ ~unwinding /\ pc[t] = "guest"
    BY <1>4 DEF ReturnHops, ReturnPlain, ReturnToCancel, Running
  <2>2. ~CannotLeave(Bracket(Top)) /\ ~SlotLost(t)
    BY <1>0, <1>3, <2>1, LockAsserts
  <2> QED BY <1>4, <2>2 DEF ReturnHops, ReturnPlain, ReturnToCancel, EndSegment, NoAssertFails
<1>5. ASSUME NEW t \in Tasks, Trap(t)
      PROVE  NoAssertFails'
  <2>1. CASE TrapHops(t)
    BY <1>0, <2>1, EndAsserts DEF TrapHops, TopIsGuest, MaySuspend
  <2>2. CASE TrapPoisons(t)
    BY <1>0, <2>2 DEF TrapPoisons, NoAssertFails
  <2> QED BY <1>5, <2>1, <2>2 DEF Trap
<1>6. ASSUME NEW t \in Tasks, Enterable(InstOf[t])
      PROVE  ~CannotEnter({InstOf[t], Root})
  BY <1>6 DEF Enterable, CannotEnter
<1>7. ASSUME NEW t \in Tasks, Engine(t) \/ Signal(t)
      PROVE  NoAssertFails'
  BY <1>0, <1>7 DEF Engine, EngineResume, Settle, Signal, NoAssertFails
<1>8. ASSUME NEW t \in Tasks, Service(t)
      PROVE  NoAssertFails'
  <2>1. CASE ServiceRetired(t)
    BY <1>0, <2>1 DEF ServiceRetired, NoAssertFails
  <2>2. ASSUME TakeSettled(t), InstOf[t] \notin poisoned
        PROVE  ~CannotEnter({InstOf[t], Root}) /\ ~SlotLost(t)
    <3>1. Enterable(InstOf[t]) /\ pc[t] = "tail"
      BY <1>0, <2>2, TakenIsTail DEF TakeSettled, Dispatchable
    <3> QED BY <1>3, <1>6, <3>1
  <2>3. CASE ServiceReturn(t)
    BY <2>2, <2>3 DEF ServiceReturn, NoAssertFails
  <2>4. CASE ServiceToCancel(t)
    BY <2>2, <2>4 DEF ServiceToCancel, NoAssertFails
  <2>5. CASE ServiceTrap(t)
    BY <2>2, <2>5 DEF ServiceTrap, NoAssertFails
  <2> QED BY <1>8, <2>1, <2>3, <2>4, <2>5 DEF Service
<1>9. ASSUME NEW t \in Tasks, Tick(t)
      PROVE  NoAssertFails'
  <2>1. Enterable(InstOf[t]) /\ Ready(t)
    BY <1>9 DEF Tick, TickGate, TickLoop, TickPoint, Chosen, Candidate
  <2>2. ~CannotEnter({InstOf[t], Root})
    BY <1>6, <2>1
  <2>3. CASE TickGate(t)
    <3>1. ~CannotEnter(Bracket(Frame(t, "host")))
      BY <2>2 DEF Bracket, Frame
    <3>2. ~(NeedsExclusive(t) /\ exclusiveThread[InstOf[t]] # None)
      BY <2>1, <2>3, GateFreesSlot DEF TickGate, Ready
    <3> QED BY <2>3, <3>1, <3>2 DEF TickGate, Start, NoAssertFails
  <2>4. CASE TickLoop(t)
    BY <2>1, <2>2, <2>4 DEF TickLoop, Ready, NoAssertFails
  <2>5. CASE TickPoint(t)
    BY <2>2, <2>5 DEF TickPoint, NoAssertFails
  <2> QED BY <1>9, <2>3, <2>4, <2>5 DEF Tick
<1>10. ASSUME NEW u \in Tasks, NEW t \in Tasks, GuestCall(u, t)
       PROVE  NoAssertFails'
  BY <1>0, <1>10, EnterAsserts DEF GuestCall, CalleeEnterable
<1>11. ASSUME NEW u \in Tasks, NEW t \in Tasks, Cancel(u, t)
       PROVE  NoAssertFails'
  <2>1. mayEnter[InstOf[t]] => ~CannotEnter({InstOf[t]})
    BY DEF CannotEnter
  <2>2. CASE CancelAtGate(u, t) \/ CancelRecorded(u, t)
    BY <1>0, <2>2 DEF CancelAtGate, CancelRecorded, NoAssertFails
  <2>3. CASE CancelAtPoint(u, t)
    BY <2>1, <2>3 DEF CancelAtPoint, Deliverable, NoAssertFails
  <2>4. CASE CancelAtLoop(u, t)
    <3>1. NeedsExclusive(t) /\ mayEnter[InstOf[t]] /\ exclusiveThread[InstOf[t]] \in {None, t}
      BY <1>0, <2>4 DEF CancelAtLoop, Deliverable, SlotElsewhere, Errands, NeedsExclusive
    <3>2. exclusiveThread[InstOf[t]] # t
      BY <1>0, <2>4, TaskAssumption
         DEF CancelAtLoop, SlotInv, ExclusiveSlot, MidInvocation
    <3> QED BY <2>1, <2>4, <3>1, <3>2 DEF CancelAtLoop, NoAssertFails
  <2> QED BY <1>11, <2>2, <2>3, <2>4 DEF Cancel
<1>12. CASE DriveYields \/ UNCHANGED vars
  BY <1>0, <1>12 DEF DriveYields, vars, NoAssertFails
<1>13. CASE Races
  BY <1>0, <1>13, RacesStill DEF NoAssertFails
<1> QED BY <1>1, <1>2, <1>4, <1>5, <1>7, <1>8, <1>9, <1>10, <1>11, <1>12, <1>13
        DEF Next, GuestReturn, Races

-----------------------------------------------------------------------------
(* The theorems about queues and lock.                                       *)

\* Nobody waits and nothing is on the stack at the beginning.
LEMMA StoreInvInit == Begun => StoreInv
BY SlotInit, ErrandsInit, QueuedInit, LockInit DEF Begun, StoreInv, NoAssertFails

\* Every step keeps what is known of a store.
LEMMA StoreInvNext ==
  ASSUME StoreInv, [Next]_vars
  PROVE  StoreInv'
<1>1. SlotInv'
  BY SlotNext DEF StoreInv
<1>2. Errands' /\ Queued' /\ Lock'
  BY <1>1, ErrandsNext, QueuedNext, LockNext DEF StoreInv
<1>3. WrappedCallbacks => NoAssertFails'
  BY AssertsNext
<1> QED BY <1>1, <1>2, <1>3 DEF StoreInv, WrappedCallbacks

\* The queues hold who waits, the lock says what is on the stack, pending entries
\* name activations on their way or in a race, and no assert fails: together inductive.
THEOREM StoreInvariant == Spec => []StoreInv
<1>1. Init => StoreInv
  BY InitBegins, StoreInvInit
<1>2. StoreInv /\ [Next]_vars => StoreInv'
  BY StoreInvNext
<1> QED BY <1>1, <1>2, PTL DEF Spec

\* The lock says what is on the stack, and one host entry is live at a time.
LEMMA LockIsBracket == Locked /\ RootLocked => LockBracket
<1> SUFFICES ASSUME Locked, RootLocked, ~unwinding PROVE
      /\ \A i \in Insts :
           mayEnter[i] <=> ~OnStack({"host", "fact", "cancel"}, i) /\ i \notin poisoned
      /\ mayEnter[Root] <=> HostFrames = {}
      /\ Cardinality(HostFrames) <= 1
  BY DEF LockBracket
<1>1. \A i : OnStack({"host", "fact", "cancel"}, i) <=> Occupied(stack, i)
  BY DEF OnStack, Occupied, Bracketed
<1>2. HostFrames = {} <=> ~HostOn(stack)
  BY DEF HostFrames, HostOn
<1>3. Cardinality(HostFrames) <= 1
  <2>1. CASE HostFrames = {}
    BY <2>1, FS_EmptySet
  <2>2. CASE HostFrames # {}
    <3>1. PICK k : k \in HostFrames
      BY <2>2
    <3>2. HostFrames = {k}
      BY <3>1 DEF HostFrames, RootLocked, HostsOnce
    <3> QED BY <3>2, FS_Singleton
  <2> QED BY <2>1, <2>2
<1> QED BY <1>1, <1>2, <1>3 DEF Locked, RootLocked

\* What the invariant says of the queues, and of lock and asserts if no
\* cancellation enters a plain callback lift.
LEMMA StoreInvSuffices ==
  ASSUME StoreInv
  PROVE  /\ QueuesExact /\ PendingOnTheWay
         /\ WrappedCallbacks => LockBracket /\ NoAssertFails
<1>1. QueuesExact
  BY DEF StoreInv, Queued, Holds, QueuesExact, Parked, Tails, Gated, Parking
<1>2. PendingOnTheWay
  BY DEF StoreInv, Errands
<1>3. WrappedCallbacks => LockBracket /\ NoAssertFails
  BY LockIsBracket DEF StoreInv, Lock
<1> QED BY <1>1, <1>2, <1>3

\* num_waiting_to_enter counts the entrants parked at the gate, and each of the
\* two queues holds the threads that belong there, each once.
THEOREM QueuesHold == Spec => []QueuesExact
<1>1. StoreInv => QueuesExact
  BY StoreInvSuffices
<1> QED BY <1>1, StoreInvariant, PTL

\* An entry of pendingResumptions, at which every loop yields, names an activation
\* that is on its way, or that a loop has entered for its race and not yet dropped:
\* no entry outlives both the activation's errand and the race.
THEOREM PendingHolds == Spec => []PendingOnTheWay
<1>1. StoreInv => PendingOnTheWay
  BY StoreInvSuffices
<1> QED BY <1>1, StoreInvariant, PTL

\* An instance is closed iff a segment entered it or it is poisoned, the root iff
\* one host entry is live, if no cancellation enters a plain callback lift.
THEOREM LockMirrorsStack ==
  ASSUME WrappedCallbacks
  PROVE  Spec => []LockBracket
<1>1. StoreInv => LockBracket
  BY StoreInvSuffices
<1> QED BY <1>1, StoreInvariant, PTL

\* No assert_ of the lock, the gate or the callback loop fails, under the same
\* condition.
THEOREM AssertsHold ==
  ASSUME WrappedCallbacks
  PROVE  Spec => []NoAssertFails
<1>1. StoreInv => NoAssertFails
  BY StoreInvSuffices
<1> QED BY <1>1, StoreInvariant, PTL

\* A new segment is entered only where the lock is open.
LEMMA EntersOpen ==
  ASSUME SlotInv, Next, NEW t \in Tasks, pc[t] \notin {"resumed", "guest"}, pc'[t] = "guest"
  PROVE  mayEnter[InstOf[t]]
<1> USE DEF taskVars, raceVars, lockVars, gateVars, queueVars, jsVars, SlotInv, TypeOK
<1>1. ASSUME NEW u \in Tasks, HostCall(u) \/ DeferHostCall(u) \/ HostGate(u)
      PROVE  mayEnter[InstOf[t]]
  <2>1. CASE HostCall(u)
    BY <2>1 DEF HostCall, Enter, Start, Enterable
  <2>2. CASE DeferHostCall(u) \/ RecheckHops(u)
    BY <2>2 DEF DeferHostCall, RecheckHops, RaceHops
  <2>3. CASE AdmittedCall(u)
    BY <2>3 DEF AdmittedCall, Enter, Start, Enterable
  <2> QED BY <1>1, <2>1, <2>2, <2>3 DEF HostGate
<1>2. ASSUME NEW u \in Tasks, GuestStep(u)
      PROVE  mayEnter[InstOf[t]]
  BY <1>2 DEF GuestStep, GuestTaskReturn, GuestTaskCancel, GuestBackpressure, GuestHops,
              GuestMeetsCancel, GuestBlocks
<1>3. ASSUME NEW u \in Tasks, NEW c \in Codes,
             ReturnHops(u, c) \/ ReturnPlain(u, c) \/ ReturnToCancel(u, c)
      PROVE  mayEnter[InstOf[t]]
  BY <1>3 DEF ReturnHops, ReturnPlain, ReturnToCancel, CancelAtWait, Finish, Loop, Running
<1>4. ASSUME NEW u \in Tasks, Trap(u)
      PROVE  mayEnter[InstOf[t]]
  BY <1>4 DEF Trap, TrapHops, TrapPoisons
<1>5. ASSUME NEW u \in Tasks, Engine(u) \/ Signal(u)
      PROVE  mayEnter[InstOf[t]]
  BY <1>5 DEF Engine, EngineResume, Settle, Signal
<1>6. ASSUME NEW u \in Tasks, Service(u)
      PROVE  mayEnter[InstOf[t]]
  BY <1>6 DEF Service, ServiceRetired, ServiceReturn, ServiceToCancel, ServiceTrap, Rechecking,
              Finish, Loop, CancelAtWait, TakeSettled, Dispatchable, Enterable
<1>7. ASSUME NEW u \in Tasks, Tick(u)
      PROVE  mayEnter[InstOf[t]]
  BY <1>7 DEF Tick, TickGate, TickLoop, TickPoint, Start, Chosen, Candidate, Enterable
<1>8. ASSUME NEW v \in Tasks, NEW u \in Tasks, GuestCall(v, u) \/ Cancel(v, u)
      PROVE  mayEnter[InstOf[t]]
  BY <1>8 DEF GuestCall, Enter, Start, CalleeEnterable, Cancel, CancelAtGate, CancelAtLoop,
              CancelAtPoint, CancelRecorded, Deliverable
<1>9. CASE DriveYields \/ Races
  BY <1>9, RacesStill DEF DriveYields
<1> QED BY <1>1, <1>2, <1>3, <1>4, <1>5, <1>6, <1>7, <1>8, <1>9 DEF Next, GuestReturn, Races

\* An instance that is poisoned stays so.
LEMMA PoisonStays ==
  ASSUME [Next]_vars
  PROVE  poisoned \subseteq poisoned'
<1> USE DEF vars, taskVars, raceVars, lockVars, gateVars, queueVars, jsVars
<1>1. ASSUME NEW t \in Tasks,
             \/ HostCall(t) \/ DeferHostCall(t) \/ HostGate(t) \/ GuestStep(t) \/ Engine(t)
             \/ Signal(t)
      PROVE  poisoned' = poisoned
  BY <1>1 DEF HostCall, DeferHostCall, HostGate, RecheckHops, AdmittedCall, GuestStep,
              GuestTaskReturn, GuestTaskCancel, GuestBackpressure, GuestHops,
              GuestMeetsCancel, GuestBlocks, Engine, EngineResume, Settle, Signal
<1>2. ASSUME NEW t \in Tasks, GuestReturn(t) \/ Trap(t) \/ Service(t) \/ Tick(t)
      PROVE  poisoned \subseteq poisoned'
  BY <1>2 DEF GuestReturn, ReturnHops, ReturnPlain, ReturnToCancel, Trap, TrapHops, TrapPoisons,
              Service, ServiceRetired, ServiceReturn, ServiceToCancel, ServiceTrap,
              Tick, TickGate, TickLoop, TickPoint
<1>3. ASSUME NEW u \in Tasks, NEW t \in Tasks, GuestCall(u, t) \/ Cancel(u, t)
      PROVE  poisoned' = poisoned
  BY <1>3 DEF GuestCall, Cancel, CancelAtGate, CancelAtLoop, CancelAtPoint, CancelRecorded
<1>4. CASE Races
  BY <1>4, RacesStill
<1> QED BY <1>1, <1>2, <1>3, <1>4 DEF Next, DriveYields, Races

\* The step of a store never enters a poisoned instance, nor opens it again.
LEMMA DeadStepsOut ==
  ASSUME StoreInv, [Next]_vars
  PROVE  DeadStaysOut
<1>1. SUFFICES ASSUME NEW i \in poisoned
               PROVE  /\ i \in poisoned' /\ ~mayEnter'[i]
                      /\ \A t \in Tasks : /\ InstOf[t] = i /\ pc[t] \notin {"resumed", "guest"}
                                          => pc'[t] # "guest"
  BY DEF DeadStaysOut
<1>2. i \in poisoned' /\ i \in Insts /\ ~mayEnter[i]
  BY PoisonStays DEF StoreInv, SlotInv, TypeOK, Lock, Locked
<1>3. ~mayEnter'[i]
  BY <1>2, StoreInvNext DEF StoreInv, Lock, Locked
<1>4. ASSUME NEW t \in Tasks, InstOf[t] = i, pc[t] \notin {"resumed", "guest"}
      PROVE  pc'[t] # "guest"
  <2>1. CASE Next
    BY <1>2, <1>4, <2>1, EntersOpen DEF StoreInv
  <2>2. CASE UNCHANGED vars
    BY <1>4, <2>2 DEF vars, taskVars, raceVars
  <2> QED BY <2>1, <2>2
<1> QED BY <1>2, <1>3, <1>4

\* Once poisoned an instance stays closed, and neither the scheduler nor a host
\* call, a guest call or a cancellation enters it again.
THEOREM DeadStaysClosed == Spec => [][DeadStaysOut]_vars
<1>1. StoreInv /\ [Next]_vars => [DeadStaysOut]_vars
  BY DeadStepsOut
<1> QED BY <1>1, StoreInvariant, PTL DEF Spec

\* The task neither was called nor will be.
Uncalled(t) == pc[t] = "done" /\ state[t] = "initial"

\* Such a task has no part in any step, and no step makes another one such.
LEMMA UncalledStays ==
  ASSUME StoreInv, [Next]_vars, NEW t \in Tasks
  PROVE  Uncalled(t)' <=> Uncalled(t)
<1> USE DEF Uncalled, taskVars, raceVars, lockVars, gateVars, queueVars, jsVars, StoreInv, SlotInv,
            TypeOK
<1>1. ASSUME NEW u \in Tasks, HostCall(u) \/ DeferHostCall(u) \/ HostGate(u)
      PROVE  Uncalled(t)' <=> Uncalled(t)
  <2>1. CASE HostCall(u)
    BY <2>1 DEF HostCall, Enter, Start
  <2>2. CASE DeferHostCall(u) \/ RecheckHops(u)
    BY <2>2 DEF DeferHostCall, RecheckHops, RaceHops
  <2>3. CASE AdmittedCall(u)
    BY <2>3 DEF AdmittedCall, Enter, Start
  <2> QED BY <1>1, <2>1, <2>2, <2>3 DEF HostGate
<1>2. ASSUME NEW u \in Tasks, GuestStep(u)
      PROVE  Uncalled(t)' <=> Uncalled(t)
  BY <1>2 DEF GuestStep, GuestTaskReturn, GuestTaskCancel, GuestBackpressure, GuestHops,
              GuestMeetsCancel, GuestBlocks, TopOf, Running
<1>3. ASSUME NEW u \in Tasks, NEW c \in Codes,
             ReturnHops(u, c) \/ ReturnPlain(u, c) \/ ReturnToCancel(u, c)
      PROVE  Uncalled(t)' <=> Uncalled(t)
  BY <1>3 DEF ReturnHops, ReturnPlain, ReturnToCancel, CancelAtWait, Finish, Loop, Running
<1>4. ASSUME NEW u \in Tasks, Trap(u)
      PROVE  Uncalled(t)' <=> Uncalled(t)
  <2>1. pc[u] = "guest"
    BY <1>4, TopAtGuest DEF Trap, TrapHops, TrapPoisons, TopIsGuest
  <2> QED BY <1>4, <2>1 DEF Trap, TrapHops, TrapPoisons
<1>5. ASSUME NEW u \in Tasks, Engine(u) \/ Signal(u)
      PROVE  Uncalled(t)' <=> Uncalled(t)
  BY <1>5 DEF Engine, EngineResume, Settle, Signal
<1>6. ASSUME NEW u \in Tasks, Service(u)
      PROVE  Uncalled(t)' <=> Uncalled(t)
  <2>1. pc[u] = "tail"
    BY <1>6, TakenIsTail DEF Service, ServiceRetired, ServiceReturn, ServiceToCancel, ServiceTrap
  <2> QED BY <1>6, <2>1 DEF Service, ServiceRetired, ServiceReturn, ServiceToCancel,
                            ServiceTrap, Rechecking, Finish, Loop, CancelAtWait
<1>7. ASSUME NEW u \in Tasks, Tick(u)
      PROVE  Uncalled(t)' <=> Uncalled(t)
  BY <1>7 DEF Tick, TickGate, TickLoop, TickPoint, Start
<1>8. ASSUME NEW v \in Tasks, NEW u \in Tasks, GuestCall(v, u) \/ Cancel(v, u)
      PROVE  Uncalled(t)' <=> Uncalled(t)
  BY <1>8 DEF GuestCall, Enter, Start, Cancel, CancelAtGate, CancelAtLoop, CancelAtPoint,
              CancelRecorded
<1>9. CASE DriveYields \/ Races \/ UNCHANGED vars
  BY <1>9, RacesStill DEF DriveYields, vars
<1> QED BY <1>1, <1>2, <1>3, <1>4, <1>5, <1>6, <1>7, <1>8, <1>9 DEF Next, GuestReturn, Races

\* What NoOvertaking says of one step.
Overtakes(t, u) ==
  /\ t # u /\ InstOf[t] = InstOf[u] /\ IsAsync(u) /\ NeedsExclusive(t) = NeedsExclusive(u)
  /\ pc[t] = "gate" /\ (pc[u] = "gate" => Precedes(t, u))
  /\ pc[u] \in {"none", "admitted", "gate"}
  /\ pc'[u] = "guest"

\* A newcomer finds the gate closed while somebody waits there,
LEMMA GateHolds ==
  ASSUME StoreInv, NEW t \in Tasks, NEW u \in Tasks, pc[t] = "gate", InstOf[t] = InstOf[u],
         IsAsync(u)
  PROVE  GateClosed(u)
<1>1. InstOf[u] \in Insts /\ t \in Gated(InstOf[u])
  BY TaskAssumption DEF Gated
<1>2. Cardinality(Gated(InstOf[u])) \in Nat /\ Cardinality(Gated(InstOf[u])) # 0
  BY <1>1, FS_EmptySet, FS_CardinalityType DEF StoreInv, Queued
<1>3. numWaitingToEnter[InstOf[u]] > 0
  BY <1>1, <1>2 DEF StoreInv, Queued
<1> QED BY <1>3 DEF GateClosed

\* and a tick takes the first of those it could let in.
LEMMA FirstIsChosen ==
  ASSUME StoreInv, Fifo, NEW t \in Tasks, NEW u \in Tasks, t # u, InstOf[t] = InstOf[u],
         NeedsExclusive(t) = NeedsExclusive(u), pc[t] = "gate", pc[u] = "gate", Chosen(u)
  PROVE  ~Precedes(t, u)
<1>1. SUFFICES ASSUME NEW i \in DOMAIN waiting, NEW j \in DOMAIN waiting,
                      i < j, waiting[i] = t, waiting[j] = u
               PROVE  FALSE
  BY DEF Precedes
<1>2. PICK k \in DOMAIN waiting :
        /\ waiting[k] = u /\ Candidate(u)
        /\ \A m \in 1..(k - 1) : ~Candidate(waiting[m])
  BY DEF Chosen
<1>3. k = j
  BY <1>1, <1>2 DEF StoreInv, Queued, Holds, IsInjective
<1>4. i \in 1..(k - 1)
  <2>1. PICK n \in Nat : DOMAIN waiting = 1..n
    BY LenProperties DEF StoreInv, SlotInv, TypeOK
  <2> QED BY <1>1, <1>3, <2>1
<1>5. ~Candidate(t)
  BY <1>1, <1>2, <1>4
<1> QED BY <1>2, <1>5 DEF Candidate, Ready, HasBackpressure

\* Under the FIFO policy a task is not started while one with the same needs
\* waits ahead of it at the gate of its instance.
LEMMA NobodyOvertakes ==
  ASSUME StoreInv, Fifo, Next, NEW t \in Tasks, NEW u \in Tasks, Overtakes(t, u)
  PROVE  FALSE
<1> USE DEF taskVars, raceVars, lockVars, gateVars, queueVars, jsVars
<1>0. pc \in [Tasks -> Places] /\ GateClosed(u)
  BY GateHolds DEF Overtakes, StoreInv, SlotInv, TypeOK
<1>1. pc[u] \in {"none", "admitted", "gate"} /\ pc'[u] = "guest"
  BY DEF Overtakes
<1>2. ASSUME NEW v \in Tasks, HostCall(v) \/ DeferHostCall(v) \/ HostGate(v)
      PROVE  FALSE
  <2>1. CASE HostCall(v)
    BY <1>0, <1>1, <2>1 DEF HostCall, Enter, Start
  <2>2. CASE DeferHostCall(v) \/ RecheckHops(v)
    BY <1>0, <1>1, <2>2 DEF DeferHostCall, RecheckHops, RaceHops
  <2>3. CASE AdmittedCall(v)
    BY <1>0, <1>1, <2>3 DEF AdmittedCall, Enter, Start
  <2> QED BY <1>2, <2>1, <2>2, <2>3 DEF HostGate
<1>3. ASSUME NEW v \in Tasks, GuestStep(v) \/ GuestReturn(v) \/ Trap(v)
      PROVE  FALSE
  <2>1. CASE GuestStep(v)
    BY <1>0, <1>1, <2>1
       DEF GuestStep, GuestTaskReturn, GuestTaskCancel, GuestBackpressure, GuestHops,
           GuestMeetsCancel, GuestBlocks
  <2>2. CASE GuestReturn(v)
    BY <1>0, <1>1, <2>2
       DEF GuestReturn, ReturnHops, ReturnPlain, ReturnToCancel, CancelAtWait, Finish, Loop, Running
  <2>3. CASE Trap(v)
    BY <1>0, <1>1, <2>3 DEF Trap, TrapHops, TrapPoisons
  <2> QED BY <1>3, <2>1, <2>2, <2>3
<1>4. ASSUME NEW v \in Tasks, Engine(v) \/ Service(v) \/ Signal(v)
      PROVE  FALSE
  <2>1. CASE Service(v)
    <3>1. pc[v] = "tail"
      BY <2>1, TakenIsTail DEF Service, ServiceRetired, ServiceReturn, ServiceToCancel, ServiceTrap,
                               StoreInv
    <3> QED BY <1>0, <1>1, <2>1, <3>1
            DEF Service, ServiceRetired, ServiceReturn, ServiceToCancel, ServiceTrap,
                CancelAtWait, Finish, Loop
  <2>2. CASE Engine(v) \/ Signal(v)
    BY <1>0, <1>1, <2>2 DEF Engine, EngineResume, Settle, Signal
  <2> QED BY <1>4, <2>1, <2>2
<1>5. ASSUME NEW v \in Tasks, Tick(v)
      PROVE  FALSE
  <2>1. CASE TickGate(v)
    <3>1. v = u
      BY <1>0, <1>1, <2>1 DEF TickGate, Start
    <3> QED BY <2>1, <3>1, FirstIsChosen DEF TickGate, Overtakes
  <2>2. CASE TickLoop(v) \/ TickPoint(v)
    BY <1>0, <1>1, <2>2 DEF TickLoop, TickPoint
  <2> QED BY <1>5, <2>1, <2>2 DEF Tick
<1>6. ASSUME NEW w \in Tasks, NEW v \in Tasks, GuestCall(w, v) \/ Cancel(w, v)
      PROVE  FALSE
  <2>1. CASE GuestCall(w, v)
    BY <1>0, <1>1, <2>1 DEF GuestCall, Enter, Start
  <2>2. CASE Cancel(w, v)
    BY <1>0, <1>1, <2>2 DEF Cancel, CancelAtGate, CancelAtLoop, CancelAtPoint, CancelRecorded
  <2> QED BY <1>6, <2>1, <2>2
<1>7. ~DriveYields /\ ~Races
  BY <1>1, RacesStill DEF DriveYields
<1> QED BY <1>2, <1>3, <1>4, <1>5, <1>6, <1>7 DEF Next, Races

\* Entry is a queue under the FIFO policy.
THEOREM EntryIsFifo ==
  ASSUME Fifo
  PROVE  Spec => NoOvertaking
<1>1. StoreInv /\ [Next]_vars =>
        [\A t, u \in Tasks :
           /\ t # u /\ InstOf[t] = InstOf[u] /\ IsAsync(u) /\ NeedsExclusive(t) = NeedsExclusive(u)
           /\ pc[t] = "gate" /\ (pc[u] = "gate" => Precedes(t, u))
           /\ pc[u] \in {"none", "admitted", "gate"}
           => pc'[u] # "guest"]_vars
  BY NobodyOvertakes DEF Overtakes
<1> QED BY <1>1, StoreInvariant, PTL DEF Spec, NoOvertaking

=============================================================================
