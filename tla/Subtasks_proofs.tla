--------------------------- MODULE Subtasks_proofs ---------------------------
(* Subtasks, proved for every set of calls and of handles, every assignment   *)
(* of borrows to calls, both suspension modes and every bound: the invariants *)
(* that MCSubtasks checks.                                                    *)
EXTENDS Subtasks, FiniteSetTheorems, TLAPS

-----------------------------------------------------------------------------
(* The inductive invariant: per call, what the caller's place for it, the      *)
(* callee's thread, Task.state, Subtask.state and the lends know of one        *)
(* another.                                                                    *)

\* A callee that has not passed the gate has borrowed nothing and told nothing,
\* and the caller has it somewhere, and no dead callee is entered; `seg' is the segment that
\* runs now.
Begun(c) ==
  /\ callee[c] = "seg" <=> run = c
  /\ callee[c] \in {"none", "gate"} =>
       lenders[c] = {} /\ borrows[c] = {} /\ state[c] = "initial" /\ st[c] = "starting"
  /\ callee[c] = "none" => place[c] = "none" \/ (entered = c /\ place[c] \in {"async", "sync"})
  /\ callee[c] = "none" /\ entered = c => "callee" \notin dead
  /\ place[c] = "none" => callee[c] = "none"
  /\ callee[c] = "gate" => place[c] \in {"async", "sync", "table", "bailed"}

\* The subtask resolves with its task, or by the trap of its callee.
Ended(c) ==
  /\ Resolved(c) => state[c] = "resolved" \/ callee[c] = "trapped"
  /\ state[c] = "resolved" => Resolved(c) /\ borrows[c] = {}
  /\ callee[c] = "done" => state[c] = "resolved"
  /\ callee[c] = "trapped" => "callee" \in dead
  /\ callee[c] \in {"loop", "sp", "spc", "hop"} => turns[c] < MaxTurns

\* A delivered call lends nothing, and in the table it has resolved; a call the
\* caller is done with is delivered.
Settled(c) ==
  /\ delivered[c] => place[c] \in {"table", "over", "dropped", "bailed"}
  /\ delivered[c] /\ place[c] # "bailed" => lenders[c] = {}
  /\ delivered[c] /\ place[c] = "table" => Resolved(c)
  /\ place[c] \in {"over", "dropped"} => delivered[c]
  /\ cancel[c] # "no" => place[c] \in {"table", "dropped"}
  /\ place[c] = "table" => /\ Resolved(c) => ev[c] # delivered[c]
                           /\ told[c] \in Resolutions <=> delivered[c]

\* What the callee of a live call borrows is still lent, and what is lent
\* exists.
Borrowed(c) ==
  /\ place[c] # "bailed" /\ "callee" \notin dead => borrows[c] \subseteq lenders[c]
  /\ dead = {} => \A h \in lenders[c] : handle[h]

Account(c) == Begun(c) /\ Ended(c) /\ Settled(c) /\ Borrowed(c)

\* The stack of one caller built-in and one segment.
Stack ==
  /\ run # None /\ entered # None => run = entered
  /\ entered # None => place[entered] \in {"async", "sync", "table"}

Accounts == TypeOK /\ Stack /\ \A c \in Calls : Account(c)

SubtaskInv == Accounts /\ LendsExact

LEMMA SubtaskInvInit == Init => SubtaskInv
<1> SUFFICES ASSUME Init PROVE SubtaskInv
  OBVIOUS
<1> USE CallAssumption DEF Init
<1>1. TypeOK
  <2>1. /\ mode \in Modes /\ run = None /\ entered = None /\ dead = {} /\ fault = "none"
        /\ closed = FALSE
        /\ lenders \in [Calls -> SUBSET Handles] /\ borrows \in [Calls -> SUBSET Handles]
        /\ numLends \in [Handles -> Nat] /\ handle \in [Handles -> BOOLEAN]
    OBVIOUS
  <2>2. /\ delivered \in [Calls -> BOOLEAN] /\ ev \in [Calls -> BOOLEAN]
        /\ inSet \in [Calls -> BOOLEAN] /\ woken \in [Calls -> BOOLEAN]
        /\ turns \in [Calls -> 0 .. MaxTurns + 1]
    OBVIOUS
  <2>3. /\ st \in [Calls -> SubtaskStates] /\ place \in [Calls -> Places]
        /\ cancel \in [Calls -> Cancels] /\ told \in [Calls -> SubtaskStates \cup {"nothing"}]
        /\ callee \in [Calls -> Spots]
        /\ state \in [Calls -> {"initial", "started", "pending-cancel", "cancel-delivered",
                             "resolved"}]
    BY DEF SubtaskStates, Places, Spots, Cancels
  <2> QED BY <2>1, <2>2, <2>3 DEF TypeOK
<1>2. Stack
  BY DEF Stack
<1>3. ASSUME NEW c \in Calls PROVE Account(c)
  BY DEF Account, Begun, Ended, Settled, Borrowed, Resolved, Resolutions
<1>4. LendsExact
  <2>1. ASSUME NEW h \in Handles PROVE numLends[h] = Cardinality({c \in Calls : h \in lenders[c]})
    <3>1. {c \in Calls : h \in lenders[c]} = {}
      OBVIOUS
    <3> QED BY <3>1, FS_EmptySet
  <2> QED BY <2>1 DEF LendsExact
<1> QED BY <1>1, <1>2, <1>3, <1>4 DEF SubtaskInv, Accounts

-----------------------------------------------------------------------------
(* The accounts of lends.                                                      *)

Borrowers(h) == {c \in Calls : h \in lenders[c]}

\* The calls are finitely many, so what is lent of a handle is a number.
LEMMA BorrowersFinite ==
  ASSUME NEW h
  PROVE  IsFiniteSet(Borrowers(h)) /\ Cardinality(Borrowers(h)) \in Nat
BY CallAssumption, FS_Subset, FS_CardinalityType DEF Borrowers

\* Lending what the call has not lent yet keeps the count.
LEMMA LendCounts ==
  ASSUME TypeOK, LendsExact, NEW c \in Calls, NEW S \in SUBSET Handles,
         S \cap lenders[c] = {}, Lend(c, S)
  PROVE  numLends' \in [Handles -> Nat] /\ LendsExact'
<1>1. numLends' \in [Handles -> Nat]
  <2>1. \A h \in Handles : numLends[h] \in Nat
    BY DEF TypeOK
  <2> QED BY <2>1 DEF Lend
<1>2. ASSUME NEW h \in Handles PROVE numLends'[h] = Cardinality(Borrowers(h)')
  <2>1. numLends[h] = Cardinality(Borrowers(h)) /\ IsFiniteSet(Borrowers(h))
    BY BorrowersFinite DEF LendsExact, Borrowers
  <2>2. CASE h \in S
    <3>1. Borrowers(h)' = Borrowers(h) \cup {c} /\ c \notin Borrowers(h)
      BY <2>2 DEF Borrowers, Lend, TypeOK
    <3>2. Cardinality(Borrowers(h) \cup {c}) = Cardinality(Borrowers(h)) + 1
      BY <2>1, <3>1, FS_AddElement
    <3>3. numLends'[h] = numLends[h] + 1
      BY <2>2 DEF Lend
    <3> QED BY <2>1, <3>1, <3>2, <3>3
  <2>3. CASE h \notin S
    <3>1. Borrowers(h)' = Borrowers(h)
      BY <2>3 DEF Borrowers, Lend, TypeOK
    <3>2. numLends'[h] = numLends[h]
      BY <2>3 DEF Lend
    <3> QED BY <2>1, <3>1, <3>2
  <2> QED BY <2>2, <2>3
<1> QED BY <1>1, <1>2 DEF LendsExact, Borrowers

\* Giving back what the call has lent keeps the count, and no count falls
\* below zero.
LEMMA ReleaseCounts ==
  ASSUME TypeOK, LendsExact, NEW c \in Calls, Release(c)
  PROVE  numLends' \in [Handles -> Nat] /\ LendsExact'
<1>1. ASSUME NEW h \in Handles
      PROVE  numLends'[h] \in Nat /\ numLends'[h] = Cardinality(Borrowers(h)')
  <2>1. numLends[h] = Cardinality(Borrowers(h)) /\ IsFiniteSet(Borrowers(h))
    BY BorrowersFinite DEF LendsExact, Borrowers
  <2>2. CASE h \in lenders[c]
    <3>1. Borrowers(h)' = Borrowers(h) \ {c} /\ c \in Borrowers(h)
      BY <2>2 DEF Borrowers, Release, TypeOK
    <3>2. /\ Cardinality(Borrowers(h) \ {c}) = Cardinality(Borrowers(h)) - 1
          /\ IsFiniteSet(Borrowers(h) \ {c})
      BY <2>1, <3>1, FS_RemoveElement
    <3>3. Cardinality(Borrowers(h) \ {c}) \in Nat
      BY <3>2, FS_CardinalityType
    <3>4. numLends'[h] = numLends[h] - 1
      BY <2>2 DEF Release
    <3> QED BY <2>1, <3>1, <3>2, <3>3, <3>4
  <2>3. CASE h \notin lenders[c]
    <3>1. Borrowers(h)' = Borrowers(h)
      BY <2>3 DEF Borrowers, Release, TypeOK
    <3>2. numLends'[h] = numLends[h] /\ numLends[h] \in Nat
      BY <2>3 DEF Release, TypeOK
    <3> QED BY <2>1, <3>1, <3>2
  <2> QED BY <2>2, <2>3
<1>2. numLends' \in [Handles -> Nat]
  BY <1>1 DEF Release
<1> QED BY <1>1, <1>2 DEF LendsExact, Borrowers

\* A step that leaves the lends alone keeps the count.
LEMMA KeptCounts ==
  ASSUME TypeOK, LendsExact, UNCHANGED <<lenders, numLends>>
  PROVE  numLends' \in [Handles -> Nat] /\ LendsExact'
<1>1. numLends' \in [Handles -> Nat]
  BY DEF TypeOK
<1>2. LendsExact'
  BY DEF LendsExact
<1> QED BY <1>1, <1>2

\* Every step counts right: a call lends while it has lent nothing, and
\* gives back exactly what it lent.
LEMMA StartCounts ==
  ASSUME SubtaskInv, NEW c \in Calls, callee[c] \in {"none", "gate"}, Start(c) \/ StartTraps(c)
  PROVE  numLends' \in [Handles -> Nat] /\ LendsExact'
<1> USE DEF SubtaskInv, Accounts
<1>1. lenders[c] = {} /\ Lent[c] \in SUBSET Handles
  BY CallAssumption DEF Account, Begun
<1>2. CASE Start(c)
  BY <1>1, <1>2, LendCounts DEF Start
<1>3. CASE StartTraps(c)
  BY <1>1, <1>3, LendCounts, ReleaseCounts DEF StartTraps, Unwind
<1> QED BY <1>2, <1>3

LEMMA StepCounts ==
  ASSUME SubtaskInv, Next
  PROVE  numLends' \in [Handles -> Nat] /\ LendsExact'
<1> USE DEF SubtaskInv, Accounts
<1>1. ASSUME NEW c \in Calls, CallerStep(c) PROVE Release(c) \/ UNCHANGED <<lenders, numLends>>
  BY <1>1 DEF CallerStep, Call, Report, ReportParks, ReportLater, DoReport, SyncReturns, SyncParks,
              SyncBails, Deliver, DropSubtask, Join, CancelResolved, Cancel, CancelFinishes,
              CancelWaits, CancelReturns, FinishCancel, TakeEvent, LendsKept, subVars
<1>2. ASSUME NEW c \in Calls, EnterCallee(c) \/ Tick(c)
      PROVE  \/ callee[c] \in {"none", "gate"} /\ (Start(c) \/ StartTraps(c))
             \/ UNCHANGED <<lenders, numLends>>
  BY <1>2 DEF EnterCallee, Tick, LendsKept
<1>3. ASSUME NEW c \in Calls, CalleeStep(c), ~EnterCallee(c), ~Tick(c)
      PROVE  Release(c) \/ UNCHANGED <<lenders, numLends>>
  BY <1>3 DEF CalleeStep, Wake, EngineResumes, TaskReturn, TaskCancel, SetBackpressure, SeesCancel,
              DropBorrow, SegmentEnds, SegmentTraps, Traps, Unwind, LendsKept, subVars
<1>4. ASSUME \/ \E h \in Handles : DropHandle(h) \/ DropLent(h)
             \/ CallerTraps \/ OtherTraps
      PROVE  UNCHANGED <<lenders, numLends>>
  BY <1>4 DEF DropHandle, DropLent, CallerTraps, OtherTraps, subVars
<1> QED BY <1>1, <1>2, <1>3, <1>4, StartCounts, ReleaseCounts, KeptCounts DEF Next

-----------------------------------------------------------------------------
(* A step of one call and the accounts of the others.                          *)

\* What the account of a call speaks of, apart from the instances and handles.
Same(d) ==
  /\ st'[d] = st[d] /\ place'[d] = place[d] /\ lenders'[d] = lenders[d]
  /\ delivered'[d] = delivered[d] /\ ev'[d] = ev[d] /\ cancel'[d] = cancel[d]
  /\ told'[d] = told[d] /\ callee'[d] = callee[d] /\ state'[d] = state[d]
  /\ borrows'[d] = borrows[d] /\ turns'[d] = turns[d]

\* No handle disappears, no instance revives, and d is neither left nor run.
Unmoved(d) ==
  /\ dead \subseteq dead' /\ handle' = handle
  /\ run' = d <=> run = d
  /\ callee[d] = "none" => /\ entered = d <=> entered' = d
                           /\ entered = d => dead' = dead

LEMMA OtherAccounts ==
  ASSUME NEW d \in Calls, Account(d), Same(d), Unmoved(d)
  PROVE  Account(d)'
BY DEF Account, Begun, Ended, Settled, Borrowed, Same, Unmoved, Resolved, Resolutions

\* A step of one call.
LEMMA OneCall ==
  ASSUME Accounts, NEW c \in Calls, TypeOK', Stack', Account(c)',
         \A d \in Calls : d # c => Same(d) /\ Unmoved(d)
  PROVE  Accounts'
BY OtherAccounts DEF Accounts

-----------------------------------------------------------------------------
(* The callee's steps.                                                         *)

\* Past the gate, entered from the caller's built-in or from a tick.
LEMMA StartKeeps ==
  ASSUME Accounts, numLends' \in [Handles -> Nat], NEW c \in Calls, Start(c),
         callee[c] \in {"none", "gate"}, run = None, "callee" \notin dead,
         entered \in {c, None}, callee[c] = "none" => entered = c,
         fault' = "none", UNCHANGED <<mode, inSet, told, handle, woken, turns, closed>>
  PROVE  Accounts'
<1> USE CallAssumption DEF Accounts, Start
<1>1. TypeOK'
  <2>1. ev' \in [Calls -> BOOLEAN]
    BY DEF TypeOK
  <2>2. lenders' \in [Calls -> SUBSET Handles] /\ borrows' \in [Calls -> SUBSET Handles]
    BY DEF Lend, TypeOK
  <2>3. /\ st' \in [Calls -> SubtaskStates] /\ callee' \in [Calls -> Spots]
        /\ state' \in [Calls -> {"initial", "started", "pending-cancel", "cancel-delivered",
                             "resolved"}]
    BY DEF TypeOK, SubtaskStates, Spots
  <2>4. /\ mode' \in Modes /\ place' \in [Calls -> Places] /\ delivered' \in [Calls -> BOOLEAN]
        /\ inSet' \in [Calls -> BOOLEAN] /\ cancel' \in [Calls -> Cancels]
        /\ told' \in [Calls -> SubtaskStates \cup {"nothing"}]
        /\ handle' \in [Handles -> BOOLEAN] /\ woken' \in [Calls -> BOOLEAN]
    BY DEF TypeOK
  <2>5. /\ turns' \in [Calls -> 0 .. MaxTurns + 1] /\ closed' \in BOOLEAN
        /\ run' \in Calls \cup {None} /\ entered' \in Calls \cup {None}
        /\ dead' \subseteq {"caller", "callee"} /\ fault' = "none"
    BY DEF TypeOK
  <2> HIDE DEF Start, Accounts
  <2> QED BY <2>1, <2>2, <2>3, <2>4, <2>5 DEF TypeOK
<1>2. Stack'
  BY DEF Stack
<1>3. ASSUME NEW d \in Calls, d # c PROVE Same(d) /\ Unmoved(d)
  BY <1>3 DEF Same, Unmoved, TypeOK, Lend
<1>4. Account(c)'
  <2>1. /\ Account(c) /\ place[c] # "none" /\ place'[c] = place[c] /\ handle' = handle
        /\ dead' = dead /\ cancel'[c] = cancel[c] /\ delivered'[c] = delivered[c]
        /\ told'[c] = told[c]
    BY DEF Stack, Account, Begun
  <2>2. /\ st'[c] = "started" /\ state'[c] = "started" /\ callee'[c] = "seg" /\ run' = c
        /\ borrows'[c] = Lent[c] /\ lenders'[c] = lenders[c] \cup Lent[c]
        /\ \A h \in Lent[c] : handle[h]
    BY DEF TypeOK, Lend
  <2>3. dead = {} => \A h \in lenders[c] \cup Lent[c] : handle[h]
    BY <2>1, <2>2 DEF Account, Borrowed
  <2> HIDE DEF Start, Accounts
  <2> QED BY <2>1, <2>2, <2>3 DEF Account, Begun, Ended, Settled, Borrowed, Resolved, Resolutions
<1> QED BY <1>1, <1>2, <1>3, <1>4, OneCall

\* The transfer of the borrows traps.
LEMMA StartTrapsKeeps ==
  ASSUME Accounts, numLends' \in [Handles -> Nat], NEW c \in Calls, StartTraps(c),
         callee[c] \in {"none", "gate"}, run = None,
         entered \in {c, None}, callee[c] = "none" => entered = c,
         entered = c => place[c] # "table",
         fault' = "none", UNCHANGED <<mode, inSet, told, handle, woken, turns, closed>>
  PROVE  Accounts'
<1> USE CallAssumption DEF Accounts, StartTraps
<1>0. lenders' \in [Calls -> SUBSET Handles] /\ st' \in [Calls -> SubtaskStates]
      /\ place' \in [Calls -> Places] /\ delivered' \in [Calls -> BOOLEAN]
  <2>1. CASE entered = c
    <3>1. st' \in [Calls -> SubtaskStates]
      BY <2>1 DEF Unwind, TypeOK, SubtaskStates, Resolutions
    <3>2. place' \in [Calls -> Places]
      BY <2>1 DEF TypeOK, Places
    <3>3. lenders' \in [Calls -> SUBSET Handles] /\ delivered' \in [Calls -> BOOLEAN]
      BY <2>1 DEF Unwind, Release, TypeOK
    <3> QED BY <3>1, <3>2, <3>3
  <2>2. CASE entered # c
    <3>1. PICK S \in SUBSET {h \in Lent[c] : handle[h]} : Lend(c, S)
      BY <2>2
    <3>2. S \subseteq Handles
      OBVIOUS
    <3>3. lenders' \in [Calls -> SUBSET Handles]
      BY <3>1, <3>2 DEF Lend, TypeOK
    <3> QED BY <2>2, <3>3 DEF TypeOK
  <2> QED BY <2>1, <2>2
<1>1. TypeOK'
  <2>3. /\ callee' \in [Calls -> Spots]
        /\ state' \in [Calls -> {"initial", "started", "pending-cancel", "cancel-delivered",
                             "resolved"}]
    BY DEF TypeOK, Spots
  <2>4. /\ mode' \in Modes /\ ev' \in [Calls -> BOOLEAN] /\ borrows' \in [Calls -> SUBSET Handles]
        /\ inSet' \in [Calls -> BOOLEAN] /\ cancel' \in [Calls -> Cancels]
        /\ told' \in [Calls -> SubtaskStates \cup {"nothing"}]
        /\ handle' \in [Handles -> BOOLEAN] /\ woken' \in [Calls -> BOOLEAN]
    BY DEF TypeOK
  <2>5. /\ turns' \in [Calls -> 0 .. MaxTurns + 1] /\ closed' \in BOOLEAN
        /\ run' \in Calls \cup {None} /\ entered' \in Calls \cup {None}
        /\ dead' \subseteq {"caller", "callee"} /\ fault' = "none"
    BY DEF TypeOK
  <2> HIDE DEF StartTraps, Accounts
  <2> QED BY <1>0, <2>3, <2>4, <2>5 DEF TypeOK
<1>2. Stack'
  BY DEF Stack
<1>3. ASSUME NEW d \in Calls, d # c PROVE Same(d) /\ Unmoved(d)
  BY ZenonT(60), <1>3 DEF Same, Unmoved, TypeOK, Lend, Unwind, Release
<1>4. Account(c)'
  <2>1. /\ Account(c) /\ place[c] # "none" /\ handle' = handle
        /\ "callee" \in dead' /\ cancel'[c] = cancel[c] /\ told'[c] = told[c] /\ ev'[c] = ev[c]
        /\ borrows'[c] = {} /\ run' = None /\ entered' = None
        /\ state'[c] = "started" /\ callee'[c] = "trapped"
    BY ZenonT(60) DEF Stack, Account, Begun, TypeOK
  <2>2. CASE entered = c
    <3>1. /\ place'[c] = "over" /\ lenders'[c] = {} /\ delivered'[c] = TRUE
          /\ st'[c] = "cancelled-before-started"
      <4>1. ~Resolved(c)
        BY DEF Account, Begun, Resolved, Resolutions
      <4> QED BY ZenonT(60), <2>2, <4>1 DEF Unwind, Release, TypeOK
    <3>2. place[c] \in {"async", "sync"}
      BY <2>2 DEF Stack
    <3> HIDE DEF StartTraps, Accounts
    <3> QED BY <2>1, <3>1, <3>2 DEF Account, Begun, Ended, Settled, Borrowed, Resolved, Resolutions
  <2>3. CASE entered # c
    <3>1. /\ place'[c] = place[c] /\ delivered'[c] = delivered[c]
          /\ st'[c] = st[c] /\ callee[c] = "gate"
      BY <2>3 DEF TypeOK
    <3> HIDE DEF StartTraps, Accounts
    <3> QED BY <2>1, <3>1 DEF Account, Begun, Ended, Settled, Borrowed, Resolved, Resolutions
  <2> QED BY <2>2, <2>3
<1> QED BY <1>1, <1>2, <1>3, <1>4, OneCall

\* What the callee waits for happens.
LEMMA WakeKeeps ==
  ASSUME Accounts, numLends' \in [Handles -> Nat], NEW c \in Calls, Wake(c)
  PROVE  Accounts'
<1> USE CallAssumption DEF Accounts, Wake, subVars, taskVars
<1>1. TypeOK'
  BY DEF TypeOK
<1>2. Stack'
  BY DEF TypeOK, Stack, Account, Begun
<1>3. ASSUME NEW d \in Calls, d # c PROVE Same(d) /\ Unmoved(d)
  BY <1>3 DEF Same, Unmoved, TypeOK, Stack, Account, Begun
<1>4. Account(c)'
  BY DEF TypeOK, Account, Begun, Ended, Settled, Borrowed, Resolved, Resolutions
<1> QED BY <1>1, <1>2, <1>3, <1>4, OneCall

\* The callee opens or closes its gate.
LEMMA BackpressureKeeps ==
  ASSUME Accounts, numLends' \in [Handles -> Nat], NEW c \in Calls, SetBackpressure(c)
  PROVE  Accounts'
<1> USE CallAssumption DEF Accounts, SetBackpressure, subVars, taskVars
<1>1. TypeOK'
  BY DEF TypeOK
<1>2. Stack'
  BY DEF TypeOK, Stack, Account, Begun
<1>3. ASSUME NEW d \in Calls, d # c PROVE Same(d) /\ Unmoved(d)
  BY <1>3 DEF Same, Unmoved, TypeOK, Stack, Account, Begun
<1>4. Account(c)'
  BY DEF TypeOK, Account, Begun, Ended, Settled, Borrowed, Resolved, Resolutions
<1> QED BY <1>1, <1>2, <1>3, <1>4, OneCall

\* A running callee learns of the request.
LEMMA SeesCancelKeeps ==
  ASSUME Accounts, numLends' \in [Handles -> Nat], NEW c \in Calls, SeesCancel(c)
  PROVE  Accounts'
<1> USE CallAssumption DEF Accounts, SeesCancel, subVars, taskVars
<1>1. TypeOK'
  BY DEF TypeOK
<1>2. Stack'
  BY DEF TypeOK, Stack, Account, Begun
<1>3. ASSUME NEW d \in Calls, d # c PROVE Same(d) /\ Unmoved(d)
  BY <1>3 DEF Same, Unmoved, TypeOK, Stack, Account, Begun
<1>4. Account(c)'
  BY DEF TypeOK, Account, Begun, Ended, Settled, Borrowed, Resolved, Resolutions
<1> QED BY <1>1, <1>2, <1>3, <1>4, OneCall

\* task.return.
LEMMA TaskReturnKeeps ==
  ASSUME Accounts, numLends' \in [Handles -> Nat], NEW c \in Calls, TaskReturn(c)
  PROVE  Accounts'
<1> USE CallAssumption DEF Accounts, TaskReturn, MayResolve, Resolve, Progress, Resolved,
                           LendsKept, subVars, taskVars
<1>1. TypeOK'
  BY DEF TypeOK, SubtaskStates, Resolutions, Places, Spots, Cancels
<1>2. Stack'
  BY DEF TypeOK, Stack, Account, Begun
<1>3. ASSUME NEW d \in Calls, d # c PROVE Same(d) /\ Unmoved(d)
  BY <1>3 DEF Same, Unmoved, TypeOK, Stack, Account, Begun
<1>4. Account(c)'
  BY ZenonT(60) DEF TypeOK, Account, Begun, Ended, Settled, Borrowed, Resolved, Resolutions
<1> QED BY <1>1, <1>2, <1>3, <1>4, OneCall

\* task.cancel.
LEMMA TaskCancelKeeps ==
  ASSUME Accounts, numLends' \in [Handles -> Nat], NEW c \in Calls, TaskCancel(c)
  PROVE  Accounts'
<1> USE CallAssumption DEF Accounts, TaskCancel, MayResolve, Resolve, Progress, Resolved,
                           LendsKept, subVars, taskVars
<1>1. TypeOK'
  BY DEF TypeOK, SubtaskStates, Resolutions, Places, Spots, Cancels
<1>2. Stack'
  BY DEF TypeOK, Stack, Account, Begun
<1>3. ASSUME NEW d \in Calls, d # c PROVE Same(d) /\ Unmoved(d)
  BY <1>3 DEF Same, Unmoved, TypeOK, Stack, Account, Begun
<1>4. Account(c)'
  BY DEF TypeOK, Account, Begun, Ended, Settled, Borrowed, Resolved, Resolutions
<1> QED BY <1>1, <1>2, <1>3, <1>4, OneCall

\* prepare-call.
LEMMA CallKeeps ==
  ASSUME Accounts, numLends' \in [Handles -> Nat], NEW c \in Calls,
         NEW how \in {"async", "sync"}, Call(c, how)
  PROVE  Accounts'
<1> USE CallAssumption DEF Accounts, Call, Idle, CallerRuns, subVars, taskVars
<1>1. TypeOK'
  BY DEF TypeOK, SubtaskStates, Resolutions, Places, Spots, Cancels
<1>2. Stack'
  BY DEF TypeOK, Stack, Account, Begun
<1>3. ASSUME NEW d \in Calls, d # c PROVE Same(d) /\ Unmoved(d)
  BY <1>3 DEF Same, Unmoved, TypeOK, Stack, Account, Begun
<1>4. Account(c)'
  BY DEF TypeOK, Account, Begun, Ended, Settled, Borrowed, Resolved, Resolutions
<1> QED BY <1>1, <1>2, <1>3, <1>4, OneCall

\* async-start-call waits for a determinate answer.
LEMMA ReportParksKeeps ==
  ASSUME Accounts, numLends' \in [Handles -> Nat], NEW c \in Calls, ReportParks(c)
  PROVE  Accounts'
<1> USE CallAssumption DEF Accounts, ReportParks, Called, subVars, taskVars
<1>1. TypeOK'
  BY DEF TypeOK
<1>2. Stack'
  BY DEF TypeOK, Stack, Account, Begun
<1>3. ASSUME NEW d \in Calls, d # c PROVE Same(d) /\ Unmoved(d)
  BY <1>3 DEF Same, Unmoved, TypeOK, Stack, Account, Begun
<1>4. Account(c)'
  BY DEF TypeOK, Account, Begun, Ended, Settled, Borrowed, Resolved, Resolutions
<1> QED BY <1>1, <1>2, <1>3, <1>4, OneCall

\* sync-start-call suspends.
LEMMA SyncParksKeeps ==
  ASSUME Accounts, numLends' \in [Handles -> Nat], NEW c \in Calls, SyncParks(c)
  PROVE  Accounts'
<1> USE CallAssumption DEF Accounts, SyncParks, Called, subVars, taskVars
<1>1. TypeOK'
  BY DEF TypeOK
<1>2. Stack'
  BY DEF TypeOK, Stack, Account, Begun
<1>3. ASSUME NEW d \in Calls, d # c PROVE Same(d) /\ Unmoved(d)
  BY <1>3 DEF Same, Unmoved, TypeOK, Stack, Account, Begun
<1>4. Account(c)'
  BY DEF TypeOK, Account, Begun, Ended, Settled, Borrowed, Resolved, Resolutions
<1> QED BY <1>1, <1>2, <1>3, <1>4, OneCall

\* sync-start-call gives up.
LEMMA SyncBailsKeeps ==
  ASSUME Accounts, numLends' \in [Handles -> Nat], NEW c \in Calls, SyncBails(c)
  PROVE  Accounts'
<1> USE CallAssumption DEF Accounts, SyncBails, Called, Release, subVars, taskVars
<1>1. TypeOK'
  BY DEF TypeOK, SubtaskStates, Resolutions, Places, Spots, Cancels
<1>2. Stack'
  BY DEF TypeOK, Stack, Account, Begun
<1>3. ASSUME NEW d \in Calls, d # c PROVE Same(d) /\ Unmoved(d)
  BY <1>3 DEF Same, Unmoved, TypeOK, Stack, Account, Begun
<1>4. Account(c)'
  BY ZenonT(60) DEF TypeOK, Account, Begun, Ended, Settled, Borrowed, Resolved, Resolutions
<1> QED BY <1>1, <1>2, <1>3, <1>4, OneCall

\* waitable.join.
LEMMA JoinKeeps ==
  ASSUME Accounts, numLends' \in [Handles -> Nat], NEW c \in Calls, NEW in \in BOOLEAN, Join(c, in)
  PROVE  Accounts'
<1> USE CallAssumption DEF Accounts, Join, Idle, CallerRuns, subVars, taskVars
<1>1. TypeOK'
  BY DEF TypeOK, SubtaskStates, Resolutions, Places, Spots, Cancels
<1>2. Stack'
  BY DEF TypeOK, Stack, Account, Begun
<1>3. ASSUME NEW d \in Calls, d # c PROVE Same(d) /\ Unmoved(d)
  BY <1>3 DEF Same, Unmoved, TypeOK, Stack, Account, Begun
<1>4. Account(c)'
  BY DEF TypeOK, Account, Begun, Ended, Settled, Borrowed, Resolved, Resolutions
<1> QED BY <1>1, <1>2, <1>3, <1>4, OneCall

\* subtask.drop.
LEMMA DropSubtaskKeeps ==
  ASSUME Accounts, numLends' \in [Handles -> Nat], NEW c \in Calls, DropSubtask(c)
  PROVE  Accounts'
<1> USE CallAssumption DEF Accounts, DropSubtask, Idle, CallerRuns, subVars, taskVars
<1>1. TypeOK'
  BY DEF TypeOK, SubtaskStates, Resolutions, Places, Spots, Cancels
<1>2. Stack'
  BY DEF TypeOK, Stack, Account, Begun
<1>3. ASSUME NEW d \in Calls, d # c PROVE Same(d) /\ Unmoved(d)
  BY <1>3 DEF Same, Unmoved, TypeOK, Stack, Account, Begun
<1>4. Account(c)'
  BY DEF TypeOK, Account, Begun, Ended, Settled, Borrowed, Resolved, Resolutions
<1> QED BY <1>1, <1>2, <1>3, <1>4, OneCall

\* subtask.cancel parks or answers BLOCKED.
LEMMA CancelWaitsKeeps ==
  ASSUME Accounts, numLends' \in [Handles -> Nat], NEW c \in Calls, CancelWaits(c)
  PROVE  Accounts'
<1> USE CallAssumption DEF Accounts, CancelWaits, Requested, subVars, taskVars
<1>1. TypeOK'
  BY DEF TypeOK, SubtaskStates, Resolutions, Places, Spots, Cancels
<1>2. Stack'
  BY DEF TypeOK, Stack, Account, Begun
<1>3. ASSUME NEW d \in Calls, d # c PROVE Same(d) /\ Unmoved(d)
  BY <1>3 DEF Same, Unmoved, TypeOK, Stack, Account, Begun
<1>4. Account(c)'
  BY DEF TypeOK, Account, Begun, Ended, Settled, Borrowed, Resolved, Resolutions
<1> QED BY <1>1, <1>2, <1>3, <1>4, OneCall

\* The callee drops a borrow.
LEMMA DropBorrowKeeps ==
  ASSUME Accounts, numLends' \in [Handles -> Nat], NEW c \in Calls, NEW h \in Handles,
         DropBorrow(c, h)
  PROVE  Accounts'
<1> USE CallAssumption DEF Accounts, DropBorrow, subVars, taskVars
<1>1. TypeOK'
  BY DEF TypeOK
<1>2. Stack'
  BY DEF TypeOK, Stack, Account, Begun
<1>3. ASSUME NEW d \in Calls, d # c PROVE Same(d) /\ Unmoved(d)
  BY <1>3 DEF Same, Unmoved, TypeOK, Stack, Account, Begun
<1>4. Account(c)'
  <2>1. /\ st'[c] = st[c] /\ place'[c] = place[c] /\ lenders'[c] = lenders[c]
        /\ delivered'[c] = delivered[c]
        /\ ev'[c] = ev[c] /\ cancel'[c] = cancel[c] /\ told'[c] = told[c] /\ callee'[c] = callee[c]
        /\ state'[c] = state[c] /\ turns'[c] = turns[c]
        /\ handle' = handle /\ run' = run /\ dead' = dead /\ entered' = entered
    OBVIOUS
  <2>2. borrows'[c] = borrows[c] \ {h} /\ Account(c) /\ callee[c] = "seg"
    BY DEF Account, Begun, TypeOK
  <2> HIDE DEF DropBorrow, Accounts
  <2> QED BY <2>1, <2>2 DEF Account, Begun, Ended, Settled, Borrowed, Resolved, Resolutions
<1> QED BY <1>1, <1>2, <1>3, <1>4, OneCall

\* The engine continues an activation.
LEMMA EngineKeeps ==
  ASSUME Accounts, numLends' \in [Handles -> Nat], NEW c \in Calls, EngineResumes(c)
  PROVE  Accounts'
<1> USE CallAssumption DEF Accounts, EngineResumes, Idle, subVars, taskVars
<1>1. TypeOK'
  <2>1. callee' \in [Calls -> Spots] /\ run' \in Calls \cup {None}
    BY DEF TypeOK, Spots
  <2>2. turns' \in [Calls -> 0 .. MaxTurns + 1]
    <3>1. turns[c] < MaxTurns /\ turns[c] \in 0 .. MaxTurns + 1
      BY DEF TypeOK, Account, Ended
    <3>2. turns[c] + 1 \in 0 .. MaxTurns + 1
      BY <3>1
    <3> QED BY <3>2 DEF TypeOK
  <2> QED BY <2>1, <2>2 DEF TypeOK
<1>2. Stack'
  BY DEF TypeOK, Stack, Account, Begun
<1>3. ASSUME NEW d \in Calls, d # c PROVE Same(d) /\ Unmoved(d)
  BY ZenonT(60), <1>3 DEF Same, Unmoved, TypeOK, Stack, Account, Begun
<1>4. Account(c)'
  <2>1. /\ st'[c] = st[c] /\ place'[c] = place[c] /\ lenders'[c] = lenders[c]
        /\ delivered'[c] = delivered[c]
        /\ ev'[c] = ev[c] /\ cancel'[c] = cancel[c] /\ told'[c] = told[c] /\ state'[c] = state[c]
        /\ borrows'[c] = borrows[c]
        /\ handle' = handle /\ dead' = dead /\ entered' = entered /\ Account(c)
    OBVIOUS
  <2>2. \/ "callee" \in dead /\ callee'[c] = "retired" /\ run' = None
        \/ "callee" \notin dead /\ callee'[c] = "seg" /\ run' = c
    BY DEF TypeOK
  <2>3. callee[c] = "hop"
    OBVIOUS
  <2> HIDE DEF EngineResumes, Accounts
  <2> QED BY <2>1, <2>2, <2>3 DEF Account, Begun, Ended, Settled, Borrowed, Resolved, Resolutions
<1> QED BY <1>1, <1>2, <1>3, <1>4, OneCall

\* A segment ends in a wait, a hop or the end of the task.
LEMMA SegmentEndsKeeps ==
  ASSUME Accounts, numLends' \in [Handles -> Nat], NEW c \in Calls,
         NEW where \in {"loop", "sp", "spc", "hop", "done"}, SegmentEnds(c, where)
  PROVE  Accounts'
<1> USE CallAssumption DEF Accounts, SegmentEnds, subVars, taskVars
<1>1. TypeOK'
  BY DEF TypeOK, Spots
<1>2. Stack'
  BY DEF TypeOK, Stack, Account, Begun
<1>3. ASSUME NEW d \in Calls, d # c PROVE Same(d) /\ Unmoved(d)
  BY <1>3 DEF Same, Unmoved, TypeOK, Stack, Account, Begun
<1>4. Account(c)'
  <2>1. /\ st'[c] = st[c] /\ place'[c] = place[c] /\ lenders'[c] = lenders[c]
        /\ delivered'[c] = delivered[c]
        /\ ev'[c] = ev[c] /\ cancel'[c] = cancel[c] /\ told'[c] = told[c] /\ state'[c] = state[c]
        /\ borrows'[c] = borrows[c] /\ turns'[c] = turns[c]
        /\ handle' = handle /\ dead' = dead /\ entered' = entered /\ run' = None
    OBVIOUS
  <2>2. /\ Account(c) /\ callee[c] = "seg" /\ callee'[c] = where
        /\ where # "done" => turns[c] < MaxTurns
        /\ where = "done" => state[c] = "resolved"
    BY DEF Account, Begun, TypeOK
  <2> HIDE DEF SegmentEnds, Accounts
  <2> QED BY <2>1, <2>2 DEF Account, Begun, Ended, Settled, Borrowed, Resolved, Resolutions
<1> QED BY <1>1, <1>2, <1>3, <1>4, OneCall

\* A trap of the callee in a segment.
LEMMA SegmentTrapsKeeps ==
  ASSUME Accounts, numLends' \in [Handles -> Nat], NEW c \in Calls, SegmentTraps(c)
  PROVE  Accounts'
<1> USE CallAssumption DEF Accounts, SegmentTraps, Traps, subVars, taskVars
<1>1. TypeOK'
  <2>1. CASE entered = c /\ place[c] # "table"
    <3>1. st' \in [Calls -> SubtaskStates]
      BY <2>1 DEF Unwind, TypeOK, SubtaskStates, Resolutions
    <3>2. place' \in [Calls -> Places] /\ callee' \in [Calls -> Spots]
      BY <2>1 DEF TypeOK, Places, Spots
    <3>3. lenders' \in [Calls -> SUBSET Handles] /\ delivered' \in [Calls -> BOOLEAN]
      BY <2>1 DEF Unwind, Release, TypeOK
    <3> QED BY <2>1, <3>1, <3>2, <3>3 DEF TypeOK
  <2>2. CASE ~(entered = c /\ place[c] # "table")
    <3>1. callee' \in [Calls -> Spots] /\ cancel' \in [Calls -> Cancels]
      BY <2>2 DEF TypeOK, Spots, Cancels
    <3> QED BY <2>2, <3>1 DEF LendsKept, TypeOK
  <2> QED BY <2>1, <2>2
<1>2. Stack'
  BY DEF TypeOK, Stack, Account, Begun
<1>3. ASSUME NEW d \in Calls, d # c PROVE Same(d) /\ Unmoved(d)
  <2>1. Unmoved(d)
    BY <1>3 DEF Unmoved, TypeOK, Stack, Account, Begun
  <2>2. st'[d] = st[d] /\ place'[d] = place[d] /\ cancel'[d] = cancel[d] /\ callee'[d] = callee[d]
    BY <1>3 DEF Unwind, TypeOK
  <2>3. lenders'[d] = lenders[d] /\ delivered'[d] = delivered[d]
    BY <1>3 DEF Unwind, Release, LendsKept, TypeOK
  <2> QED BY <2>1, <2>2, <2>3 DEF Same
<1>4. Account(c)'
  <2>1. /\ Account(c) /\ callee[c] = "seg" /\ callee'[c] = "trapped" /\ "callee" \in dead'
        /\ run' = None /\ entered' = None /\ handle' = handle
        /\ ev'[c] = ev[c] /\ told'[c] = told[c] /\ state'[c] = state[c]
        /\ borrows'[c] = borrows[c] /\ turns'[c] = turns[c]
    BY DEF Account, Begun, TypeOK
  <2>2. CASE entered = c /\ place[c] # "table"
    <3>1. /\ place'[c] = "over" /\ lenders'[c] = {} /\ delivered'[c] = TRUE
          /\ cancel'[c] = cancel[c]
          /\ Resolved(c)' /\ (Resolved(c) => st'[c] = st[c])
      BY ZenonT(60), <2>2 DEF Unwind, Release, TypeOK, Resolved, Resolutions
    <3>2. place[c] \in {"async", "sync"}
      BY <2>2 DEF Stack
    <3>3. state[c] = "resolved" => st'[c] = st[c]
      BY <2>1, <3>1 DEF Account, Ended
    <3> HIDE DEF SegmentTraps, Accounts
    <3> QED BY <2>1, <3>1, <3>2, <3>3 DEF Account, Begun, Ended, Settled, Borrowed, Resolved,
                                          Resolutions
  <2>3. CASE ~(entered = c /\ place[c] # "table")
    <3>1. /\ st'[c] = st[c] /\ place'[c] = place[c] /\ lenders'[c] = lenders[c]
          /\ delivered'[c] = delivered[c]
          /\ cancel'[c] # "no" => cancel[c] # "no" \/ place[c] = "table"
      BY <2>3 DEF LendsKept, TypeOK
    <3> HIDE DEF SegmentTraps, Accounts
    <3> QED BY <2>1, <3>1 DEF Account, Begun, Ended, Settled, Borrowed, Resolved, Resolutions
  <2> QED BY <2>2, <2>3
<1> QED BY <1>1, <1>2, <1>3, <1>4, OneCall

\* async-start-call reports, at once or after a wait.
LEMMA ReportKeeps ==
  ASSUME Accounts, numLends' \in [Handles -> Nat], NEW c \in Calls, Report(c) \/ ReportLater(c)
  PROVE  Accounts'
<1> USE CallAssumption DEF Accounts, DoReport, Report, ReportLater, Called, Parked, Idle,
                           CallerRuns, subVars, taskVars
<1>1. TypeOK'
  <2>1. CASE Resolved(c)
    BY ZenonT(60), <2>1 DEF Release, TypeOK, SubtaskStates, Resolutions, Places
  <2>2. CASE ~Resolved(c)
    <3>1. told' = [told EXCEPT ![c] = st[c]] /\ place' = [place EXCEPT ![c] = "table"]
      BY <2>2
    <3>2. told' \in [Calls -> SubtaskStates \cup {"nothing"}] /\ place' \in [Calls -> Places]
      <4> HIDE DEF DoReport, Report, ReportLater
      <4> QED BY <3>1 DEF TypeOK, Places
    <3> QED BY <2>2, <3>2 DEF LendsKept, TypeOK
  <2> QED BY <2>1, <2>2
<1>2. Stack'
  BY DEF TypeOK, Stack, Account, Begun
<1>3. ASSUME NEW d \in Calls, d # c PROVE Same(d) /\ Unmoved(d)
  <2>1. Unmoved(d)
    BY <1>3 DEF Unmoved
  <2>2. place'[d] = place[d] /\ told'[d] = told[d]
    BY ZenonT(60), <1>3 DEF TypeOK
  <2>3. lenders'[d] = lenders[d] /\ delivered'[d] = delivered[d]
    BY <1>3 DEF Release, LendsKept, TypeOK
  <2> QED BY <2>1, <2>2, <2>3 DEF Same
<1>4. Account(c)'
  <2>1. /\ Account(c) /\ place[c] = "async" /\ callee[c] # "none"
        /\ st'[c] = st[c] /\ ev'[c] = ev[c] /\ cancel'[c] = cancel[c]
        /\ callee'[c] = callee[c] /\ state'[c] = state[c] /\ borrows'[c] = borrows[c]
        /\ turns'[c] = turns[c]
        /\ handle' = handle /\ run' = run /\ dead' = dead
    BY DEF Account, Begun
  <2>2. CASE Resolved(c)
    <3>1. place'[c] = "over" /\ told'[c] = "returned" /\ lenders'[c] = {} /\ delivered'[c] = TRUE
      BY ZenonT(60), <2>2 DEF Release, TypeOK
    <3> HIDE DEF Report, ReportLater, Accounts
    <3> QED BY <2>1, <2>2, <3>1 DEF Account, Begun, Ended, Settled, Borrowed, Resolved, Resolutions
  <2>3. CASE ~Resolved(c)
    <3>1. /\ place'[c] = "table" /\ told'[c] = st[c]
          /\ lenders'[c] = lenders[c] /\ delivered'[c] = delivered[c]
      BY <2>3 DEF LendsKept, TypeOK
    <3> HIDE DEF Report, ReportLater, Accounts
    <3> QED BY <2>1, <2>3, <3>1 DEF Account, Begun, Ended, Settled, Borrowed, Resolved, Resolutions
  <2> QED BY <2>2, <2>3
<1> QED BY <1>1, <1>2, <1>3, <1>4, OneCall

\* sync-start-call returns with its results.
LEMMA SyncReturnsKeeps ==
  ASSUME Accounts, numLends' \in [Handles -> Nat], NEW c \in Calls, SyncReturns(c)
  PROVE  Accounts'
<1> USE CallAssumption DEF Accounts, SyncReturns, Called, Parked, Idle, CallerRuns, Release,
                           subVars, taskVars
<1>1. TypeOK'
  BY DEF TypeOK, SubtaskStates, Resolutions, Places, Spots, Cancels
<1>2. Stack'
  BY DEF TypeOK, Stack, Account, Begun
<1>3. ASSUME NEW d \in Calls, d # c PROVE Same(d) /\ Unmoved(d)
  BY <1>3 DEF Same, Unmoved, TypeOK, Stack, Account, Begun
<1>4. Account(c)'
  <2>1. /\ Account(c) /\ place[c] = "sync" /\ callee[c] # "none" /\ Resolved(c)
        /\ st'[c] = st[c] /\ ev'[c] = ev[c] /\ cancel'[c] = cancel[c]
        /\ callee'[c] = callee[c] /\ state'[c] = state[c] /\ borrows'[c] = borrows[c]
        /\ turns'[c] = turns[c]
        /\ handle' = handle /\ run' = run /\ dead' = dead
    BY DEF Account, Begun
  <2>2. place'[c] = "over" /\ told'[c] = "returned" /\ lenders'[c] = {} /\ delivered'[c] = TRUE
    BY DEF TypeOK
  <2> HIDE DEF SyncReturns, Accounts
  <2> QED BY <2>1, <2>2 DEF Account, Begun, Ended, Settled, Borrowed, Resolved, Resolutions
<1> QED BY <1>1, <1>2, <1>3, <1>4, OneCall

\* An event is taken off a subtask in the table.
LEMMA TakeEventKeeps ==
  ASSUME Accounts, numLends' \in [Handles -> Nat], NEW c \in Calls,
         place[c] \in {"table", "dropped"}, TakeEvent(c),
         ev[c] \/ Resolved(c), cancel' \in [Calls -> Cancels],
         \A d \in Calls : d # c => cancel'[d] = cancel[d],
         entered' = None \/ entered' = entered, entered \in {c, None},
         fault' \in {"none", "no event", "not resolved"},
         UNCHANGED <<mode, st, place, inSet, handle, taskVars, run, dead>>
  PROVE  Accounts'
<1> USE CallAssumption DEF Accounts, taskVars
<1>0. /\ lenders' \in [Calls -> SUBSET Handles] /\ delivered' \in [Calls -> BOOLEAN]
      /\ \A d \in Calls : d # c => lenders'[d] = lenders[d] /\ delivered'[d] = delivered[d]
      /\ IF Resolved(c) THEN lenders'[c] = {} /\ delivered'[c] = TRUE
                        ELSE lenders'[c] = lenders[c] /\ delivered'[c] = delivered[c]
  <2>1. CASE Resolved(c) /\ ~delivered[c]
    BY ZenonT(60), <2>1 DEF TakeEvent, Release, TypeOK
  <2>2. CASE ~(Resolved(c) /\ ~delivered[c])
    BY <2>2 DEF TakeEvent, LendsKept, TypeOK, Account, Settled
  <2> QED BY <2>1, <2>2
<1>1. TypeOK'
  <2>1. told' \in [Calls -> SubtaskStates \cup {"nothing"}] /\ ev' \in [Calls -> BOOLEAN]
    BY DEF TakeEvent, TypeOK
  <2> QED BY <1>0, <2>1 DEF TypeOK
<1>2. Stack'
  BY DEF Stack
<1>3. ASSUME NEW d \in Calls, d # c PROVE Same(d) /\ Unmoved(d)
  <2>1. Same(d)
    BY <1>0, <1>3 DEF Same, TakeEvent, TypeOK
  <2>2. Unmoved(d)
    BY <1>3 DEF Unmoved
  <2> QED BY <2>1, <2>2
<1>4. Account(c)'
  <2>1. /\ Account(c) /\ told'[c] = st[c] /\ ev'[c] = FALSE
        /\ st'[c] = st[c] /\ place'[c] = place[c]
        /\ callee'[c] = callee[c] /\ state'[c] = state[c] /\ borrows'[c] = borrows[c]
        /\ turns'[c] = turns[c]
        /\ handle' = handle /\ run' = run /\ dead' = dead
        /\ callee[c] # "none"
    BY ZenonT(60) DEF TakeEvent, TypeOK, Account, Begun
  <2> HIDE DEF Accounts
  <2>2. CASE Resolved(c)
    <3>1. /\ lenders'[c] = {} /\ delivered'[c] = TRUE
          /\ borrows[c] \subseteq {} \/ "callee" \in dead
      BY <1>0, <2>1, <2>2 DEF Account, Ended
    <3> QED BY <1>0, <2>1, <2>2, <3>1 DEF Account, Begun, Ended, Settled, Borrowed, Resolved,
                                          Resolutions
  <2>3. CASE ~Resolved(c)
    BY <1>0, <2>1, <2>3 DEF Account, Begun, Ended, Settled, Borrowed, Resolved, Resolutions
  <2> QED BY <2>2, <2>3
<1> QED BY <1>1, <1>2, <1>3, <1>4, OneCall

\* The event comes from a set.
LEMMA DeliverKeeps ==
  ASSUME Accounts, numLends' \in [Handles -> Nat], NEW c \in Calls, Deliver(c)
  PROVE  Accounts'
BY TakeEventKeeps DEF Deliver, Idle, CallerRuns, Accounts, TypeOK

\* finishSubtaskCancel, of a call that has resolved or has an event.
LEMMA FinishCancelKeeps ==
  ASSUME Accounts, numLends' \in [Handles -> Nat], NEW c \in Calls, FinishCancel(c),
         place[c] \in {"table", "dropped"}, ev[c] \/ Resolved(c), entered \in {c, None}
  PROVE  Accounts'
<1>1. /\ cancel' \in [Calls -> Cancels] /\ \A d \in Calls : d # c => cancel'[d] = cancel[d]
  BY DEF FinishCancel, Accounts, TypeOK, Cancels
<1> QED BY <1>1, TakeEventKeeps DEF FinishCancel

LEMMA CancelEndsKeeps ==
  ASSUME Accounts, numLends' \in [Handles -> Nat], NEW c \in Calls,
         CancelFinishes(c) \/ CancelReturns(c) \/ \E async \in BOOLEAN : CancelResolved(c, async)
  PROVE  Accounts'
<1> USE CallAssumption
<1>0. cancel[c] # "no" => place[c] \in {"table", "dropped"}
  BY DEF Accounts, Account, Settled
<1>1. CASE CancelFinishes(c)
  <2>1. place[c] = "table"
    BY <1>0, <1>1 DEF CancelFinishes, Requested, Accounts, Stack
  <2> QED BY <1>1, <2>1, FinishCancelKeeps DEF CancelFinishes, Requested
<1>2. CASE CancelReturns(c)
  <2>1. CASE (ev[c] \/ Resolved(c)) /\ FinishCancel(c)
    BY <1>0, <1>2, <2>1, FinishCancelKeeps DEF CancelReturns, CallerRuns, Idle
  <2>2. CASE /\ cancel[c] = "at-async" /\ cancel' = [cancel EXCEPT ![c] = "over"] /\ fault' = "none"
             /\ UNCHANGED <<mode, st, place, lenders, delivered, ev, inSet, told, numLends, handle,
                            taskVars, run, entered, dead>>
    <3> USE <2>2 DEF Accounts, taskVars
    <3>1. TypeOK'
      BY DEF TypeOK, Cancels
    <3>2. Stack' /\ \A d \in Calls : d # c => Same(d) /\ Unmoved(d)
      BY DEF TypeOK, Stack, Same, Unmoved
    <3>3. Account(c)'
      BY <1>0 DEF TypeOK, Account, Begun, Ended, Settled, Borrowed, Resolved, Resolutions
    <3> QED BY <3>1, <3>2, <3>3, OneCall
  <2> QED BY <1>2, <2>1, <2>2 DEF CancelReturns
<1>3. ASSUME NEW async \in BOOLEAN, CancelResolved(c, async) PROVE Accounts'
  BY <1>3, FinishCancelKeeps DEF CancelResolved, MayCancel, CallerRuns, Idle
<1> QED BY <1>1, <1>2, <1>3

\* Task.enterImplicitThread.
LEMMA EnterKeeps ==
  ASSUME Accounts, numLends' \in [Handles -> Nat], NEW c \in Calls, EnterCallee(c)
  PROVE  Accounts'
<1> USE CallAssumption
<1>0. /\ run = None /\ entered = c /\ callee[c] = "none" /\ fault' = "none"
      /\ place[c] \in {"async", "sync"} /\ Account(c)
      /\ UNCHANGED <<mode, inSet, told, handle, woken, turns, closed>>
  BY DEF EnterCallee, Accounts, Stack, Account, Begun
<1>1. CASE Start(c)
  <2>1. "callee" \notin dead
    BY <1>0 DEF Account, Begun
  <2> QED BY <1>0, <1>1, <2>1, StartKeeps
<1>2. CASE StartTraps(c)
  BY <1>0, <1>2, StartTrapsKeeps
<1>3. CASE /\ callee' = [callee EXCEPT ![c] = "gate"] /\ LendsKept
           /\ UNCHANGED <<st, place, ev, cancel, state, borrows, run, entered, dead>>
  <2> USE <1>0, <1>3 DEF Accounts, LendsKept
  <2>1. TypeOK'
    BY DEF TypeOK, Spots
  <2>2. Stack' /\ \A d \in Calls : d # c => Same(d) /\ Unmoved(d)
    BY DEF TypeOK, Stack, Same, Unmoved
  <2>3. Account(c)'
    BY DEF TypeOK, Account, Begun, Ended, Settled, Borrowed, Resolved, Resolutions
  <2> QED BY <2>1, <2>2, <2>3, OneCall
<1> QED BY <1>1, <1>2, <1>3 DEF EnterCallee

\* Store.tick.
LEMMA TickKeeps ==
  ASSUME Accounts, numLends' \in [Handles -> Nat], NEW c \in Calls, Tick(c)
  PROVE  Accounts'
<1> USE CallAssumption
<1>0. /\ run = None /\ entered = None /\ "callee" \notin dead /\ fault' = "none"
      /\ UNCHANGED <<mode, inSet, told, handle, closed>>
  BY DEF Tick, Idle
<1>1. CASE callee[c] = "gate" /\ (Start(c) \/ StartTraps(c)) /\ UNCHANGED <<woken, turns>>
  <2>1. callee[c] \in {"none", "gate"} /\ callee[c] # "none" /\ entered \in {c, None} /\ entered # c
    BY <1>0, <1>1
  <2> QED BY <1>0, <1>1, <2>1, StartKeeps, StartTrapsKeeps
<1>2. CASE /\ callee[c] = "loop"
           /\ callee' = [callee EXCEPT ![c] = "seg"] /\ run' = c
           /\ woken' = [woken EXCEPT ![c] = FALSE]
           /\ turns' = [turns EXCEPT ![c] = @ + 1]
           /\ LendsKept
           /\ UNCHANGED <<st, place, ev, cancel, state, borrows, entered, dead>>
  <2> USE <1>0, <1>2 DEF Accounts, LendsKept
  <2>1. TypeOK'
    <3>1. turns[c] < MaxTurns /\ turns[c] \in 0 .. MaxTurns + 1
      BY DEF TypeOK, Account, Ended
    <3>2. turns[c] + 1 \in 0 .. MaxTurns + 1
      BY <3>1
    <3>3. turns' \in [Calls -> 0 .. MaxTurns + 1]
      BY <3>2 DEF TypeOK
    <3>4. callee' \in [Calls -> Spots] /\ woken' \in [Calls -> BOOLEAN]
      BY DEF TypeOK, Spots
    <3> QED BY <3>3, <3>4 DEF TypeOK
  <2>2. Stack' /\ \A d \in Calls : d # c => Same(d) /\ Unmoved(d)
    BY DEF TypeOK, Stack, Same, Unmoved
  <2>3. Account(c)'
    BY DEF TypeOK, Account, Begun, Ended, Settled, Borrowed, Resolved, Resolutions
  <2> QED BY <2>1, <2>2, <2>3, OneCall
<1>3. CASE /\ callee[c] \in {"sp", "spc"}
           /\ callee' = [callee EXCEPT ![c] = "hop"]
           /\ woken' = [woken EXCEPT ![c] = FALSE]
           /\ LendsKept
           /\ UNCHANGED <<st, place, ev, cancel, state, borrows, turns, run, entered, dead>>
  <2> USE <1>0, <1>3 DEF Accounts, LendsKept
  <2>1. TypeOK'
    BY DEF TypeOK, Spots
  <2>2. Stack' /\ \A d \in Calls : d # c => Same(d) /\ Unmoved(d)
    BY DEF TypeOK, Stack, Same, Unmoved
  <2>3. Account(c)'
    BY DEF TypeOK, Account, Begun, Ended, Settled, Borrowed, Resolved, Resolutions
  <2> QED BY <2>1, <2>2, <2>3, OneCall
<1> QED BY <1>1, <1>2, <1>3 DEF Tick

\* The request of subtask.cancel, at the gate, at a cancellable block point, or
\* recorded.
LEMMA CancelKeeps ==
  ASSUME Accounts, numLends' \in [Handles -> Nat], NEW c \in Calls, NEW async \in BOOLEAN,
         Cancel(c, async)
  PROVE  Accounts'
<1> USE CallAssumption
<1>0. /\ run = None /\ entered = None /\ place[c] = "table" /\ ~delivered[c] /\ cancel[c] = "no"
      /\ ~Resolved(c) /\ entered' = c /\ fault' = "none" /\ LendsKept
      /\ UNCHANGED <<mode, place, inSet, told, handle, borrows, turns, closed, dead>>
      /\ cancel' = [cancel EXCEPT ![c] = IF async THEN "in-async" ELSE "in-sync"]
  BY DEF Cancel, MayCancel, CallerRuns, Idle
<1>1. cancel' \in [Calls -> Cancels]
  BY <1>0 DEF Accounts, TypeOK, Cancels
<1>2. CASE /\ callee[c] = "gate"
           /\ Resolve(c, "cancelled-before-started")
           /\ callee' = [callee EXCEPT ![c] = "done"]
           /\ UNCHANGED <<woken, run>>
  <2> USE <1>0, <1>1, <1>2 DEF Accounts, LendsKept, Resolve, Progress
  <2>1. TypeOK'
    BY DEF TypeOK, Spots, SubtaskStates, Resolutions
  <2>2. Stack' /\ \A d \in Calls : d # c => Same(d) /\ Unmoved(d)
    BY DEF TypeOK, Stack, Same, Unmoved
  <2>3. Account(c)'
    BY ZenonT(60) DEF TypeOK, Account, Begun, Ended, Settled, Borrowed, Resolved, Resolutions
  <2> QED BY <2>1, <2>2, <2>3, OneCall
<1>3. CASE /\ callee[c] \in {"loop", "spc"}
           /\ state' = [state EXCEPT ![c] = "cancel-delivered"]
           /\ callee' = [callee EXCEPT ![c] = IF @ = "loop" THEN "seg" ELSE "hop"]
           /\ run' = IF callee[c] = "loop" THEN c ELSE None
           /\ woken' = [woken EXCEPT ![c] = FALSE]
           /\ UNCHANGED <<st, ev>>
  <2> USE <1>0, <1>1, <1>3 DEF Accounts, LendsKept
  <2>1. TypeOK'
    BY DEF TypeOK, Spots
  <2>2. Stack' /\ \A d \in Calls : d # c => Same(d) /\ Unmoved(d)
    BY DEF TypeOK, Stack, Same, Unmoved
  <2>3. Account(c)'
    BY ZenonT(60) DEF TypeOK, Account, Begun, Ended, Settled, Borrowed, Resolved, Resolutions
  <2> QED BY <2>1, <2>2, <2>3, OneCall
<1>4. CASE /\ callee[c] # "gate"
           /\ state' = [state EXCEPT ![c] = "pending-cancel"]
           /\ UNCHANGED <<st, ev, callee, woken, run>>
  <2> USE <1>0, <1>1, <1>4 DEF Accounts, LendsKept
  <2>1. TypeOK'
    BY DEF TypeOK
  <2>2. Stack' /\ \A d \in Calls : d # c => Same(d) /\ Unmoved(d)
    BY DEF TypeOK, Stack, Same, Unmoved
  <2>3. Account(c)'
    BY ZenonT(60) DEF TypeOK, Account, Begun, Ended, Settled, Borrowed, Resolved, Resolutions
  <2> QED BY <2>1, <2>2, <2>3, OneCall
<1> QED BY <1>2, <1>3, <1>4 DEF Cancel

-----------------------------------------------------------------------------
(* The steps of no call: handles dropped, instances that die.                  *)

\* A handle nobody has borrowed is one nobody has lent.
LEMMA NotLent ==
  ASSUME SubtaskInv, NEW h \in Handles, numLends[h] = 0, NEW c \in Calls
  PROVE  h \notin lenders[c]
<1>1. Cardinality(Borrowers(h)) = 0 /\ IsFiniteSet(Borrowers(h))
  BY BorrowersFinite DEF SubtaskInv, LendsExact, Borrowers
<1>2. Borrowers(h) = {}
  BY <1>1, FS_EmptySet
<1> QED BY <1>2 DEF Borrowers

LEMMA HandleKeeps ==
  ASSUME SubtaskInv, NEW h \in Handles, DropHandle(h) \/ DropLent(h)
  PROVE  Accounts'
<1> USE DEF SubtaskInv, Accounts, subVars, taskVars, Idle, CallerRuns
<1>1. TypeOK'
  BY DEF TypeOK, DropHandle, DropLent
<1>2. Stack'
  BY DEF Stack, DropHandle, DropLent
<1>3. ASSUME NEW c \in Calls PROVE Account(c)'
  <2>1. /\ Same(c) /\ run' = run /\ entered' = entered /\ Account(c) /\ dead \subseteq dead'
        /\ "callee" \in dead' => "callee" \in dead
    BY DEF Same, DropHandle, DropLent
  <2>2. dead' = {} => \A x \in lenders[c] : handle'[x]
    <3>1. CASE DropHandle(h)
      BY <3>1, NotLent DEF DropHandle, TypeOK, Account, Borrowed
    <3>2. CASE DropLent(h)
      BY <3>2 DEF DropLent
    <3> QED BY <3>1, <3>2
  <2> HIDE DEF SubtaskInv, Accounts
  <2> QED BY <2>1, <2>2
          DEF Same, Account, Begun, Ended, Settled, Borrowed, Resolved, Resolutions
<1> QED BY <1>1, <1>2, <1>3

LEMMA TrapKeeps ==
  ASSUME Accounts, CallerTraps \/ OtherTraps
  PROVE  Accounts'
<1> USE CallAssumption DEF Accounts, subVars, taskVars, CallerTraps, OtherTraps, CallerRuns, Idle
<1>1. TypeOK'
  BY DEF TypeOK
<1>2. Stack'
  BY DEF Stack
<1>3. ASSUME NEW c \in Calls PROVE Same(c) /\ Unmoved(c)
  BY DEF Same, Unmoved
<1> QED BY <1>1, <1>2, <1>3, OtherAccounts

-----------------------------------------------------------------------------
(* Every step.                                                                 *)

LEMMA CallerKeeps ==
  ASSUME Accounts, numLends' \in [Handles -> Nat], NEW c \in Calls, CallerStep(c)
  PROVE  Accounts'
BY CallKeeps, ReportKeeps, ReportParksKeeps, SyncReturnsKeeps, SyncParksKeeps, SyncBailsKeeps,
   DeliverKeeps, DropSubtaskKeeps, JoinKeeps, CancelKeeps, CancelEndsKeeps, CancelWaitsKeeps
   DEF CallerStep

LEMMA CalleeKeeps ==
  ASSUME Accounts, numLends' \in [Handles -> Nat], NEW c \in Calls, CalleeStep(c)
  PROVE  Accounts'
BY EnterKeeps, TickKeeps, WakeKeeps, EngineKeeps, TaskReturnKeeps, TaskCancelKeeps,
   BackpressureKeeps, SeesCancelKeeps, DropBorrowKeeps, SegmentEndsKeeps, SegmentTrapsKeeps
   DEF CalleeStep

LEMMA SubtaskInvNext == SubtaskInv /\ [Next]_vars => SubtaskInv'
<1> SUFFICES ASSUME SubtaskInv, [Next]_vars PROVE SubtaskInv'
  OBVIOUS
<1>1. CASE Next
  <2>1. numLends' \in [Handles -> Nat] /\ LendsExact'
    BY <1>1, StepCounts
  <2>2. Accounts'
    BY <1>1, <2>1, CallerKeeps, CalleeKeeps, HandleKeeps, TrapKeeps DEF Next, SubtaskInv
  <2> QED BY <2>1, <2>2 DEF SubtaskInv
<1>2. CASE UNCHANGED vars
  <2> USE <1>2 DEF vars, subVars, taskVars, SubtaskInv, Accounts
  <2>1. TypeOK' /\ Stack'
    BY DEF TypeOK, Stack
  <2>2. LendsExact'
    BY DEF LendsExact
  <2>3. ASSUME NEW c \in Calls PROVE Account(c)'
    BY DEF Account, Begun, Ended, Settled, Borrowed, Resolved
  <2> QED BY <2>1, <2>2, <2>3
<1> QED BY <1>1, <1>2

THEOREM SubtaskInvariant == Spec => []SubtaskInv
BY SubtaskInvInit, SubtaskInvNext, PTL DEF Spec

-----------------------------------------------------------------------------
(* Results.                                                                    *)

\* Every value the code keeps of a call stays in its range; no count of lends
\* falls below zero.
THEOREM TypesHold == Spec => []TypeOK
BY SubtaskInvariant, PTL DEF SubtaskInv, Accounts

\* A handle counts one lend for each call that has borrowed it and not yet
\* given it back, a call the caller is done with lends nothing, and what the
\* callee of a live call borrows exists.
THEOREM LendsBalance == Spec => []LendsAndBorrows
<1>1. SubtaskInv => LendsAndBorrows
  <2> SUFFICES ASSUME SubtaskInv PROVE LendsGivenBack /\ BorrowAlive
    BY DEF LendsAndBorrows, SubtaskInv
  <2> USE DEF SubtaskInv, Accounts, Account
  <2>1. LendsGivenBack
    BY DEF LendsGivenBack, Settled
  <2>2. BorrowAlive
    BY DEF BorrowAlive, Borrowed, Ended
  <2> QED BY <2>1, <2>2
<1> QED BY <1>1, SubtaskInvariant, PTL

\* A resolution the caller has not been told of has an event, and one it has
\* been told of has none left.
THEOREM ResolutionOwed == Spec => []EventOwed
<1>1. SubtaskInv => EventOwed
  BY DEF SubtaskInv, Accounts, Account, Settled, EventOwed
<1> QED BY <1>1, SubtaskInvariant, PTL

=============================================================================
