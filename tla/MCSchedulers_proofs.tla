------------------------- MODULE MCSchedulers_proofs -------------------------
(* What MCSchedulers checks of three kinds of store (promising tasks, no JSPI,  *)
(* a promising caller of plain and promising callees), proved for all instances *)
(* and links, all lift kinds of the tasks, and all bounds.                      *)
EXTENDS MCSchedulers, TaskScheduler_proofs

\* The mixed instance, with the tasks of the others, which it does not call.
Mixed == INSTANCE TaskScheduler_proofs WITH Tasks <- AllTasks

\* The constants of the instances are those of a store.
LEMMA NestedSetting ==
  /\ Nested!TaskAssumption /\ Nested!ModeAssumption
  /\ Nested!LinkAssumption /\ Nested!BoundAssumption
BY TaskAssumption, LinkAssumption, BoundAssumption, GroupAssumption
   DEF Nested!TaskAssumption, Nested!ModeAssumption, Nested!LinkAssumption,
       Nested!BoundAssumption, Nested!Kinds, Kinds, AllTasks, Groups, NestedTasks

\* Likewise without JSPI,
LEMMA PlainSetting ==
  /\ Plain!TaskAssumption /\ Plain!ModeAssumption
  /\ Plain!LinkAssumption /\ Plain!BoundAssumption
BY TaskAssumption, LinkAssumption, BoundAssumption, GroupAssumption
   DEF Plain!TaskAssumption, Plain!ModeAssumption, Plain!LinkAssumption,
       Plain!BoundAssumption, Plain!Kinds, Kinds, AllTasks, Groups, PlainTasks

\* and for the mixed instance.
LEMMA MixedSetting ==
  /\ Mixed!TaskAssumption /\ Mixed!ModeAssumption
  /\ Mixed!LinkAssumption /\ Mixed!BoundAssumption
BY TaskAssumption, ModeAssumption, LinkAssumption, BoundAssumption, GroupAssumption
   DEF Mixed!TaskAssumption, Mixed!ModeAssumption, Mixed!LinkAssumption,
       Mixed!BoundAssumption, Mixed!Kinds, Kinds, AllTasks, Groups, MixedTasks

\* In the first two every callback lift is wrapped, if any is.
LEMMA AllWrapped == Nested!WrappedCallbacks /\ Plain!WrappedCallbacks
BY DEF Nested!WrappedCallbacks, Plain!WrappedCallbacks

\* Every task belongs to a group.
LEMMA TasksOfGroups ==
  /\ \A group \in Groups : group \subseteq AllTasks
  /\ Tasks \subseteq AllTasks
BY GroupAssumption DEF AllTasks, Groups

\* What a mixed task does it does among all tasks.
LEMMA NextOfMixed == Next => Mixed!Next
<1> USE DEF IsAsync, Mixed!IsAsync, NeedsExclusive, Mixed!NeedsExclusive, ReturnsResult,
           Mixed!ReturnsResult, CodesOf, Mixed!CodesOf, Frame, Mixed!Frame, Top, Mixed!Top, Below,
           Mixed!Below, Bracket, Mixed!Bracket, Enterable, Mixed!Enterable, Entered,
           Mixed!Entered, Left, Mixed!Left, CannotEnter, Mixed!CannotEnter, CannotLeave,
           Mixed!CannotLeave, Running, Mixed!Running, EmbedderTurn, Mixed!EmbedderTurn,
           DriverTurn, Mixed!DriverTurn, MaySuspend, Mixed!MaySuspend, ImportsOpen,
           Mixed!ImportsOpen, MayCallOut, Mixed!MayCallOut, EndSegment, Mixed!EndSegment,
           HasBackpressure, Mixed!HasBackpressure, GateClosed, Mixed!GateClosed, WithSlot,
           Mixed!WithSlot, LeaveGate, Mixed!LeaveGate, Start, Mixed!Start, Enter, Mixed!Enter,
           HopThreads, Mixed!HopThreads, HostBase, Mixed!HostBase, RaceHops, Mixed!RaceHops,
           Dispatchable, Mixed!Dispatchable, HasServiceableSettled, Mixed!HasServiceableSettled,
           Calling, Mixed!Calling, CalleeEnterable, Mixed!CalleeEnterable, TopOf, Mixed!TopOf,
           ConsumePending, Mixed!ConsumePending, MayExit, Mixed!MayExit, SlotLost, Mixed!SlotLost,
           Finish, Mixed!Finish, Loop, Mixed!Loop, CancelAtWait, Mixed!CancelAtWait, TopIsGuest,
           Mixed!TopIsGuest, PopEntry, Mixed!PopEntry, RootReleased, Mixed!RootReleased,
           SlotElsewhere, Mixed!SlotElsewhere, Deliverable, Mixed!Deliverable, StopWaiting,
           Mixed!StopWaiting, MayCancel, Mixed!MayCancel, TakeSettled, Mixed!TakeSettled, Broken,
           Mixed!Broken, Ready, Mixed!Ready, Candidate, Mixed!Candidate, Chosen, Mixed!Chosen,
           raceVars, Mixed!raceVars, taskVars, Mixed!taskVars, lockVars, Mixed!lockVars, gateVars, Mixed!gateVars,
           queueVars, Mixed!queueVars, jsVars, Mixed!jsVars, Codes, Mixed!Codes, RemoveAt,
           Mixed!RemoveAt, Last, Mixed!Last, Awaiting, Mixed!Awaiting, Rechecking, Mixed!Rechecking
<1>1. ASSUME NEW t \in Tasks, HostCall(t) \/ DeferHostCall(t)
      PROVE Mixed!HostCall(t) \/ Mixed!DeferHostCall(t)
  BY <1>1, TasksOfGroups DEF HostCall, Mixed!HostCall, DeferHostCall, Mixed!DeferHostCall
<1>2. ASSUME NEW t \in Tasks, HostGate(t) PROVE Mixed!HostGate(t)
  BY <1>2, TasksOfGroups
     DEF HostGate, Mixed!HostGate, RecheckHops, Mixed!RecheckHops, AdmittedCall,
         Mixed!AdmittedCall
<1>3. ASSUME NEW t \in Tasks, GuestStep(t) PROVE Mixed!GuestStep(t)
  BY <1>3, TasksOfGroups
     DEF GuestStep, Mixed!GuestStep, GuestTaskReturn, Mixed!GuestTaskReturn,
         GuestTaskCancel, Mixed!GuestTaskCancel, GuestBackpressure, Mixed!GuestBackpressure,
         GuestHops, Mixed!GuestHops, GuestMeetsCancel, Mixed!GuestMeetsCancel, GuestBlocks,
         Mixed!GuestBlocks
<1>4. ASSUME NEW t \in Tasks, GuestReturn(t) PROVE Mixed!GuestReturn(t)
  BY <1>4, TasksOfGroups
     DEF GuestReturn, Mixed!GuestReturn, ReturnHops, Mixed!ReturnHops, ReturnPlain,
         Mixed!ReturnPlain, ReturnToCancel, Mixed!ReturnToCancel
<1>5. ASSUME NEW t \in Tasks, Trap(t) PROVE Mixed!Trap(t)
  BY <1>5, TasksOfGroups
     DEF Trap, Mixed!Trap, TrapHops, Mixed!TrapHops, TrapPoisons, Mixed!TrapPoisons
<1>6. ASSUME NEW t \in Tasks, Engine(t) PROVE Mixed!Engine(t)
  BY <1>6, TasksOfGroups
     DEF Engine, Mixed!Engine, EngineResume, Mixed!EngineResume, Settle, Mixed!Settle
<1>7. ASSUME NEW t \in Tasks, Service(t) PROVE Mixed!Service(t)
  BY <1>7, TasksOfGroups
     DEF Service, Mixed!Service, ServiceRetired, Mixed!ServiceRetired, ServiceReturn,
         Mixed!ServiceReturn, ServiceToCancel, Mixed!ServiceToCancel, ServiceTrap,
         Mixed!ServiceTrap
<1>8. ASSUME NEW t \in Tasks, Tick(t) PROVE Mixed!Tick(t)
  BY <1>8, TasksOfGroups
     DEF Tick, Mixed!Tick, TickGate, Mixed!TickGate, TickLoop, Mixed!TickLoop, TickPoint,
         Mixed!TickPoint
<1>9. ASSUME NEW t \in Tasks, Signal(t) PROVE Mixed!Signal(t)
  BY <1>9, TasksOfGroups DEF Signal, Mixed!Signal
<1>10. ASSUME NEW u \in Tasks, NEW t \in Tasks, GuestCall(u, t) PROVE Mixed!GuestCall(u, t)
  BY <1>10, TasksOfGroups DEF GuestCall, Mixed!GuestCall
<1>11. ASSUME NEW u \in Tasks, NEW t \in Tasks, Cancel(u, t) PROVE Mixed!Cancel(u, t)
  BY <1>11, TasksOfGroups
     DEF Cancel, Mixed!Cancel, CancelAtGate, Mixed!CancelAtGate, CancelAtLoop,
         Mixed!CancelAtLoop, CancelAtPoint, Mixed!CancelAtPoint, CancelRecorded,
         Mixed!CancelRecorded
<1>12. ASSUME DriveYields PROVE Mixed!DriveYields
  BY <1>12, TasksOfGroups DEF DriveYields, Mixed!DriveYields
<1>13. ASSUME NEW d \in Loops, RaceEnds(d) PROVE Mixed!RaceEnds(d)
  BY <1>13 DEF RaceEnds, Mixed!RaceEnds
<1>14. ASSUME NEW d \in Loops, NEW t \in Tasks, Race(d, t) PROVE Mixed!Race(d, t)
  BY <1>14, TasksOfGroups DEF Race, Mixed!Race
<1> QED
  BY <1>1, <1>2, <1>3, <1>4, <1>5, <1>6, <1>7, <1>8, <1>9, <1>10, <1>11, <1>12, <1>13, <1>14,
     TasksOfGroups
     DEF Next, Mixed!Next

-----------------------------------------------------------------------------
(* One group runs, the others are never called.                               *)

\* Only tasks of the group are active, and the group's store keeps its invariant.
\* In the mixed one an assert may fail, but only once a task is called.
NestedRuns == ~Active(PlainTasks) /\ ~Active(MixedTasks) /\ Nested!StoreInv
PlainRuns == ~Active(NestedTasks) /\ ~Active(MixedTasks) /\ Plain!StoreInv
MixedRuns ==
  /\ ~Active(NestedTasks) /\ ~Active(PlainTasks) /\ Mixed!StoreInv
  /\ Active(MixedTasks) \/ ~fault

SchedulersInv == NestedRuns \/ PlainRuns \/ MixedRuns

\* A behaviour begins with one group to be called.
LEMMA SchedulersInit == Started => SchedulersInv
<1> SUFFICES ASSUME Started PROVE SchedulersInv
  OBVIOUS
<1>1. PICK group \in Groups : pc = [t \in AllTasks |-> IF t \in group THEN "none" ELSE "done"]
  BY DEF Started
<1>2. pc \in [AllTasks -> {"none", "done"}]
  BY <1>1
<1>3. Mixed!Begun /\ Nested!Begun /\ Plain!Begun
  BY <1>2, GroupAssumption DEF Started, Mixed!Begun, Nested!Begun, Plain!Begun
<1>4. Mixed!StoreInv /\ Nested!StoreInv /\ Plain!StoreInv
  BY <1>3, Mixed!StoreInvInit, Nested!StoreInvInit, Plain!StoreInvInit,
     MixedSetting, NestedSetting, PlainSetting
<1>5. ASSUME NEW other \in Groups, other \cap group = {}
      PROVE  ~Active(other)
  BY <1>1, <1>5, GroupAssumption, TasksOfGroups DEF Started, Active
<1> QED BY <1>4, <1>5, GroupAssumption
        DEF Started, SchedulersInv, NestedRuns, PlainRuns, MixedRuns, Groups

\* What a driving loop does at its awaits, whoever is active.
LoopYields == DriveYields \/ \E d \in Loops : RaceEnds(d)

\* If no mixed task is active, only a loop that yields or stops racing is left to Next.
LEMMA OnlyDrives ==
  ASSUME ~Active(MixedTasks), Next,
         stack # <<>> /\ Top.task \in Tasks => pc[Top.task] = "guest",
         \A k \in DOMAIN stack : stack[k].task \in Tasks => pc[stack[k].task] = "guest",
         \A k \in DOMAIN settled : pc[settled[k]] = "tail"
  PROVE  LoopYields
<1>1. \A t \in Tasks : pc[t] = "done" /\ state[t] = "initial"
  BY GroupAssumption DEF Active
<1>2. ASSUME NEW t \in Tasks, HostCall(t) \/ DeferHostCall(t) \/ HostGate(t) PROVE FALSE
  BY <1>1, <1>2 DEF HostCall, DeferHostCall, HostGate, RecheckHops, AdmittedCall
<1>3. ASSUME NEW t \in Tasks, GuestStep(t) PROVE FALSE
  BY <1>1, <1>3 DEF GuestStep, GuestTaskReturn, GuestTaskCancel, GuestBackpressure, GuestHops,
                    GuestMeetsCancel, GuestBlocks, TopOf, Running
<1>4. ASSUME NEW t \in Tasks, GuestReturn(t) PROVE FALSE
  BY <1>1, <1>4 DEF GuestReturn, ReturnHops, ReturnPlain, ReturnToCancel, Running
<1>5. ASSUME NEW t \in Tasks, Trap(t) PROVE FALSE
  BY <1>1, <1>5 DEF Trap, TrapHops, TrapPoisons, TopIsGuest
<1>6. ASSUME NEW t \in Tasks, Engine(t) \/ Signal(t) PROVE FALSE
  BY <1>1, <1>6 DEF Engine, EngineResume, Settle, Signal
<1>7. ASSUME NEW t \in Tasks, Service(t) PROVE FALSE
  BY <1>1, <1>7 DEF Service, ServiceRetired, ServiceReturn, ServiceToCancel, ServiceTrap,
                    TakeSettled
<1>8. ASSUME NEW t \in Tasks, Tick(t) PROVE FALSE
  BY <1>1, <1>8 DEF Tick, TickGate, TickLoop, TickPoint
<1>9. ASSUME NEW u \in Tasks, NEW t \in Tasks, GuestCall(u, t) \/ Cancel(u, t) PROVE FALSE
  BY <1>1, <1>9 DEF GuestCall, Cancel, CancelAtGate, CancelAtLoop, CancelAtPoint,
                    CancelRecorded
<1>10. ASSUME NEW d \in Loops, NEW t \in Tasks, Race(d, t) PROVE FALSE
  BY <1>1, <1>10 DEF Race, Awaiting
<1> QED BY <1>2, <1>3, <1>4, <1>5, <1>6, <1>7, <1>8, <1>9, <1>10 DEF Next, LoopYields

\* Whichever group runs, a step is one of its store.
LEMMA StepOfOne ==
  ASSUME [Step]_vars
  PROVE  /\ NestedRuns => [Nested!Next]_(Nested!vars)
         /\ PlainRuns => [Plain!Next]_(Plain!vars)
         /\ MixedRuns => [Mixed!Next]_(Mixed!vars)
<1>1. vars' = vars => /\ Nested!vars' = Nested!vars
                      /\ Plain!vars' = Plain!vars
                      /\ Mixed!vars' = Mixed!vars
  BY DEF vars, taskVars, lockVars, gateVars, queueVars, jsVars,
         Nested!vars, Nested!taskVars, Nested!lockVars, Nested!gateVars, Nested!queueVars,
         Nested!jsVars, Plain!vars, Plain!taskVars, Plain!lockVars, Plain!gateVars,
         Plain!queueVars, Plain!jsVars, Mixed!vars, Mixed!taskVars, Mixed!lockVars,
         Mixed!gateVars, Mixed!queueVars, Mixed!jsVars, raceVars, Nested!raceVars,
         Plain!raceVars, Mixed!raceVars
<1>2. ASSUME NestedRuns, Next PROVE Nested!Next
  <2>1. stack # <<>> /\ Top.task \in Tasks => pc[Top.task] = "guest"
    BY <1>2, Nested!TopAtGuest, NestedSetting, TasksOfGroups
       DEF NestedRuns, Nested!StoreInv, Top, Nested!Top
  <2>2. \A k \in DOMAIN settled : pc[settled[k]] = "tail"
    BY <1>2 DEF NestedRuns, Nested!StoreInv, Nested!SlotInv, Nested!SettledTails
  <2>3. \A k \in DOMAIN stack : stack[k].task \in Tasks => pc[stack[k].task] = "guest"
    BY <1>2, GroupAssumption, TasksOfGroups
       DEF NestedRuns, Nested!StoreInv, Nested!SlotInv, Nested!Segments
  <2>4. LoopYields
    BY <1>2, <2>1, <2>2, <2>3, OnlyDrives DEF NestedRuns
  <2> QED BY <2>4 DEF LoopYields, DriveYields, RaceEnds, Nested!Next, Nested!DriveYields,
                      Nested!RaceEnds, DriverTurn, Below, Top, Nested!DriverTurn, Nested!Below,
                      Nested!Top, raceVars, taskVars, lockVars, gateVars, queueVars, jsVars,
                      Nested!raceVars, Nested!taskVars, Nested!lockVars, Nested!gateVars,
                      Nested!queueVars, Nested!jsVars
<1>3. ASSUME PlainRuns, Next PROVE Plain!Next
  <2>1. stack # <<>> /\ Top.task \in Tasks => pc[Top.task] = "guest"
    BY <1>3, Plain!TopAtGuest, PlainSetting, TasksOfGroups
       DEF PlainRuns, Plain!StoreInv, Top, Plain!Top
  <2>2. \A k \in DOMAIN settled : pc[settled[k]] = "tail"
    BY <1>3 DEF PlainRuns, Plain!StoreInv, Plain!SlotInv, Plain!SettledTails
  <2>3. \A k \in DOMAIN stack : stack[k].task \in Tasks => pc[stack[k].task] = "guest"
    BY <1>3, GroupAssumption, TasksOfGroups
       DEF PlainRuns, Plain!StoreInv, Plain!SlotInv, Plain!Segments
  <2>4. LoopYields
    BY <1>3, <2>1, <2>2, <2>3, OnlyDrives DEF PlainRuns
  <2> QED BY <2>4 DEF LoopYields, DriveYields, RaceEnds, Plain!Next, Plain!DriveYields,
                      Plain!RaceEnds, DriverTurn, Below, Top, Plain!DriverTurn, Plain!Below,
                      Plain!Top, raceVars, taskVars, lockVars, gateVars, queueVars, jsVars,
                      Plain!raceVars, Plain!taskVars, Plain!lockVars, Plain!gateVars,
                      Plain!queueVars, Plain!jsVars
<1> QED BY <1>1, <1>2, <1>3, NextOfMixed DEF Step, NestedRuns, PlainRuns, MixedRuns

\* Every step keeps the invariant.
LEMMA SchedulersNext ==
  ASSUME SchedulersInv, [Step]_vars
  PROVE  SchedulersInv'
<1>1. CASE NestedRuns
  <2>1. Nested!StoreInv /\ [Nested!Next]_(Nested!vars)
    BY <1>1, StepOfOne DEF NestedRuns
  <2>2. Nested!StoreInv'
    BY <2>1, Nested!StoreInvNext, NestedSetting
  <2>3. \A t \in AllTasks : (pc'[t] = "done" /\ state'[t] = "initial") <=>
                         (pc[t] = "done" /\ state[t] = "initial")
    BY <2>1, Nested!UncalledStays, NestedSetting DEF Nested!Uncalled
  <2>4. ~Active(PlainTasks)' /\ ~Active(MixedTasks)'
    BY <1>1, <2>3, TasksOfGroups DEF NestedRuns, Active, Groups
  <2> QED BY <2>2, <2>4 DEF SchedulersInv, NestedRuns
<1>2. CASE PlainRuns
  <2>1. Plain!StoreInv /\ [Plain!Next]_(Plain!vars)
    BY <1>2, StepOfOne DEF PlainRuns
  <2>2. Plain!StoreInv'
    BY <2>1, Plain!StoreInvNext, PlainSetting
  <2>3. \A t \in AllTasks : (pc'[t] = "done" /\ state'[t] = "initial") <=>
                         (pc[t] = "done" /\ state[t] = "initial")
    BY <2>1, Plain!UncalledStays, PlainSetting DEF Plain!Uncalled
  <2>4. ~Active(NestedTasks)' /\ ~Active(MixedTasks)'
    BY <1>2, <2>3, TasksOfGroups DEF PlainRuns, Active, Groups
  <2> QED BY <2>2, <2>4 DEF SchedulersInv, PlainRuns
<1>3. CASE MixedRuns
  <2>1. Mixed!StoreInv /\ [Mixed!Next]_(Mixed!vars)
    BY <1>3, StepOfOne DEF MixedRuns
  <2>2. Mixed!StoreInv'
    BY <2>1, Mixed!StoreInvNext, MixedSetting
  <2>3. \A t \in AllTasks : (pc'[t] = "done" /\ state'[t] = "initial") <=>
                            (pc[t] = "done" /\ state[t] = "initial")
    BY <2>1, Mixed!UncalledStays, MixedSetting DEF Mixed!Uncalled
  <2>4. /\ ~Active(NestedTasks)' /\ ~Active(PlainTasks)'
        /\ Active(MixedTasks)' <=> Active(MixedTasks)
    BY <1>3, <2>3, TasksOfGroups DEF MixedRuns, Active, Groups
  <2>5. ASSUME ~Active(MixedTasks) PROVE fault' = fault
    <3>1. stack # <<>> /\ Top.task \in Tasks => pc[Top.task] = "guest"
      BY <2>1, Mixed!TopAtGuest, MixedSetting, TasksOfGroups DEF Mixed!StoreInv, Top, Mixed!Top
    <3>2. \A k \in DOMAIN settled : pc[settled[k]] = "tail"
      BY <2>1 DEF Mixed!StoreInv, Mixed!SlotInv, Mixed!SettledTails
    <3>3. \A k \in DOMAIN stack : stack[k].task \in Tasks => pc[stack[k].task] = "guest"
      BY <2>1, GroupAssumption, TasksOfGroups DEF Mixed!StoreInv, Mixed!SlotInv, Mixed!Segments
    <3>4. Next => LoopYields
      BY <2>5, <3>1, <3>2, <3>3, OnlyDrives
    <3> QED BY <1>3, <2>5, <3>4
            DEF MixedRuns, Step, LoopYields, DriveYields, RaceEnds, vars, lockVars
  <2>6. (Active(MixedTasks) \/ ~fault)'
    BY <1>3, <2>4, <2>5 DEF MixedRuns
  <2> QED BY <2>2, <2>4, <2>6 DEF SchedulersInv, MixedRuns
<1> QED BY <1>1, <1>2, <1>3 DEF SchedulersInv

\* In each of the three stores, the invariant of TaskScheduler_proofs.
THEOREM SchedulersInvariant == SchedulersSpec => []SchedulersInv
<1>1. SchedulersInv /\ [Step]_vars => SchedulersInv'
  BY SchedulersNext
<1> QED BY <1>1, SchedulersInit, PTL DEF SchedulersSpec

-----------------------------------------------------------------------------
(* Results.                                                                   *)

\* No assert_ of the lock, the gate or the callback loop fails, unless a promising
\* caller has plain callees (MCRootRelease shows that it may then).
THEOREM NoneFails == SchedulersSpec => []NoneAsserts
<1>1. SchedulersInv => NoneAsserts
  <2>1. NestedRuns => ~fault
    BY Nested!StoreInvSuffices, NestedSetting, AllWrapped DEF NestedRuns, Nested!NoAssertFails
  <2>2. PlainRuns => ~fault
    BY Plain!StoreInvSuffices, PlainSetting, AllWrapped DEF PlainRuns, Plain!NoAssertFails
  <2> QED BY <2>1, <2>2 DEF SchedulersInv, NoneAsserts, MixedRuns
<1> QED BY <1>1, SchedulersInvariant, PTL

\* The queues hold each parked thread and each settled tail once, the counts are
\* those of the gates, and where callbacks are wrapped the lock mirrors the stack.
THEOREM BooksBalance == SchedulersSpec => []BookkeepingExact
<1>1. SchedulersInv => BookkeepingExact
  <2>1. NestedRuns => Nested!LockBracket /\ Nested!QueuesExact
    BY Nested!StoreInvSuffices, NestedSetting, AllWrapped DEF NestedRuns
  <2>2. PlainRuns => Plain!LockBracket
    BY Plain!StoreInvSuffices, PlainSetting, AllWrapped DEF PlainRuns
  <2>3. ASSUME MixedRuns PROVE QueuesExact
    <3>1. Mixed!QueuesExact
      BY <2>3, Mixed!StoreInvSuffices, MixedSetting DEF MixedRuns
    <3>2. \A t \in AllTasks : t \notin Tasks => pc[t] = "done"
      BY <2>3, GroupAssumption DEF MixedRuns, Active, AllTasks, Groups
    <3>3. /\ \A i \in Insts : {t \in AllTasks : pc[t] = "gate" /\ InstOf[t] = i}
                                = {t \in Tasks : pc[t] = "gate" /\ InstOf[t] = i}
          /\ {t \in AllTasks : pc[t] \in {"gate", "sp", "spc", "loop"}}
               = {t \in Tasks : pc[t] \in {"gate", "sp", "spc", "loop"}}
          /\ {t \in AllTasks : pc[t] = "tail"} = {t \in Tasks : pc[t] = "tail"}
      BY <3>2, TasksOfGroups
    <3>4. \A S : Mixed!Cardinality(S) = Cardinality(S)
      BY Zenon DEF Mixed!Cardinality, Cardinality
    <3>5. \A i \in Insts : numWaitingToEnter[i] =
                            Cardinality({t \in Tasks : pc[t] = "gate" /\ InstOf[t] = i})
      BY <3>1, <3>3, <3>4 DEF Mixed!QueuesExact
    <3>6. /\ ToSet(waiting) = {t \in Tasks : pc[t] \in {"gate", "sp", "spc", "loop"}}
          /\ ToSet(settled) = {t \in Tasks : pc[t] = "tail"}
      BY <3>1, <3>3 DEF Mixed!QueuesExact, ToSet, Mixed!ToSet
    <3>7. IsInjective(waiting) /\ IsInjective(settled)
      BY <3>1 DEF Mixed!QueuesExact, IsInjective, Mixed!IsInjective
    <3> QED BY <3>5, <3>6, <3>7 DEF QueuesExact
  <2> QED BY <2>1, <2>2, <2>3
          DEF SchedulersInv, BookkeepingExact, NestedRuns, PlainRuns, MixedRuns
<1> QED BY <1>1, SchedulersInvariant, PTL

\* In each store, an entry of pendingResumptions names an activation that is on its
\* way or that a loop has entered for its race.
THEOREM PendingAreOnTheWay == SchedulersSpec => []PendingOnTheWay
<1>1. SchedulersInv => PendingOnTheWay
  <2>1. NestedRuns => PendingOnTheWay
    BY Nested!StoreInvSuffices, NestedSetting
       DEF NestedRuns, PendingOnTheWay, Nested!PendingOnTheWay
  <2>2. PlainRuns => PendingOnTheWay
    BY Plain!StoreInvSuffices, PlainSetting
       DEF PlainRuns, PendingOnTheWay, Plain!PendingOnTheWay
  <2>3. MixedRuns => PendingOnTheWay
    BY Mixed!StoreInvSuffices, MixedSetting
       DEF MixedRuns, PendingOnTheWay, Mixed!PendingOnTheWay
  <2> QED BY <2>1, <2>2, <2>3 DEF SchedulersInv
<1> QED BY <1>1, SchedulersInvariant, PTL

\* A poisoned instance stays closed, in each of the stores.
THEOREM DeadAreLeftOut == SchedulersSpec => DeadStayOut
<1>1. ASSUME SchedulersInv, [Step]_vars
      PROVE  /\ Active(NestedTasks) => Nested!DeadStaysOut
             /\ Active(PlainTasks) => Plain!DeadStaysOut
             /\ Active(MixedTasks) => DeadStaysOut
  <2>1. ASSUME NestedRuns PROVE Nested!DeadStaysOut
    <3>1. Nested!StoreInv /\ [Nested!Next]_(Nested!vars)
      BY <1>1, <2>1, StepOfOne DEF NestedRuns
    <3> QED BY <3>1, Nested!DeadStepsOut, NestedSetting
  <2>2. ASSUME PlainRuns PROVE Plain!DeadStaysOut
    <3>1. Plain!StoreInv /\ [Plain!Next]_(Plain!vars)
      BY <1>1, <2>2, StepOfOne DEF PlainRuns
    <3> QED BY <3>1, Plain!DeadStepsOut, PlainSetting
  <2>3. ASSUME MixedRuns PROVE DeadStaysOut
    <3>1. Mixed!StoreInv /\ [Mixed!Next]_(Mixed!vars)
      BY <1>1, <2>3, StepOfOne DEF MixedRuns
    <3>2. Mixed!DeadStaysOut
      BY <3>1, Mixed!DeadStepsOut, MixedSetting
    <3> QED BY <3>2, TasksOfGroups DEF DeadStaysOut, Mixed!DeadStaysOut
  <2> QED BY <1>1, <2>1, <2>2, <2>3 DEF SchedulersInv, NestedRuns, PlainRuns, MixedRuns
<1>2. SchedulersInv /\ [Step]_vars =>
        [/\ Active(NestedTasks) => Nested!DeadStaysOut
         /\ Active(PlainTasks) => Plain!DeadStaysOut
         /\ Active(MixedTasks) => DeadStaysOut]_vars
  BY <1>1
<1> QED BY <1>2, SchedulersInvariant, PTL DEF SchedulersSpec, DeadStayOut
=============================================================================
