---------------------------- MODULE MCHost_proofs ----------------------------
(* What MCHost checks of a future and of a stream that the host takes part in, *)
(* proved for every set of instances, whoever creates them, and buffers of any *)
(* length.  Types and the claims of the host hold whatever the embedder does;  *)
(* that nobody is left waiting needs an embedder that is careful with its      *)
(* handles (Careful); values and elements also need calls whose arguments are  *)
(* lowered when they are adapted (~Deferred): MCProducerFailure shows what     *)
(* happens when they are not.                                                  *)
EXTENDS MCHost, FiniteSetTheorems, TLAPS

-----------------------------------------------------------------------------
(* The future.                                                                 *)

-----------------------------------------------------------------------------
(* The inductive invariant.                                                    *)

Writers == {"w", "hw"}

HostRec ==
  [kind : {"none", "created", "lifted"}, busy : BOOLEAN, delivered : BOOLEAN,
   lowered : BOOLEAN, bound : BOOLEAN, closed : BOOLEAN, disarmed : BOOLEAN,
   current : {"none", "fresh", "awaited"}, stale : BOOLEAN,
   producer : {"none", "pending", "done", "failed"}]

Typed == TypeOK /\ host \in HostRec

\* An outstanding operation is parked or has its event, and the wrapper is busy
\* as long as an operation of the host is parked.
Outstanding ==
  /\ \A e \in Ends : /\ ev[e] # "none" => cstate[e] = "copying"
                     /\ parked = e => cstate[e] = "copying" /\ ev[e] = "none"
                     /\ Live(e) /\ cstate[e] = "copying" /\ ev[e] = "none" => parked = e
                     /\ owner[e] = Host => cstate[e] = "idle"
  /\ host.busy <=> parked \in HostOps
  /\ dropped => parked = None

\* What the wrapper's kind, its handles and its producer say of who holds the
\* ends.
WrapperFits ==
  /\ owner["w"] = Host <=> host.kind = "created"
  /\ host.kind = "created" <=> host.producer # "none"
  /\ host.kind = "none" => ~host.bound /\ ~host.lowered /\ host.current = "none"
  /\ host.lowered => host.bound
  /\ host.kind = "created" /\ ~host.lowered =>
       owner["r"] = Host /\ host.current = "none" /\ ~host.bound
  /\ parked = "hw" => host.producer = "done"
  /\ parked = "hr" => host.kind # "none"
  /\ host.current # "none" => host.bound /\ owner["r"] = Host
  /\ host.current = "fresh" => handle["r"] = "held"

\* The activity closes with the shared future; that of a lifted wrapper is
\* disarmed exactly while a guest has the end.
ClaimFits ==
  /\ host.closed => dropped
  /\ dropped /\ (host.bound \/ host.kind = "created") => host.closed
  /\ host.kind = "created" => ~host.disarmed
  /\ host.kind = "lifted" /\ host.bound /\ ~dropped =>
       (host.disarmed <=> ~(owner["r"] = Host /\ handle["r"] = "held"))

\* A careful embedder reads through the handle it has, and keeps no other.
OwnHandles == (parked = "hr" => host.current = "awaited") /\ ~host.stale

\* The value crosses once, between one reader and one writer, and each of them
\* knows; afterwards nobody parks.
Crossing ==
  /\ crossed = {} \/ \E x \in Readers, y \in Writers : crossed = {x, y}
  /\ crossed # {} => parked = None
  /\ "r" \in crossed <=> cstate["r"] = "done" \/ ev["r"] = "completed"
  /\ "hr" \in crossed => /\ owner["r"] = Host /\ host.current # "fresh"
                         /\ host.kind = "created" => host.lowered
  /\ "w" \in crossed => cstate["w"] = "done" \/ ev["w"] = "completed"
  /\ cstate["w"] = "done" => crossed # {} \/ dropped
  /\ ev["w"] = "completed" => "w" \in crossed
  /\ "hw" \in crossed => host.producer = "done"
  /\ host.producer = "done" => crossed # {} \/ dropped \/ parked = "hw"

\* While the future is not dropped its writer is there, and only a drop is told
\* as one.
Goings ==
  /\ abandoned => dropped
  /\ \A e \in Ends : ev[e] \in {"dropped", "abandoned"} => dropped
  /\ ev["r"] # "dropped" /\ ev["w"] # "abandoned"
  /\ ~dropped /\ owner["w"] # Host => Live("w") \/ handle["w"] = "lost"

\* Where no call is deferred, a dropped future that can still be read was
\* abandoned.
Answered ==
  /\ host.kind = "created" /\ ~host.lowered => ~dropped
  /\ dropped /\ cstate["r"] = "idle" /\ (Live("r") \/ host.current = "fresh") => abandoned
  /\ ~fault

Kept ==
  /\ Outstanding /\ WrapperFits /\ ClaimFits
  /\ Careful => OwnHandles /\ Crossing /\ Goings
  /\ Careful /\ ~Deferred => Answered

FutureInv == Typed /\ Kept

\* A new future satisfies the invariant.
LEMMA FutureInvInit == Init => FutureInv
<1> SUFFICES ASSUME Init PROVE FutureInv
  OBVIOUS
<1> USE FutureAssumption DEF Init, Ends, HostOps, Wrapper
<1>1. host \in HostRec
  BY DEF HostRec
<1>2. TypeOK
  BY DEF TypeOK
<1>3. Kept
  BY DEF Kept, Outstanding, WrapperFits, ClaimFits, OwnHandles, Crossing, Goings, Answered, Live,
         Readers, Writers
<1> QED BY <1>1, <1>2, <1>3 DEF Typed, FutureInv

-----------------------------------------------------------------------------
(* The wrapper and the shared drop.                                            *)

\* The part of the wrapper that no notification touches.
SameClaims(h, g) ==
  /\ h.kind = g.kind /\ h.lowered = g.lowered /\ h.bound = g.bound /\ h.disarmed = g.disarmed
  /\ h.current = g.current /\ h.stale = g.stale /\ h.producer = g.producer

\* What a notification writes of the wrapper.
LEMMA SettledFields ==
  ASSUME NEW h \in HostRec, NEW p, NEW result \in {"completed", "dropped"}
  PROVE  /\ Settled(h, p, result) \in HostRec /\ SameClaims(Settled(h, p, result), h)
         /\ Settled(h, p, result).busy = (h.busy /\ p \notin HostOps)
         /\ Settled(h, p, result).closed = (h.closed \/ (p \in HostOps /\ result = "dropped"))
<1>1. CASE p \in HostOps
  BY <1>1 DEF Settled, HostRec, SameClaims
<1>2. CASE p \notin HostOps
  BY <1>2 DEF Settled, HostRec, SameClaims
<1> QED BY <1>1, <1>2

\* What SharedFutureImpl.drop and its notifications leave.
DropOutcome(h, dead) ==
  /\ dropped' = TRUE /\ host' \in HostRec /\ SameClaims(host', h) /\ fault' \in BOOLEAN
  /\ parked' \in Ends \cup HostOps \cup {None}
  /\ ev' \in [Ends -> {"none", "completed", "dropped", "abandoned"}]
  /\ dropped => host' = h /\ parked' = parked /\ ev' = ev /\ fault' = FALSE
  /\ ~dropped =>
       /\ parked' = None
       /\ host'.closed = (h.kind # "none")
       /\ host'.busy = (h.busy /\ parked \notin HostOps)
       /\ fault' = (parked = "r" /\ owner["r"] \notin dead /\ ~abandoned')
       /\ \A e \in Ends : ev'[e] = IF e = parked /\ owner[e] \notin dead
                                   THEN IF e = "r" /\ abandoned' THEN "abandoned" ELSE "dropped"
                                   ELSE ev[e]

\* A drop has that outcome, whoever of the dead is not told.
LEMMA DropFields ==
  ASSUME Typed, abandoned' \in BOOLEAN, NEW h \in HostRec, NEW dead, DropShared(h, dead)
  PROVE  DropOutcome(h, dead)
<1> USE DEF Typed, DropOutcome
<1>1. CASE dropped
  BY <1>1 DEF DropShared, TypeOK, SameClaims
<1>2. CASE ~dropped
  <2> DEFINE heard == parked \in HostOps \/ (parked \in Ends /\ owner[parked] \notin dead)
  <2>1. /\ dropped' = TRUE /\ parked' = None
        /\ ev' = IF heard THEN Noted(parked, "dropped") ELSE ev
        /\ host' = [(IF heard THEN Settled(h, parked, "dropped") ELSE h)
                    EXCEPT !.closed = h.kind # "none"]
        /\ fault' = (heard /\ Refuses(parked, "dropped"))
    BY <1>2 DEF DropShared
  <2>2. /\ host' \in HostRec /\ SameClaims(host', h) /\ host'.closed = (h.kind # "none")
        /\ host'.busy = (h.busy /\ parked \notin HostOps)
    <3>1. CASE heard
      <4> DEFINE g == Settled(h, parked, "dropped")
      <4>1. g \in HostRec /\ SameClaims(g, h) /\ g.busy = (h.busy /\ parked \notin HostOps)
        BY SettledFields
      <4>2. host' = [g EXCEPT !.closed = h.kind # "none"]
        BY <2>1, <3>1
      <4> HIDE DEF g
      <4> QED BY <4>1, <4>2 DEF HostRec, SameClaims
    <3>2. CASE ~heard
      <4>1. parked \notin HostOps
        BY <3>2
      <4>2. host' = [h EXCEPT !.closed = h.kind # "none"]
        BY <2>1, <3>2
      <4> HIDE DEF heard
      <4> QED BY <4>1, <4>2 DEF HostRec, SameClaims
    <3> QED BY <3>1, <3>2
  <2>3. /\ ev' \in [Ends -> {"none", "completed", "dropped", "abandoned"}]
        /\ \A e \in Ends : ev'[e] = IF e = parked /\ owner[e] \notin dead
                                    THEN IF e = "r" /\ abandoned' THEN "abandoned" ELSE "dropped"
                                    ELSE ev[e]
    BY <2>1 DEF Noted, Ends, HostOps, TypeOK
  <2>4. /\ fault' = (parked = "r" /\ owner["r"] \notin dead /\ ~abandoned')
        /\ fault' \in BOOLEAN
    BY <2>1 DEF Refuses, Ends, HostOps
  <2> QED BY <1>2, <2>1, <2>2, <2>3, <2>4
<1>3. dropped \in BOOLEAN
  BY DEF TypeOK
<1> QED BY <1>1, <1>2, <1>3

\* An instance dies: what a trap, whatever trapped, leaves of the future.
RetireOutcome(i, table) ==
  /\ poisoned' = poisoned \cup {i} /\ crossed' = crossed
  /\ abandoned' = (abandoned \/ Owes(table)) /\ abandoned' \in BOOLEAN
  /\ \/ table = {} /\ UNCHANGED <<dropped, parked, ev, host>> /\ fault' = FALSE
     \/ table # {} /\ DropOutcome(host, poisoned')

\* A dying instance has that outcome.
LEMMA RetireFields ==
  ASSUME Typed, NEW i, NEW table, Retire(i, table)
  PROVE  RetireOutcome(i, table)
<1>1. abandoned' = (abandoned \/ Owes(table)) /\ abandoned' \in BOOLEAN
  BY DEF Retire, Typed, TypeOK
<1>2. CASE table = {}
  BY <1>1, <1>2 DEF Retire, RetireOutcome
<1>3. CASE table # {}
  BY <1>1, <1>3, DropFields DEF Retire, RetireOutcome, Typed
<1> QED BY <1>2, <1>3

\* A dying instance keeps types.
LEMMA RetireTyped ==
  ASSUME Typed, NEW i \in Insts, NEW table, Retire(i, table), UNCHANGED <<owner, cstate, wait>>,
         handle' \in [Ends -> {"held", "dropped", "lost"}]
  PROVE  Typed'
<1>1. RetireOutcome(i, table)
  BY RetireFields
<1> QED BY <1>1 DEF RetireOutcome, DropOutcome, Typed, TypeOK

\* A dying instance keeps what the invariant says, of the ends in its table and
\* of one that a built-in removed before it trapped.
LEMMA RetireKeeps ==
  ASSUME Typed, Kept, NEW i \in Insts, NEW table, Retire(i, table), UNCHANGED <<owner, cstate,
         wait>>,
         \/ handle' = handle /\ table = Table(i)
         \/ \E e \in Ends : /\ handle[e] = "held" /\ owner[e] = i /\ table = Table(i) \ {e}
                            /\ handle' = [handle EXCEPT ![e] = "lost"]
  PROVE  Kept'
<1> USE FutureAssumption
    DEF Typed, Kept, Ends, HostOps, Live, Table
<1>1. RetireOutcome(i, table)
  BY RetireFields
<1>2. /\ owner' = owner /\ cstate' = cstate
      /\ handle' \in [Ends -> {"held", "dropped", "lost"}]
      /\ \A e \in Ends : /\ Live(e)' => Live(e) /\ owner[e] # i
                         /\ Live(e) => Live(e)' \/ e \in table \/ handle'[e] = "lost"
                         /\ handle'[e] = "held" => handle[e] = "held"
                         /\ handle[e] = "lost" => handle'[e] = "lost"
                         /\ owner[e] # i => handle'[e] = handle[e]
                         /\ e \in table => owner[e] = i
      /\ table \subseteq Ends
  BY <1>1 DEF RetireOutcome, TypeOK
<1> HIDE DEF Table
<1>3. CASE table = {}
  <2>1. /\ UNCHANGED <<dropped, parked, ev, host, crossed, owner, cstate>> /\ fault' = FALSE
        /\ abandoned' = abandoned
    BY <1>1, <1>3 DEF RetireOutcome, DropOutcome, Owes, TypeOK
  <2> HIDE DEF Live
  <2>2. Outstanding' /\ ClaimFits'
    BY <1>2, <2>1 DEF TypeOK, Outstanding, WrapperFits, ClaimFits
  <2>3. WrapperFits' /\ (Careful => OwnHandles' /\ Crossing')
    BY <1>2, <2>1 DEF TypeOK, WrapperFits, OwnHandles, Crossing
  <2>4. Careful => Goings'
    BY <1>2, <1>3, <2>1 DEF TypeOK, Goings
  <2>5. Careful /\ ~Deferred => Answered'
    BY <1>2, <2>1 DEF TypeOK, Answered
  <2> QED BY <2>2, <2>3, <2>4, <2>5
<1>4. CASE table # {} /\ dropped
  <2>1. /\ UNCHANGED <<dropped, parked, ev, host, crossed, owner, cstate>> /\ fault' = FALSE
        /\ abandoned' = abandoned
    BY <1>1, <1>4 DEF RetireOutcome, DropOutcome, Owes, TypeOK
  <2> HIDE DEF Live
  <2>2. Outstanding' /\ ClaimFits'
    BY <1>2, <1>4, <2>1 DEF TypeOK, Outstanding, WrapperFits, ClaimFits
  <2>3. WrapperFits' /\ (Careful => OwnHandles' /\ Crossing')
    BY <1>2, <2>1 DEF TypeOK, WrapperFits, OwnHandles, Crossing
  <2>4. Careful => Goings'
    BY <1>2, <1>4, <2>1 DEF TypeOK, Goings
  <2>5. Careful /\ ~Deferred => Answered'
    BY <1>2, <2>1 DEF TypeOK, Answered
  <2> QED BY <2>2, <2>3, <2>4, <2>5
<1>5. CASE table # {} /\ ~dropped
  <2>1. /\ dropped' = TRUE /\ parked' = None /\ crossed' = crossed
        /\ host' \in HostRec /\ SameClaims(host', host)
        /\ host'.closed = (host.kind # "none") /\ host'.busy = (host.busy /\ parked \notin HostOps)
        /\ fault' = (parked = "r" /\ owner["r"] \notin poisoned' /\ ~abandoned')
        /\ \A e \in Ends : ev'[e] = IF e = parked /\ owner[e] \notin poisoned'
                                    THEN IF e = "r" /\ abandoned' THEN "abandoned" ELSE "dropped"
                                    ELSE ev[e]
        /\ poisoned' = poisoned \cup {i}
        /\ abandoned' = (abandoned \/ ("w" \in table /\ cstate["w"] # "done"))
    BY <1>1, <1>5 DEF RetireOutcome, DropOutcome, Owes
  <2>2. Careful => ~fault'
    <3>1. SUFFICES ASSUME Careful, parked = "r", owner["r"] \notin poisoned' PROVE abandoned'
      BY <2>1
    <3>2. "r" \notin table /\ crossed = {}
      BY <1>2, <2>1, <3>1 DEF Crossing
    <3>3. "w" \in table /\ cstate["w"] # "done"
      BY ZenonT(60), <1>2, <1>5, <3>1, <3>2 DEF Crossing
    <3> QED BY <2>1, <3>3
  <2>3. Outstanding'
    <3>1. \A e \in Ends : Live(e)' => Live(e) /\ owner[e] \notin poisoned'
      BY <1>2, <2>1 DEF TypeOK
    <3> HIDE DEF Live
    <3>2. ~host'.busy /\ parked' \notin HostOps
      BY <2>1 DEF HostRec, Outstanding
    <3>3. ASSUME NEW e \in Ends
          PROVE  /\ ev'[e] # "none" => cstate[e] = "copying"
                 /\ Live(e)' /\ cstate[e] = "copying" => ev'[e] # "none"
                 /\ parked' # e
      BY <2>1, <3>1 DEF TypeOK, Outstanding
    <3> QED BY <1>2, <2>1, <3>2, <3>3 DEF Outstanding
  <2>4. WrapperFits' /\ ClaimFits' /\ (Careful => OwnHandles')
    <3> HIDE DEF Live
    <3>1. handle["r"] = "held" /\ owner["r"] = Host => handle'["r"] = "held"
      BY <1>2
    <3>2. WrapperFits'
      BY <1>2, <2>1, <3>1 DEF WrapperFits, SameClaims
    <3>3. ClaimFits'
      BY <2>1 DEF ClaimFits, SameClaims, HostRec, WrapperFits
    <3>4. Careful => OwnHandles'
      BY <2>1 DEF OwnHandles, SameClaims
    <3> QED BY <3>2, <3>3, <3>4
  <2>5. Careful => Crossing'
    BY <1>2, <1>5, <2>1, <2>2 DEF TypeOK, Crossing, SameClaims, Outstanding, Readers, Writers
  <2>6. ASSUME Careful PROVE Goings'
    <3>1. ev'["r"] # "dropped" /\ ev'["w"] # "abandoned"
      BY <2>1, <2>2, <2>6 DEF Goings
    <3> QED BY <1>2, <2>1, <2>6, <3>1 DEF Goings, SameClaims
  <2>7. ASSUME Careful, ~Deferred PROVE Answered'
    <3>1. host.kind = "created" => host.lowered
      BY <1>2, <1>5 DEF WrapperFits
    <3>2. ASSUME cstate["r"] = "idle", Live("r")' \/ host.current = "fresh" PROVE abandoned'
      <4>1. "r" \notin table /\ crossed = {}
        <5>1. owner["r"] # i /\ (owner["r"] # Host \/ host.current = "fresh")
          BY <1>2, <3>2 DEF WrapperFits
        <5>2. "r" \notin crossed /\ "hr" \notin crossed
          BY <2>7, <3>2, <5>1 DEF Crossing, Outstanding
        <5> QED BY <1>2, <2>7, <5>1, <5>2 DEF Crossing, Readers
      <4>2. "w" \in table /\ cstate["w"] # "done"
        BY ZenonT(60), <1>2, <1>5, <2>7, <4>1 DEF Crossing
      <4> QED BY <2>1, <4>2
    <3> QED BY <1>2, <2>1, <2>2, <2>7, <3>1, <3>2 DEF Answered, SameClaims
  <2> QED BY <2>2, <2>3, <2>4, <2>5, <2>6, <2>7
<1> QED BY <1>3, <1>4, <1>5

-----------------------------------------------------------------------------
(* Guests: copies, events, cancellation.                                     *)

\* A write to a dropped future is answered and leaves the value where it is.
LEMMA WriteDroppedKeeps ==
  ASSUME Typed, Kept, NEW async \in BOOLEAN, WriteDropped(async)
  PROVE  Typed' /\ Kept'
<1> USE FutureAssumption DEF Ends, HostOps, Live, Typed, shared, WriteDropped, MayCopy
<1>1. Typed'
  <2>1. host' \in HostRec
    BY DEF HostRec, Settled
  <2>2. TypeOK'
    BY DEF TypeOK, Noted
  <2> QED BY <2>1, <2>2
<1>2. Kept'
  <2> USE DEF Kept
  <2>1. Outstanding'
    BY DEF TypeOK, HostRec, Outstanding, Crossing, Noted, Settled
  <2>2. WrapperFits'
    BY DEF TypeOK, HostRec, WrapperFits, Outstanding, Noted, Settled
  <2>3. ClaimFits'
    BY DEF TypeOK, HostRec, ClaimFits, WrapperFits, Outstanding, Noted, Settled
  <2>4. Careful => Crossing'
    BY DEF TypeOK, HostRec, OwnHandles, Crossing, Outstanding, WrapperFits, Noted, Settled,
           Readers, Writers
  <2>5. Careful => Goings' /\ OwnHandles'
    BY DEF TypeOK, HostRec, Goings, Outstanding, WrapperFits, Crossing, Noted, Settled, OwnHandles
  <2>6. Careful /\ ~Deferred => Answered'
    BY DEF TypeOK, HostRec, Goings, Outstanding, WrapperFits, Crossing, Noted, Settled, Answered
  <2> QED BY <2>1, <2>2, <2>3, <2>4, <2>5, <2>6
<1> QED BY <1>1, <1>2

\* The first to come parks.
LEMMA CopyParksKeeps ==
  ASSUME Typed, Kept, NEW e \in Ends, NEW async \in BOOLEAN, CopyParks(e, async)
  PROVE  Typed' /\ Kept'
<1> USE FutureAssumption DEF Ends, HostOps, Live, Typed, shared, CopyParks, MayCopy
<1>1. Typed'
  <2>1. host' \in HostRec
    BY DEF HostRec, Settled
  <2>2. TypeOK'
    BY DEF TypeOK, Noted
  <2> QED BY <2>1, <2>2
<1>2. Kept'
  <2> USE DEF Kept
  <2>1. Outstanding'
    BY DEF TypeOK, HostRec, Outstanding, Crossing, Noted, Settled
  <2>2. WrapperFits'
    BY DEF TypeOK, HostRec, WrapperFits, Outstanding, Noted, Settled
  <2>3. ClaimFits'
    BY DEF TypeOK, HostRec, ClaimFits, WrapperFits, Outstanding, Noted, Settled
  <2>4. Careful => Crossing'
    BY ZenonT(60) DEF TypeOK, HostRec, OwnHandles, Crossing, Outstanding, WrapperFits, Noted, Settled,
           Readers, Writers
  <2>5. Careful => Goings' /\ OwnHandles'
    BY DEF TypeOK, HostRec, Goings, Outstanding, WrapperFits, Crossing, Noted, Settled, OwnHandles
  <2>6. Careful /\ ~Deferred => Answered'
    BY DEF TypeOK, HostRec, Goings, Outstanding, WrapperFits, Crossing, Noted, Settled, Answered
  <2> QED BY <2>1, <2>2, <2>3, <2>4, <2>5, <2>6
<1> QED BY <1>1, <1>2

\* The second to come meets it, and both know that the value crossed.
LEMMA CopyMeetsKeeps ==
  ASSUME Typed, Kept, NEW e \in Ends, NEW async \in BOOLEAN, CopyMeets(e, async)
  PROVE  Typed' /\ Kept'
<1> USE FutureAssumption DEF Ends, HostOps, Live, Typed, shared, CopyMeets, MayCopy
<1>1. Typed'
  <2>1. host' \in HostRec
    BY DEF HostRec, Settled
  <2>2. TypeOK'
    BY DEF TypeOK, Noted
  <2> QED BY <2>1, <2>2
<1>2. Kept'
  <2> USE DEF Kept
  <2>1. Outstanding'
    BY DEF TypeOK, HostRec, Outstanding, Crossing, Noted, Settled
  <2>2. WrapperFits'
    BY DEF TypeOK, HostRec, WrapperFits, Outstanding, Noted, Settled
  <2>3. ClaimFits'
    BY DEF TypeOK, HostRec, ClaimFits, WrapperFits, Outstanding, Noted, Settled
  <2>4. Careful => Crossing'
    BY DEF TypeOK, HostRec, OwnHandles, Crossing, Outstanding, WrapperFits, Noted, Settled,
           Readers, Writers
  <2>5. Careful => Goings' /\ OwnHandles'
    BY DEF TypeOK, HostRec, Goings, Outstanding, WrapperFits, Crossing, Noted, Settled, OwnHandles
  <2>6. Careful /\ ~Deferred => Answered'
    BY DEF TypeOK, HostRec, Goings, Outstanding, WrapperFits, Crossing, Noted, Settled, Answered
  <2> QED BY <2>1, <2>2, <2>3, <2>4, <2>5, <2>6
<1> QED BY <1>1, <1>2

\* An event taken ends the copy.
LEMMA TakesKeeps ==
  ASSUME Typed, Kept, NEW e \in Ends, Live(e), ev[e] \notin {"none", "abandoned"}, TakeEvent(e)
  PROVE  Typed' /\ Kept'
<1> USE FutureAssumption DEF Ends, HostOps, Live, Typed, shared, TakeEvent
<1>1. Typed'
  <2>1. host' \in HostRec
    BY DEF HostRec, Settled
  <2>2. TypeOK'
    <3>1. cstate' \in [Ends -> {"idle", "copying", "done"}]
      BY DEF TypeOK
    <3>2. ev' \in [Ends -> {"none", "completed", "dropped", "abandoned"}]
      BY DEF TypeOK
    <3>3. wait' \in [Ends -> {"no", "set", "sync"}]
      BY DEF TypeOK
    <3> QED BY <3>1, <3>2, <3>3 DEF TypeOK
  <2> QED BY <2>1, <2>2
<1>2. Kept'
  <2> USE DEF Kept
  <2>1. Outstanding'
    BY DEF TypeOK, HostRec, Outstanding, Crossing, Noted, Settled
  <2>2. WrapperFits'
    BY DEF TypeOK, HostRec, WrapperFits, Outstanding, Noted, Settled
  <2>3. ClaimFits'
    BY DEF TypeOK, HostRec, ClaimFits, WrapperFits, Outstanding, Noted, Settled
  <2>4. Careful => Crossing'
    <3>1. /\ \A x \in Ends : cstate'[x] = IF x = e THEN "done" ELSE cstate[x]
          /\ \A x \in Ends : ev'[x] = IF x = e THEN "none" ELSE ev[x]
          /\ ev[e] \in {"completed", "dropped"} /\ (Careful /\ e = "r" => ev[e] = "completed")
          /\ Careful /\ ev[e] = "dropped" => dropped
          /\ cstate[e] = "copying"
      BY DEF TypeOK, Goings, Outstanding
    <3> HIDE DEF TakeEvent
    <3>2. UNCHANGED <<owner, handle, shared, poisoned, host>>
      BY DEF TakeEvent
    <3> QED BY <3>1, <3>2 DEF TypeOK, HostRec, Crossing, Outstanding, WrapperFits, Noted,
                              Settled, Readers, Writers
  <2>5. Careful => Goings' /\ OwnHandles'
    BY DEF TypeOK, HostRec, Goings, Outstanding, WrapperFits, Crossing, Noted, Settled, OwnHandles
  <2>6. Careful /\ ~Deferred => Answered'
    BY DEF TypeOK, HostRec, Goings, Outstanding, WrapperFits, Crossing, Noted, Settled, Answered
  <2> QED BY <2>1, <2>2, <2>3, <2>4, <2>5, <2>6
<1> QED BY <1>1, <1>2

\* A cancelled copy that was parked leaves nothing.
LEMMA TakesBackKeeps ==
  ASSUME Typed, Kept, NEW e \in Ends, Live(e), cstate[e] = "copying", ev[e] = "none",
         CancelCopy(e, TRUE)
  PROVE  Typed' /\ Kept'
<1> USE FutureAssumption DEF Ends, HostOps, Live, Typed, shared, CancelCopy
<1>1. Typed'
  <2>1. host' \in HostRec
    BY DEF HostRec, Settled
  <2>2. TypeOK'
    BY ZenonT(60) DEF TypeOK, Noted
  <2> QED BY <2>1, <2>2
<1>2. Kept'
  <2> USE DEF Kept
  <2>1. Outstanding'
    BY DEF TypeOK, HostRec, Outstanding, Crossing, Noted, Settled
  <2>2. WrapperFits'
    BY DEF TypeOK, HostRec, WrapperFits, Outstanding, Noted, Settled
  <2>3. ClaimFits'
    BY DEF TypeOK, HostRec, ClaimFits, WrapperFits, Outstanding, Noted, Settled
  <2>4. Careful => Crossing'
    BY DEF TypeOK, HostRec, OwnHandles, Crossing, Outstanding, WrapperFits, Noted, Settled,
           Readers, Writers
  <2>5. Careful => Goings' /\ OwnHandles'
    BY DEF TypeOK, HostRec, Goings, Outstanding, WrapperFits, Crossing, Noted, Settled, OwnHandles
  <2>6. Careful /\ ~Deferred => Answered'
    BY DEF TypeOK, HostRec, Goings, Outstanding, WrapperFits, Crossing, Noted, Settled, Answered
  <2> QED BY <2>1, <2>2, <2>3, <2>4, <2>5, <2>6
<1> QED BY <1>1, <1>2

\* Sets and synchronous waits do not touch the copy.
LEMMA JoinKeeps ==
  ASSUME Typed, Kept, NEW e \in Ends, Join(e)
  PROVE  Typed' /\ Kept'
<1> USE FutureAssumption DEF Ends, HostOps, Live, Typed, shared, Join
<1>1. Typed'
  <2>1. host' \in HostRec
    BY DEF HostRec, Settled
  <2>2. TypeOK'
    BY DEF TypeOK, Noted
  <2> QED BY <2>1, <2>2
<1>2. Kept'
  <2> USE DEF Kept
  <2>1. Outstanding'
    BY DEF TypeOK, HostRec, Outstanding, Crossing, Noted, Settled
  <2>2. WrapperFits'
    BY DEF TypeOK, HostRec, WrapperFits, Outstanding, Noted, Settled
  <2>3. ClaimFits'
    BY DEF TypeOK, HostRec, ClaimFits, WrapperFits, Outstanding, Noted, Settled
  <2>4. Careful => Crossing'
    BY DEF TypeOK, HostRec, OwnHandles, Crossing, Outstanding, WrapperFits, Noted, Settled,
           Readers, Writers
  <2>5. Careful => Goings' /\ OwnHandles'
    BY DEF TypeOK, HostRec, Goings, Outstanding, WrapperFits, Crossing, Noted, Settled, OwnHandles
  <2>6. Careful /\ ~Deferred => Answered'
    BY DEF TypeOK, HostRec, Goings, Outstanding, WrapperFits, Crossing, Noted, Settled, Answered
  <2> QED BY <2>1, <2>2, <2>3, <2>4, <2>5, <2>6
<1> QED BY <1>1, <1>2


-----------------------------------------------------------------------------
(* Guests: drops, traps, transfers.                                          *)

\* Only a writer that has written drops its end, so the value crossed or nobody can read it.
LEMMA DropKeeps ==
  ASSUME Typed, Kept, NEW e \in Ends, Drop(e)
  PROVE  Typed' /\ Kept'
<1> USE FutureAssumption DEF Ends, HostOps, Live, Typed, shared, Drop, MayDrop
<1> DEFINE h == host
           gone == {}
<1>1. h \in HostRec /\ abandoned' \in BOOLEAN
  BY DEF HostRec, TypeOK
<1>2. DropOutcome(h, gone)
  BY <1>1, DropFields
<1>3. Typed'
  BY <1>2 DEF DropOutcome, TypeOK
<1>4. Kept'
  <2> USE <1>2 DEF Kept
  <2>1. Outstanding'
    BY DEF TypeOK, HostRec, Outstanding, Crossing, WrapperFits, DropOutcome, SameClaims
  <2>2. WrapperFits'
    BY DEF TypeOK, HostRec, WrapperFits, Outstanding, DropOutcome, SameClaims
  <2>3. ClaimFits'
    BY DEF TypeOK, HostRec, ClaimFits, WrapperFits, Outstanding, DropOutcome, SameClaims
  <2>4. Careful => Crossing'
    BY DEF TypeOK, HostRec, OwnHandles, Crossing, Outstanding, WrapperFits, Readers, Writers,
           DropOutcome, SameClaims
  <2>5. Careful => Goings' /\ OwnHandles'
    BY DEF TypeOK, HostRec, Goings, OwnHandles, Outstanding, WrapperFits, Crossing, DropOutcome,
           SameClaims
  <2>6. ASSUME Careful, ~Deferred PROVE Answered'
    <3>1. ASSUME cstate["r"] = "idle", Live("r")' \/ host.current = "fresh" PROVE abandoned'
      <4>1. e = "w" /\ cstate["w"] = "done"
        BY <3>1 DEF TypeOK, WrapperFits
      <4>2. "r" \notin crossed /\ "hr" \notin crossed
        BY <2>6, <3>1, <4>1 DEF TypeOK, Crossing, Outstanding, WrapperFits
      <4>3. dropped
        BY <2>6, <4>1, <4>2 DEF Crossing, Readers
      <4> QED BY <2>6, <3>1, <4>1, <4>3 DEF TypeOK, Answered
    <3>2. host'.current = host.current /\ cstate' = cstate
      BY DEF DropOutcome, SameClaims
    <3> QED BY <2>6, <3>1, <3>2 DEF TypeOK, HostRec, Goings, Answered, Outstanding, WrapperFits,
                                    Crossing, DropOutcome, SameClaims
  <2> QED BY <2>1, <2>2, <2>3, <2>4, <2>5, <2>6
<1> QED BY <1>3, <1>4

\* A read of an abandoned future ends the reader's instance.
LEMMA ReadDroppedKeeps ==
  ASSUME Typed, Kept, NEW async \in BOOLEAN, ReadDropped(async), abandoned
  PROVE  Typed' /\ Kept'
<1>1. /\ owner["r"] \in Insts /\ Retire(owner["r"], Table(owner["r"]))
      /\ UNCHANGED <<owner, cstate, wait>> /\ handle' \in [Ends -> {"held", "dropped", "lost"}]
  BY DEF ReadDropped, MayCopy, Live, Typed, TypeOK
<1>2. \/ handle' = handle /\ Table(owner["r"]) = Table(owner["r"])
      \/ \E x \in Ends : /\ handle[x] = "held" /\ owner[x] = owner["r"]
                         /\ Table(owner["r"]) = Table(owner["r"]) \ {x}
                         /\ handle' = [handle EXCEPT ![x] = "lost"]
  BY DEF ReadDropped, MayCopy, Live
<1>3. Typed'
  BY <1>1, RetireTyped
<1> QED BY <1>1, <1>2, <1>3, RetireKeeps

\* A read of a future that was dropped otherwise fails an assert_.
LEMMA ReadRefusedKeeps ==
  ASSUME Typed, Kept, NEW async \in BOOLEAN, ReadDropped(async), ~abandoned
  PROVE  Typed' /\ Kept'
<1> USE DEF ReadDropped, MayCopy, Live, Typed, shared, Ends
<1>1. Typed'
  BY DEF TypeOK
<1>2. Kept'
  <2> USE DEF Kept
  <2>1. Outstanding' /\ WrapperFits' /\ ClaimFits'
    BY DEF Outstanding, WrapperFits, ClaimFits
  <2>2. Careful => OwnHandles' /\ Crossing' /\ Goings'
    BY DEF OwnHandles, Crossing, Goings
  <2>3. Careful /\ ~Deferred => Answered'
    BY DEF Answered
  <2> QED BY <2>1, <2>2, <2>3
<1> QED BY <1>1, <1>2

\* So does the event that says it.
LEMMA AbandonedKeeps ==
  ASSUME Typed, Kept, NEW e \in Ends, Live(e), ev[e] = "abandoned", TakeEvent(e)
  PROVE  Typed' /\ Kept'
<1>1. /\ owner[e] \in Insts /\ Retire(owner[e], Table(owner[e]))
      /\ UNCHANGED <<owner, cstate, wait>> /\ handle' \in [Ends -> {"held", "dropped", "lost"}]
  BY DEF TakeEvent, Live, Typed, TypeOK
<1>2. \/ handle' = handle /\ Table(owner[e]) = Table(owner[e])
      \/ \E x \in Ends : /\ handle[x] = "held" /\ owner[x] = owner[e]
                         /\ Table(owner[e]) = Table(owner[e]) \ {x}
                         /\ handle' = [handle EXCEPT ![x] = "lost"]
  BY DEF TakeEvent, Live
<1>3. Typed'
  BY <1>1, RetireTyped
<1> QED BY <1>1, <1>2, <1>3, RetireKeeps

\* A built-in that traps has removed an end from the table.
LEMMA RemoveTrapsKeeps ==
  ASSUME Typed, Kept, NEW e \in Ends, RemoveTraps(e)
  PROVE  Typed' /\ Kept'
<1>1. /\ owner[e] \in Insts /\ Retire(owner[e], Table(owner[e]) \ {e})
      /\ UNCHANGED <<owner, cstate, wait>> /\ handle' \in [Ends -> {"held", "dropped", "lost"}]
  BY DEF RemoveTraps, Live, Typed, TypeOK
<1>2. \/ handle' = handle /\ Table(owner[e]) \ {e} = Table(owner[e])
      \/ \E x \in Ends : /\ handle[x] = "held" /\ owner[x] = owner[e]
                         /\ Table(owner[e]) \ {e} = Table(owner[e]) \ {x}
                         /\ handle' = [handle EXCEPT ![x] = "lost"]
  BY DEF RemoveTraps, Live
<1>3. Typed'
  BY <1>1, RetireTyped
<1> QED BY <1>1, <1>2, <1>3, RetireKeeps

\* A trap of guest code.
LEMMA TrapKeeps ==
  ASSUME Typed, Kept, NEW i \in Insts, Trap(i)
  PROVE  Typed' /\ Kept'
<1>1. /\ i \in Insts /\ Retire(i, Table(i))
      /\ UNCHANGED <<owner, cstate, wait>> /\ handle' \in [Ends -> {"held", "dropped", "lost"}]
  BY DEF Trap, Live, Typed, TypeOK
<1>2. \/ handle' = handle /\ Table(i) = Table(i)
      \/ \E x \in Ends : /\ handle[x] = "held" /\ owner[x] = i /\ Table(i) = Table(i) \ {x}
                         /\ handle' = [handle EXCEPT ![x] = "lost"]
  BY DEF Trap, Live
<1>3. Typed'
  BY <1>1, RetireTyped
<1> QED BY <1>1, <1>2, <1>3, RetireKeeps

\* Only an idle end moves.
LEMMA TransferKeeps ==
  ASSUME Typed, Kept, NEW i \in Insts, Transfer(i)
  PROVE  Typed' /\ Kept'
<1> USE FutureAssumption DEF Ends, HostOps, Live, Typed, shared, Transfer, Movable
<1>1. Typed'
  <2>1. host' \in HostRec
    BY DEF HostRec, Settled
  <2>2. TypeOK'
    BY DEF TypeOK, Noted
  <2> QED BY <2>1, <2>2
<1>2. Kept'
  <2> USE DEF Kept
  <2>1. Outstanding'
    BY DEF TypeOK, HostRec, Outstanding, Crossing, Noted, Settled
  <2>2. WrapperFits'
    BY DEF TypeOK, HostRec, WrapperFits, Outstanding, Noted, Settled
  <2>3. ClaimFits'
    BY DEF TypeOK, HostRec, ClaimFits, WrapperFits, Outstanding, Noted, Settled
  <2>4. Careful => Crossing'
    BY DEF TypeOK, HostRec, OwnHandles, Crossing, Outstanding, WrapperFits, Noted, Settled,
           Readers, Writers
  <2>5. Careful => Goings' /\ OwnHandles'
    BY DEF TypeOK, HostRec, Goings, Outstanding, WrapperFits, Crossing, Noted, Settled, OwnHandles
  <2>6. Careful /\ ~Deferred => Answered'
    BY DEF TypeOK, HostRec, Goings, Outstanding, WrapperFits, Crossing, Noted, Settled, Answered
  <2> QED BY <2>1, <2>2, <2>3, <2>4, <2>5, <2>6
<1> QED BY <1>1, <1>2


-----------------------------------------------------------------------------
(* The host.                                                                 *)

\* A lifted end comes with a claim of the host, new or restored.
LEMMA LiftKeeps ==
  ASSUME Typed, Kept, Lift
  PROVE  Typed' /\ Kept'
<1> USE FutureAssumption DEF Ends, HostOps, Live, Typed, shared, Lift, Movable, Wrapper, Rearmed
<1>1. Typed'
  <2>1. host' \in HostRec
    BY ZenonT(60) DEF HostRec, Settled
  <2>2. TypeOK'
    BY DEF TypeOK, Noted
  <2> QED BY <2>1, <2>2
<1>2. Kept'
  <2> USE DEF Kept
  <2>1. Outstanding'
    BY DEF TypeOK, HostRec, Outstanding, WrapperFits
  <2>2. WrapperFits'
    BY DEF TypeOK, HostRec, WrapperFits, Outstanding, Noted, Settled
  <2>3. ClaimFits'
    BY DEF TypeOK, HostRec, ClaimFits, WrapperFits, Outstanding, Noted, Settled
  <2>4. Careful => Crossing'
    BY DEF TypeOK, HostRec, OwnHandles, Crossing, Outstanding, WrapperFits, Noted, Settled,
           Readers, Writers
  <2>5. Careful => Goings' /\ OwnHandles'
    BY DEF TypeOK, HostRec, Goings, Outstanding, WrapperFits, Crossing, Noted, Settled, OwnHandles
  <2>6. Careful /\ ~Deferred => Answered'
    BY DEF TypeOK, HostRec, Goings, Outstanding, WrapperFits, Crossing, Noted, Settled, Answered
  <2> QED BY <2>1, <2>2, <2>3, <2>4, <2>5, <2>6
<1> QED BY <1>1, <1>2

\* A lowered end takes the claim with it, or binds it for a promise.
LEMMA LowerKeeps ==
  ASSUME Typed, Kept, NEW i \in Insts, Lower(i)
  PROVE  Typed' /\ Kept'
<1> USE FutureAssumption DEF Ends, HostOps, Live, Typed, shared, Lower
<1>1. /\ owner["r"] = Host /\ owner' = [owner EXCEPT !["r"] = i] /\ i \in Insts
      /\ ~fault' /\ fault' \in BOOLEAN
      /\ UNCHANGED <<cstate, ev, wait, parked, dropped, abandoned, crossed, poisoned>>
  OBVIOUS
<1>2. CASE /\ host.current # "none" /\ (Careful => host.current = "fresh")
           /\ host' = [Lowered(host) EXCEPT !.current = "none", !.stale = ~Careful]
           /\ handle' = [handle EXCEPT !["r"] = "held"]
  <2> HIDE DEF Lower
  <2>1. /\ host' \in HostRec
        /\ host'.kind = host.kind /\ host'.busy = host.busy /\ host'.delivered = host.delivered
        /\ host'.lowered /\ host'.bound /\ host'.closed = host.closed
        /\ host'.disarmed = (host.kind = "lifted") /\ host'.current = "none"
        /\ host'.stale = ~Careful /\ host'.producer = host.producer
    BY <1>2 DEF HostRec, Lowered
  <2>2. TypeOK'
    BY <1>1, <1>2 DEF TypeOK
  <2>3. Kept'
    <3> USE <1>1, <1>2, <2>1 DEF Kept
    <3>1. Outstanding'
      BY DEF TypeOK, Outstanding
    <3>2. WrapperFits'
      BY DEF TypeOK, HostRec, WrapperFits
    <3>3. ClaimFits'
      BY DEF TypeOK, HostRec, ClaimFits, WrapperFits
    <3>4. Careful => Crossing'
      BY DEF TypeOK, HostRec, OwnHandles, Crossing, Outstanding, WrapperFits, Readers, Writers
    <3>5. Careful => Goings' /\ OwnHandles'
      BY DEF TypeOK, HostRec, Goings, Outstanding, WrapperFits, Crossing, OwnHandles
    <3>6. Careful /\ ~Deferred => Answered'
      BY DEF TypeOK, HostRec, Goings, Outstanding, WrapperFits, Crossing, OwnHandles, Answered
    <3> QED BY <3>1, <3>2, <3>3, <3>4, <3>5, <3>6
  <2> QED BY <2>1, <2>2, <2>3
<1>3. CASE /\ host.kind = "created" /\ ~host.lowered
           /\ host' = Lowered(host) /\ handle' = handle
  <2> HIDE DEF Lower
  <2>1. /\ host' \in HostRec
        /\ host'.kind = host.kind /\ host'.busy = host.busy /\ host'.delivered = host.delivered
        /\ host'.lowered /\ host'.bound /\ host'.closed = host.closed
        /\ host'.disarmed = (host.kind = "lifted") /\ host'.current = host.current
        /\ host'.stale = host.stale /\ host'.producer = host.producer
    BY <1>3 DEF HostRec, Lowered
  <2>2. TypeOK'
    BY <1>1, <1>3 DEF TypeOK
  <2>3. Kept'
    <3> USE <1>1, <1>3, <2>1 DEF Kept
    <3>1. Outstanding'
      BY DEF TypeOK, Outstanding
    <3>2. WrapperFits'
      BY DEF TypeOK, HostRec, WrapperFits
    <3>3. ClaimFits'
      BY DEF TypeOK, HostRec, ClaimFits, WrapperFits
    <3>4. Careful => Crossing'
      BY DEF TypeOK, HostRec, OwnHandles, Crossing, Outstanding, WrapperFits, Readers, Writers
    <3>5. Careful => Goings' /\ OwnHandles'
      BY DEF TypeOK, HostRec, Goings, Outstanding, WrapperFits, Crossing, OwnHandles
    <3>6. Careful /\ ~Deferred => Answered'
      BY DEF TypeOK, HostRec, Goings, Outstanding, WrapperFits, Crossing, OwnHandles, Answered
    <3> QED BY <3>1, <3>2, <3>3, <3>4, <3>5, <3>6
  <2> QED BY <2>1, <2>2, <2>3
<1> QED BY <1>2, <1>3

\* A promise that settles writes, parks or finds the future dropped.
LEMMA HostWriteKeeps ==
  ASSUME Typed, Kept, HostWrite
  PROVE  Typed' /\ Kept'
<1> USE FutureAssumption DEF Ends, HostOps, Live, Typed, shared
<1> DEFINE h == [host EXCEPT !.producer = "done"]
<1>1. /\ ~host.busy /\ host.producer = "pending" /\ (Deferred \/ host.lowered)
      /\ fault' = FALSE /\ UNCHANGED <<owner, handle, cstate, wait, poisoned>>
  BY DEF HostWrite, MaySettle
<1>2. /\ h \in HostRec
      /\ h.kind = host.kind /\ h.busy = host.busy /\ h.delivered = host.delivered
      /\ h.lowered = host.lowered /\ h.bound = host.bound /\ h.closed = host.closed
      /\ h.disarmed = host.disarmed /\ h.stale = host.stale
      /\ h.current = host.current /\ h.producer = "done"
  BY DEF HostRec
<1>3. CASE dropped /\ host' = Settled(h, "hw", "dropped") /\ UNCHANGED <<ev, shared>>
  <2> HIDE DEF h
  <2>1. host' \in HostRec /\ SameClaims(host', h) /\ ~host'.busy /\ host'.closed
    BY <1>2, <1>3 DEF SameClaims, Settled, HostRec
  <2>2. Typed'
    BY <1>1, <1>3, <2>1 DEF TypeOK
  <2>3. Kept'
    <3> USE <1>1, <1>2, <1>3, <2>1 DEF Kept
    <3>1. Outstanding'
      BY DEF TypeOK, HostRec, Outstanding, Crossing, WrapperFits, SameClaims
    <3>2. WrapperFits'
      BY DEF TypeOK, HostRec, WrapperFits, Outstanding, SameClaims
    <3>3. ClaimFits'
      BY DEF TypeOK, HostRec, ClaimFits, WrapperFits, Outstanding, SameClaims
    <3>4. Careful => Crossing'
      BY DEF TypeOK, HostRec, OwnHandles, Crossing, Outstanding, WrapperFits, Readers, Writers,
             SameClaims
    <3>5. Careful => Goings' /\ OwnHandles'
      BY DEF TypeOK, HostRec, Goings, OwnHandles, Outstanding, WrapperFits, Crossing, SameClaims
    <3>6. Careful /\ ~Deferred => Answered'
      BY DEF TypeOK, HostRec, Goings, OwnHandles, Answered, Outstanding, WrapperFits, Crossing,
             SameClaims
    <3> QED BY <3>1, <3>2, <3>3, <3>4, <3>5, <3>6
  <2> QED BY <2>2, <2>3
<1>4. CASE /\ ~dropped /\ parked = None
           /\ parked' = "hw" /\ host' = [h EXCEPT !.busy = TRUE]
           /\ UNCHANGED <<ev, dropped, abandoned, crossed>>
  <2> HIDE DEF h
  <2>1. host' \in HostRec /\ SameClaims(host', h) /\ host'.busy /\ host'.closed = h.closed
    BY <1>2, <1>4 DEF SameClaims, HostRec
  <2>2. Typed'
    BY <1>1, <1>4, <2>1 DEF TypeOK
  <2>3. Kept'
    <3> USE <1>1, <1>2, <1>4, <2>1 DEF Kept
    <3>1. Outstanding'
      BY DEF TypeOK, HostRec, Outstanding, Crossing, WrapperFits, SameClaims
    <3>2. WrapperFits'
      BY DEF TypeOK, HostRec, WrapperFits, Outstanding, SameClaims
    <3>3. ClaimFits'
      BY DEF TypeOK, HostRec, ClaimFits, WrapperFits, Outstanding, SameClaims
    <3>4. Careful => Crossing'
      BY DEF TypeOK, HostRec, OwnHandles, Crossing, Outstanding, WrapperFits, Readers, Writers,
             SameClaims
    <3>5. Careful => Goings' /\ OwnHandles'
      BY DEF TypeOK, HostRec, Goings, OwnHandles, Outstanding, WrapperFits, Crossing, SameClaims
    <3>6. Careful /\ ~Deferred => Answered'
      BY DEF TypeOK, HostRec, Goings, OwnHandles, Answered, Outstanding, WrapperFits, Crossing,
             SameClaims
    <3> QED BY <3>1, <3>2, <3>3, <3>4, <3>5, <3>6
  <2> QED BY <2>2, <2>3
<1>5. CASE /\ ~dropped /\ parked # None
           /\ crossed' = crossed \cup {"hw", parked}
           /\ parked' = None
           /\ UNCHANGED <<dropped, abandoned>>
           /\ ev' = Noted(parked, "completed")
           /\ host' = Settled(Settled(h, parked, "completed"), "hw", "completed")
  <2> HIDE DEF h
  <2>1. host' \in HostRec /\ SameClaims(host', h) /\ ~host'.busy /\ host'.closed = h.closed
    <3> DEFINE g == Settled(h, parked, "completed")
    <3>1. g \in HostRec /\ SameClaims(g, h) /\ g.closed = h.closed
      BY <1>2, SettledFields DEF HostRec
    <3> HIDE DEF g
    <3>2. /\ host' \in HostRec /\ SameClaims(host', g)
          /\ host'.busy = FALSE /\ host'.closed = g.closed
      <4> DEFINE k == Settled(g, "hw", "completed")
      <4>1. /\ k \in HostRec /\ SameClaims(k, g)
            /\ k.busy = (g.busy /\ "hw" \notin HostOps)
            /\ k.closed = (g.closed \/ ("hw" \in HostOps /\ "completed" = "dropped"))
        BY <3>1, SettledFields
      <4>2. host' = k
        BY <1>5 DEF g
      <4> HIDE DEF k
      <4>3. g.closed \in BOOLEAN /\ k.closed \in BOOLEAN /\ k.busy \in BOOLEAN
        BY <3>1, <4>1 DEF HostRec
      <4> QED BY <4>1, <4>2, <4>3
    <3> QED BY <3>1, <3>2 DEF SameClaims
  <2>2. Typed'
    BY <1>1, <1>5, <2>1 DEF TypeOK, Noted
  <2>3. Kept'
    <3> USE <1>1, <1>2, <1>5, <2>1 DEF Kept
    <3>1. Outstanding'
      BY DEF TypeOK, HostRec, Outstanding, Crossing, WrapperFits, SameClaims, Noted
    <3>2. WrapperFits'
      BY DEF TypeOK, HostRec, WrapperFits, Outstanding, SameClaims, Noted
    <3>3. ClaimFits'
      BY DEF TypeOK, HostRec, ClaimFits, WrapperFits, Outstanding, SameClaims, Noted
    <3>4. Careful => Crossing'
      BY DEF TypeOK, HostRec, OwnHandles, Crossing, Outstanding, WrapperFits, Readers, Writers,
             SameClaims, Noted
    <3>5. Careful => Goings' /\ OwnHandles'
      BY DEF TypeOK, HostRec, Goings, OwnHandles, Outstanding, WrapperFits, Crossing, SameClaims,
             Noted
    <3>6. Careful /\ ~Deferred => Answered'
      BY DEF TypeOK, HostRec, Goings, OwnHandles, Answered, Outstanding, WrapperFits, Crossing,
             SameClaims, Noted
    <3> QED BY <3>1, <3>2, <3>3, <3>4, <3>5, <3>6
  <2> QED BY <2>2, <2>3
<1> QED BY <1>3, <1>4, <1>5 DEF HostWrite

\* A promise that fails before its future is lowered drops it.
LEMMA ProducerFailsUnboundKeeps ==
  ASSUME Typed, Kept, ProducerFails, ~host.bound
  PROVE  Typed' /\ Kept'
<1> USE FutureAssumption DEF Ends, HostOps, Live, Typed, shared, ProducerFails, MaySettle
<1> DEFINE h == [host EXCEPT !.producer = "failed"]
           gone == {}
<1>1. h \in HostRec /\ abandoned' \in BOOLEAN
  BY DEF HostRec, TypeOK
<1>2. DropOutcome(h, gone)
  BY <1>1, DropFields
<1>3. Typed'
  BY <1>2 DEF DropOutcome, TypeOK
<1>4. Kept'
  <2> USE <1>2 DEF Kept
  <2>1. Outstanding'
    BY DEF TypeOK, HostRec, Outstanding, Crossing, WrapperFits, DropOutcome, SameClaims
  <2>2. WrapperFits'
    BY DEF TypeOK, HostRec, WrapperFits, Outstanding, DropOutcome, SameClaims
  <2>3. ClaimFits'
    BY DEF TypeOK, HostRec, ClaimFits, WrapperFits, Outstanding, DropOutcome, SameClaims
  <2>4. Careful => Crossing'
    BY DEF TypeOK, HostRec, OwnHandles, Crossing, Outstanding, WrapperFits, Readers, Writers,
           DropOutcome, SameClaims
  <2>5. Careful => Goings' /\ OwnHandles'
    BY DEF TypeOK, HostRec, Goings, Outstanding, WrapperFits, Crossing, DropOutcome, SameClaims,
           OwnHandles
  <2>6. Careful /\ ~Deferred => Answered'
    BY DEF TypeOK, HostRec, Goings, Outstanding, WrapperFits, Crossing, DropOutcome, SameClaims,
           OwnHandles, Answered
  <2> QED BY <2>1, <2>2, <2>3, <2>4, <2>5, <2>6
<1> QED BY <1>3, <1>4

\* One that fails afterwards leaves it as it is.
LEMMA ProducerFailsBoundKeeps ==
  ASSUME Typed, Kept, ProducerFails, host.bound
  PROVE  Typed' /\ Kept'
<1> USE FutureAssumption DEF Ends, HostOps, Live, Typed, shared, ProducerFails, MaySettle
<1>1. Typed'
  <2>1. host' \in HostRec
    BY DEF HostRec
  <2>2. UNCHANGED <<owner, handle, cstate, ev, wait, shared, poisoned>> /\ fault' = FALSE
    OBVIOUS
  <2> HIDE DEF ProducerFails
  <2>4. TypeOK'
    BY <2>2 DEF TypeOK
  <2> QED BY <2>1, <2>4
<1>2. Kept'
  <2> USE DEF Kept
  <2>1. Outstanding'
    BY DEF TypeOK, HostRec, Outstanding, Crossing, WrapperFits
  <2>2. WrapperFits'
    BY DEF TypeOK, HostRec, WrapperFits, Outstanding
  <2>3. ClaimFits'
    BY DEF TypeOK, HostRec, ClaimFits, WrapperFits, Outstanding
  <2>4. Careful => Crossing'
    BY DEF TypeOK, HostRec, OwnHandles, Crossing, Outstanding, WrapperFits, Readers, Writers
  <2>5. Careful => Goings' /\ OwnHandles'
    BY DEF TypeOK, HostRec, Goings, Outstanding, WrapperFits, Crossing, OwnHandles
  <2>6. Careful /\ ~Deferred => Answered'
    BY DEF TypeOK, HostRec, Goings, Outstanding, WrapperFits, Crossing, OwnHandles, Answered
  <2> QED BY <2>1, <2>2, <2>3, <2>4, <2>5, <2>6
<1> QED BY <1>1, <1>2

\* A handle that is awaited reads, parks or is answered at once.
LEMMA HostReadKeeps ==
  ASSUME Typed, Kept, HostRead
  PROVE  Typed' /\ Kept'
<1> USE FutureAssumption DEF Ends, HostOps, Live, Typed, shared
<1> DEFINE h == [host EXCEPT !.current = "awaited"]
<1>1. /\ host.current = "fresh"
      /\ fault' = FALSE /\ UNCHANGED <<owner, handle, cstate, wait, poisoned>>
  BY DEF HostRead
<1>2. /\ h \in HostRec
      /\ h.kind = host.kind /\ h.busy = host.busy /\ h.delivered = host.delivered
      /\ h.lowered = host.lowered /\ h.bound = host.bound /\ h.closed = host.closed
      /\ h.disarmed = host.disarmed /\ h.stale = host.stale
      /\ h.producer = host.producer /\ h.current = "awaited"
  BY DEF HostRec
<1>3. CASE (host.busy \/ dropped) /\ host' = h /\ UNCHANGED <<ev, shared>>
  <2> HIDE DEF h
  <2>1. host' \in HostRec /\ SameClaims(host', h) /\ host'.busy = h.busy /\ host'.closed = h.closed
    BY <1>2, <1>3 DEF SameClaims
  <2>2. Typed'
    BY <1>1, <1>3, <2>1 DEF TypeOK
  <2>3. Kept'
    <3> USE <1>1, <1>2, <1>3, <2>1 DEF Kept
    <3>1. Outstanding'
      BY DEF TypeOK, HostRec, Outstanding, Crossing, WrapperFits, SameClaims
    <3>2. WrapperFits'
      BY DEF TypeOK, HostRec, WrapperFits, Outstanding, SameClaims
    <3>3. ClaimFits'
      BY DEF TypeOK, HostRec, ClaimFits, WrapperFits, Outstanding, SameClaims
    <3>4. Careful => Crossing'
      BY DEF TypeOK, HostRec, OwnHandles, Crossing, Outstanding, WrapperFits, Readers, Writers,
             SameClaims
    <3>5. Careful => Goings' /\ OwnHandles'
      BY DEF TypeOK, HostRec, Goings, OwnHandles, Outstanding, WrapperFits, Crossing, SameClaims
    <3>6. Careful /\ ~Deferred => Answered'
      BY DEF TypeOK, HostRec, Goings, OwnHandles, Answered, Outstanding, WrapperFits, Crossing,
             SameClaims
    <3> QED BY <3>1, <3>2, <3>3, <3>4, <3>5, <3>6
  <2> QED BY <2>2, <2>3
<1>4. CASE /\ ~host.busy /\ ~dropped /\ parked = None
           /\ parked' = "hr" /\ host' = [h EXCEPT !.busy = TRUE]
           /\ UNCHANGED <<ev, dropped, abandoned, crossed>>
  <2> HIDE DEF h
  <2>1. host' \in HostRec /\ SameClaims(host', h) /\ host'.busy /\ host'.closed = h.closed
    BY <1>2, <1>4 DEF SameClaims, HostRec
  <2>2. Typed'
    BY <1>1, <1>4, <2>1 DEF TypeOK
  <2>3. Kept'
    <3> USE <1>1, <1>2, <1>4, <2>1 DEF Kept
    <3>1. Outstanding'
      BY DEF TypeOK, HostRec, Outstanding, Crossing, WrapperFits, SameClaims
    <3>2. WrapperFits'
      BY DEF TypeOK, HostRec, WrapperFits, Outstanding, SameClaims
    <3>3. ClaimFits'
      BY DEF TypeOK, HostRec, ClaimFits, WrapperFits, Outstanding, SameClaims
    <3>4. Careful => Crossing'
      BY DEF TypeOK, HostRec, OwnHandles, Crossing, Outstanding, WrapperFits, Readers, Writers,
             SameClaims
    <3>5. Careful => Goings' /\ OwnHandles'
      BY DEF TypeOK, HostRec, Goings, OwnHandles, Outstanding, WrapperFits, Crossing, SameClaims
    <3>6. Careful /\ ~Deferred => Answered'
      BY DEF TypeOK, HostRec, Goings, OwnHandles, Answered, Outstanding, WrapperFits, Crossing,
             SameClaims
    <3> QED BY <3>1, <3>2, <3>3, <3>4, <3>5, <3>6
  <2> QED BY <2>2, <2>3
<1>5. CASE /\ ~host.busy /\ ~dropped /\ parked # None
           /\ crossed' = crossed \cup {"hr", parked}
           /\ parked' = None
           /\ UNCHANGED <<dropped, abandoned>>
           /\ ev' = Noted(parked, "completed")
           /\ host' = Settled(Settled(h, parked, "completed"), "hr", "completed")
  <2> HIDE DEF h
  <2>1. host' \in HostRec /\ SameClaims(host', h) /\ ~host'.busy /\ host'.closed = h.closed
    <3> DEFINE g == Settled(h, parked, "completed")
    <3>1. g \in HostRec /\ SameClaims(g, h) /\ g.closed = h.closed
      BY <1>2, SettledFields DEF HostRec
    <3> HIDE DEF g
    <3>2. /\ host' \in HostRec /\ SameClaims(host', g)
          /\ host'.busy = FALSE /\ host'.closed = g.closed
      <4> DEFINE k == Settled(g, "hr", "completed")
      <4>1. /\ k \in HostRec /\ SameClaims(k, g)
            /\ k.busy = (g.busy /\ "hr" \notin HostOps)
            /\ k.closed = (g.closed \/ ("hr" \in HostOps /\ "completed" = "dropped"))
        BY <3>1, SettledFields
      <4>2. host' = k
        BY <1>5 DEF g
      <4> HIDE DEF k
      <4>3. g.closed \in BOOLEAN /\ k.closed \in BOOLEAN /\ k.busy \in BOOLEAN
        BY <3>1, <4>1 DEF HostRec
      <4> QED BY <4>1, <4>2, <4>3
    <3> QED BY <3>1, <3>2 DEF SameClaims
  <2>2. Typed'
    BY <1>1, <1>5, <2>1 DEF TypeOK, Noted
  <2>3. Kept'
    <3> USE <1>1, <1>2, <1>5, <2>1 DEF Kept
    <3>1. Outstanding'
      BY DEF TypeOK, HostRec, Outstanding, Crossing, WrapperFits, SameClaims, Noted
    <3>2. WrapperFits'
      BY DEF TypeOK, HostRec, WrapperFits, Outstanding, SameClaims, Noted
    <3>3. ClaimFits'
      BY DEF TypeOK, HostRec, ClaimFits, WrapperFits, Outstanding, SameClaims, Noted
    <3>4. Careful => Crossing'
      BY DEF TypeOK, HostRec, OwnHandles, Crossing, Outstanding, WrapperFits, Readers, Writers,
             SameClaims, Noted
    <3>5. Careful => Goings' /\ OwnHandles'
      BY DEF TypeOK, HostRec, Goings, OwnHandles, Outstanding, WrapperFits, Crossing, SameClaims,
             Noted
    <3>6. Careful /\ ~Deferred => Answered'
      BY DEF TypeOK, HostRec, Goings, OwnHandles, Answered, Outstanding, WrapperFits, Crossing,
             SameClaims, Noted
    <3> QED BY <3>1, <3>2, <3>3, <3>4, <3>5, <3>6
  <2> QED BY <2>2, <2>3
<1> QED BY <1>3, <1>4, <1>5 DEF HostRead

\* A cancelled read of the host leaves nothing parked.
LEMMA HostCancelKeeps ==
  ASSUME Typed, Kept, HostCancel
  PROVE  Typed' /\ Kept'
<1> USE FutureAssumption DEF Ends, HostOps, Live, Typed, shared, HostCancel
<1>1. Typed'
  <2>1. host' \in HostRec
    BY DEF HostRec
  <2>2. TypeOK'
    BY DEF TypeOK
  <2> QED BY <2>1, <2>2
<1>2. Kept'
  <2> USE DEF Kept
  <2>1. Outstanding'
    BY DEF TypeOK, HostRec, Outstanding, Crossing, WrapperFits
  <2>2. WrapperFits'
    BY DEF TypeOK, HostRec, WrapperFits, Outstanding
  <2>3. ClaimFits'
    BY DEF TypeOK, HostRec, ClaimFits, WrapperFits, Outstanding
  <2>4. Careful => Crossing'
    BY DEF TypeOK, HostRec, OwnHandles, Crossing, Outstanding, WrapperFits, Readers, Writers
  <2>5. Careful => Goings' /\ OwnHandles'
    BY DEF TypeOK, HostRec, Goings, Outstanding, WrapperFits, Crossing, OwnHandles
  <2>6. Careful /\ ~Deferred => Answered'
    BY DEF TypeOK, HostRec, Goings, Outstanding, WrapperFits, Crossing, OwnHandles, Answered
  <2> QED BY <2>1, <2>2, <2>3, <2>4, <2>5, <2>6
<1> QED BY <1>1, <1>2

\* The embedder drops its handle, and abandons what it was to write.
LEMMA HostDropKeeps ==
  ASSUME Typed, Kept, HostDrop
  PROVE  Typed' /\ Kept'
<1> USE FutureAssumption DEF Ends, HostOps, Live, Typed, shared, HostDrop
<1> DEFINE h == [host EXCEPT !.current = IF handle' = handle THEN @ ELSE "none",
!.stale = @ /\ handle' # handle, !.closed = TRUE]
           gone == IF abandoned' THEN poisoned ELSE {}
<1>1. h \in HostRec /\ abandoned' \in BOOLEAN
  BY ZenonT(60) DEF HostRec, TypeOK
<1>2. DropOutcome(h, gone)
  BY <1>1, DropFields
<1>3. Typed'
  BY <1>2 DEF DropOutcome, TypeOK
<1>4. Kept'
  <2> USE <1>2 DEF Kept
  <2>1. Outstanding'
    <3>1. /\ owner' = owner /\ cstate' = cstate /\ poisoned' = poisoned
          /\ \A e \in Ends : Live(e)' => Live(e)
      BY DEF TypeOK
    <3>2. host'.busy <=> parked' \in HostOps
      BY ZenonT(60) DEF TypeOK, HostRec, Outstanding, DropOutcome, SameClaims
    <3>3. gone \subseteq poisoned
      BY DEF gone
    <3> HIDE DEF HostDrop, h, gone
    <3>4. ASSUME NEW e \in Ends
          PROVE  /\ ev'[e] # "none" => cstate[e] = "copying"
                 /\ Live(e)' /\ cstate[e] = "copying" => ev'[e] # "none"
                 /\ parked' # e
      BY <3>1, <3>3 DEF TypeOK, DropOutcome, Outstanding
    <3>5. dropped' => parked' = None
      BY DEF DropOutcome, Outstanding
    <3> QED BY <3>1, <3>2, <3>4, <3>5 DEF Outstanding
  <2>2. WrapperFits'
    BY DEF TypeOK, HostRec, WrapperFits, Outstanding, DropOutcome, SameClaims
  <2>3. ClaimFits'
    BY ZenonT(60) DEF TypeOK, HostRec, ClaimFits, WrapperFits, Outstanding, DropOutcome, SameClaims
  <2>4. Careful => Crossing'
    BY DEF TypeOK, HostRec, OwnHandles, Crossing, Outstanding, WrapperFits, Readers, Writers,
           DropOutcome, SameClaims
  <2>5. Careful => Goings' /\ OwnHandles'
    BY DEF TypeOK, HostRec, Goings, Outstanding, WrapperFits, Crossing, DropOutcome, SameClaims,
           OwnHandles
  <2>6. Careful /\ ~Deferred => Answered'
    BY DEF TypeOK, HostRec, Goings, Outstanding, WrapperFits, Crossing, DropOutcome, SameClaims,
           OwnHandles, Answered
  <2> QED BY <2>1, <2>2, <2>3, <2>4, <2>5, <2>6
<1> QED BY <1>3, <1>4

\* A host import that throws drops what it was given.
LEMMA ImportTrapsKeeps ==
  ASSUME Typed, Kept, ImportTraps
  PROVE  Typed' /\ Kept'
<1> USE FutureAssumption DEF Ends, HostOps, Live, Typed, shared, ImportTraps, Movable, Wrapper
<1> DEFINE h == IF host.kind = "none" THEN Wrapper("lifted") ELSE host
           gone == poisoned
<1>1. h \in HostRec /\ abandoned' \in BOOLEAN
  BY DEF HostRec, TypeOK
<1>2. DropOutcome(h, gone)
  BY <1>1, DropFields
<1>3. Typed'
  BY <1>2 DEF DropOutcome, TypeOK
<1>4. Kept'
  <2> USE <1>2 DEF Kept
  <2>1. Outstanding'
    BY DEF TypeOK, HostRec, Outstanding, Crossing, WrapperFits, DropOutcome, SameClaims
  <2>2. WrapperFits'
    BY DEF TypeOK, HostRec, WrapperFits, Outstanding, DropOutcome, SameClaims
  <2>3. ClaimFits'
    BY DEF TypeOK, HostRec, ClaimFits, WrapperFits, Outstanding, DropOutcome, SameClaims
  <2>4. Careful => Crossing'
    BY DEF TypeOK, HostRec, OwnHandles, Crossing, Outstanding, WrapperFits, Readers, Writers,
           DropOutcome, SameClaims
  <2>5. Careful => Goings' /\ OwnHandles'
    BY DEF TypeOK, HostRec, Goings, Outstanding, WrapperFits, Crossing, DropOutcome, SameClaims,
           OwnHandles
  <2>6. Careful /\ ~Deferred => Answered'
    BY DEF TypeOK, HostRec, Goings, Outstanding, WrapperFits, Crossing, DropOutcome, SameClaims,
           OwnHandles, Answered
  <2> QED BY <2>1, <2>2, <2>3, <2>4, <2>5, <2>6
<1> QED BY <1>3, <1>4

-----------------------------------------------------------------------------
(* The invariant.                                                              *)

\* Every step of a guest keeps the invariant.
LEMMA GuestStep ==
  ASSUME Typed, Kept, GuestNext
  PROVE  Typed' /\ Kept'
<1>1. ASSUME NEW e \in Ends, NEW async \in BOOLEAN, CopyParks(e, async) \/ CopyMeets(e, async)
      PROVE  Typed' /\ Kept'
  BY <1>1, CopyParksKeeps, CopyMeetsKeeps
<1>2. ASSUME NEW e \in Ends, Live(e), ev[e] # "none", TakeEvent(e)
      PROVE  Typed' /\ Kept'
  BY <1>2, TakesKeeps, AbandonedKeeps
<1>3. ASSUME NEW e \in Ends, NEW async \in BOOLEAN, CancelCopy(e, async)
      PROVE  Typed' /\ Kept'
  <2>1. CASE ev[e] # "none"
    BY <1>2, <1>3, <2>1 DEF CancelCopy
  <2>2. CASE ev[e] = "none"
    BY <1>3, <2>2, TakesBackKeeps DEF CancelCopy
  <2> QED BY <2>1, <2>2
<1>4. ASSUME NEW async \in BOOLEAN, WriteDropped(async)
      PROVE  Typed' /\ Kept'
  BY <1>4, WriteDroppedKeeps
<1>5. ASSUME NEW async \in BOOLEAN, ReadDropped(async)
      PROVE  Typed' /\ Kept'
  <2>1. CASE abandoned
    BY <1>5, <2>1, ReadDroppedKeeps
  <2>2. CASE ~abandoned
    BY <1>5, <2>2, ReadRefusedKeeps
  <2> QED BY <2>1, <2>2
<1>6. ASSUME NEW e \in Ends, Deliver(e) \/ Join(e) \/ Drop(e) \/ RemoveTraps(e)
      PROVE  Typed' /\ Kept'
  BY <1>2, <1>6, JoinKeeps, DropKeeps, RemoveTrapsKeeps DEF Deliver
<1>7. ASSUME NEW i \in Insts, Trap(i) \/ Transfer(i)
      PROVE  Typed' /\ Kept'
  BY <1>7, TrapKeeps, TransferKeeps
<1> QED BY <1>1, <1>3, <1>4, <1>5, <1>6, <1>7 DEF GuestNext

\* Every step of the host keeps it.
LEMMA HostStep ==
  ASSUME Typed, Kept, HostNext
  PROVE  Typed' /\ Kept'
<1>1. CASE \E i \in Insts : Lower(i)
  BY <1>1, LowerKeeps
<1>2. CASE Lift \/ ImportTraps
  BY <1>2, LiftKeeps, ImportTrapsKeeps
<1>3. CASE HostWrite \/ HostRead
  BY <1>3, HostWriteKeeps, HostReadKeeps
<1>4. CASE ProducerFails
  BY <1>4, ProducerFailsBoundKeeps, ProducerFailsUnboundKeeps
<1>5. CASE HostCancel \/ HostDrop
  BY <1>5, HostCancelKeeps, HostDropKeeps
<1> QED BY <1>1, <1>2, <1>3, <1>4, <1>5 DEF HostNext

\* The invariant is inductive.
LEMMA FutureInvNext == FutureInv /\ Next => FutureInv'
BY GuestStep, HostStep DEF FutureInv, Next

\* It depends on the variables of the future only.
LEMMA FutureInvStill == FutureInv /\ UNCHANGED vars => FutureInv'
<1> SUFFICES ASSUME FutureInv, UNCHANGED vars PROVE FutureInv'
  OBVIOUS
<1> USE DEF vars, shared
<1>1. Typed'
  BY DEF FutureInv, Typed, TypeOK
<1>2. Kept'
  BY DEF FutureInv, Kept, Outstanding, WrapperFits, ClaimFits, OwnHandles, Crossing, Goings,
         Answered,
         Live, Readers, Writers
<1> QED BY <1>1, <1>2 DEF FutureInv

-----------------------------------------------------------------------------
(* What the invariant says of the properties.                                  *)

\* A reader that waits has a writer: one parked, one alive, or a producer that
\* failed or was not asked yet.
LEMMA ToldAlways == Careful /\ Typed /\ Kept => ReaderTold
<1> SUFFICES ASSUME Careful, Typed, Kept, NEW p \in Readers, Waits(p)
             PROVE  WriterAlive \/ host.producer = "failed"
  BY DEF ReaderTold
<1>1. ~dropped /\ parked = p
  BY FutureAssumption
     DEF Kept, Outstanding, Crossing, Readers, Waits, Ends, HostOps, Live, Typed, TypeOK, HostRec
<1>2. crossed = {}
  BY <1>1, FutureAssumption DEF Kept, Crossing, Readers, Ends, HostOps
<1>3. CASE owner["w"] = Host
  BY <1>1, <1>2, <1>3 DEF Kept, WrapperFits, Crossing, Typed, HostRec, WriterAlive, Readers
<1>4. CASE owner["w"] # Host
  BY <1>1, <1>4 DEF Kept, Goings, WriterAlive
<1> QED BY <1>3, <1>4

\* The parties of a crossing are one reader and one writer.
LEMMA OnceAlways == Careful /\ Typed /\ Kept => ValueOnce
<1> SUFFICES ASSUME Careful, Typed, Kept PROVE ValueOnce
  OBVIOUS
<1>1. ASSUME crossed # {} PROVE Cardinality(crossed \cap Readers) = 1 /\ Cardinality(crossed) = 2
  <2>1. PICK x \in Readers, y \in Writers : crossed = {x, y}
    BY <1>1 DEF Kept, Crossing
  <2>2. crossed \cap Readers = {x} /\ x # y
    BY <2>1 DEF Readers, Writers
  <2>3. Cardinality({x}) = 1 /\ IsFiniteSet({x}) /\ y \notin {x}
    BY <2>2, FS_Singleton
  <2>4. Cardinality({x} \cup {y}) = 2
    BY <2>3, FS_AddElement
  <2>5. crossed = {x} \cup {y}
    BY <2>1
  <2> QED BY <2>2, <2>3, <2>4, <2>5
<1>2. ASSUME abandoned, Live("r"), cstate["r"] # "done", ev["r"] # "completed" PROVE crossed = {}
  BY <1>2, FutureAssumption DEF Kept, Crossing, Goings, Readers, Live
<1> QED BY <1>1, <1>2 DEF ValueOnce

\* The claim is that of the wrapper as its handles and its end are.
LEMMA ClaimAlways == Typed /\ Kept => RetentionClaim
BY DEF Typed, Kept, HostRec, WrapperFits, ClaimFits, RetentionClaim, Armed

\* What follows from the invariant, and for which embedders and calls.
LEMMA KeptSuffices ==
  FutureInv => /\ TypeOK /\ RetentionClaim
               /\ Careful => ReaderTold /\ ValueOnce
               /\ Careful /\ ~Deferred => NoAssertFails
BY ToldAlways, OnceAlways, ClaimAlways DEF FutureInv, Typed, Kept, Answered, NoAssertFails

-----------------------------------------------------------------------------
(* Results for a future by itself.                                             *)

\* FutureInv holds in every state of a future.
THEOREM FutureInvariant == Spec => []FutureInv
<1>1. FutureInv /\ [Next]_vars => FutureInv'
  BY FutureInvNext, FutureInvStill
<1> QED BY <1>1, FutureInvInit, PTL DEF Spec

-----------------------------------------------------------------------------
(* The stream: its inductive invariant.                                        *)

\* What the constants are taken for.
StreamSetting ==
  /\ Host \notin Insts /\ None \notin HS!Parties /\ Creators \subseteq Insts \cup {Host}
  /\ {Careful, Deferred} \subseteq BOOLEAN /\ MaxLen \in Nat

\* The wrapper with its activity and handles, and the feed of its writer.
StreamHostRec ==
  [kind : {"none", "lifted", "writer", "pumped"}, bound : BOOLEAN, closed : BOOLEAN,
   disarmed : BOOLEAN, current : BOOLEAN, stale : BOOLEAN, out : {"none", "data", "fault", "end"}]

FeedRec ==
  [at : {"idle", "pull", "gone", "batch", "over"}, rest : Nat, loop : BOOLEAN, lowered : Nat,
   released : Nat, failed : BOOLEAN, reported : BOOLEAN]

StreamTyped == HS!TypeOK /\ shost \in StreamHostRec /\ feed \in FeedRec

\* An outstanding operation is parked or has its event; a drop leaves none parked.
StreamOutstanding ==
  /\ \A p \in HS!HostOps : phase[p] = "out" <=> sparked = p
  /\ \A e \in HS!Ends : /\ sparked = e => phase[e] = "out"
                        /\ phase[e] = "out" => sowner[e] # Host
                        /\ HS!Live(e) /\ phase[e] = "out" => sparked = e \/ sev[e] # "none"
  /\ sdropped => sparked = None

\* Who has no operation, or one it was told of, keeps nothing of a buffer.
Buffers ==
  /\ \A e \in HS!Ends : phase[e] # "out" => len[e] = 0 /\ progress[e] = 0
  /\ \A p \in HS!HostOps : phase[p] # "done" /\ (phase[p] = "idle" => len[p] = 0 /\ progress[p] = 0)

\* The wrapper's kind and its activity say who holds the ends.
Wrapped ==
  /\ sowner["w"] = Host <=> shost.kind \in HS!Created
  /\ shost.kind = "none" => ~shost.bound /\ ~shost.closed /\ sowner["r"] # Host
  /\ shost.kind = "lifted" => shost.bound
  /\ shost.kind # "none" => (shost.closed <=> sdropped)
  /\ shost.kind \in HS!Created => ~shost.disarmed
  /\ shost.kind = "lifted" /\ ~sdropped =>
       (shost.disarmed <=> ~(sowner["r"] = Host /\ shandle["r"] = "held"))
  /\ shost.current => sowner["r"] = Host

\* The batch of the host's writer is the buffer of its operation, and what a
\* producer lowered is told, in the batch, or released.
Batches ==
  /\ feed.at # "batch" => feed.rest = 0
  /\ phase["hw"] # "idle" <=> feed.at = "batch"
  /\ feed.at = "batch" => len["hw"] = feed.rest
  /\ feed.at # "idle" => shost.kind \in HS!Created
  /\ HS!Pumped => /\ feed.at # "idle" /\ (feed.at = "batch" => feed.loop)
                  /\ feed.lowered = told["hw"] + feed.rest + feed.released
  /\ ~Deferred => (feed.failed => feed.reported)

\* A careful embedder has no read in flight when a guest has the end.
ReadsOwn == phase["hr"] # "idle" => sowner["r"] = Host

\* Conservation, its sums written out.
Balance ==
  told["w"] + told["hw"] + progress["w"] + progress["hw"]
    = told["r"] + told["hr"] + progress["r"] + progress["hr"]

\* What every step of the stream keeps.
StreamKept == StreamOutstanding /\ Buffers /\ Wrapped /\ Batches

StreamInv == StreamSetting /\ StreamTyped /\ StreamKept /\ (Careful => ReadsOwn /\ Balance)

\* A new stream satisfies the invariant.
LEMMA StreamInvInit == StreamSetting /\ HS!Init => StreamInv
<1> SUFFICES ASSUME StreamSetting, HS!Init PROVE StreamInv
  OBVIOUS
<1> USE DEF StreamSetting, HS!Init, HS!Parties, HS!Ends, HS!HostOps, HS!Created, HS!Pumped, HS!Wrapper,
      HS!NoFeed
<1>1. shost \in StreamHostRec /\ feed \in FeedRec
  <2>1. PICK k \in {"none", "writer", "pumped"} : shost = HS!Wrapper(k)
    OBVIOUS
  <2>2. shost \in StreamHostRec
    BY <2>1 DEF StreamHostRec
  <2>3. feed \in FeedRec
    BY DEF FeedRec
  <2> QED BY <2>2, <2>3
<1>2. HS!TypeOK
  <2>1. /\ len \in [HS!Parties -> Nat] /\ progress \in [HS!Parties -> Nat] /\ told \in [HS!Parties -> Nat]
        /\ \A p \in HS!Parties : progress[p] <= len[p]
    OBVIOUS
  <2>2. /\ phase \in [HS!Parties -> {"idle", "out", "done", "back"}]
        /\ sev \in [HS!Ends -> {"none", "copied", "completed", "dropped"}]
    OBVIOUS
  <2>3. sowner \in [HS!Ends -> Insts \cup {Host}] /\ shandle \in [HS!Ends -> {"held", "dropped"}]
    OBVIOUS
  <2>4. feed.at \in {"idle", "pull", "gone", "batch", "over"}
    BY <1>1 DEF FeedRec
  <2> QED BY <2>1, <2>2, <2>3, <2>4 DEF HS!TypeOK
<1>3. StreamOutstanding /\ Buffers /\ Wrapped /\ Batches
  BY <1>1 DEF StreamOutstanding, Buffers, Wrapped, Batches, StreamHostRec
<1>4. ReadsOwn /\ Balance
  BY DEF ReadsOwn, Balance
<1> QED BY <1>1, <1>2, <1>3, <1>4 DEF StreamInv, StreamTyped, StreamKept

-----------------------------------------------------------------------------
(* The rendezvous.                                                             *)

\* What a copy of k elements between the party that comes and the parked one
\* leaves of both.
Copied(p, n, t, after, k) ==
  /\ k <= n /\ progress[sparked] + k <= len[sparked]
  /\ progress' \in [HS!Parties -> Nat] /\ len' \in [HS!Parties -> Nat] /\ told' \in [HS!Parties -> Nat]
  /\ phase' \in [HS!Parties -> {"idle", "out", "done", "back"}]
  /\ sev' \in [HS!Ends -> {"none", "copied", "completed", "dropped"}]
  /\ \A q \in HS!Parties :
       /\ progress'[q] = IF q = p THEN (IF p \in HS!HostOps THEN k ELSE 0)
                         ELSE IF q = sparked THEN progress[q] + k ELSE progress[q]
       /\ len'[q] = IF q = p THEN (IF p \in HS!HostOps THEN n ELSE 0) ELSE len[q]
       /\ told'[q] = IF q = p /\ p \notin HS!HostOps THEN t[q] + k ELSE t[q]
       /\ q # p /\ q # sparked => phase'[q] = phase[q]
  /\ \A e \in HS!Ends : sev'[e] = sev[e] \/ (e = sparked /\ sev'[e] = "copied")
  /\ phase'[p] = after
  /\ \/ sparked' = sparked /\ phase'[sparked] = phase[sparked]
     \/ sparked \in HS!HostOps /\ sparked' = None /\ phase'[sparked] = "back"

\* Meet copies some number of elements.
LEMMA MeetCopies ==
  ASSUME StreamSetting, HS!TypeOK, NEW p \in HS!Parties, NEW n \in Nat, NEW t \in [HS!Parties -> Nat],
         NEW after \in {"idle", "back"}, sparked \in HS!Parties, sparked # p, HS!Meet(p, n, t, after)
  PROVE  \E k \in Nat : Copied(p, n, t, after, k)
<1> DEFINE k == HS!Least(n, HS!Remain(sparked))
           freed == k > 0 /\ HS!LetsGo(sparked, k)
<1> USE DEF HS!Parties, HS!Ends, HS!HostOps
<1>1. /\ k \in Nat /\ k <= n /\ progress[sparked] + k <= len[sparked]
      /\ freed => sparked \in HS!HostOps
  BY DEF HS!Least, HS!Remain, HS!LetsGo, HS!TypeOK
<1>2. /\ progress' = [progress EXCEPT ![sparked] = @ + k, ![p] = IF p \in HS!HostOps THEN k ELSE 0]
      /\ len' = [len EXCEPT ![p] = IF p \in HS!HostOps THEN n ELSE 0]
      /\ told' = [t EXCEPT ![p] = IF p \in HS!HostOps THEN @ ELSE @ + k]
      /\ sev' = IF k > 0 /\ sparked \in HS!Ends THEN [sev EXCEPT ![sparked] = "copied"] ELSE sev
      /\ sparked' = IF freed THEN None ELSE sparked
      /\ phase' = [q \in HS!Parties |-> IF q = p THEN after
                                     ELSE IF q = sparked /\ freed THEN "back" ELSE phase[q]]
  BY DEF HS!Meet
<1> HIDE DEF k, freed
<1>3. /\ progress' \in [HS!Parties -> Nat] /\ len' \in [HS!Parties -> Nat] /\ told' \in [HS!Parties -> Nat]
      /\ \A q \in HS!Parties :
           /\ progress'[q] = IF q = p THEN (IF p \in HS!HostOps THEN k ELSE 0)
                             ELSE IF q = sparked THEN progress[q] + k ELSE progress[q]
           /\ len'[q] = IF q = p THEN (IF p \in HS!HostOps THEN n ELSE 0) ELSE len[q]
           /\ told'[q] = IF q = p /\ p \notin HS!HostOps THEN t[q] + k ELSE t[q]
  BY <1>1, <1>2 DEF HS!TypeOK
<1>4. /\ sev' \in [HS!Ends -> {"none", "copied", "completed", "dropped"}]
      /\ \A e \in HS!Ends : sev'[e] = sev[e] \/ (e = sparked /\ sev'[e] = "copied")
  BY <1>2 DEF HS!TypeOK
<1>5. /\ phase' \in [HS!Parties -> {"idle", "out", "done", "back"}]
      /\ \A q \in HS!Parties : q # p /\ q # sparked => phase'[q] = phase[q]
      /\ phase'[p] = after
      /\ \/ sparked' = sparked /\ phase'[sparked] = phase[sparked]
         \/ sparked \in HS!HostOps /\ sparked' = None /\ phase'[sparked] = "back"
  BY <1>1, <1>2 DEF HS!TypeOK
<1> HIDE DEF HS!Parties, HS!Ends, HS!HostOps
<1>6. Copied(p, n, t, after, k)
  BY <1>1, <1>3, <1>4, <1>5 DEF Copied
<1> QED BY <1>1, <1>6

\* A party that parks: the one parked before has its answer.
Parked(p, n, t) ==
  /\ sparked' = p
  /\ progress' \in [HS!Parties -> Nat] /\ len' \in [HS!Parties -> Nat] /\ told' = t
  /\ phase' \in [HS!Parties -> {"idle", "out", "done", "back"}]
  /\ sev' \in [HS!Ends -> {"none", "copied", "completed", "dropped"}]
  /\ \A q \in HS!Parties :
       /\ progress'[q] = IF q = p THEN 0 ELSE progress[q]
       /\ len'[q] = IF q = p THEN n ELSE len[q]
       /\ phase'[q] = IF q = p THEN "out"
                      ELSE IF q = sparked /\ q \in HS!HostOps THEN "back" ELSE phase[q]
  /\ \A e \in HS!Ends : sev'[e] = IF e = sparked THEN "completed" ELSE sev[e]

\* Park has that outcome.
LEMMA ParkParks ==
  ASSUME HS!TypeOK, NEW p \in HS!Parties, NEW n \in Nat, NEW t, HS!Park(p, n, t)
  PROVE  Parked(p, n, t)
<1> USE DEF HS!Park, HS!TypeOK, HS!Parties, HS!Ends, HS!HostOps
<1>1. progress' \in [HS!Parties -> Nat] /\ len' \in [HS!Parties -> Nat]
  OBVIOUS
<1>2. phase' \in [HS!Parties -> {"idle", "out", "done", "back"}]
  OBVIOUS
<1>3. sev' \in [HS!Ends -> {"none", "copied", "completed", "dropped"}]
  OBVIOUS
<1> QED BY <1>1, <1>2, <1>3 DEF Parked

\* A host operation on a stream that was dropped resolves with nothing.
StreamAnswered(p, n, t) ==
  /\ sev' = sev /\ sparked' = sparked /\ told' = t
  /\ progress' \in [HS!Parties -> Nat] /\ len' \in [HS!Parties -> Nat]
  /\ phase' \in [HS!Parties -> {"idle", "out", "done", "back"}]
  /\ \A q \in HS!Parties :
       /\ progress'[q] = IF q = p THEN 0 ELSE progress[q]
       /\ len'[q] = IF q = p THEN n ELSE len[q]
       /\ phase'[q] = IF q = p THEN "back" ELSE phase[q]

\* Nothing has that outcome.
LEMMA NothingAnswers ==
  ASSUME HS!TypeOK, NEW p \in HS!Parties, NEW n \in Nat, NEW t, HS!Nothing(p, n, t)
  PROVE  StreamAnswered(p, n, t)
BY DEF HS!Nothing, HS!TypeOK, StreamAnswered, HS!Parties, HS!Ends

\* An operation of the host: what it keeps of the rendezvous, and what the
\* pump finds afterwards.  t counts what its last write was told of.
Came(p, n, t) ==
  /\ StreamOutstanding' /\ Buffers' /\ (Balance => Balance')
  /\ sowner' = sowner /\ shandle' = shandle /\ sdropped' = sdropped
  /\ progress' \in [HS!Parties -> Nat] /\ len' \in [HS!Parties -> Nat] /\ told' \in [HS!Parties -> Nat]
  /\ \A q \in HS!Parties : progress'[q] <= len'[q]
  /\ phase' \in [HS!Parties -> {"idle", "out", "done", "back"}]
  /\ sev' \in [HS!Ends -> {"none", "copied", "completed", "dropped"}]
  /\ sparked' \in HS!Parties \cup {None}
  /\ phase'[p] # "idle" /\ len'[p] = n /\ told'[p] = t[p]
  /\ \A q \in HS!HostOps : q # p => /\ phase'[q] = "idle" <=> phase[q] = "idle"
                                    /\ len'[q] = len[q] /\ told'[q] = told[q]

\* HostCopy is one of the three, and keeps what the ends know of each other.
LEMMA HostCopyCame ==
  ASSUME StreamInv, NEW p \in HS!HostOps, NEW n \in Nat, NEW t \in [HS!Parties -> Nat],
         HS!HostCopy(p, n, t), phase[p] # "out", sowner[IF p = "hr" THEN "r" ELSE "w"] = Host,
         \A q \in HS!Parties : t[q] = IF q = p THEN told[q] + progress[q] ELSE told[q]
  PROVE  Came(p, n, t)
<1> USE DEF StreamInv, StreamSetting, StreamKept, StreamTyped, HS!Parties, HS!Ends, HS!HostOps, HS!Live
<1>1. UNCHANGED <<sowner, shandle, sdropped, spoisoned, peerDied>>
  BY DEF HS!HostCopy
<1>2. sparked # p /\ phase[p] \in {"idle", "back"} /\ told \in [HS!Parties -> Nat]
  BY DEF StreamOutstanding, Buffers, HS!TypeOK
<1>3. CASE sdropped /\ HS!Nothing(p, n, t)
  <2>1. StreamAnswered(p, n, t)
    BY <1>3, NothingAnswers
  <2>2. StreamOutstanding'
    BY <1>1, <1>2, <1>3, <2>1 DEF StreamAnswered, HS!TypeOK, StreamOutstanding
  <2>3. Buffers'
    BY <1>1, <1>2, <1>3, <2>1 DEF StreamAnswered, HS!TypeOK, Buffers
  <2>4. Balance => Balance'
    BY <1>1, <1>2, <1>3, <2>1 DEF StreamAnswered, HS!TypeOK, Balance
  <2> QED BY <1>1, <1>2, <1>3, <2>1, <2>2, <2>3, <2>4 DEF Came, StreamAnswered, HS!TypeOK
<1>4. CASE ~sdropped /\ HS!Park(p, n, t)
  <2>1. Parked(p, n, t)
    BY <1>4, ParkParks
  <2>2. StreamOutstanding'
    BY <1>1, <1>2, <1>4, <2>1 DEF Parked, HS!TypeOK, StreamOutstanding
  <2>3. Buffers'
    BY <1>1, <1>2, <1>4, <2>1 DEF Parked, HS!TypeOK, Buffers, StreamOutstanding
  <2>4. Balance => Balance'
    BY <1>1, <1>2, <1>4, <2>1 DEF Parked, HS!TypeOK, Balance
  <2> QED BY <1>1, <1>2, <1>4, <2>1, <2>2, <2>3, <2>4 DEF Came, Parked, HS!TypeOK, StreamOutstanding
<1>5. CASE ~sdropped /\ ~HS!Parks(n, p = "hw") /\ HS!Meet(p, n, t, "back")
  <2>1. sparked \in HS!Parties
    BY <1>5 DEF HS!Parks, HS!TypeOK
  <2>2. PICK k \in Nat : Copied(p, n, t, "back", k)
    BY <1>2, <1>5, <2>1, MeetCopies
  <2>3. StreamOutstanding'
    BY <1>1, <1>2, <1>5, <2>1, <2>2 DEF Copied, HS!TypeOK, StreamOutstanding
  <2>4. Buffers'
    BY <1>1, <1>2, <1>5, <2>1, <2>2 DEF Copied, HS!TypeOK, Buffers, StreamOutstanding
  <2>5. \/ p = "hr" /\ sparked \in {"w", "hw"}
        \/ p = "hw" /\ sparked \in {"r", "hr"}
    <3>1. CASE p = "hr"
      <4>1. sowner["r"] = Host
        BY <3>1
      <4>2. sparked # "r"
        BY <4>1 DEF StreamOutstanding
      <4> HIDE DEF StreamInv
      <4> QED BY <1>2, <2>1, <3>1, <4>2
    <3>2. CASE p = "hw"
      <4>1. sowner["w"] = Host
        BY <3>2
      <4> QED BY <1>2, <2>1, <3>2, <4>1 DEF StreamOutstanding
    <3> QED BY <3>1, <3>2
  <2>6. Balance => Balance'
    BY <1>1, <1>2, <1>5, <2>2, <2>5 DEF Copied, HS!TypeOK, Balance
  <2>7. \A q \in HS!Parties : progress'[q] <= len'[q]
    BY <1>2, <2>1, <2>2 DEF Copied, HS!TypeOK
  <2> QED BY <1>1, <1>2, <1>5, <2>1, <2>2, <2>3, <2>4, <2>6, <2>7 DEF Came, Copied, HS!TypeOK,
                                                                      StreamOutstanding
<1> QED BY <1>3, <1>4, <1>5 DEF HS!HostCopy

-----------------------------------------------------------------------------
(* The host reads and writes.                                                  *)

\* What the rest of the invariant needs of a step that lets an operation come.
LEMMA CameKeeps ==
  ASSUME StreamInv, NEW p \in HS!HostOps, NEW n \in Nat, NEW t, Came(p, n, t),
         UNCHANGED <<spoisoned, peerDied, shost>>, feed' \in FeedRec, Batches',
         p = "hr" => sowner["r"] = Host
  PROVE  StreamInv'
<1> USE DEF StreamInv, StreamSetting, StreamKept, StreamTyped, HS!HostOps, Came
<1>1. HS!TypeOK'
  BY DEF HS!TypeOK, FeedRec
<1>2. Wrapped'
  BY DEF Wrapped
<1>3. Careful => ReadsOwn'
  BY DEF ReadsOwn
<1> QED BY <1>1, <1>2, <1>3

\* A read of the embedder.
LEMMA StreamHostReadKeeps ==
  ASSUME StreamInv, NEW n \in 0..MaxLen, HS!HostRead(n)
  PROVE  StreamInv'
<1> USE DEF StreamInv, StreamSetting, StreamKept, StreamTyped, HS!Parties, HS!HostOps, HS!Ends
<1>1. n \in Nat /\ UNCHANGED <<shost, feed>> /\ HS!HostCopy("hr", n, told) /\ phase["hr"] = "idle"
  BY DEF HS!HostRead
<1>2. sowner["r"] = Host
  BY DEF HS!HostRead, Wrapped
<1>3. Came("hr", n, told)
  <2>1. /\ told \in [HS!Parties -> Nat] /\ "hr" \in HS!HostOps /\ phase["hr"] # "out"
        /\ sowner[IF "hr" = "hr" THEN "r" ELSE "w"] = Host
        /\ \A q \in HS!Parties : told[q] = IF q = "hr" THEN told[q] + progress[q] ELSE told[q]
    BY <1>1, <1>2 DEF HS!TypeOK, Buffers
  <2> HIDE DEF StreamInv, HS!Parties, HS!HostOps
  <2> QED BY <1>1, <2>1, HostCopyCame
<1>4. UNCHANGED <<spoisoned, peerDied>>
  BY <1>1 DEF HS!HostCopy
<1>5. Batches'
  BY <1>1, <1>3 DEF Came, Batches, HS!Pumped, HS!Created
<1>6. feed' \in FeedRec /\ "hr" \in HS!HostOps
  BY <1>1
<1> HIDE DEF StreamInv, HS!HostOps
<1> QED BY <1>1, <1>2, <1>3, <1>4, <1>5, <1>6, CameKeeps

\* A write of the embedder, and the batch a producer yields.
LEMMA StreamHostWriteKeeps ==
  ASSUME StreamInv, NEW n \in 0..MaxLen, NEW all \in BOOLEAN, HS!StartWrite(n, all) \/ HS!Pull(n)
  PROVE  StreamInv'
<1> USE DEF StreamInv, StreamSetting, StreamKept, StreamTyped, HS!Parties, HS!HostOps, HS!Ends
<1>1. n \in Nat /\ UNCHANGED shost /\ HS!HostCopy("hw", n, told) /\ feed.at \in {"idle", "pull"}
  BY DEF HS!StartWrite, HS!Pull
<1>2. sowner["w"] = Host /\ phase["hw"] = "idle" /\ shost.kind \in HS!Created
  BY <1>1 DEF HS!StartWrite, HS!Pull, Batches, Wrapped, HS!Created
<1>3. Came("hw", n, told)
  <2>1. /\ told \in [HS!Parties -> Nat] /\ "hw" \in HS!HostOps /\ phase["hw"] # "out"
        /\ sowner[IF "hw" = "hr" THEN "r" ELSE "w"] = Host
        /\ \A q \in HS!Parties : told[q] = IF q = "hw" THEN told[q] + progress[q] ELSE told[q]
    BY <1>1, <1>2 DEF HS!TypeOK, Buffers
  <2> HIDE DEF StreamInv, HS!Parties, HS!HostOps
  <2> QED BY <1>1, <2>1, HostCopyCame
<1>4. UNCHANGED <<spoisoned, peerDied>>
  BY <1>1 DEF HS!HostCopy
<1>5. /\ feed' \in FeedRec /\ feed'.at = "batch" /\ feed'.rest = n /\ feed'.released = feed.released
      /\ feed'.failed = feed.failed /\ feed'.reported = feed.reported
      /\ HS!Pumped => feed'.loop /\ feed'.lowered = feed.lowered + n
  <2>1. CASE HS!Pull(n)
    <3>1. /\ feed \in FeedRec
          /\ feed' = [feed EXCEPT !.at = "batch", !.rest = n, !.loop = TRUE, !.lowered = @ + n]
      BY <2>1 DEF HS!Pull
    <3> HIDE DEF StreamInv
    <3>2. feed.lowered + n \in Nat
      BY <1>1, <3>1 DEF FeedRec
    <3> HIDE DEF HS!Parties, HS!HostOps, HS!Ends
    <3>3. feed' \in FeedRec
      BY <1>1, <3>1, <3>2 DEF FeedRec
    <3>4. /\ feed'.at = "batch" /\ feed'.rest = n /\ feed'.released = feed.released
          /\ feed'.failed = feed.failed /\ feed'.reported = feed.reported
          /\ feed'.loop = TRUE /\ feed'.lowered = feed.lowered + n
      BY <3>1 DEF FeedRec
    <3> QED BY <3>3, <3>4
  <2>2. CASE HS!StartWrite(n, all)
    BY <1>1, <2>2 DEF HS!StartWrite, FeedRec, HS!Pumped
  <2> QED BY <2>1, <2>2
<1>6. Batches'
  <2>1. /\ phase'["hw"] # "idle" /\ len'["hw"] = n /\ told'["hw"] = told["hw"] /\ feed.rest = 0
    BY <1>1, <1>3 DEF Came, Batches
  <2>2. feed.lowered \in Nat /\ feed.released \in Nat /\ told["hw"] \in Nat
    BY DEF FeedRec, HS!TypeOK
  <2> QED BY <1>1, <1>2, <1>5, <2>1, <2>2 DEF Batches, HS!Pumped
<1>7. "hw" \in HS!HostOps /\ "hw" # "hr"
  OBVIOUS
<1> HIDE DEF StreamInv, HS!HostOps
<1> QED BY <1>1, <1>2, <1>3, <1>4, <1>5, <1>6, <1>7, CameKeeps

\* The awaiter of a write offers the rest again, or ends the batch.
LEMMA WriteReturnsKeeps ==
  ASSUME StreamInv, HS!WriteReturns
  PROVE  StreamInv'
<1> DEFINE n == progress["hw"]
           t == [told EXCEPT !["hw"] = @ + n]
           short == HS!Pumped /\ HS!Rest(n) > 0
<1> USE DEF StreamInv, StreamSetting, StreamKept, StreamTyped, HS!Parties, HS!HostOps, HS!Ends, HS!Live,
      HS!guests
<1>1. /\ phase["hw"] = "back" /\ n \in Nat /\ HS!Rest(n) \in Nat /\ t \in [HS!Parties -> Nat]
      /\ \A q \in HS!Parties : t[q] = IF q = "hw" THEN told[q] + progress[q] ELSE told[q]
      /\ sowner["w"] = Host /\ shost.kind \in HS!Created
      /\ feed.at = "batch" /\ feed.rest = HS!Rest(n) + n
  BY DEF HS!WriteReturns, HS!Rest, HS!TypeOK, Batches, Wrapped, HS!Created
<1> HIDE DEF n, t, short
<1>2. CASE HS!HostCopy("hw", HS!Rest(n), t) /\ feed' = [feed EXCEPT !.rest = HS!Rest(n)] /\ UNCHANGED shost
  <2>1. Came("hw", HS!Rest(n), t)
    <3>1. "hw" \in HS!HostOps /\ phase["hw"] # "out" /\ sowner[IF "hw" = "hr" THEN "r" ELSE "w"] = Host
      BY <1>1
    <3> HIDE DEF StreamInv, HS!Parties, HS!HostOps
    <3> QED BY <1>1, <1>2, <3>1, HostCopyCame
  <2>2. UNCHANGED <<spoisoned, peerDied>>
    BY <1>2 DEF HS!HostCopy
  <2>3. feed' \in FeedRec
    BY <1>1, <1>2 DEF FeedRec
  <2>4. Batches'
    <3>1. /\ phase'["hw"] # "idle" /\ len'["hw"] = HS!Rest(n) /\ told'["hw"] = told["hw"] + n
      BY <1>1, <2>1 DEF Came, n
    <3>2. /\ feed.lowered \in Nat /\ feed.released \in Nat /\ told["hw"] \in Nat
          /\ feed'.rest = HS!Rest(n) /\ feed'.at = feed.at /\ feed'.lowered = feed.lowered
          /\ feed'.released = feed.released /\ feed'.loop = feed.loop
          /\ feed'.failed = feed.failed /\ feed'.reported = feed.reported
      BY <1>2 DEF FeedRec, HS!TypeOK
    <3> QED BY <1>1, <1>2, <3>1, <3>2 DEF Batches, HS!Pumped
  <2>5. "hw" \in HS!HostOps /\ "hw" # "hr"
    OBVIOUS
  <2> HIDE DEF StreamInv, HS!HostOps
  <2> QED BY <1>1, <1>2, <2>1, <2>2, <2>3, <2>4, <2>5, CameKeeps
<1>3. CASE /\ ~(feed.loop /\ n > 0 /\ HS!Rest(n) > 0 /\ ~sdropped) /\ told' = t
           /\ len' = [len EXCEPT !["hw"] = 0] /\ progress' = [progress EXCEPT !["hw"] = 0]
           /\ phase' = [(IF short THEN HS!Freed ELSE phase) EXCEPT !["hw"] = "idle"]
           /\ IF short
              THEN HS!EndOfPump([feed EXCEPT !.released = @ + HS!Untaken(HS!Rest(n))])
              ELSE /\ feed' = [feed EXCEPT !.at = IF HS!Pumped THEN "pull" ELSE "idle", !.rest = 0]
                   /\ UNCHANGED <<HS!guests, sparked, sdropped, spoisoned, peerDied, shost>>
  <2>1. /\ sowner' = sowner /\ shandle' = shandle /\ spoisoned' = spoisoned /\ peerDied' = peerDied
        /\ shost' \in StreamHostRec /\ shost'.kind = shost.kind /\ shost'.bound = shost.bound
        /\ shost'.disarmed = shost.disarmed /\ shost'.current = shost.current
        /\ shost'.closed = (shost.closed \/ short)
        /\ sdropped' = (sdropped \/ short)
        /\ sparked' = IF short THEN None ELSE sparked
        /\ sev' \in [HS!Ends -> {"none", "copied", "completed", "dropped"}]
        /\ \A e \in HS!Ends : sev'[e] = IF short /\ ~sdropped /\ e = sparked THEN "dropped" ELSE sev[e]
    <3>1. CASE short
      <4>1. /\ HS!DropShared({}) /\ shost' = HS!Closed(shost)
            /\ UNCHANGED <<sowner, shandle, spoisoned, peerDied>>
        BY <1>3, <3>1 DEF HS!EndOfPump
      <4>2. /\ sdropped' = TRUE /\ sparked' = None
            /\ sev' \in [HS!Ends -> {"none", "copied", "completed", "dropped"}]
            /\ \A e \in HS!Ends : sev'[e] = IF ~sdropped /\ e = sparked THEN "dropped" ELSE sev[e]
        BY <4>1 DEF HS!DropShared, HS!TypeOK, StreamOutstanding
      <4>3. /\ shost' \in StreamHostRec /\ shost'.kind = shost.kind /\ shost'.bound = shost.bound
            /\ shost'.disarmed = shost.disarmed /\ shost'.current = shost.current /\ shost'.closed = TRUE
        BY <1>1, <4>1 DEF HS!Closed, StreamHostRec, HS!Created
      <4> QED BY <3>1, <4>1, <4>2, <4>3
    <3>2. CASE ~short
      <4>1. UNCHANGED <<sowner, shandle, sev, sparked, sdropped, spoisoned, peerDied, shost>>
        BY <1>3, <3>2
      <4>2. shost.closed \in BOOLEAN /\ sdropped \in BOOLEAN
        BY DEF StreamHostRec, HS!TypeOK
      <4> QED BY <3>2, <4>1, <4>2 DEF HS!TypeOK
    <3> QED BY <3>1, <3>2
  <2>2. /\ phase' \in [HS!Parties -> {"idle", "out", "done", "back"}]
        /\ \A q \in HS!Parties : phase'[q] = IF q = "hw" THEN "idle"
             ELSE IF short /\ ~sdropped /\ q = sparked /\ q = "hr" THEN "back" ELSE phase[q]
    BY <1>3 DEF HS!Freed, HS!TypeOK
  <2>3. /\ feed' \in FeedRec /\ feed'.rest = 0 /\ feed'.lowered = feed.lowered
        /\ feed'.failed = feed.failed /\ feed'.reported = feed.reported
        /\ feed'.at = IF short THEN "over" ELSE IF HS!Pumped THEN "pull" ELSE "idle"
        /\ feed'.released = IF short THEN feed.released + HS!Rest(n) ELSE feed.released
    <3>1. CASE short
      <4>1. feed' = [feed EXCEPT !.released = @ + HS!Rest(n), !.at = "over", !.rest = 0]
        BY <1>3, <3>1 DEF HS!EndOfPump, HS!Untaken, FeedRec
      <4>2. feed.released + HS!Rest(n) \in Nat
        BY <1>1 DEF FeedRec
      <4> HIDE DEF HS!Parties, HS!HostOps, HS!Ends
      <4> QED BY <3>1, <4>1, <4>2 DEF FeedRec
    <3>2. CASE ~short
      <4>1. feed' = [feed EXCEPT !.at = IF HS!Pumped THEN "pull" ELSE "idle", !.rest = 0]
        BY <1>3, <3>2
      <4> HIDE DEF HS!Parties, HS!HostOps, HS!Ends
      <4> QED BY <3>2, <4>1 DEF FeedRec
    <3> QED BY <3>1, <3>2
  <2>4. /\ told' \in [HS!Parties -> Nat] /\ len' \in [HS!Parties -> Nat] /\ progress' \in [HS!Parties -> Nat]
        /\ \A q \in HS!Parties : /\ told'[q] = IF q = "hw" THEN told[q] + progress[q] ELSE told[q]
                                 /\ len'[q] = IF q = "hw" THEN 0 ELSE len[q]
                                 /\ progress'[q] = IF q = "hw" THEN 0 ELSE progress[q]
    BY <1>1, <1>3 DEF HS!TypeOK
  <2>5. HS!TypeOK'
    BY <2>1, <2>2, <2>3, <2>4 DEF HS!TypeOK, FeedRec
  <2>6. StreamOutstanding' /\ Buffers'
    BY <1>1, <2>1, <2>2, <2>4 DEF HS!TypeOK, StreamOutstanding, Buffers
  <2>7. Wrapped'
    BY <1>1, <2>1 DEF Wrapped, HS!Created, StreamHostRec, HS!TypeOK
  <2>8. Batches'
    <3>1. HS!Pumped => HS!Rest(n) = 0 \/ short
      BY <1>1 DEF short
    <3>2. told'["hw"] = told["hw"] + n /\ phase'["hw"] = "idle"
      BY <2>2, <2>4 DEF n
    <3>3. feed.lowered \in Nat /\ feed.released \in Nat /\ told["hw"] \in Nat
      BY DEF FeedRec, HS!TypeOK
    <3>4. short => HS!Pumped
      BY DEF short
    <3> QED BY <1>1, <2>1, <2>3, <3>1, <3>2, <3>3, <3>4 DEF Batches, HS!Pumped
  <2>9. Careful => ReadsOwn' /\ Balance'
    BY <2>1, <2>2, <2>4 DEF ReadsOwn, Balance, HS!TypeOK, StreamOutstanding
  <2> QED BY <2>1, <2>3, <2>5, <2>6, <2>7, <2>8, <2>9
<1> QED BY <1>2, <1>3 DEF HS!WriteReturns, n, t, short

-----------------------------------------------------------------------------
(* The host's other operations, and its producer.                              *)

\* The awaiter of a read is told of its elements.
LEMMA ReadReturnsKeeps ==
  ASSUME StreamInv, HS!ReadReturns
  PROVE  StreamInv'
<1> USE DEF StreamInv, StreamSetting, StreamKept, StreamTyped, HS!Parties, HS!Ends, HS!HostOps, HS!Created,
      HS!Pumped, HS!Live, HS!guests,
            HS!ReadReturns, HS!Empty
<1>1. shost' \in StreamHostRec /\ feed' \in FeedRec
  BY DEF StreamHostRec, FeedRec
<1>2. HS!TypeOK'
  BY DEF HS!TypeOK, StreamHostRec, FeedRec
<1>3. StreamOutstanding'
  BY DEF HS!TypeOK, StreamOutstanding
<1>4. Buffers'
  BY DEF HS!TypeOK, StreamOutstanding, Buffers
<1>5. Wrapped'
  BY DEF HS!TypeOK, StreamHostRec, Wrapped
<1>6. Batches'
  BY DEF HS!TypeOK, StreamHostRec, FeedRec, Batches, Buffers, Wrapped, StreamOutstanding
<1>7. Careful => ReadsOwn'
  BY DEF HS!TypeOK, StreamHostRec, ReadsOwn, StreamOutstanding, Wrapped, Buffers
<1>8. Careful => Balance'
  BY DEF HS!TypeOK, ReadsOwn, Balance, StreamOutstanding, Buffers
<1> QED BY <1>1, <1>2, <1>3, <1>4, <1>5, <1>6, <1>7, <1>8

\* A cancelled operation of the host resolves with what had crossed.
LEMMA StreamHostCancelKeeps ==
  ASSUME StreamInv, NEW p \in HS!HostOps, HS!HostCancel(p)
  PROVE  StreamInv'
<1> USE DEF StreamInv, StreamSetting, StreamKept, StreamTyped, HS!Parties, HS!Ends, HS!HostOps, HS!Created,
      HS!Pumped, HS!Live, HS!guests,
            HS!HostCancel
<1>1. shost' \in StreamHostRec /\ feed' \in FeedRec
  BY DEF StreamHostRec, FeedRec
<1>2. HS!TypeOK'
  BY DEF HS!TypeOK, StreamHostRec, FeedRec
<1>3. StreamOutstanding'
  BY DEF HS!TypeOK, StreamOutstanding
<1>4. Buffers'
  BY DEF HS!TypeOK, StreamOutstanding, Buffers
<1>5. Wrapped'
  BY DEF HS!TypeOK, StreamHostRec, Wrapped
<1>6. Batches'
  BY DEF HS!TypeOK, StreamHostRec, FeedRec, Batches, Buffers, Wrapped, StreamOutstanding
<1>7. Careful => ReadsOwn'
  BY DEF HS!TypeOK, StreamHostRec, ReadsOwn, StreamOutstanding, Wrapped, Buffers
<1>8. Careful => Balance'
  BY DEF HS!TypeOK, ReadsOwn, Balance, StreamOutstanding, Buffers
<1> QED BY <1>1, <1>2, <1>3, <1>4, <1>5, <1>6, <1>7, <1>8

\* The embedder drops the stream, through the current handle or a stale one.
LEMMA StreamHostDropKeeps ==
  ASSUME StreamInv, HS!HostDrop
  PROVE  StreamInv'
<1> USE DEF StreamInv, StreamSetting, StreamKept, StreamTyped, HS!Parties, HS!Ends, HS!HostOps, HS!Created,
      HS!Pumped, HS!Live, HS!guests,
            HS!HostDrop, HS!DropShared, HS!Freed, HS!Closed
<1>1. shost' \in StreamHostRec /\ feed' \in FeedRec
  BY ZenonT(60) DEF StreamHostRec, FeedRec
<1>2. HS!TypeOK'
  BY DEF HS!TypeOK, StreamHostRec, FeedRec
<1>3. StreamOutstanding'
  BY DEF HS!TypeOK, StreamOutstanding
<1>4. Buffers'
  BY DEF HS!TypeOK, StreamOutstanding, Buffers
<1>5. Wrapped'
  BY ZenonT(60) DEF HS!TypeOK, StreamHostRec, Wrapped
<1>6. Batches'
  BY ZenonT(60) DEF HS!TypeOK, StreamHostRec, FeedRec, Batches, Buffers, Wrapped, StreamOutstanding
<1>7. Careful => ReadsOwn'
  BY DEF HS!TypeOK, StreamHostRec, ReadsOwn, StreamOutstanding, Wrapped, Buffers
<1>8. Careful => Balance'
  BY DEF HS!TypeOK, ReadsOwn, Balance, StreamOutstanding, Buffers
<1> QED BY <1>1, <1>2, <1>3, <1>4, <1>5, <1>6, <1>7, <1>8

\* A lifted end comes with a claim of the host, new or restored.
LEMMA StreamLiftKeeps ==
  ASSUME StreamInv, HS!Lift
  PROVE  StreamInv'
<1> USE DEF StreamInv, StreamSetting, StreamKept, StreamTyped, HS!Parties, HS!Ends, HS!HostOps, HS!Created,
      HS!Pumped, HS!Live, HS!guests,
            HS!Lift, HS!Rearmed, HS!Wrapper
<1>1. shost' \in StreamHostRec /\ feed' \in FeedRec
  BY ZenonT(60) DEF StreamHostRec, FeedRec
<1>2. HS!TypeOK'
  BY DEF HS!TypeOK, StreamHostRec, FeedRec
<1>3. StreamOutstanding'
  BY DEF HS!TypeOK, StreamOutstanding
<1>4. Buffers'
  BY DEF HS!TypeOK, StreamOutstanding, Buffers
<1>5. Wrapped'
  BY DEF HS!TypeOK, StreamHostRec, Wrapped
<1>6. Batches'
  BY DEF HS!TypeOK, StreamHostRec, FeedRec, Batches, Buffers, Wrapped, StreamOutstanding
<1>7. Careful => ReadsOwn'
  BY DEF HS!TypeOK, StreamHostRec, ReadsOwn, StreamOutstanding, Wrapped, Buffers
<1>8. Careful => Balance'
  BY DEF HS!TypeOK, ReadsOwn, Balance, StreamOutstanding, Buffers
<1> QED BY <1>1, <1>2, <1>3, <1>4, <1>5, <1>6, <1>7, <1>8

\* A lowered end takes the claim with it, or binds it.
LEMMA StreamLowerKeeps ==
  ASSUME StreamInv, NEW i \in Insts, HS!Lower(i)
  PROVE  StreamInv'
<1> USE DEF StreamInv, StreamSetting, StreamKept, StreamTyped, HS!Parties, HS!Ends, HS!HostOps, HS!Created,
      HS!Pumped, HS!Live, HS!guests,
            HS!Lower
<1>1. shost' \in StreamHostRec /\ feed' \in FeedRec
  BY ZenonT(60) DEF StreamHostRec, FeedRec
<1>2. HS!TypeOK'
  BY DEF HS!TypeOK, StreamHostRec, FeedRec
<1>3. StreamOutstanding'
  BY DEF HS!TypeOK, StreamOutstanding
<1>4. Buffers'
  BY DEF HS!TypeOK, StreamOutstanding, Buffers
<1>5. Wrapped'
  BY DEF HS!TypeOK, StreamHostRec, Wrapped
<1>6. Batches'
  BY DEF HS!TypeOK, StreamHostRec, FeedRec, Batches, Buffers, Wrapped, StreamOutstanding
<1>7. Careful => ReadsOwn'
  BY DEF HS!TypeOK, StreamHostRec, ReadsOwn, StreamOutstanding, Wrapped, Buffers
<1>8. Careful => Balance'
  BY DEF HS!TypeOK, ReadsOwn, Balance, StreamOutstanding, Buffers
<1> QED BY <1>1, <1>2, <1>3, <1>4, <1>5, <1>6, <1>7, <1>8

\* A host import that throws drops the stream it was given.
LEMMA StreamImportTrapsKeeps ==
  ASSUME StreamInv, HS!ImportTraps
  PROVE  StreamInv'
<1> USE DEF StreamInv, StreamSetting, StreamKept, StreamTyped, HS!Parties, HS!Ends, HS!HostOps, HS!Created,
      HS!Pumped, HS!Live, HS!guests,
            HS!ImportTraps, HS!DropShared, HS!Freed, HS!Closed
<1>1. shost' \in StreamHostRec /\ feed' \in FeedRec
  BY DEF StreamHostRec, FeedRec
<1>2. HS!TypeOK'
  BY DEF HS!TypeOK, StreamHostRec, FeedRec
<1>3. StreamOutstanding'
  BY DEF HS!TypeOK, StreamOutstanding
<1>4. Buffers'
  BY DEF HS!TypeOK, StreamOutstanding, Buffers
<1>5. Wrapped'
  BY DEF HS!TypeOK, StreamHostRec, Wrapped
<1>6. Batches'
  BY DEF HS!TypeOK, StreamHostRec, FeedRec, Batches, Buffers, Wrapped, StreamOutstanding
<1>7. Careful => ReadsOwn'
  BY DEF HS!TypeOK, StreamHostRec, ReadsOwn, StreamOutstanding, Wrapped, Buffers
<1>8. Careful => Balance'
  BY DEF HS!TypeOK, ReadsOwn, Balance, StreamOutstanding, Buffers
<1> QED BY <1>1, <1>2, <1>3, <1>4, <1>5, <1>6, <1>7, <1>8

\* A producer is exhausted or fails: heard, unless its call is deferred.
LEMMA ProducerEndsKeeps ==
  ASSUME StreamInv, NEW fails \in BOOLEAN, HS!ProducerEnds(fails)
  PROVE  StreamInv'
<1> USE DEF StreamInv, StreamSetting, StreamKept, StreamTyped, HS!Parties, HS!Ends, HS!HostOps, HS!Created,
      HS!Pumped, HS!Live, HS!guests,
            HS!ProducerEnds, HS!EndOfPump, HS!DropShared, HS!Freed, HS!Closed
<1>1. shost' \in StreamHostRec /\ feed' \in FeedRec
  BY DEF StreamHostRec, FeedRec
<1>2. HS!TypeOK'
  BY DEF HS!TypeOK, StreamHostRec, FeedRec
<1>3. StreamOutstanding'
  BY DEF HS!TypeOK, StreamOutstanding
<1>4. Buffers'
  BY DEF HS!TypeOK, StreamOutstanding, Buffers
<1>5. Wrapped'
  BY DEF HS!TypeOK, StreamHostRec, Wrapped
<1>6. Batches'
  BY DEF HS!TypeOK, StreamHostRec, FeedRec, Batches, Buffers, Wrapped, StreamOutstanding
<1>7. Careful => ReadsOwn'
  BY DEF HS!TypeOK, StreamHostRec, ReadsOwn, StreamOutstanding, Wrapped, Buffers
<1>8. Careful => Balance'
  BY DEF HS!TypeOK, ReadsOwn, Balance, StreamOutstanding, Buffers
<1> QED BY <1>1, <1>2, <1>3, <1>4, <1>5, <1>6, <1>7, <1>8

\* The pump learns that its reader went.
LEMMA ReaderGoneKeeps ==
  ASSUME StreamInv, HS!ReaderGone
  PROVE  StreamInv'
<1> USE DEF StreamInv, StreamSetting, StreamKept, StreamTyped, HS!Parties, HS!Ends, HS!HostOps, HS!Created,
      HS!Pumped, HS!Live, HS!guests,
            HS!ReaderGone
<1>1. shost' \in StreamHostRec /\ feed' \in FeedRec
  BY DEF StreamHostRec, FeedRec
<1>2. HS!TypeOK'
  BY DEF HS!TypeOK, StreamHostRec, FeedRec
<1>3. StreamOutstanding'
  BY DEF HS!TypeOK, StreamOutstanding
<1>4. Buffers'
  BY DEF HS!TypeOK, StreamOutstanding, Buffers
<1>5. Wrapped'
  BY DEF HS!TypeOK, StreamHostRec, Wrapped
<1>6. Batches'
  BY DEF HS!TypeOK, StreamHostRec, FeedRec, Batches, Buffers, Wrapped, StreamOutstanding
<1>7. Careful => ReadsOwn'
  BY DEF HS!TypeOK, StreamHostRec, ReadsOwn, StreamOutstanding, Wrapped, Buffers
<1>8. Careful => Balance'
  BY DEF HS!TypeOK, ReadsOwn, Balance, StreamOutstanding, Buffers
<1> QED BY <1>1, <1>2, <1>3, <1>4, <1>5, <1>6, <1>7, <1>8

\* What a producer yields then is released.
LEMMA DrainedKeeps ==
  ASSUME StreamInv, NEW n \in 0..MaxLen, HS!Drained(n)
  PROVE  StreamInv'
<1> USE DEF StreamInv, StreamSetting, StreamKept, StreamTyped, HS!Parties, HS!Ends, HS!HostOps, HS!Created,
      HS!Pumped, HS!Live, HS!guests,
            HS!Drained, HS!EndOfPump, HS!Untaken, HS!DropShared, HS!Freed, HS!Closed
<1>1. shost' \in StreamHostRec /\ feed' \in FeedRec
  <2>1. shost' \in StreamHostRec
    BY DEF StreamHostRec
  <2>2. /\ feed \in FeedRec /\ n \in Nat
        /\ feed' = [feed EXCEPT !.lowered = @ + n, !.released = @ + n, !.at = "over", !.rest = 0]
    BY DEF FeedRec
  <2>3. feed.lowered + n \in Nat /\ feed.released + n \in Nat
    BY <2>2 DEF FeedRec
  <2> HIDE DEF StreamInv, HS!Drained, HS!Parties, HS!Ends, HS!HostOps
  <2>4. feed' \in FeedRec
    BY <2>2, <2>3 DEF FeedRec
  <2> QED BY <2>1, <2>4
<1>2. HS!TypeOK'
  BY DEF HS!TypeOK, StreamHostRec, FeedRec
<1>3. StreamOutstanding'
  BY DEF HS!TypeOK, StreamOutstanding
<1>4. Buffers'
  BY DEF HS!TypeOK, StreamOutstanding, Buffers
<1>5. Wrapped'
  BY DEF HS!TypeOK, StreamHostRec, Wrapped
<1>6. Batches'
  BY DEF HS!TypeOK, StreamHostRec, FeedRec, Batches, Buffers, Wrapped, StreamOutstanding
<1>7. Careful => ReadsOwn'
  BY DEF HS!TypeOK, StreamHostRec, ReadsOwn, StreamOutstanding, Wrapped, Buffers
<1>8. Careful => Balance'
  BY DEF HS!TypeOK, ReadsOwn, Balance, StreamOutstanding, Buffers
<1> QED BY <1>1, <1>2, <1>3, <1>4, <1>5, <1>6, <1>7, <1>8

\* The embedder closes its writer.
LEMMA CloseWriterKeeps ==
  ASSUME StreamInv, HS!CloseWriter
  PROVE  StreamInv'
<1> USE DEF StreamInv, StreamSetting, StreamKept, StreamTyped, HS!Parties, HS!Ends, HS!HostOps, HS!Created,
      HS!Pumped, HS!Live, HS!guests,
            HS!CloseWriter, HS!EndOfPump, HS!DropShared, HS!Freed, HS!Closed
<1>1. shost' \in StreamHostRec /\ feed' \in FeedRec
  BY DEF StreamHostRec, FeedRec
<1>2. HS!TypeOK'
  BY DEF HS!TypeOK, StreamHostRec, FeedRec
<1>3. StreamOutstanding'
  BY DEF HS!TypeOK, StreamOutstanding
<1>4. Buffers'
  BY DEF HS!TypeOK, StreamOutstanding, Buffers
<1>5. Wrapped'
  BY DEF HS!TypeOK, StreamHostRec, Wrapped
<1>6. Batches'
  BY DEF HS!TypeOK, StreamHostRec, FeedRec, Batches, Buffers, Wrapped, StreamOutstanding
<1>7. Careful => ReadsOwn'
  BY DEF HS!TypeOK, StreamHostRec, ReadsOwn, StreamOutstanding, Wrapped, Buffers
<1>8. Careful => Balance'
  BY DEF HS!TypeOK, ReadsOwn, Balance, StreamOutstanding, Buffers
<1> QED BY <1>1, <1>2, <1>3, <1>4, <1>5, <1>6, <1>7, <1>8

-----------------------------------------------------------------------------
(* The guests.                                                                 *)

\* A guest's copy finds the stream dropped.
LEMMA GuestDroppedKeeps ==
  ASSUME StreamInv, NEW e \in HS!Ends, NEW n \in 0..MaxLen, HS!GuestCopy(e, n), sdropped
  PROVE  StreamInv'
<1> USE DEF StreamInv, StreamSetting, StreamKept, StreamTyped, HS!Parties, HS!Ends, HS!HostOps, HS!Created,
      HS!Pumped, HS!Live, HS!guests,
            HS!GuestCopy, HS!Parks
<1>1. shost' \in StreamHostRec /\ feed' \in FeedRec
  BY DEF StreamHostRec, FeedRec
<1>2. HS!TypeOK'
  BY DEF HS!TypeOK, StreamHostRec, FeedRec
<1>3. StreamOutstanding'
  BY DEF HS!TypeOK, StreamOutstanding
<1>4. Buffers'
  BY DEF HS!TypeOK, StreamOutstanding, Buffers
<1>5. Wrapped'
  BY DEF HS!TypeOK, StreamHostRec, Wrapped
<1>6. Batches'
  BY DEF HS!TypeOK, StreamHostRec, FeedRec, Batches, Buffers, Wrapped, StreamOutstanding
<1>7. Careful => ReadsOwn'
  BY DEF HS!TypeOK, StreamHostRec, ReadsOwn, StreamOutstanding, Wrapped, Buffers
<1>8. Careful => Balance'
  BY DEF HS!TypeOK, ReadsOwn, Balance, StreamOutstanding, Buffers
<1> QED BY <1>1, <1>2, <1>3, <1>4, <1>5, <1>6, <1>7, <1>8

\* A guest's copy parks, and the operation parked before has its answer.
LEMMA GuestParksKeeps ==
  ASSUME StreamInv, NEW e \in HS!Ends, NEW n \in 0..MaxLen, HS!GuestCopy(e, n), ~sdropped,
         HS!Parks(n, e = "w")
  PROVE  StreamInv'
<1> USE DEF StreamInv, StreamSetting, StreamKept, StreamTyped, HS!Parties, HS!Ends, HS!HostOps, HS!Created,
      HS!Pumped, HS!Live, HS!guests,
            HS!GuestCopy, HS!Park
<1>1. shost' \in StreamHostRec /\ feed' \in FeedRec
  BY DEF StreamHostRec, FeedRec
<1>2. HS!TypeOK'
  BY DEF HS!TypeOK, StreamHostRec, FeedRec
<1>3. StreamOutstanding'
  BY DEF HS!TypeOK, StreamOutstanding
<1>4. Buffers'
  BY DEF HS!TypeOK, StreamOutstanding, Buffers
<1>5. Wrapped'
  BY DEF HS!TypeOK, StreamHostRec, Wrapped
<1>6. Batches'
  BY DEF HS!TypeOK, StreamHostRec, FeedRec, Batches, Buffers, Wrapped, StreamOutstanding
<1>7. Careful => ReadsOwn'
  BY DEF HS!TypeOK, StreamHostRec, ReadsOwn, StreamOutstanding, Wrapped, Buffers
<1>8. Careful => Balance'
  BY DEF HS!TypeOK, ReadsOwn, Balance, StreamOutstanding, Buffers
<1> QED BY <1>1, <1>2, <1>3, <1>4, <1>5, <1>6, <1>7, <1>8

\* A guest's copy meets a parked operation.
LEMMA GuestMeetsKeeps ==
  ASSUME StreamInv, NEW e \in HS!Ends, NEW n \in 0..MaxLen, HS!GuestCopy(e, n), ~sdropped,
         ~HS!Parks(n, e = "w")
  PROVE  StreamInv'
<1> USE DEF StreamInv, StreamSetting, StreamKept, StreamTyped, HS!Parties, HS!Ends, HS!HostOps, HS!Live
<1>1. /\ HS!Live(e) /\ phase[e] = "idle" /\ n \in Nat /\ e \in HS!Parties /\ HS!Meet(e, n, told, "idle")
      /\ UNCHANGED <<sowner, shandle, sdropped, spoisoned, peerDied, shost, feed>>
      /\ sparked \in HS!Parties /\ sparked # e /\ told \in [HS!Parties -> Nat] /\ HS!TypeOK
  BY DEF HS!GuestCopy, HS!Parks, HS!TypeOK, StreamOutstanding
<1>2. PICK k \in Nat : Copied(e, n, told, "idle", k)
  <2>1. StreamSetting
    OBVIOUS
  <2> HIDE DEF StreamInv, StreamSetting, HS!Parties, HS!Ends, HS!HostOps, HS!Live
  <2> QED BY <1>1, <2>1, MeetCopies
<1>3. HS!TypeOK'
  BY <1>1, <1>2 DEF Copied, HS!TypeOK
<1>4. StreamOutstanding'
  BY <1>1, <1>2 DEF Copied, HS!TypeOK, StreamOutstanding
<1>5. Buffers'
  BY <1>1, <1>2 DEF Copied, HS!TypeOK, Buffers, StreamOutstanding
<1>6. Wrapped'
  BY <1>1 DEF Wrapped
<1>7. Batches'
  BY <1>1, <1>2 DEF Copied, Batches, HS!Pumped, HS!TypeOK, StreamOutstanding
<1>8. ASSUME Careful PROVE ReadsOwn' /\ Balance'
  <2>1. \/ e = "r" /\ sparked \in {"w", "hw"}
        \/ e = "w" /\ sparked \in {"r", "hr"}
    <3>1. CASE e = "r"
      <4>1. sowner["r"] # Host /\ sparked # "hr"
        BY <1>1, <1>8, <3>1 DEF ReadsOwn, StreamOutstanding
      <4> QED BY <1>1, <3>1, <4>1
    <3>2. CASE e = "w"
      <4>1. sowner["w"] # Host /\ sparked # "hw"
        BY <1>1, <3>2 DEF StreamOutstanding, Batches, Wrapped
      <4> QED BY <1>1, <3>2, <4>1
    <3> QED BY <3>1, <3>2
  <2>2. ReadsOwn'
    BY <1>1, <1>2, <1>8, <2>1 DEF Copied, ReadsOwn, HS!TypeOK, StreamOutstanding
  <2>3. Balance'
    <3>1. Balance /\ progress[e] = 0
      BY <1>1, <1>8 DEF Buffers
    <3>2. CASE e = "r"
      BY <1>2, <2>1, <3>1, <3>2 DEF Copied, Balance, HS!TypeOK
    <3>3. CASE e = "w"
      BY <1>2, <2>1, <3>1, <3>3 DEF Copied, Balance, HS!TypeOK
    <3> QED BY <3>2, <3>3
  <2> QED BY <2>2, <2>3
<1> QED BY <1>1, <1>3, <1>4, <1>5, <1>6, <1>7, <1>8

\* An event taken or a copy cancelled: its elements are told.
LEMMA GuestTakesKeeps ==
  ASSUME StreamInv, NEW e \in HS!Ends, HS!GuestTakes(e)
  PROVE  StreamInv'
<1> USE DEF StreamInv, StreamSetting, StreamKept, StreamTyped, HS!Parties, HS!Ends, HS!HostOps, HS!Created,
      HS!Pumped, HS!Live, HS!guests,
            HS!GuestTakes
<1>1. shost' \in StreamHostRec /\ feed' \in FeedRec
  BY DEF StreamHostRec, FeedRec
<1>2. HS!TypeOK'
  BY DEF HS!TypeOK, StreamHostRec, FeedRec
<1>3. StreamOutstanding'
  BY DEF HS!TypeOK, StreamOutstanding
<1>4. Buffers'
  BY DEF HS!TypeOK, StreamOutstanding, Buffers
<1>5. Wrapped'
  BY DEF HS!TypeOK, StreamHostRec, Wrapped
<1>6. Batches'
  BY DEF HS!TypeOK, StreamHostRec, FeedRec, Batches, Buffers, Wrapped, StreamOutstanding
<1>7. Careful => ReadsOwn'
  BY DEF HS!TypeOK, StreamHostRec, ReadsOwn, StreamOutstanding, Wrapped, Buffers
<1>8. Careful => Balance'
  BY DEF HS!TypeOK, ReadsOwn, Balance, StreamOutstanding, Buffers
<1> QED BY <1>1, <1>2, <1>3, <1>4, <1>5, <1>6, <1>7, <1>8

\* A guest drops its end, and what is parked has its answer.
LEMMA GuestDropKeeps ==
  ASSUME StreamInv, NEW e \in HS!Ends, HS!GuestDrop(e)
  PROVE  StreamInv'
<1> USE DEF StreamInv, StreamSetting, StreamKept, StreamTyped, HS!Parties, HS!Ends, HS!HostOps, HS!Created,
      HS!Pumped, HS!Live, HS!guests,
            HS!GuestDrop, HS!DropShared, HS!Freed, HS!Closed
<1>1. shost' \in StreamHostRec /\ feed' \in FeedRec
  BY DEF StreamHostRec, FeedRec
<1>2. HS!TypeOK'
  BY DEF HS!TypeOK, StreamHostRec, FeedRec
<1>3. StreamOutstanding'
  BY DEF HS!TypeOK, StreamOutstanding
<1>4. Buffers'
  BY DEF HS!TypeOK, StreamOutstanding, Buffers
<1>5. Wrapped'
  BY DEF HS!TypeOK, StreamHostRec, Wrapped
<1>6. Batches'
  BY DEF HS!TypeOK, StreamHostRec, FeedRec, Batches, Buffers, Wrapped, StreamOutstanding
<1>7. Careful => ReadsOwn'
  BY DEF HS!TypeOK, StreamHostRec, ReadsOwn, StreamOutstanding, Wrapped, Buffers
<1>8. Careful => Balance'
  BY DEF HS!TypeOK, ReadsOwn, Balance, StreamOutstanding, Buffers
<1> QED BY <1>1, <1>2, <1>3, <1>4, <1>5, <1>6, <1>7, <1>8

\* A dying instance drops the stream, if it has an end of it.
LEMMA StreamTrapKeeps ==
  ASSUME StreamInv, NEW i \in Insts, HS!Trap(i)
  PROVE  StreamInv'
<1> USE DEF StreamInv, StreamSetting, StreamKept, StreamTyped, HS!Parties, HS!Ends, HS!HostOps, HS!Created,
      HS!Pumped, HS!Live, HS!guests,
            HS!Trap, HS!DropShared, HS!Freed, HS!Closed
<1>1. shost' \in StreamHostRec /\ feed' \in FeedRec
  BY DEF StreamHostRec, FeedRec
<1>2. HS!TypeOK'
  <2>1. /\ phase' \in [HS!Parties -> {"idle", "out", "done", "back"}]
        /\ sev' \in [HS!Ends -> {"none", "copied", "completed", "dropped"}]
    BY DEF HS!TypeOK
  <2>2. /\ sparked' \in HS!Parties \cup {None} /\ sdropped' \in BOOLEAN /\ peerDied' \in BOOLEAN
        /\ spoisoned' \subseteq Insts /\ UNCHANGED <<sowner, shandle, len, progress, told, feed>>
    BY DEF HS!TypeOK
  <2> QED BY <2>1, <2>2 DEF HS!TypeOK
<1>3. StreamOutstanding'
  BY DEF HS!TypeOK, StreamOutstanding
<1>4. Buffers'
  BY DEF HS!TypeOK, StreamOutstanding, Buffers
<1>5. Wrapped'
  BY ZenonT(60) DEF HS!TypeOK, StreamHostRec, Wrapped
<1>6. Batches'
  BY DEF HS!TypeOK, StreamHostRec, FeedRec, Batches, Buffers, Wrapped, StreamOutstanding
<1>7. Careful => ReadsOwn'
  BY DEF HS!TypeOK, StreamHostRec, ReadsOwn, StreamOutstanding, Wrapped, Buffers
<1>8. Careful => Balance'
  BY DEF HS!TypeOK, ReadsOwn, Balance, StreamOutstanding, Buffers
<1> QED BY <1>1, <1>2, <1>3, <1>4, <1>5, <1>6, <1>7, <1>8

\* The readable end moves from guest to guest.
LEMMA StreamTransferKeeps ==
  ASSUME StreamInv, NEW i \in Insts, HS!Transfer(i)
  PROVE  StreamInv'
<1> USE DEF StreamInv, StreamSetting, StreamKept, StreamTyped, HS!Parties, HS!Ends, HS!HostOps, HS!Created,
      HS!Pumped, HS!Live, HS!guests,
            HS!Transfer
<1>1. shost' \in StreamHostRec /\ feed' \in FeedRec
  BY DEF StreamHostRec, FeedRec
<1>2. HS!TypeOK'
  BY DEF HS!TypeOK, StreamHostRec, FeedRec
<1>3. StreamOutstanding'
  BY DEF HS!TypeOK, StreamOutstanding
<1>4. Buffers'
  BY DEF HS!TypeOK, StreamOutstanding, Buffers
<1>5. Wrapped'
  BY DEF HS!TypeOK, StreamHostRec, Wrapped
<1>6. Batches'
  BY DEF HS!TypeOK, StreamHostRec, FeedRec, Batches, Buffers, Wrapped, StreamOutstanding
<1>7. Careful => ReadsOwn'
  BY DEF HS!TypeOK, StreamHostRec, ReadsOwn, StreamOutstanding, Wrapped, Buffers
<1>8. Careful => Balance'
  BY DEF HS!TypeOK, ReadsOwn, Balance, StreamOutstanding, Buffers
<1> QED BY <1>1, <1>2, <1>3, <1>4, <1>5, <1>6, <1>7, <1>8

-----------------------------------------------------------------------------
(* The invariant of the stream.                                                *)

\* Every step of a guest keeps the invariant.
LEMMA StreamGuestStep == StreamInv /\ HS!GuestNext => StreamInv'
<1>1. ASSUME StreamInv, NEW e \in HS!Ends, NEW n \in 0..MaxLen, HS!GuestCopy(e, n) PROVE StreamInv'
  <2>1. CASE sdropped
    BY <1>1, <2>1, GuestDroppedKeeps
  <2>2. CASE ~sdropped /\ HS!Parks(n, e = "w")
    BY <1>1, <2>2, GuestParksKeeps
  <2>3. CASE ~sdropped /\ ~HS!Parks(n, e = "w")
    BY <1>1, <2>3, GuestMeetsKeeps
  <2> QED BY <2>1, <2>2, <2>3
<1> QED BY <1>1, GuestTakesKeeps, GuestDropKeeps, StreamTrapKeeps, StreamTransferKeeps DEF HS!GuestNext

\* Every step of the host keeps it.
LEMMA StreamHostStep == StreamInv /\ HS!HostNext => StreamInv'
<1> SUFFICES ASSUME StreamInv, HS!HostNext PROVE StreamInv'
  OBVIOUS
<1>1. CASE HS!Lift \/ HS!ImportTraps \/ HS!ReadReturns \/ HS!HostDrop
  BY <1>1, StreamLiftKeeps, StreamImportTrapsKeeps, ReadReturnsKeeps, StreamHostDropKeeps
<1>2. CASE HS!WriteReturns \/ HS!ReaderGone \/ HS!CloseWriter
  BY <1>2, WriteReturnsKeeps, ReaderGoneKeeps, CloseWriterKeeps
<1>3. ASSUME NEW n \in 0..MaxLen,
             HS!HostRead(n) \/ HS!StartWrite(n, FALSE) \/ HS!StartWrite(n, TRUE) \/ HS!Pull(n) \/ HS!Drained(n)
      PROVE  StreamInv'
  <2>1. FALSE \in BOOLEAN /\ TRUE \in BOOLEAN
    OBVIOUS
  <2> QED BY <1>3, <2>1, StreamHostReadKeeps, StreamHostWriteKeeps, DrainedKeeps
<1>4. ASSUME NEW p \in HS!HostOps, HS!HostCancel(p) PROVE StreamInv'
  BY <1>4, StreamHostCancelKeeps
<1>5. ASSUME NEW fails \in BOOLEAN, HS!ProducerEnds(fails) PROVE StreamInv'
  BY <1>5, ProducerEndsKeeps
<1>6. ASSUME NEW i \in Insts, HS!Lower(i) PROVE StreamInv'
  BY <1>6, StreamLowerKeeps
<1> QED BY <1>1, <1>2, <1>3, <1>4, <1>5, <1>6 DEF HS!HostNext

\* The invariant is inductive.
LEMMA StreamInvNext == StreamInv /\ HS!Next => StreamInv'
BY StreamGuestStep, StreamHostStep DEF HS!Next

\* It depends on the variables of the stream only.
LEMMA StreamInvStill == StreamInv /\ UNCHANGED HS!vars => StreamInv'
BY DEF StreamInv, StreamSetting, StreamTyped, HS!TypeOK, StreamKept, StreamOutstanding, Buffers, Wrapped,
     Batches, ReadsOwn,
       Balance, HS!Pumped, HS!Live, HS!vars, HS!guests

-----------------------------------------------------------------------------
(* What it says of the properties of the stream.                               *)

\* Conservation is the balance of the four parties.
LEMMA BalanceConserves == HS!TypeOK /\ Balance => HS!Conservation
<1> SUFFICES ASSUME HS!TypeOK, Balance PROVE HS!Conservation
  OBVIOUS
<1>1. ASSUME NEW f \in [HS!Parties -> Nat]
      PROVE  /\ HS!Sum(f, {"w", "hw"}) = f["w"] + f["hw"] /\ HS!Sum(f, {"r", "hr"}) = f["r"] + f["hr"]
             /\ f["w"] \in Nat /\ f["hw"] \in Nat /\ f["r"] \in Nat /\ f["hr"] \in Nat
  BY DEF HS!Sum, HS!Parties, HS!Ends, HS!HostOps
<1> HIDE DEF HS!Sum
<1>2. told \in [HS!Parties -> Nat] /\ progress \in [HS!Parties -> Nat]
  BY DEF HS!TypeOK
<1> QED BY <1>1, <1>2 DEF Balance, HS!Conservation, HS!Sent

\* A producer is settled with by the account of its batches, and heard where no
\* call is deferred.
LEMMA BatchesKeep ==
  ASSUME StreamInv, ~Deferred
  PROVE  HS!ProducerKept
BY DEF StreamInv, StreamKept, Batches, HS!ProducerKept, StreamTyped, FeedRec

\* The claim of the activity is that of the wrapper.
LEMMA WrappedClaims == StreamInv => HS!RetentionClaim
BY DEF StreamInv, StreamKept, StreamTyped, HS!TypeOK, StreamHostRec, Wrapped, HS!RetentionClaim, HS!Armed,
     HS!Created

\* Parked or answered is what the operations owe.
LEMMA OutstandingSettles == StreamInv => HS!OperationsSettle
BY DEF StreamInv, StreamKept, StreamOutstanding, HS!OperationsSettle

\* What follows from the invariant, and for which embedders and calls.
LEMMA InvSuffices ==
  StreamInv => /\ HS!TypeOK /\ HS!OperationsSettle /\ HS!RetentionClaim
               /\ Careful => HS!Conservation
               /\ ~Deferred => HS!ProducerKept
BY BalanceConserves, BatchesKeep, WrappedClaims, OutstandingSettles DEF StreamInv, StreamTyped

-----------------------------------------------------------------------------
(* Results for a stream by itself.                                             *)

\* The constants of MCHost are those of a stream.
LEMMA StreamConstants == StreamSetting
BY FutureAssumption, LengthAssumption
   DEF StreamSetting, HS!Parties, HS!Ends, HS!HostOps, Ends, HostOps

\* StreamInv holds in every state of a stream.
THEOREM StreamInvariant == HS!Spec => []StreamInv
<1>1. StreamInv /\ [HS!Next]_(HS!vars) => StreamInv'
  BY StreamInvNext, StreamInvStill
<1> QED BY <1>1, StreamInvInit, StreamConstants, PTL DEF HS!Spec

\* What both components keep.
HostInv == FutureInv /\ StreamInv

-----------------------------------------------------------------------------
(* The invariant of both.                                                      *)

\* In a behaviour one of the two components runs and the other stays as it began.
THEOREM HostInvariant == HostSpec => []HostInv
<1>1. Started => HostInv
  BY FutureInvInit, StreamInvInit, StreamConstants DEF Started, HostInv
<1>2. ASSUME HostInv, [Future \/ Stream]_<<part, vars, svars>> PROVE HostInv'
  <2>1. CASE Future
    <3>1. FutureInv'
      BY <1>2, <2>1, FutureInvNext DEF Future, HostInv
    <3>2. StreamInv'
      BY <1>2, <2>1, StreamInvStill DEF Future, HostInv, svars, HS!vars, HS!guests
    <3> QED BY <3>1, <3>2 DEF HostInv
  <2>2. CASE Stream
    <3>1. FutureInv'
      BY <1>2, <2>2, FutureInvStill DEF Stream, HostInv, vars
    <3>2. StreamInv'
      BY <1>2, <2>2, StreamInvNext DEF Stream, HostInv
    <3> QED BY <3>1, <3>2 DEF HostInv
  <2>3. CASE UNCHANGED <<part, vars, svars>>
    BY <1>2, <2>3, FutureInvStill, StreamInvStill DEF HostInv, svars, HS!vars, HS!guests
  <2> QED BY <1>2, <2>1, <2>2, <2>3
<1> QED BY <1>1, <1>2, PTL DEF HostSpec

-----------------------------------------------------------------------------
(* Results.                                                                    *)

\* Every variable of the future and of the stream keeps its type, whatever the
\* embedder does with its handles and however long calls are deferred.
THEOREM HostTypesHold == HostSpec => []HostTypeOK
<1>1. HostInv => HostTypeOK
  BY InvSuffices, KeptSuffices DEF HostInv, HostTypeOK
<1> QED BY <1>1, HostInvariant, PTL

\* The claim "the embedder may still act" stands exactly as long as the host
\* holds an end of a live future or stream, for a careless embedder too.
THEOREM ClaimsExact == HostSpec => []HostClaims
<1>1. HostInv => HostClaims
  BY InvSuffices, KeptSuffices DEF HostInv, HostClaims
<1> QED BY <1>1, HostInvariant, PTL

\* A guest or the host never waits for a writer that is gone, and every
\* operation of a stream is parked or has its outcome.
THEOREM NobodyWaits ==
  ASSUME Careful
  PROVE  HostSpec => []NobodyHangs
<1>1. HostInv => NobodyHangs
  BY InvSuffices, KeptSuffices DEF HostInv, NobodyHangs
<1> QED BY <1>1, HostInvariant, PTL

\* The value of a future crosses once, and no assert_ of its code fails.
THEOREM ValueCrossesOnce ==
  ASSUME Careful, ~Deferred
  PROVE  HostSpec => []FutureKept
<1>1. HostInv => FutureKept
  BY KeptSuffices DEF HostInv, FutureKept
<1> QED BY <1>1, HostInvariant, PTL

\* No element of a stream is lost or doubled, and a producer's elements are
\* taken or released, each once.
THEOREM ElementsAccounted ==
  ASSUME Careful, ~Deferred
  PROVE  HostSpec => []ElementsKept
<1>1. HostInv => ElementsKept
  BY InvSuffices DEF HostInv, ElementsKept
<1> QED BY <1>1, HostInvariant, PTL
=============================================================================
