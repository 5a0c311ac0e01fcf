--------------------------- MODULE Streams_proofs ---------------------------
(* Streams, proved for every set of instances, every element type, both       *)
(* suspension policies and every bound: the invariants MCStreams checks, and  *)
(* that the stream implements the rendezvous channel.                         *)
EXTENDS Streams, TLAPS

-----------------------------------------------------------------------------
(* The inductive invariant.                                                    *)

\* What an end that has no outstanding operation left keeps nothing of it, and
\* what the fact that an end was dropped leaves.
IdleEnd ==
  \A e \in Ends : /\ cstate[e] # "copying" => len[e] = 0 /\ progress[e] = 0
                  /\ Live(e) /\ wait[e] = "sync" => cstate[e] = "copying"
DropSeen ==
  \A e \in Ends : handle[e] = "dropped" \/ ev[e] = "dropped" => dropped

StreamInv == TypeOK /\ ParkedSide /\ Conservation /\ NoAssertFails /\ IdleEnd /\ DropSeen

LEMMA StreamInvInit == Init => StreamInv
<1> SUFFICES ASSUME Init PROVE StreamInv
  OBVIOUS
<1> USE StreamAssumption, NoneAssumption DEF Init, Ends
<1>1. TypeOK
  <2>1. parked \in Ends \cup {None} /\ dropped \in BOOLEAN /\ fault \in BOOLEAN
    OBVIOUS
  <2>2. poisoned \subseteq Insts /\ owner \in [Ends -> Insts] /\ told \in [Ends -> Nat]
    OBVIOUS
  <2>3. /\ len \in [Ends -> Nat] /\ progress \in [Ends -> Nat]
        /\ \A e \in Ends : progress[e] <= len[e]
    OBVIOUS
  <2>4. cstate \in [Ends -> States] /\ ev \in [Ends -> Events]
    BY DEF States, Events
  <2>5. handle \in [Ends -> {"held", "dropped", "lost"}]
    OBVIOUS
  <2>6. wait \in [Ends -> {"no", "set", "sync"}]
    OBVIOUS
  <2> QED BY <2>1, <2>2, <2>3, <2>4, <2>5, <2>6 DEF TypeOK
<1>2. ParkedSide
  BY DEF ParkedSide
<1>3. Conservation /\ NoAssertFails
  BY DEF Conservation, NoAssertFails
<1>4. IdleEnd /\ DropSeen
  BY DEF IdleEnd, DropSeen
<1> QED BY <1>1, <1>2, <1>3, <1>4 DEF StreamInv

\* Operations.
LEMMA CopyKeepsInv ==
  ASSUME StreamInv, NEW e \in Ends, NEW n \in 0..MaxLen, NEW async \in BOOLEAN,
         CopyDropped(e, n, async) \/ CopyParks(e, n, async) \/ CopyMeets(e, n, async)
  PROVE  StreamInv'
<1> USE StreamAssumption, NoneAssumption
<1>1. CASE CopyDropped(e, n, async)
  BY <1>1 DEF StreamInv, TypeOK, ParkedSide, Conservation, NoAssertFails, IdleEnd, DropSeen,
              Ends, States, Events, Live, CopyDropped, MayCopy
<1>2. CASE CopyParks(e, n, async)
  <2> USE <1>2 DEF StreamInv, TypeOK, Ends, CopyParks, MayCopy
  <2>1. TypeOK'
    <3>1. /\ owner' \in [Ends -> Insts] /\ poisoned' \subseteq Insts
          /\ handle' \in [Ends -> {"held", "dropped", "lost"}]
          /\ wait' \in [Ends -> {"no", "set", "sync"}]
      OBVIOUS
    <3>2. cstate' \in [Ends -> States] /\ parked' \in Ends \cup {None}
      BY DEF States
    <3>3. ev' \in [Ends -> Events]
      BY DEF Events
    <3>4. dropped' \in BOOLEAN /\ fault' \in BOOLEAN
      OBVIOUS
    <3>5. /\ len' \in [Ends -> Nat] /\ progress' \in [Ends -> Nat]
          /\ told' \in [Ends -> Nat]
          /\ \A x \in Ends : progress'[x] <= len'[x]
      OBVIOUS
    <3> QED BY <3>1, <3>2, <3>3, <3>4, <3>5
  <2>2. ParkedSide'
    BY DEF ParkedSide, IdleEnd, Live, Events
  <2>3. Conservation' /\ NoAssertFails'
    BY DEF Conservation, NoAssertFails, ParkedSide, IdleEnd, Live
  <2>4. IdleEnd' /\ DropSeen'
    BY DEF IdleEnd, DropSeen, ParkedSide, Live
  <2> QED BY <2>1, <2>2, <2>3, <2>4
<1>3. CASE CopyMeets(e, n, async)
  <2> USE <1>3 DEF StreamInv, TypeOK, Ends, CopyMeets, MayCopy, Parks, Remain, Least
  <2>1. TypeOK'
    <3>1. /\ owner' \in [Ends -> Insts] /\ poisoned' \subseteq Insts
          /\ handle' \in [Ends -> {"held", "dropped", "lost"}]
          /\ wait' \in [Ends -> {"no", "set", "sync"}]
      OBVIOUS
    <3>2. cstate' \in [Ends -> States] /\ parked' \in Ends \cup {None}
      BY DEF States
    <3>3. ev' \in [Ends -> Events]
      BY DEF Events
    <3>4. dropped' \in BOOLEAN /\ fault' \in BOOLEAN
      OBVIOUS
    <3>5. /\ len' \in [Ends -> Nat] /\ progress' \in [Ends -> Nat]
          /\ told' \in [Ends -> Nat]
          /\ \A x \in Ends : progress'[x] <= len'[x]
      OBVIOUS
    <3> QED BY <3>1, <3>2, <3>3, <3>4, <3>5
  <2>2. ParkedSide'
    BY DEF ParkedSide, IdleEnd, Live, Events
  <2>3. Conservation' /\ NoAssertFails'
    BY DEF Conservation, NoAssertFails, ParkedSide, IdleEnd, Live
  <2>4. IdleEnd' /\ DropSeen'
    BY DEF IdleEnd, DropSeen, ParkedSide, Live
  <2> QED BY <2>1, <2>2, <2>3, <2>4
<1> QED BY <1>1, <1>2, <1>3

LEMMA EndKeepsInv ==
  ASSUME StreamInv, NEW e \in Ends,
         Deliver(e) \/ \E async \in BOOLEAN : CancelCopy(e, async)
  PROVE  StreamInv'
<1> USE StreamAssumption, NoneAssumption
<1>1. CASE Deliver(e)
  BY <1>1 DEF StreamInv, TypeOK, ParkedSide, Conservation, NoAssertFails, IdleEnd, DropSeen,
              Ends, States, Events, Live, Deliver, Take, Reclaim
<1>2. ASSUME NEW async \in BOOLEAN, CancelCopy(e, async) PROVE StreamInv'
  BY <1>2 DEF StreamInv, TypeOK, ParkedSide, Conservation, NoAssertFails, IdleEnd, DropSeen,
              Ends, States, Events, Live, CancelCopy, Cancellable, Take, Reclaim, ToldOfCancel
<1> QED BY <1>1, <1>2

\* The ends come and go.
LEMMA LifeKeepsInv ==
  ASSUME StreamInv,
         \/ \E e \in Ends : Join(e) \/ Drop(e) \/ RemoveTraps(e)
         \/ \E i \in Insts : Transfer(i) \/ Trap(i)
  PROVE  StreamInv'
<1> USE StreamAssumption, NoneAssumption
<1>1. ASSUME NEW e \in Ends, Join(e) PROVE StreamInv'
  <2> USE <1>1 DEF StreamInv, Ends, Join
  <2>1. TypeOK'
    BY DEF TypeOK
  <2>2. ParkedSide' /\ IdleEnd'
    BY DEF TypeOK, ParkedSide, IdleEnd, Live
  <2>3. Conservation' /\ NoAssertFails' /\ DropSeen'
    BY DEF Conservation, NoAssertFails, DropSeen
  <2> QED BY <2>1, <2>2, <2>3
<1>2. ASSUME NEW e \in Ends, Drop(e) PROVE StreamInv'
  <2> USE <1>2 DEF StreamInv, TypeOK, Ends, Drop, NotifyParked
  <2>1. TypeOK'
    <3>1. /\ owner' \in [Ends -> Insts] /\ poisoned' \subseteq Insts
          /\ handle' \in [Ends -> {"held", "dropped", "lost"}]
          /\ wait' \in [Ends -> {"no", "set", "sync"}]
      OBVIOUS
    <3>2. cstate' \in [Ends -> States] /\ parked' \in Ends \cup {None}
      BY DEF States
    <3>3. ev' \in [Ends -> Events]
      BY DEF Events
    <3>4. dropped' \in BOOLEAN /\ fault' \in BOOLEAN
      OBVIOUS
    <3>5. /\ len' \in [Ends -> Nat] /\ progress' \in [Ends -> Nat]
          /\ told' \in [Ends -> Nat]
          /\ \A x \in Ends : progress'[x] <= len'[x]
      OBVIOUS
    <3> QED BY <3>1, <3>2, <3>3, <3>4, <3>5
  <2>2. ParkedSide'
    BY DEF ParkedSide, IdleEnd, Live, Events
  <2>3. Conservation' /\ NoAssertFails'
    BY DEF Conservation, NoAssertFails, ParkedSide, IdleEnd, Live
  <2>4. IdleEnd' /\ DropSeen'
    BY DEF IdleEnd, DropSeen, ParkedSide, Live
  <2> QED BY <2>1, <2>2, <2>3, <2>4
<1>3. ASSUME NEW i \in Insts, Transfer(i) PROVE StreamInv'
  BY <1>3 DEF StreamInv, TypeOK, ParkedSide, Conservation, NoAssertFails, IdleEnd, DropSeen,
              Ends, States, Events, Live, Transfer
<1>4. ASSUME NEW i \in Insts, Trap(i) PROVE StreamInv'
  <2> USE <1>4 DEF StreamInv, TypeOK, Ends, Trap, Retire, NotifyParked, ParkedInDeadGuest, Table
  <2>1. TypeOK'
    <3>1. /\ owner' \in [Ends -> Insts] /\ poisoned' \subseteq Insts
          /\ handle' \in [Ends -> {"held", "dropped", "lost"}]
          /\ wait' \in [Ends -> {"no", "set", "sync"}]
      OBVIOUS
    <3>2. cstate' \in [Ends -> States] /\ parked' \in Ends \cup {None}
      BY DEF States
    <3>3. ev' \in [Ends -> Events]
      BY DEF Events
    <3>4. dropped' \in BOOLEAN /\ fault' \in BOOLEAN
      OBVIOUS
    <3>5. /\ len' \in [Ends -> Nat] /\ progress' \in [Ends -> Nat]
          /\ told' \in [Ends -> Nat]
          /\ \A x \in Ends : progress'[x] <= len'[x]
      OBVIOUS
    <3> QED BY <3>1, <3>2, <3>3, <3>4, <3>5
  <2>2. ParkedSide'
    BY DEF ParkedSide, IdleEnd, Live, Events
  <2>3. Conservation' /\ NoAssertFails'
    BY DEF Conservation, NoAssertFails, ParkedSide, IdleEnd, Live
  <2>4. IdleEnd' /\ DropSeen'
    BY DEF IdleEnd, DropSeen, ParkedSide, Live
  <2> QED BY <2>1, <2>2, <2>3, <2>4
<1>5. ASSUME NEW e \in Ends, RemoveTraps(e) PROVE StreamInv'
  <2> USE <1>5 DEF StreamInv, TypeOK, Ends, RemoveTraps, Retire, NotifyParked, ParkedInDeadGuest, Table
  <2>1. TypeOK'
    <3>1. /\ owner' \in [Ends -> Insts] /\ poisoned' \subseteq Insts
          /\ handle' \in [Ends -> {"held", "dropped", "lost"}]
          /\ wait' \in [Ends -> {"no", "set", "sync"}]
      OBVIOUS
    <3>2. cstate' \in [Ends -> States] /\ parked' \in Ends \cup {None}
      BY DEF States
    <3>3. ev' \in [Ends -> Events]
      BY DEF Events
    <3>4. dropped' \in BOOLEAN /\ fault' \in BOOLEAN
      OBVIOUS
    <3>5. /\ len' \in [Ends -> Nat] /\ progress' \in [Ends -> Nat]
          /\ told' \in [Ends -> Nat]
          /\ \A x \in Ends : progress'[x] <= len'[x]
      OBVIOUS
    <3> QED BY <3>1, <3>2, <3>3, <3>4, <3>5
  <2>2. ParkedSide'
    BY DEF ParkedSide, IdleEnd, Live, Events
  <2>3. Conservation' /\ NoAssertFails'
    BY DEF Conservation, NoAssertFails, ParkedSide, IdleEnd, Live
  <2>4. IdleEnd' /\ DropSeen'
    BY DEF IdleEnd, DropSeen, ParkedSide, Live
  <2> QED BY <2>1, <2>2, <2>3, <2>4
<1> QED BY <1>1, <1>2, <1>3, <1>4, <1>5

LEMMA StreamInvStep == StreamInv /\ [Next]_vars => StreamInv'
<1> SUFFICES ASSUME StreamInv, [Next]_vars PROVE StreamInv'
  OBVIOUS
<1>1. CASE UNCHANGED vars
  BY <1>1 DEF vars, StreamInv, TypeOK, ParkedSide, Conservation, NoAssertFails, IdleEnd,
              DropSeen, Live
<1>2. CASE Next
  BY <1>2, CopyKeepsInv, EndKeepsInv, LifeKeepsInv DEF Next
<1> QED BY <1>1, <1>2

LEMMA StreamInvariant == Spec => []StreamInv
BY StreamInvInit, StreamInvStep, PTL DEF Spec

-----------------------------------------------------------------------------
(* Refinement.  What the channel sees of the stream.                           *)

Phase == [e \in Ends |-> IF cstate[e] # "copying" THEN cstate[e]
                         ELSE IF ev[e] = "none" THEN "busy" ELSE "ready"]
Room == [e \in Ends |-> Remain(e)]
Moved == told["r"] + progress["r"]

ChanStep == [Chan!ChanNext]_(Chan!vars)
ChanStill == Phase' = Phase /\ Room' = Room /\ told' = told /\ Moved' = Moved /\ dropped' = dropped

\* A step that leaves what the channel sees alone is a stutter of the channel.
LEMMA StillIsStutter == ChanStill => ChanStep
BY DEF ChanStill, ChanStep, Chan!vars, Phase, Room, Moved

\* An operation that parks opens; the exhausted peer may end.
LEMMA ParksOpens ==
  ASSUME StreamInv, NEW e \in Ends, NEW n \in 0..MaxLen, NEW async \in BOOLEAN,
         CopyParks(e, n, async)
  PROVE  Chan!Open(e, n)
<1> USE NoneAssumption DEF StreamInv, TypeOK, Ends
<1>1. /\ parked # e /\ cstate[e] = "idle" /\ ~dropped /\ ev[e] = "none"
      /\ len[e] = 0 /\ progress[e] = 0
  BY DEF CopyParks, MayCopy, ParkedSide, IdleEnd
<1>2. Phase[e] = "idle"
  BY <1>1 DEF Phase
<1>3. Room' = [Room EXCEPT ![e] = n]
  <2>1. \A o \in Ends : len'[o] - progress'[o] = IF o = e THEN n ELSE len[o] - progress[o]
    BY <1>1, StreamAssumption DEF CopyParks
  <2> QED BY <2>1 DEF Room, Remain
<1>4. told' = told /\ Moved' = Moved /\ dropped' = dropped
  BY <1>1 DEF CopyParks, Moved
<1> DEFINE S == {o \in Ends : o = parked}
<1>6. S \in SUBSET {o \in Ends \ {e} : Phase[o] \in {"busy", "ready"} /\ Room[o] = 0}
  BY <1>1 DEF CopyParks, Parks, ParkedSide, Phase, Room
<1>7. Phase' = [o \in Ends |-> IF o = e THEN "busy" ELSE IF o \in S THEN "ready" ELSE Phase[o]]
  BY <1>1 DEF CopyParks, ParkedSide, Phase
<1> QED BY <1>1, <1>2, <1>3, <1>4, <1>6, <1>7 DEF Chan!Open, Phase, Room, Moved

\* An operation that meets the parked one moves elements.
LEMMA MeetsMoves ==
  ASSUME StreamInv, NEW e \in Ends, NEW n \in 0..MaxLen, NEW async \in BOOLEAN,
         CopyMeets(e, n, async)
  PROVE  Chan!Meet(e, n)
<1> USE NoneAssumption, StreamAssumption DEF StreamInv, TypeOK, Ends
<1>1. /\ parked \in Ends \ {e} /\ cstate[parked] = "copying"
      /\ cstate[e] = "idle" /\ ~dropped /\ progress[e] = 0
  BY DEF CopyMeets, MayCopy, Parks, ParkedSide, IdleEnd
<1> DEFINE k == Least(n, Remain(parked))
<1>2. k \in 0..n /\ k <= Remain(parked) /\ (k < n => k = Remain(parked))
  BY <1>1 DEF Least, Remain
<1>3. /\ progress' = [progress EXCEPT ![parked] = @ + k]
      /\ told' = [told EXCEPT ![e] = @ + k]
      /\ ev' = IF k > 0 THEN [ev EXCEPT ![parked] = "copied"] ELSE ev
      /\ UNCHANGED <<cstate, len, dropped>>
  BY DEF CopyMeets
<1> HIDE DEF k
<1>4. told[e] = Moved
  BY <1>1 DEF Conservation, Moved
<1>5. Moved' = Moved + k
  BY <1>1, <1>2, <1>3 DEF Moved
<1>6. told' = [told EXCEPT ![e] = Moved + k]
  BY <1>3, <1>4
<1>7. Room' = [Room EXCEPT ![parked] = @ - k]
  <2>1. \A o \in Ends : len'[o] - progress'[o] = IF o = parked THEN (len[o] - progress[o]) - k
                                                  ELSE len[o] - progress[o]
    BY <1>1, <1>2, <1>3
  <2> QED BY <1>1, <2>1 DEF Room, Remain
<1>8. Phase' = IF k > 0 THEN [Phase EXCEPT ![parked] = "ready"] ELSE Phase
  BY <1>1, <1>2, <1>3 DEF Phase
<1>9. Phase[e] = "idle" /\ Phase[parked] \in {"busy", "ready"} /\ Room[parked] = Remain(parked)
  BY <1>1 DEF Phase, Room
<1> QED BY <1>1, <1>2, <1>3, <1>5, <1>6, <1>7, <1>8, <1>9
        DEF Chan!Meet, Phase, Room, Moved

\* An event, or a cancellation, ends the operation with the whole count.
LEMMA TakeEnds ==
  ASSUME StreamInv, NEW e \in Ends, cstate[e] = "copying", Take(e),
         told' = [told EXCEPT ![e] = @ + progress[e]], dropped' = dropped
  PROVE  Chan!End(e)
<1> USE DEF StreamInv, TypeOK, Ends
<1>1. told' = [told EXCEPT ![e] = Moved]
  BY DEF Conservation, Moved
<1>2. Moved' = Moved
  BY DEF Moved, Take
<1>3. Room' = [Room EXCEPT ![e] = 0]
  <2>1. \A o \in Ends : len'[o] - progress'[o] = IF o = e THEN 0 ELSE len[o] - progress[o]
    BY DEF Take
  <2> QED BY <2>1 DEF Room, Remain
<1>4. \/ Phase' = [Phase EXCEPT ![e] = "idle"]
      \/ dropped /\ Phase' = [Phase EXCEPT ![e] = "done"]
  BY DEF Phase, Take, DropSeen
<1>5. Phase[e] \in {"busy", "ready"}
  BY DEF Phase
<1> QED BY <1>1, <1>2, <1>3, <1>4, <1>5 DEF Chan!End, Phase, Room, Moved

\* A drop closes the channel, by the guest or with its instance.
LEMMA DropCloses ==
  ASSUME StreamInv, ~dropped, dropped' = TRUE, UNCHANGED <<cstate, len, progress, told>>,
         ev' = NotifyParked \/ ev' = ev
  PROVE  Chan!Close
<1> USE DEF StreamInv, TypeOK, Ends
<1>1. Room' = Room /\ Moved' = Moved
  BY DEF Room, Remain, Moved
<1> DEFINE S == {e \in Ends : e = parked /\ ev' = NotifyParked}
<1>2. S \in SUBSET {e \in Ends : Phase[e] \in {"busy", "ready"}}
  BY NoneAssumption DEF Phase, ParkedSide
<1>3. Phase' = [e \in Ends |-> IF e \in S THEN "ready" ELSE Phase[e]]
  <2>1. \A e \in Ends : ev'[e] = IF e \in S THEN "dropped" ELSE ev[e]
    BY DEF NotifyParked
  <2>2. \A e \in S : cstate[e] = "copying"
    BY NoneAssumption DEF ParkedSide
  <2> HIDE DEF S
  <2> QED BY <2>1, <2>2 DEF Phase
<1> QED BY <1>1, <1>2, <1>3 DEF Chan!Close, Phase, Room, Moved

LEMMA StreamStepIsChannelStep == StreamInv /\ [Next]_vars => ChanStep
<1> SUFFICES ASSUME StreamInv, [Next]_vars PROVE ChanStep
  OBVIOUS
<1>1. CASE UNCHANGED vars
  BY <1>1, StillIsStutter DEF vars, ChanStill, Phase, Room, Remain, Moved
<1>2. ASSUME NEW e \in Ends, NEW n \in 0..MaxLen, NEW async \in BOOLEAN,
             CopyDropped(e, n, async) \/ CopyParks(e, n, async) \/ CopyMeets(e, n, async)
      PROVE  ChanStep
  <2>1. CASE CopyDropped(e, n, async)
    <3> USE <2>1 DEF CopyDropped, MayCopy, StreamInv, TypeOK, Ends
    <3>1. /\ Phase[e] = "idle" /\ dropped
          /\ Room' = Room /\ told' = told /\ Moved' = Moved /\ dropped' = dropped
      BY DEF Phase, Room, Remain, Moved
    <3>2. Phase' = [Phase EXCEPT ![e] = "done"]
      BY DEF Phase
    <3>3. Chan!Refuse(e)
      BY <3>1, <3>2 DEF Chan!Refuse, Phase, Room, Moved
    <3> QED BY <3>3 DEF ChanStep, Chan!ChanNext
  <2>2. CASE CopyParks(e, n, async)
    BY <2>2, ParksOpens DEF ChanStep, Chan!ChanNext
  <2>3. CASE CopyMeets(e, n, async)
    BY <2>3, MeetsMoves DEF ChanStep, Chan!ChanNext
  <2> QED BY <1>2, <2>1, <2>2, <2>3
<1>3. ASSUME NEW e \in Ends, Deliver(e) \/ \E async \in BOOLEAN : CancelCopy(e, async)
      PROVE  ChanStep
  <2>1. /\ cstate[e] = "copying" /\ Take(e) /\ dropped' = dropped
        /\ told' = [told EXCEPT ![e] = @ + progress[e]]
    BY <1>3 DEF Deliver, CancelCopy, Cancellable, ToldOfCancel, StreamInv, ParkedSide
  <2> QED BY <2>1, TakeEnds DEF ChanStep, Chan!ChanNext
<1>4. ASSUME NEW e \in Ends, Drop(e) PROVE ChanStep
  <2>1. CASE dropped
    BY <1>4, <2>1, StillIsStutter DEF Drop, ChanStill, Phase, Room, Remain, Moved
  <2>2. CASE ~dropped
    BY <1>4, <2>2, DropCloses DEF Drop, ChanStep, Chan!ChanNext
  <2> QED BY <2>1, <2>2
<1>5. ASSUME NEW i \in Insts, NEW table, Retire(i, table), UNCHANGED <<cstate, len, progress, told>>
      PROVE  ChanStep
  <2>1. CASE dropped \/ table = {}
    BY <1>5, <2>1, StillIsStutter DEF Retire, ChanStill, Phase, Room, Remain, Moved
  <2>2. CASE ~dropped /\ table # {}
    <3>1. dropped' = TRUE /\ (ev' = NotifyParked \/ ev' = ev)
      BY <1>5, <2>2 DEF Retire
    <3> QED BY <1>5, <2>2, <3>1, DropCloses DEF ChanStep, Chan!ChanNext
  <2> QED BY <2>1, <2>2
<1>6. ASSUME NEW e \in Ends, RemoveTraps(e) PROVE ChanStep
  BY <1>5, <1>6 DEF RemoveTraps, StreamInv, TypeOK
<1>7. ASSUME NEW i \in Insts, Trap(i) PROVE ChanStep
  BY <1>5, <1>7 DEF Trap
<1>8. ASSUME NEW e \in Ends, Join(e) PROVE ChanStep
  BY <1>8, StillIsStutter DEF Join, ChanStill, Phase, Room, Remain, Moved
<1>9. ASSUME NEW i \in Insts, Transfer(i) PROVE ChanStep
  BY <1>9, StillIsStutter DEF Transfer, ChanStill, Phase, Room, Remain, Moved
<1> QED BY <1>1, <1>2, <1>3, <1>4, <1>6, <1>7, <1>8, <1>9 DEF Next

-----------------------------------------------------------------------------
(* Results.                                                                    *)

\* Every variable of the stream keeps its type, and no end is told of more
\* elements than its buffer holds.
THEOREM TypesHold == Spec => []TypeOK
BY StreamInvariant, PTL DEF StreamInv

\* The shared stream and its ends agree on whose buffer is parked, and every
\* live outstanding operation is parked or has its event.
THEOREM ParkedSideAlways == Spec => []ParkedSide
BY StreamInvariant, PTL DEF StreamInv

\* Reader and writer are told of the same elements, whatever is cancelled,
\* copied in parts, dropped or poisoned on the way.
THEOREM ElementsConserved == Spec => []Conservation
BY StreamInvariant, PTL DEF StreamInv

\* No assert_ of streams.ts, waitable.ts or stream_builtins.ts about the stream
\* fails, in live instances and with peers in dead ones.
THEOREM AssertsHold == Spec => []NoAssertFails
BY StreamInvariant, PTL DEF StreamInv

\* A live end that waits when its peer is dropped has an event.
THEOREM DropIsTold == Spec => []DroppedEndTold
<1>1. StreamInv => DroppedEndTold
  BY NoneAssumption
     DEF StreamInv, TypeOK, ParkedSide, DropSeen, DroppedEndTold, Stranded, Live, Ends, Peer
<1> QED BY <1>1, StreamInvariant, PTL

\* The stream implements the rendezvous channel.
THEOREM ImplementsChannel == Spec => RendezvousChannel
<1>1. Init => Chan!ChanInit
  BY DEF Init, Chan!ChanInit, Remain, Ends
<1>2. StreamInv /\ [Next]_vars => [Chan!ChanNext]_(Chan!vars)
  BY StreamStepIsChannelStep DEF ChanStep
<1> QED BY <1>1, <1>2, StreamInvariant, PTL DEF Spec, RendezvousChannel, Chan!ChanSpec

=============================================================================
