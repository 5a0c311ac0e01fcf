------------------------------- MODULE Channel -------------------------------
(* What a component-model stream promises to the guests at its two ends: a     *)
(* rendezvous channel.  Elements move only while both ends have an operation   *)
(* outstanding, at most as many as both buffers have room for, and an          *)
(* operation that ends is told exactly how many elements moved during it.      *)
(*   runtime/src/task/streams.ts  "THE RENDEZVOUS", SharedStreamImpl           *)
EXTENDS Integers

CONSTANTS
  Ends,
  Lengths  \* the lengths a buffer can have

VARIABLES
  phase,   \* idle, busy (outstanding), ready (may end), or done, per end
  room,    \* what the outstanding operation's buffer can still take or give
  told,    \* elements the end was told of, by all operations that ended
  moved,   \* elements that moved
  closed   \* one end is gone, and operations may end with DROPPED

vars == <<phase, room, told, moved, closed>>

ChanInit == /\ phase = [e \in Ends |-> "idle"]
            /\ room = [e \in Ends |-> 0] /\ told = [e \in Ends |-> 0]
            /\ moved = 0 /\ closed = FALSE

\* The other end can be told to end when its buffer has nothing left.
Open(e, n) ==
  /\ phase[e] = "idle" /\ ~closed
  /\ \E exhausted \in SUBSET {o \in Ends \ {e} : phase[o] \in {"busy", "ready"} /\ room[o] = 0} :
       phase' = [o \in Ends |-> IF o = e THEN "busy" ELSE IF o \in exhausted THEN "ready" ELSE phase[o]]
  /\ room' = [room EXCEPT ![e] = n]
  /\ UNCHANGED <<told, moved, closed>>

\* An operation that finds the other end's outstanding ends at once.
Meet(e, n) ==
  /\ phase[e] = "idle" /\ ~closed
  /\ \E o \in Ends \ {e}, k \in 0..n :
       /\ phase[o] \in {"busy", "ready"} /\ k <= room[o]
       /\ k < n => k = room[o]
       /\ moved' = moved + k
       /\ told' = [told EXCEPT ![e] = moved + k]
       /\ room' = [room EXCEPT ![o] = @ - k]
       /\ phase' = IF k > 0 THEN [phase EXCEPT ![o] = "ready"] ELSE phase
  /\ UNCHANGED closed

\* The end of an outstanding operation, by its event or by a cancellation.
End(e) ==
  /\ phase[e] \in {"busy", "ready"}
  /\ \/ phase' = [phase EXCEPT ![e] = "idle"]
     \/ closed /\ phase' = [phase EXCEPT ![e] = "done"]
  /\ told' = [told EXCEPT ![e] = moved]
  /\ room' = [room EXCEPT ![e] = 0]
  /\ UNCHANGED <<moved, closed>>

Refuse(e) ==
  /\ phase[e] = "idle" /\ closed
  /\ phase' = [phase EXCEPT ![e] = "done"]
  /\ UNCHANGED <<room, told, moved, closed>>

Close ==
  /\ ~closed /\ closed' = TRUE
  /\ \E S \in SUBSET {e \in Ends : phase[e] \in {"busy", "ready"}} :
       phase' = [e \in Ends |-> IF e \in S THEN "ready" ELSE phase[e]]
  /\ UNCHANGED <<room, told, moved>>

ChanNext == \/ \E e \in Ends, n \in Lengths : Open(e, n) \/ Meet(e, n)
            \/ \E e \in Ends : End(e) \/ Refuse(e)
            \/ Close

ChanSpec == ChanInit /\ [][ChanNext]_vars
=============================================================================
