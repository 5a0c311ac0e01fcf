--------------------------- MODULE HostResources ---------------------------
(* Resources the host implements: the registry that names the host's objects  *)
(* by representations, and the handles guests hold on them.  A call passes one *)
(* object, as an own or a borrow, whoever has it already; the guest passes     *)
(* handles back to the host's functions, and drops them.                       *)
EXTENDS Integers, FiniteSets

CONSTANTS
  Objects, Lowerings, \* of the host's calls
  MaxReps,            \* bound on the representations
  NoObject

VARIABLES
  byRep, byInstance, \* the strong and the weak direction
  lowered,           \* calls: what they passed, and whether their end releases it
  handles,           \* of the guests: the call that brought it, representation, whether it owns,
                     \* and what it was made for
  shared             \* representations lowered as an own while somebody was to release them already

vars == <<byRep, byInstance, lowered, handles, shared>>

Reps == DOMAIN byRep
HasInstance(o) == byInstance[o] # 0 /\ byRep[byInstance[o]] # NoObject

\* A representation is never given out twice: a new one is what nothing names.
Unminted == {r \in Reps :
  /\ byRep[r] = NoObject /\ \A o \in Objects : byInstance[o] # r
  /\ \A h \in handles : h.rep # r
  /\ \A k \in Lowerings : lowered[k].rep # r}
NextRep == CHOOSE r \in Unminted : \A q \in Unminted : r <= q

\* Reuses the representation of a registered object, else mints one.
RepFor(o) == IF HasInstance(o) THEN byInstance[o] ELSE NextRep

\* A call is made, and its parameter reaches the guest: one handle for each call.
Lower(k, o, own) ==
  /\ lowered[k].object = NoObject /\ \A h \in handles : h.call # k
  /\ HasInstance(o) \/ Unminted # {}
  /\ lowered' = [lowered EXCEPT ![k] = [object |-> o, rep |-> RepFor(o), releases |-> ~own /\ ~HasInstance(o)]]
  /\ byRep' = [byRep EXCEPT ![RepFor(o)] = o]
  /\ byInstance' = [byInstance EXCEPT ![o] = RepFor(o)]
  /\ handles' = handles \cup {[call |-> k, rep |-> RepFor(o), own |-> own, object |-> o]}
  /\ shared' = IF ~HasInstance(o) THEN shared \ {RepFor(o)}
               ELSE IF own THEN shared \cup {RepFor(o)} ELSE shared

\* An own that arrives is released, a borrow only looked up; one that leads nowhere is refused.
Receive(h) ==
  /\ h \in handles
  /\ byRep' = IF h.own THEN [byRep EXCEPT ![h.rep] = NoObject] ELSE byRep
  /\ handles' = IF h.own THEN handles \ {h} ELSE handles
  /\ UNCHANGED <<byInstance, lowered, shared>>

\* The destructor: a registered object is disposed of, and forgotten.
DropOwned(h) ==
  /\ h \in handles /\ h.own
  /\ handles' = handles \ {h}
  /\ byRep' = [byRep EXCEPT ![h.rep] = NoObject]
  /\ UNCHANGED <<byInstance, lowered, shared>>

DropBorrowed(h) ==
  /\ h \in handles /\ ~h.own
  /\ handles' = handles \ {h}
  /\ UNCHANGED <<byRep, byInstance, lowered, shared>>

\* The call is over, and the guest has dropped what was borrowed.
Over(k) ==
  /\ lowered[k].object # NoObject
  /\ \A h \in handles : h.call = k => h.own
  /\ byRep' = IF lowered[k].releases THEN [byRep EXCEPT ![lowered[k].rep] = NoObject] ELSE byRep
  /\ lowered' = [lowered EXCEPT ![k] = [object |-> NoObject, rep |-> 0, releases |-> FALSE]]
  /\ UNCHANGED <<byInstance, handles, shared>>

\* The collector takes the weak entry of an object that the registry does not hold.
Collect(o) ==
  /\ byInstance[o] # 0 /\ ~HasInstance(o)
  /\ byInstance' = [byInstance EXCEPT ![o] = 0]
  /\ UNCHANGED <<byRep, lowered, handles, shared>>

Init ==
  /\ byRep = [r \in 1..MaxReps |-> NoObject]
  /\ byInstance = [o \in Objects |-> 0]
  /\ lowered = [k \in Lowerings |-> [object |-> NoObject, rep |-> 0, releases |-> FALSE]]
  /\ handles = {} /\ shared = {}

Next ==
  \/ \E k \in Lowerings : Over(k) \/ (\E o \in Objects, own \in BOOLEAN : Lower(k, o, own))
  \/ \E h \in handles : Receive(h) \/ DropOwned(h) \/ DropBorrowed(h)
  \/ \E o \in Objects : Collect(o)

Spec == Init /\ [][Next]_vars

-----------------------------------------------------------------------------
\* Somebody's end is to release the representation: the owner's, or the call's that minted it.
Held(r) ==
  \/ \E h \in handles : h.own /\ h.rep = r
  \/ \E k \in Lowerings : lowered[k].releases /\ lowered[k].rep = r

\* A handle leads to the object it was made for or nowhere, never to another; a borrow is of
\* a call under way; the registry keeps nothing that nobody is to release, so nothing leaks;
\* and what one owner or one call is to release, however often it was lent besides, is there
\* until then.  Of what was lowered as an own again the code promises less (LastOwnDisposes).
RegistryExact ==
  /\ \A h \in handles : byRep[h.rep] \in {h.object, NoObject}
  /\ \A h \in handles : ~h.own => lowered[h.call].object = h.object /\ lowered[h.call].rep = h.rep
  /\ \A r \in Reps : byRep[r] # NoObject => Held(r)
  /\ \A r \in Reps \ shared : Held(r) => byRep[r] # NoObject

\* (No run: the code breaks it.)  The documented promise, that an object is kept for as long
\* as guests hold handles and disposed of with the last that owns: embedder/resources.ts,
\* 445-448, 513.  The first of two owners that goes takes the representation of both.
LastOwnDisposes == \A h \in handles : h.own => byRep[h.rep] = h.object
=============================================================================
