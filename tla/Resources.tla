----------------------------- MODULE Resources -----------------------------
(* Resources that a guest implements: the handle tables of the instances, the  *)
(* FACT transfers between them, drops and destructors, and the wrappers of the *)
(* host.  Impl implements the resource; a representation is a member of Reps.  *)
(* A call lends at most one borrow and passes at most one own each way.  The   *)
(* guests use only handles they have, the tables do not fill up, and the       *)
(* implementing instance is never on the stack when the host drops a wrapper.  *)
EXTENDS Integers, FiniteSets, SequencesExt

CONSTANTS
  Insts, Impl, \* the instances, and the one that implements the resource
  Links,       \* who imports whom: pairs of instances
  Host,        \* no instance
  Reps, Calls, \* 1..n each; 0 is none
  Wrappers,
  MaxSlots,    \* bound on a table
  HostCalls    \* of Calls, those the host makes

VARIABLES
  rep,     \* per representation: unborn, alive or gone, and how often its destructor ran
  table,   \* per instance: its slots and the free list
  wrapper, \* the host's wrappers
  call,    \* calls in flight
  dead     \* poisoned instances

vars == <<rep, table, wrapper, call, dead>>

-----------------------------------------------------------------------------
(* Tables. *)

NoHandle == [rep |-> 0, own |-> FALSE, lends |-> 0, scope |-> 0]
Owning(r) == [NoHandle EXCEPT !.rep = r, !.own = TRUE]
Borrowing(r, k) == [NoHandle EXCEPT !.rep = r, !.scope = k]

\* Table.add takes the slot freed last, or a new one.
Put(t, h) ==
  IF t.free = <<>>
  THEN [t EXCEPT !.slots = Append(@, h)]
  ELSE [slots |-> [t.slots EXCEPT ![Last(t.free)] = h], free |-> Front(t.free)]

Take(t, s) == [slots |-> [t.slots EXCEPT ![s] = NoHandle], free |-> Append(t.free, s)]

\* The bound: room for n handles more.
Room(i, n) == Len(table[i].slots) + n <= MaxSlots + Len(table[i].free)
Used(i) == {s \in DOMAIN table[i].slots : table[i].slots[s].rep # 0}
Handle(i, s) == table[i].slots[s]

-----------------------------------------------------------------------------
(* Calls.  A call of a guest belongs to the call, its parent, that runs there. *)

\* across, of an activation's first call: it has lent on what another one has borrowed.
NoCall == [at |-> "none", from |-> Host, to |-> Host, own |-> 0, lent |-> {}, borrows |-> 0, parent |-> 0, root |-> 0,
           across |-> FALSE]
NoWrapper == [rep |-> 0, valid |-> FALSE, owns |-> FALSE, lends |-> 0, pending |-> FALSE, scope |-> 0]

\* What a call has borrowed: of whom, where it is (0 once a trap has taken it from its
\* table), for which call the lender itself has borrowed it (0: it owns it), and the
\* representation.
Loan(by, where, of, r) == [by |-> by, where |-> where, of |-> of, rep |-> r]
Borrowers(by, where) == {k \in Calls : \E l \in call[k].lent : l.by = by /\ l.where = where}

\* Calls and wrappers are numbered afresh: the least number nothing refers to is taken.
Unused(k) == call[k].at = "none" /\ \A i \in Insts : \A s \in Used(i) : Handle(i, s).scope # k
Fresh(S, k) == k \in S /\ Unused(k) /\ \A j \in S : j < k => ~Unused(j)

\* The calls of the activation k runs in, and those but the host's.
Root(k) == call[k].root
Frames(k) == {j \in Calls : call[j].at = "running" /\ Root(j) = Root(k)}
Brackets(k) == Frames(k) \ {Root(k)}

\* The innermost call of an activation may act, unless the host's call was in an
\* instance that died since: that activation is never resumed.
Acting(k) ==
  /\ call[k].at = "running" /\ call[k].to # Host /\ call[Root(k)].to \notin dead
  /\ \A j \in Calls : ~(call[j].at = "running" /\ call[j].parent = k)

ReleaseLenders(t, ks) ==
  [i \in Insts |-> [t[i] EXCEPT !.slots = [s \in DOMAIN t[i].slots |->
    [t[i].slots[s] EXCEPT !.lends = @ - Cardinality(ks \cap Borrowers(i, s))]]]]

-----------------------------------------------------------------------------
(* A trap in k breaks the FACT brackets, whose lenders are released, and the   *)
(* bracket of the host's call, whose instance is poisoned, and others that     *)
(* died with it.  The handle s of i has left its table by then; a lender is    *)
(* the handle and not its place, which may be taken again.                     *)

Removed(t, i, s) == IF s = 0 THEN t ELSE [t EXCEPT ![i] = Take(@, s)]
Lost(loans, i, s) == {IF l.by = i /\ l.where = s THEN [l EXCEPT !.where = 0] ELSE l : l \in loans}

Trap(k, i, s, others) ==
  /\ table' = Removed(ReleaseLenders(table, Brackets(k)), i, s)
  /\ call' = [j \in Calls |->
       IF j \in Brackets(k) THEN NoCall
       ELSE [call[j] EXCEPT !.at = IF j = Root(k) THEN "failed" ELSE @, !.lent = Lost(@, i, s)]]
  /\ dead' = dead \cup {call[Root(k)].to} \cup others
  /\ wrapper' = [w \in Wrappers |-> IF wrapper[w].scope \in Frames(k)
                                    THEN [wrapper[w] EXCEPT !.valid = FALSE, !.scope = 0] ELSE wrapper[w]]

GuestTrap(k) == Acting(k) /\ Trap(k, call[k].to, 0, {}) /\ UNCHANGED rep

Destroyed(r) == [rep EXCEPT ![r] = [at |-> "gone", ran |-> @.ran + 1]]

New(k, r) ==
  /\ Acting(k) /\ call[k].to = Impl /\ rep[r].at = "unborn" /\ Room(Impl, 1)
  /\ rep' = [rep EXCEPT ![r].at = "alive"]
  /\ table' = [table EXCEPT ![Impl] = Put(@, Owning(r))]
  /\ UNCHANGED <<wrapper, call, dead>>

\* Mutant: the checks come first.
MayDropLent(h) == TRUE

MayDrop(h) == h.lends = 0

\* resource.drop removes the handle before it looks at it.
DropBorrow(k, s) ==
  LET i == call[k].to  h == Handle(i, s) IN
  /\ Acting(k) /\ s \in Used(i) /\ ~h.own
  /\ UNCHANGED rep
  /\ IF ~MayDrop(h)
     THEN Trap(k, i, s, {})
     ELSE /\ table' = Removed(table, i, s)
          /\ call' = IF call[h.scope].at = "none" THEN call ELSE [call EXCEPT ![h.scope].borrows = @ - 1]
          /\ UNCHANGED <<wrapper, dead>>

\* The destructor runs in the implementing instance; it may trap or suspend, and
\* poisons that instance then.
DropOwn(k, s) ==
  LET i == call[k].to  h == Handle(i, s) IN
  /\ Acting(k) /\ s \in Used(i) /\ h.own
  /\ \/ ~MayDrop(h) /\ Trap(k, i, s, {}) /\ UNCHANGED rep
     \/ MayDrop(h) /\ Impl \in dead /\ Trap(k, i, s, {}) /\ UNCHANGED rep
     \/ /\ MayDrop(h) /\ Impl \notin dead /\ rep' = Destroyed(h.rep)
        /\ \/ table' = Removed(table, i, s) /\ UNCHANGED <<wrapper, call, dead>>
           \/ Trap(k, i, s, {Impl})

-----------------------------------------------------------------------------
(* Synchronous calls between instances, inside the brackets of a FACT adapter. *)

\* transferOwn and liftOwn refuse it otherwise, when it has left the table already.
Movable(h) == h.own /\ h.lends = 0

Lent(t, i, b) == IF b = 0 THEN t ELSE [t EXCEPT ![i].slots[b].lends = @ + 1]
LoanOf(i, b) == IF b = 0 THEN {} ELSE {Loan(i, b, Handle(i, b).scope, Handle(i, b).rep)}
RepAt(i, s) == IF s = 0 THEN 0 ELSE Handle(i, s).rep
Given(t, d, r) == IF r = 0 THEN t ELSE [t EXCEPT ![d] = Put(@, Owning(r))]

\* A borrow is a handle but for the implementing instance, which gets the representation.
Shown(t, d, r, k) == IF r = 0 \/ d = Impl THEN t ELSE [t EXCEPT ![d] = Put(@, Borrowing(r, k))]
BorrowsOf(d, r) == IF r = 0 \/ d = Impl THEN 0 ELSE 1

\* Handles that a call brings with it, of an own q and a borrow r.
Brought(d, q, r) == BorrowsOf(d, r) + IF q = 0 THEN 0 ELSE 1

\* The call j is made in k, which lends b; and b was borrowed by another activation.
Crosses(k, i, b) == b # 0 /\ ~Handle(i, b).own /\ Handle(i, b).scope \notin Frames(k)
Made(k, j, d, b, r) ==
  [call EXCEPT ![Root(k)].across = @ \/ Crosses(k, call[k].to, b),
               ![j] = [NoCall EXCEPT !.at = "running", !.from = call[k].to, !.to = d, !.parent = k, !.root = Root(k),
                                     !.lent = LoanOf(call[k].to, b), !.borrows = BorrowsOf(d, r)]]

\* enter-sync-call, and the translation of the arguments: a borrow b and an own o, slots or 0.
Enter(k, j, d, o, b) ==
  LET i == call[k].to  r == RepAt(i, b) IN
  /\ Acting(k) /\ Fresh(Calls \ HostCalls, j) /\ <<i, d>> \in Links
  /\ {o, b} \ {0} \subseteq Used(i) /\ Room(d, Brought(d, o, r))
  /\ UNCHANGED rep
  /\ \/ d \in dead /\ Trap(k, i, 0, {})
     \/ /\ d \notin dead /\ o # 0 /\ ~(Movable(Handle(i, o)) /\ o # b)
        /\ Trap(k, i, o, {})
     \/ /\ d \notin dead /\ (o # 0 => Movable(Handle(i, o)) /\ o # b)
        /\ table' = Shown(Given(Removed(Lent(table, i, b), i, o), d, RepAt(i, o)), d, r, j)
        /\ call' = Made(k, j, d, b, r)
        /\ UNCHANGED <<wrapper, dead>>

\* exit-sync-call and Task.return_.
MayExit(j) == call[j].borrows = 0

\* The callee's result is translated, then the bracket ends.
Exit(j, o) ==
  LET i == call[j].from  d == call[j].to IN
  /\ Acting(j) /\ i # Host /\ o \in Used(d) \cup {0} /\ Room(i, 1)
  /\ UNCHANGED rep
  /\ IF (o # 0 => Movable(Handle(d, o))) /\ MayExit(j)
     THEN /\ table' = ReleaseLenders(Given(Removed(table, d, o), i, RepAt(d, o)), {j})
          /\ call' = [call EXCEPT ![j] = NoCall]
          /\ UNCHANGED <<wrapper, dead>>
     ELSE Trap(j, d, o, {})

-----------------------------------------------------------------------------
(* Calls of the host.  The wrappers are taken when the call is made, the       *)
(* handles appear in the table when the task starts, and the caller is told in *)
(* a later microtask.                                                          *)

\* An invalid wrapper that nothing refers to is forgotten.
Kept(x) == IF ~x.valid /\ x.lends = 0 /\ ~x.pending THEN NoWrapper ELSE x
Invalid(w) == [wrapper EXCEPT ![w] = Kept([@ EXCEPT !.valid = FALSE])]
Unheld(w) == wrapper[w] = NoWrapper
FreeBut(w, v) == w # v /\ Unheld(w) /\ \A x \in Wrappers \ {v} : x < w => ~Unheld(x)
Free(w) == FreeBut(w, 0)
Owned(r) == [NoWrapper EXCEPT !.rep = r, !.valid = TRUE, !.owns = TRUE]

\* takeRep for an own.
MayTake(w) == wrapper[w].valid /\ wrapper[w].owns /\ wrapper[w].lends = 0

HostCall(k, d, o, b) ==
  /\ Fresh(HostCalls, k) /\ d \in Insts
  /\ o # 0 => MayTake(o) /\ o # b
  /\ b # 0 => wrapper[b].valid /\ wrapper[b].owns
  /\ wrapper' = [w \in Wrappers |->
       CASE w = o -> Kept([wrapper[w] EXCEPT !.valid = FALSE])
         [] w = b -> [wrapper[w] EXCEPT !.lends = @ + 1]
         [] OTHER -> wrapper[w]]
  /\ call' = [call EXCEPT ![k] = [NoCall EXCEPT
       !.at = "waiting", !.to = d, !.root = k, !.own = IF o = 0 THEN 0 ELSE wrapper[o].rep,
       !.lent = IF b = 0 THEN {} ELSE {Loan(Host, b, 0, wrapper[b].rep)}]]
  /\ UNCHANGED <<rep, table, dead>>

Start(k) ==
  LET c == call[k]
      r == IF c.lent = {} THEN 0 ELSE (CHOOSE l \in c.lent : TRUE).rep
  IN  /\ c.at = "waiting"
      /\ IF c.to \in dead
         THEN call' = [call EXCEPT ![k].at = "failed", ![k].own = 0] /\ UNCHANGED table
         ELSE /\ Room(c.to, Brought(c.to, c.own, r))
              /\ table' = Shown(Given(table, c.to, c.own), c.to, r, k)
              /\ call' = [call EXCEPT ![k] = [c EXCEPT !.at = "running", !.own = 0, !.borrows = BorrowsOf(c.to, r)]]
      /\ UNCHANGED <<rep, wrapper, dead>>

Return(k, o) ==
  LET i == call[k].to IN
  /\ Acting(k) /\ call[k].from = Host /\ o \in Used(i) \cup {0}
  /\ UNCHANGED rep
  /\ IF (o # 0 => Movable(Handle(i, o))) /\ MayExit(k)
     THEN /\ table' = Removed(table, i, o)
          /\ call' = [call EXCEPT ![k].at = "returned", ![k].own = RepAt(i, o)]
          /\ UNCHANGED <<wrapper, dead>>
     ELSE Trap(k, i, o, {})

\* The driver of an activation that is never resumed gives up, when none of its calls
\* is in the host.
Stalls(k) ==
  /\ call[k].at = "running" /\ call[k].from = Host /\ call[k].to \in dead
  /\ \A j \in Brackets(k) : call[j].to # Host
  /\ table' = ReleaseLenders(table, Brackets(k))
  /\ call' = [j \in Calls |-> CASE j = k -> [call[k] EXCEPT !.at = "failed"]
                                [] j \in Brackets(k) -> NoCall
                                [] OTHER -> call[j]]
  /\ UNCHANGED <<rep, wrapper, dead>>

\* hostDtorCall: a host call of the destructor, which a dead instance refuses.
HostDtor(r) ==
  \/ Impl \in dead /\ UNCHANGED <<rep, dead>>
  \/ /\ Impl \notin dead /\ rep' = Destroyed(r)
     /\ UNCHANGED dead \/ dead' = dead \cup {Impl}

\* Mutant: the deferred drop is not looked at.
DeferredForgotten(x) == FALSE

\* Whether the release of the last lend has a drop to make up for.
Deferred(x) == x.lends = 1 /\ x.pending

\* The caller's continuation: the lends end, then the result gets its wrapper.
Settle(k, w) ==
  LET c == call[k]
      lender == {l.where : l \in c.lent}
      back == [v \in Wrappers |-> IF v \notin lender THEN wrapper[v]
                ELSE Kept([wrapper[v] EXCEPT !.lends = @ - 1, !.pending = @ /\ wrapper[v].lends > 1])]
  IN  /\ c.from = Host /\ c.at \in {"returned", "failed"} /\ Free(w)
      /\ wrapper' = IF c.own = 0 THEN back ELSE [back EXCEPT ![w] = Owned(c.own)]
      /\ IF \E v \in lender : Deferred(wrapper[v])
         THEN HostDtor((CHOOSE l \in c.lent : TRUE).rep)
         ELSE UNCHANGED <<rep, dead>>
      /\ call' = [call EXCEPT ![k] = NoCall]
      /\ UNCHANGED table

\* drop, dispose, and the finalizer of a wrapper that became unreachable.
HostDrop(w) ==
  LET x == wrapper[w] IN
  /\ x.valid
  /\ IF x.owns /\ x.lends > 0
     THEN wrapper' = [wrapper EXCEPT ![w].valid = FALSE, ![w].pending = TRUE] /\ UNCHANGED <<rep, dead>>
     ELSE /\ wrapper' = [Invalid(w) EXCEPT ![w] = IF x.scope = 0 THEN @ ELSE NoWrapper]
          /\ IF x.owns THEN HostDtor(x.rep) ELSE UNCHANGED <<rep, dead>>
  /\ UNCHANGED <<table, call>>

-----------------------------------------------------------------------------
(* Calls of the host's functions: an own becomes a wrapper, a borrow one that  *)
(* is valid until the call ends.  The host does not pass a borrow on.          *)

Import(k, j, o, b, v, w) ==
  LET i == call[k].to IN
  /\ Acting(k) /\ Fresh(Calls \ HostCalls, j) /\ i # Impl
  /\ {o, b} \ {0} \subseteq Used(i) /\ Free(v) /\ FreeBut(w, v)
  /\ UNCHANGED rep
  /\ IF o # 0 /\ ~(Movable(Handle(i, o)) /\ o # b)
     THEN Trap(k, i, o, {})
     ELSE /\ table' = Removed(Lent(table, i, b), i, o)
          /\ wrapper' = [wrapper EXCEPT
               ![v] = IF o = 0 THEN @ ELSE Owned(RepAt(i, o)),
               ![w] = IF b = 0 THEN @ ELSE [NoWrapper EXCEPT !.rep = RepAt(i, b), !.valid = TRUE, !.scope = j]]
          /\ call' = Made(k, j, Host, b, 0)
          /\ UNCHANGED dead

\* BorrowScope.end invalidates what was lifted as a borrow.
Ended(j) == [w \in Wrappers |-> IF wrapper[w].scope = j THEN NoWrapper ELSE wrapper[w]]

ImportEnds(j, w) ==
  LET c == call[j] IN
  /\ c.at = "running" /\ c.to = Host
  /\ w # 0 => MayTake(w) /\ Room(c.from, 1)
  /\ table' = ReleaseLenders(IF w = 0 \/ call[Root(j)].to \in dead THEN table
                             ELSE Given(table, c.from, wrapper[w].rep), {j})
  /\ wrapper' = [v \in Wrappers |-> IF v = w THEN NoWrapper ELSE Ended(j)[v]]
  /\ call' = [call EXCEPT ![j] = NoCall]
  /\ UNCHANGED <<rep, dead>>

ImportFails(j) ==
  /\ call[j].at = "running" /\ call[j].to = Host /\ call[Root(j)].to \notin dead
  /\ Trap(j, call[j].from, 0, {}) /\ UNCHANGED rep

-----------------------------------------------------------------------------

Init ==
  /\ rep = [r \in Reps |-> [at |-> "unborn", ran |-> 0]]
  /\ table = [i \in Insts |-> [slots |-> <<>>, free |-> <<>>]]
  /\ wrapper = [w \in Wrappers |-> NoWrapper]
  /\ call = [k \in Calls |-> NoCall]
  /\ dead = {}

Unstarted(S) == {k \in S : Fresh(S, k)}

Next ==
  \/ \E k \in {j \in Calls : Acting(j)} :
       LET held == Used(call[k].to)  passed == held \cup {0} IN
       \/ GuestTrap(k) \/ (\E r \in Reps : New(k, r))
       \/ (\E s \in held : DropBorrow(k, s)) \/ (\E s \in held : DropOwn(k, s))
       \/ (\E j \in Unstarted(Calls \ HostCalls), d \in Insts, o, b \in passed : Enter(k, j, d, o, b))
       \/ (\E o \in passed : Exit(k, o)) \/ (\E o \in passed : Return(k, o))
       \/ (\E j \in Unstarted(Calls \ HostCalls), o, b \in passed, v, w \in Wrappers : Import(k, j, o, b, v, w))
  \/ \E k \in Unstarted(HostCalls), d \in Insts, o, b \in Wrappers \cup {0} : HostCall(k, d, o, b)
  \/ \E k \in Calls :
       \/ Start(k) \/ Stalls(k) \/ (\E w \in Wrappers : Settle(k, w))
       \/ (\E w \in Wrappers \cup {0} : ImportEnds(k, w)) \/ ImportFails(k)
  \/ \E w \in Wrappers : HostDrop(w)

Spec == Init /\ [][Next]_vars

TypeOK ==
  /\ rep \in [Reps -> [at : {"unborn", "alive", "gone"}, ran : 0..1]]
  /\ \A i \in Insts :
       /\ \A s \in DOMAIN table[i].slots : Handle(i, s) \in
            [rep : Reps \cup {0}, own : BOOLEAN, lends : 0..Cardinality(Calls), scope : Calls \cup {0}]
       /\ ToSet(table[i].free) = DOMAIN table[i].slots \ Used(i)
       /\ IsInjective(table[i].free)
  /\ \A w \in Wrappers : wrapper[w].rep \in Reps \cup {0} /\ wrapper[w].lends \in 0..Cardinality(Calls)
  /\ \A k \in Calls : call[k].at \in {"none", "waiting", "running", "returned", "failed"} /\ call[k].borrows \in 0..1
  /\ dead \subseteq Insts

\* A representation has one owner, be it a handle, a wrapper or a call it travels with,
\* until its destructor has run, which it does once; only where an instance died may it
\* have lost its owner.
Places == Insts \X (1..MaxSlots)
OwningHandles(r) == {p \in Places : p[2] \in Used(p[1]) /\ Handle(p[1], p[2]).own /\ Handle(p[1], p[2]).rep = r}
Owners(r) ==
  Cardinality(OwningHandles(r))
  + Cardinality({w \in Wrappers : wrapper[w].rep = r /\ wrapper[w].owns /\ (wrapper[w].valid \/ wrapper[w].pending)})
  + Cardinality({k \in Calls : call[k].own = r /\ call[k].at \in {"waiting", "returned"}})

OneOwner ==
  \A r \in Reps : CASE rep[r].at = "alive" -> Owners(r) = 1 \/ (Owners(r) = 0 /\ dead # {})
                    [] OTHER -> Owners(r) = 0

\* The lends of a handle or wrapper are the calls that borrowed it, and a call's borrows
\* the handles it has given out: else a handle stays undroppable, or can be dropped under
\* a call that uses it.
LendsExact ==
  /\ \A i \in Insts : \A s \in Used(i) :
       Handle(i, s).lends = Cardinality(Borrowers(i, s))
  /\ \A w \in Wrappers : wrapper[w].lends = Cardinality(Borrowers(Host, w))
  /\ \A k \in Calls : call[k].at = "running" /\ call[k].to \notin dead =>
       LET given == Cardinality({p \in Places : p[2] \in Used(p[1]) /\ Handle(p[1], p[2]).scope = k})
       IN  call[k].borrows = given \/ (dead # {} /\ call[k].borrows > given)
  /\ \A w \in Wrappers : wrapper[w].pending => wrapper[w].lends > 0

\* While a call that borrowed a representation goes on, its destructor has not run; nor has
\* that of a wrapper the host may use.  (An activation whose instance died goes no further;
\* and what one activation lends on of another's borrow is not kept when the latter traps.)
GoesOn(k) == call[k].at = "waiting" \/ (call[k].at = "running" /\ call[Root(k)].to \notin dead)
Keeps(k) == GoesOn(k) /\ ~call[Root(k)].across

BorrowAlive ==
  /\ \A k \in Calls : Keeps(k) => \A l \in call[k].lent : rep[l.rep].at = "alive"
  /\ \A w \in Wrappers : wrapper[w].valid /\ (wrapper[w].scope = 0 \/ Keeps(wrapper[w].scope))
                         => rep[wrapper[w].rep].at = "alive"

\* No handle outlives what it stands for.  (The callee of a synchronous bracket that a trap
\* goes through is not poisoned and keeps the borrows of that call: those may.)
HandlesAlive ==
  \A i \in Insts : \A s \in Used(i) :
    Handle(i, s).own \/ Keeps(Handle(i, s).scope) => rep[Handle(i, s).rep].at = "alive"
=============================================================================
