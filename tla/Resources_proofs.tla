--------------------------- MODULE Resources_proofs ---------------------------
(* What MCStore says of resources, proved for its three instances, any resources, *)
(* calls and wrappers, and tables of every size: handles, wrappers and calls own  *)
(* each resource once; lends are counted right; nothing that can still be used    *)
(* stands for a resource whose destructor has run; and the registry of the host's *)
(* own resources agrees with the handles of the guest.                            *)
EXTENDS MCStore, FiniteSetTheorems, WellFoundedInduction, TLAPS, Sequences

-----------------------------------------------------------------------------
(* The handle tables, the wrappers and the calls that lend and pass resources. *)

\* The places of a table; what can be in one, what a call can lend, and what the records of
\* calls and of the host's wrappers can be.
Spots == Nat \ {0}
Handles == [rep : RepNumbers \cup {0}, own : BOOLEAN, lends : Int, scope : CallNumbers \cup {0}]
Loans == [by : Insts \cup {Host}, where : Nat, of : CallNumbers \cup {0}, rep : RepNumbers]
CallRecords ==
  [at : {"none", "waiting", "running", "returned", "failed"}, from : Insts \cup {Host}, to : Insts \cup {Host},
   own : RepNumbers \cup {0}, lent : SUBSET Loans, borrows : 0..1, parent : CallNumbers \cup {0},
   root : CallNumbers \cup {0}, across : BOOLEAN]
WrapperRecords ==
  [rep : RepNumbers \cup {0}, valid : BOOLEAN, owns : BOOLEAN, lends : Int, pending : BOOLEAN,
   scope : CallNumbers \cup {0}]

\* A table as the handles at its places, the free list forgotten.
At(t, s) == IF s \in DOMAIN t.slots THEN t.slots[s] ELSE R!NoHandle

\* All tables, seen so.
HeldIn(tb) == [i \in Insts |-> [s \in Spots |-> At(tb[i], s)]]

\* The invariant is stated of values: representations rp, handles hd, wrappers wr, calls cl,
\* dead instances dd, and a representation tr that a step has taken from one owner and not
\* yet given to another, so that a step can be followed through its parts.
Typed(rp, hd, wr, cl, dd) ==
  /\ rp \in [RepNumbers -> [at : {"unborn", "alive", "gone"}, ran : 0..1]]
  /\ \A r \in RepNumbers : rp[r].ran = 1 <=> rp[r].at = "gone"
  /\ hd \in [Insts -> [Spots -> Handles]] /\ wr \in [Wrappers -> WrapperRecords]
  /\ cl \in [CallNumbers -> CallRecords] /\ dd \in SUBSET Insts

\* Only a borrow has a scope.
Kinds2(hd) ==
  \A i \in Insts : \A s \in Spots :
    /\ hd[i][s].rep = 0 => ~hd[i][s].own /\ hd[i][s].lends = 0 /\ hd[i][s].scope = 0
    /\ hd[i][s].rep # 0 => (hd[i][s].own <=> hd[i][s].scope = 0)

\* A wrapper owns until it is dropped, and while its destructor waits.
Owns(x) == x.owns /\ (x.valid \/ x.pending)

\* Nobody owns r.
Ownerless(hd, wr, cl, tr, r) ==
  /\ \A i \in Insts : \A s \in Spots : hd[i][s].own => hd[i][s].rep # r
  /\ \A w \in Wrappers : Owns(wr[w]) => wr[w].rep # r
  /\ \A k \in CallNumbers : cl[k].own # r
  /\ tr # r

\* A representation has one owner: a handle, a wrapper, or a call it travels with.
OwnedOnce(hd, wr, cl, tr) ==
  /\ \A i, j \in Insts : \A s, t \in Spots :
       hd[i][s].own /\ hd[j][t].own /\ hd[i][s].rep = hd[j][t].rep => i = j /\ s = t
  /\ \A v, w \in Wrappers : Owns(wr[v]) /\ Owns(wr[w]) /\ wr[v].rep = wr[w].rep => v = w
  /\ \A j, k \in CallNumbers : cl[j].own # 0 /\ cl[j].own = cl[k].own => j = k
  /\ \A i \in Insts : \A s \in Spots : hd[i][s].own =>
       /\ \A w \in Wrappers : Owns(wr[w]) => wr[w].rep # hd[i][s].rep
       /\ \A k \in CallNumbers : cl[k].own # hd[i][s].rep
       /\ tr # hd[i][s].rep
  /\ \A w \in Wrappers : Owns(wr[w]) => (\A k \in CallNumbers : cl[k].own # wr[w].rep) /\ tr # wr[w].rep
  /\ tr # 0 => \A k \in CallNumbers : cl[k].own # tr

\* What is owned is alive.
OwnedLives(rp, hd, wr, cl, tr) ==
  /\ \A i \in Insts : \A s \in Spots : hd[i][s].own => hd[i][s].rep # 0 /\ rp[hd[i][s].rep].at = "alive"
  /\ \A w \in Wrappers : Owns(wr[w]) => wr[w].rep # 0 /\ rp[wr[w].rep].at = "alive"
  /\ \A k \in CallNumbers : cl[k].own # 0 => rp[cl[k].own].at = "alive"
  /\ tr # 0 => rp[tr].at = "alive"

\* As long as nothing has trapped, whatever is alive is owned.
LivesOwned(rp, hd, wr, cl, dd, tr) ==
  dd = {} => \A r \in RepNumbers : rp[r].at = "alive" => ~Ownerless(hd, wr, cl, tr, r)

\* Handles and loans are of what was born.
Born(rp, hd, cl) ==
  /\ \A i \in Insts : \A s \in Spots : hd[i][s].rep # 0 => rp[hd[i][s].rep].at # "unborn"
  /\ \A k \in CallNumbers : \A l \in cl[k].lent : rp[l.rep].at # "unborn"

\* A call lends one thing at most, of its caller; a loan is of a wrapper that owns, of a handle
\* that is still there, or of one that a trap has taken, which leaves an own without an owner.
Lending(hd, wr, cl, tr) ==
  \A k \in CallNumbers :
    /\ \A l, m \in cl[k].lent : l = m
    /\ \A l \in cl[k].lent :
         /\ l.by = cl[k].from
         /\ l.by = Host => l.of = 0 /\ l.where \in Wrappers /\ Owns(wr[l.where]) /\ wr[l.where].rep = l.rep
         /\ l.by # Host /\ l.where # 0 => hd[l.by][l.where].rep = l.rep /\ hd[l.by][l.where].scope = l.of
         /\ l.by # Host /\ l.where = 0 /\ l.of = 0 => Ownerless(hd, wr, cl, tr, l.rep)

\* The calls that one handle or wrapper is lent to.
BorrowersIn(cl, by, where) == {k \in CallNumbers : \E l \in cl[k].lent : l.by = by /\ l.where = where}

\* Its count is the number of these: every call that ends takes its lends back, once.
Counted(hd, wr, cl) ==
  /\ \A i \in Insts : \A s \in Spots : hd[i][s].lends = Cardinality(BorrowersIn(cl, i, s))
  /\ \A w \in Wrappers : wr[w].lends = Cardinality(BorrowersIn(cl, Host, w))

\* A valid wrapper owns, or is of a borrow that a running call of the host's function was lent.
Wrapping(wr, cl) ==
  \A w \in Wrappers :
    /\ wr[w].valid => wr[w].rep # 0 /\ ~wr[w].pending /\ (wr[w].owns <=> wr[w].scope = 0)
    /\ wr[w].pending => wr[w].owns
    /\ wr[w].scope # 0 =>
         /\ wr[w].valid /\ cl[wr[w].scope].at = "running" /\ cl[wr[w].scope].to = Host
         /\ \E l \in cl[wr[w].scope].lent : l.rep = wr[w].rep

\* The calls of an activation: the host's at its root, each of the others made in one that runs.
Calling(cl) ==
  \A k \in CallNumbers :
    /\ cl[k].at = "none" => cl[k].lent = {}
    /\ cl[k].at # "none" /\ k \in FromHost =>
         cl[k].from = Host /\ cl[k].to # Host /\ cl[k].root = k
    /\ cl[k].at # "none" /\ k \notin FromHost =>
         /\ cl[k].at = "running" /\ cl[k].from # Host
         /\ cl[k].parent \in CallNumbers /\ cl[cl[k].parent].at = "running" /\ cl[cl[k].parent].to # Host
         /\ cl[cl[k].parent].root = cl[k].root
         /\ cl[k].root \in FromHost /\ cl[cl[k].root].at = "running"
    /\ cl[k].own # 0 => cl[k].at \in {"waiting", "returned"}
    /\ cl[k].borrows # 0 => cl[k].at \in {"running", "failed"} /\ cl[k].to # Host

\* The handle that a call has given out as a borrow, if it gave one out, and it still is there.
Borrowing(hd, cl, dd) ==
  /\ \A i, j \in Insts : \A s, t \in Spots :
       hd[i][s].scope # 0 /\ hd[i][s].scope = hd[j][t].scope => i = j /\ s = t
  /\ \A i \in Insts : \A s \in Spots : hd[i][s].scope # 0 /\ cl[hd[i][s].scope].at # "none" =>
       cl[hd[i][s].scope].borrows = 1 /\ \E l \in cl[hd[i][s].scope].lent : l.rep = hd[i][s].rep
  /\ dd = {} => \A k \in CallNumbers : cl[k].borrows = 1 /\ cl[k].at = "running" =>
       \E i \in Insts : \E s \in Spots : hd[i][s].scope = k

\* An activation that goes on and has lent only what it owns or has borrowed itself.
Pure(cl, k) == cl[k].at = "running" /\ ~cl[cl[k].root].across

\* There, what a borrow rests on is a call further down that cannot return before.
Resting(hd, cl) ==
  \A k \in CallNumbers : Pure(cl, k) => \A l \in cl[k].lent : l.of # 0 =>
    /\ cl[l.of].at = "running" /\ cl[l.of].root = cl[k].root /\ cl[l.of].borrows = 1
    /\ \E m \in cl[l.of].lent : m.rep = l.rep
    /\ l.where = 0 => \A i \in Insts : \A s \in Spots : hd[i][s].scope # l.of

\* Calls neither are made in each other in a circle, nor borrow so.
Ordered(cl) ==
  \A S \in SUBSET CallNumbers :
    S # {} /\ (\A k \in S : cl[k].at = "running" /\ k \notin FromHost) =>
      \E k \in S : cl[k].parent \notin S /\ (Pure(cl, k) => \A l \in cl[k].lent : l.of \notin S)

\* While such a call goes on, what it has borrowed is alive.
Lasting(cl, dd, k) ==
  /\ cl[k].at = "waiting" \/ (cl[k].at = "running" /\ cl[cl[k].root].to \notin dd)
  /\ ~cl[cl[k].root].across

\* Whatever such a call was lent is alive.
Living(rp, cl, dd) == \A k \in CallNumbers : Lasting(cl, dd, k) => \A l \in cl[k].lent : rp[l.rep].at = "alive"

\* What is said of handles, wrappers and calls, together.
Holding(rp, hd, wr, cl, dd, tr) ==
  /\ Typed(rp, hd, wr, cl, dd) /\ tr \in RepNumbers \cup {0} /\ Kinds2(hd)
  /\ OwnedOnce(hd, wr, cl, tr) /\ OwnedLives(rp, hd, wr, cl, tr) /\ LivesOwned(rp, hd, wr, cl, dd, tr)
  /\ Born(rp, hd, cl) /\ Lending(hd, wr, cl, tr) /\ Counted(hd, wr, cl)
  /\ Wrapping(wr, cl) /\ Calling(cl) /\ Borrowing(hd, cl, dd)
  /\ Resting(hd, cl) /\ Ordered(cl) /\ Living(rp, cl, dd)

\* What a table is made of.
Tabular == [slots : Seq(Handles), free : Seq(Spots)]

\* The free list holds what is free, once, and no table outgrows its bound.
Orderly(t) ==
  /\ t \in Tabular
  /\ Len(t.slots) <= MaxSlots
  /\ \A n \in DOMAIN t.free : t.free[n] \in DOMAIN t.slots
  /\ \A m, n \in DOMAIN t.free : t.free[m] = t.free[n] => m = n
  /\ \A s \in DOMAIN t.slots : t.slots[s].rep = 0 <=> \E n \in DOMAIN t.free : t.free[n] = s

\* The tables of all instances.
IsTables(tb) == tb \in [Insts -> Tabular] /\ \A i \in Insts : Orderly(tb[i])

\* A dropped wrapper whose destructor waits is lent.
Deferring == \A w \in Wrappers : wrapper[w].pending => wrapper[w].lends > 0

\* The invariant, of what is in the tables.
Stands(rp, tb, wr, cl, dd, tr) == Holding(rp, HeldIn(tb), wr, cl, dd, tr) /\ IsTables(tb)

\* Between two steps nothing is taken.
ResourceInv == Stands(rep, table, wrapper, call, dead, 0) /\ Deferring

-----------------------------------------------------------------------------
(* The records that steps make.                                                *)

\* A handle's fields, not lent.
IsHandle(h, r, own, k) == h.rep = r /\ h.own = own /\ h.lends = 0 /\ h.scope = k

\* The handles that the model makes, by their fields.
LEMMA Records ==
  /\ R!NoHandle \in Handles /\ IsHandle(R!NoHandle, 0, FALSE, 0)
  /\ \A r \in RepNumbers : R!Owning(r) \in Handles /\ IsHandle(R!Owning(r), r, TRUE, 0)
  /\ \A r \in RepNumbers, k \in CallNumbers :
       R!Borrowing(r, k) \in Handles /\ IsHandle(R!Borrowing(r, k), r, FALSE, k)
<1>1. R!NoHandle \in Handles /\ IsHandle(R!NoHandle, 0, FALSE, 0)
  BY DEF R!NoHandle, Handles, IsHandle
<1>2. ASSUME NEW r \in RepNumbers PROVE R!Owning(r) \in Handles /\ IsHandle(R!Owning(r), r, TRUE, 0)
  <2>1. [R!NoHandle EXCEPT !.rep = r] \in Handles
    BY <1>1 DEF Handles
  <2>2. R!Owning(r) \in Handles
    BY <2>1 DEF R!Owning, Handles
  <2> QED BY <2>2 DEF R!Owning, R!NoHandle, IsHandle
<1>3. ASSUME NEW r \in RepNumbers, NEW k \in CallNumbers
      PROVE  R!Borrowing(r, k) \in Handles /\ IsHandle(R!Borrowing(r, k), r, FALSE, k)
  <2>1. [R!NoHandle EXCEPT !.rep = r] \in Handles
    BY <1>1 DEF Handles
  <2>2. R!Borrowing(r, k) \in Handles
    BY <2>1 DEF R!Borrowing, Handles
  <2> QED BY <2>2 DEF R!Borrowing, R!NoHandle, IsHandle
<1> QED BY <1>1, <1>2, <1>3

\* The wrapper as there is none, and one that owns, by their fields.
LEMMA WrapperFields ==
  /\ R!NoWrapper \in WrapperRecords
  /\ R!NoWrapper.rep = 0 /\ ~R!NoWrapper.valid /\ ~R!NoWrapper.owns /\ ~R!NoWrapper.pending
  /\ R!NoWrapper.lends = 0 /\ R!NoWrapper.scope = 0 /\ ~Owns(R!NoWrapper)
  /\ \A r \in RepNumbers :
       /\ R!Owned(r) \in WrapperRecords
       /\ R!Owned(r).rep = r /\ R!Owned(r).valid /\ R!Owned(r).owns /\ ~R!Owned(r).pending
       /\ R!Owned(r).lends = 0 /\ R!Owned(r).scope = 0 /\ Owns(R!Owned(r))
<1>1. R!NoWrapper \in WrapperRecords
  BY DEF R!NoWrapper, WrapperRecords
<1>2. /\ R!NoWrapper.rep = 0 /\ ~R!NoWrapper.valid /\ ~R!NoWrapper.owns /\ ~R!NoWrapper.pending
      /\ R!NoWrapper.lends = 0 /\ R!NoWrapper.scope = 0 /\ ~Owns(R!NoWrapper)
  BY DEF R!NoWrapper, Owns
<1>3. ASSUME NEW r \in RepNumbers
      PROVE  /\ R!Owned(r) \in WrapperRecords
             /\ R!Owned(r).rep = r /\ R!Owned(r).valid /\ R!Owned(r).owns /\ ~R!Owned(r).pending
             /\ R!Owned(r).lends = 0 /\ R!Owned(r).scope = 0 /\ Owns(R!Owned(r))
  <2>1. [R!NoWrapper EXCEPT !.rep = r] \in WrapperRecords
    BY <1>1 DEF WrapperRecords
  <2>2. [R!NoWrapper EXCEPT !.rep = r, !.valid = TRUE] \in WrapperRecords
    BY <2>1 DEF WrapperRecords
  <2>3. R!Owned(r) \in WrapperRecords
    BY <2>2 DEF R!Owned, WrapperRecords
  <2> QED BY <2>3 DEF R!Owned, R!NoWrapper, Owns
<1> QED BY <1>1, <1>2, <1>3

-----------------------------------------------------------------------------
(* Owners come and go.                                                         *)

\* Another handle at one place.
LEMMA Placed ==
  ASSUME NEW hd \in [Insts -> [Spots -> Handles]], NEW i \in Insts, NEW s \in Spots, NEW h \in Handles
  PROVE  /\ [hd EXCEPT ![i][s] = h] \in [Insts -> [Spots -> Handles]]
         /\ \A j \in Insts : \A t \in Spots :
              [hd EXCEPT ![i][s] = h][j][t] = IF j = i /\ t = s THEN h ELSE hd[j][t]
OBVIOUS

\* What is not lent has no borrowers.
LEMMA Unlent ==
  ASSUME NEW rp, NEW hd, NEW wr, NEW cl, NEW dd, NEW tr, Holding(rp, hd, wr, cl, dd, tr)
  PROVE  /\ \A i \in Insts : \A s \in Spots : hd[i][s].lends = 0 =>
              \A k \in CallNumbers : \A l \in cl[k].lent : ~(l.by = i /\ l.where = s)
         /\ \A w \in Wrappers : wr[w].lends = 0 =>
              \A k \in CallNumbers : \A l \in cl[k].lent : ~(l.by = Host /\ l.where = w)
<1>1. ASSUME NEW i, NEW s, Cardinality(BorrowersIn(cl, i, s)) = 0
      PROVE  \A k \in CallNumbers : \A l \in cl[k].lent : ~(l.by = i /\ l.where = s)
  <2>1. IsFiniteSet(BorrowersIn(cl, i, s))
    BY ResourceAssumption, FS_Subset, BorrowersIn(cl, i, s) \subseteq CallNumbers DEF BorrowersIn
  <2>2. BorrowersIn(cl, i, s) = {}
    BY <1>1, <2>1, FS_EmptySet
  <2> QED BY <2>2 DEF BorrowersIn
<1> QED BY <1>1 DEF Holding, Counted

\* A handle that owns and is not lent leaves its table.
LEMMA TakeHandle ==
  ASSUME NEW rp, NEW hd, NEW wr, NEW cl, NEW dd, Holding(rp, hd, wr, cl, dd, 0),
         NEW i \in Insts, NEW s \in Spots, hd[i][s].own, hd[i][s].lends = 0
  PROVE  Holding(rp, [hd EXCEPT ![i][s] = R!NoHandle], wr, cl, dd, hd[i][s].rep)
<1> DEFINE h2 == [hd EXCEPT ![i][s] = R!NoHandle]  r == hd[i][s].rep
<1>1. /\ h2 \in [Insts -> [Spots -> Handles]]
      /\ \A j \in Insts : \A t \in Spots : h2[j][t] = IF j = i /\ t = s THEN R!NoHandle ELSE hd[j][t]
  BY Placed, Records DEF Holding, Typed
<1>2. r \in RepNumbers /\ r # 0 /\ hd[i][s].scope = 0 /\ rp[r].at = "alive"
  BY ResourceAssumption DEF Holding, Typed, Handles, OwnedLives, Kinds2
<1>3. IsHandle(R!NoHandle, 0, FALSE, 0)
  BY Records
<1>4. \A k \in CallNumbers : \A l \in cl[k].lent : ~(l.by = i /\ l.where = s)
  BY Unlent
<1> HIDE DEF h2, r
<1>5. Typed(rp, h2, wr, cl, dd) /\ r \in RepNumbers \cup {0}
  BY <1>1, <1>2 DEF Holding, Typed
<1>51. Kinds2(h2)
  BY <1>1, <1>3 DEF IsHandle, Holding, Kinds2
<1>6. OwnedOnce(h2, wr, cl, r)
  <2>0. OwnedOnce(hd, wr, cl, 0)
    BY DEF Holding
  <2>1. \A j \in Insts : \A t \in Spots : h2[j][t].own => h2[j][t] = hd[j][t] /\ (j # i \/ t # s)
    BY <1>1, <1>3 DEF IsHandle
  <2>2. \A j \in Insts : \A t \in Spots : h2[j][t].own => h2[j][t].rep # r
    BY <2>0, <2>1 DEF OwnedOnce, r
  <2>3. /\ \A w \in Wrappers : Owns(wr[w]) => wr[w].rep # r
        /\ \A k \in CallNumbers : cl[k].own # r
    BY <2>0 DEF OwnedOnce, r
  <2> QED BY <2>0, <2>1, <2>2, <2>3 DEF OwnedOnce
<1>7. OwnedLives(rp, h2, wr, cl, r)
  BY <1>1, <1>2, <1>3 DEF IsHandle, Holding, OwnedLives
<1>8. LivesOwned(rp, h2, wr, cl, dd, r)
  <2> SUFFICES ASSUME dd = {}, NEW q \in RepNumbers, rp[q].at = "alive", Ownerless(h2, wr, cl, r, q)
               PROVE FALSE
    BY DEF LivesOwned
  <2>1. Ownerless(hd, wr, cl, 0, q)
    BY <1>1, ResourceAssumption DEF Ownerless, r
  <2> QED BY <2>1 DEF Holding, LivesOwned
<1>9. Born(rp, h2, cl)
  BY <1>1, <1>2, <1>3 DEF IsHandle, Holding, Born
<1>10. Lending(h2, wr, cl, r)
  BY SMTT(30), <1>1, <1>2, <1>3, <1>4 DEF IsHandle, Holding, Lending, Ownerless, Typed, CallRecords, Loans, Spots, r
<1>11. Counted(h2, wr, cl)
  BY <1>1, <1>2, <1>3 DEF IsHandle, Holding, Counted
<1>12. Borrowing(h2, cl, dd)
  <2>1. \A j \in Insts : \A t \in Spots :
          /\ h2[j][t].scope = hd[j][t].scope
          /\ h2[j][t].scope # 0 => h2[j][t] = hd[j][t]
    BY <1>1, <1>2, <1>3 DEF IsHandle
  <2> QED BY <2>1 DEF Holding, Borrowing
<1>13. Resting(h2, cl)
  BY <1>1, <1>2, <1>3 DEF IsHandle, Holding, Resting
<1> QED BY <1>5, <1>51, <1>6, <1>7, <1>8, <1>9, <1>10, <1>11, <1>12, <1>13 DEF Holding, h2, r

\* What a step has taken goes to a place where nothing is.
LEMMA GiveHandle ==
  ASSUME NEW rp, NEW hd, NEW wr, NEW cl, NEW dd, NEW r, r # 0, Holding(rp, hd, wr, cl, dd, r),
         NEW i \in Insts, NEW s \in Spots, hd[i][s].rep = 0
  PROVE  Holding(rp, [hd EXCEPT ![i][s] = R!Owning(r)], wr, cl, dd, 0)
<1> DEFINE h2 == [hd EXCEPT ![i][s] = R!Owning(r)]
<1>1. /\ r \in RepNumbers /\ rp[r].at = "alive"
      /\ ~hd[i][s].own /\ hd[i][s].lends = 0 /\ hd[i][s].scope = 0
      /\ IsHandle(R!Owning(r), r, TRUE, 0)
  <2>1. r \in RepNumbers /\ rp[r].at = "alive"
        /\ ~hd[i][s].own /\ hd[i][s].lends = 0 /\ hd[i][s].scope = 0
    BY DEF Holding, OwnedLives, Kinds2
  <2> QED BY <2>1, Records
<1>2. R!Owning(r) \in Handles
  BY <1>1, Records
<1>3. /\ h2 \in [Insts -> [Spots -> Handles]]
      /\ \A j \in Insts : \A t \in Spots : h2[j][t] = IF j = i /\ t = s THEN R!Owning(r) ELSE hd[j][t]
  BY <1>2, Placed DEF Holding, Typed
<1>4. \A k \in CallNumbers : \A l \in cl[k].lent : ~(l.by = i /\ l.where = s)
  BY <1>1, Unlent DEF IsHandle
<1> HIDE DEF h2
<1>5. Typed(rp, h2, wr, cl, dd)
  BY <1>3 DEF Holding, Typed
<1>51. Kinds2(h2)
  BY <1>1, <1>3 DEF IsHandle, Holding, Kinds2
<1>6. OwnedOnce(h2, wr, cl, 0)
  <2>0. OwnedOnce(hd, wr, cl, r)
    BY DEF Holding
  <2>1. \A j \in Insts : \A t \in Spots : h2[j][t].own =>
          \/ h2[j][t] = hd[j][t] /\ hd[j][t].rep # r
          \/ j = i /\ t = s /\ h2[j][t].rep = r
    BY <1>1, <1>3, <2>0 DEF IsHandle, OwnedOnce
  <2>2. /\ \A w \in Wrappers : Owns(wr[w]) => wr[w].rep # r /\ wr[w].rep # 0
        /\ \A k \in CallNumbers : cl[k].own # r
    BY <2>0 DEF OwnedOnce, Holding, OwnedLives
  <2>3. \A j \in Insts : \A t \in Spots : h2[j][t].own => h2[j][t].rep # 0
    BY <1>1, <1>3 DEF IsHandle, Holding, OwnedLives
  <2>4. \A j, n \in Insts : \A t, u \in Spots :
          h2[j][t].own /\ h2[n][u].own /\ h2[j][t].rep = h2[n][u].rep => j = n /\ t = u
    BY <2>0, <2>1 DEF OwnedOnce
  <2>5. \A j \in Insts : \A t \in Spots : h2[j][t].own =>
          /\ \A w \in Wrappers : Owns(wr[w]) => wr[w].rep # h2[j][t].rep
          /\ \A k \in CallNumbers : cl[k].own # h2[j][t].rep
    BY <2>0, <2>1, <2>2 DEF OwnedOnce
  <2> QED BY <2>0, <2>2, <2>3, <2>4, <2>5 DEF OwnedOnce
<1>7. OwnedLives(rp, h2, wr, cl, 0)
  BY <1>1, <1>3, ResourceAssumption DEF IsHandle, Holding, OwnedLives
<1>8. LivesOwned(rp, h2, wr, cl, dd, 0)
  <2> SUFFICES ASSUME dd = {}, NEW q \in RepNumbers, rp[q].at = "alive", Ownerless(h2, wr, cl, 0, q)
               PROVE FALSE
    BY DEF LivesOwned
  <2>1. Ownerless(hd, wr, cl, r, q)
    BY <1>1, <1>3 DEF IsHandle, Ownerless
  <2> QED BY <2>1 DEF Holding, LivesOwned
<1>9. Born(rp, h2, cl)
  BY <1>1, <1>3 DEF IsHandle, Holding, Born
<1>10. Lending(h2, wr, cl, 0)
  <2>1. \A q \in RepNumbers : Ownerless(hd, wr, cl, r, q) => Ownerless(h2, wr, cl, 0, q)
    BY <1>1, <1>3, ResourceAssumption DEF IsHandle, Ownerless
  <2>2. \A k \in CallNumbers : \A l \in cl[k].lent : l \in Loans
    BY DEF Holding, Typed, CallRecords
  <2>3. ASSUME NEW k \in CallNumbers, NEW l \in cl[k].lent
        PROVE  /\ l.by # Host /\ l.where # 0 => h2[l.by][l.where] = hd[l.by][l.where]
               /\ l.rep \in RepNumbers
    BY <1>3, <1>4, <2>2 DEF Loans, Spots
  <2> QED BY <2>1, <2>3 DEF Holding, Lending
<1>11. Counted(h2, wr, cl)
  BY <1>1, <1>3 DEF IsHandle, Holding, Counted
<1>12. Borrowing(h2, cl, dd)
  <2>1. \A j \in Insts : \A t \in Spots :
          /\ h2[j][t].scope = hd[j][t].scope
          /\ h2[j][t].scope # 0 => h2[j][t] = hd[j][t]
    BY <1>1, <1>3 DEF IsHandle
  <2> QED BY <2>1 DEF Holding, Borrowing
<1>13. Resting(h2, cl)
  BY <1>1, <1>3 DEF IsHandle, Holding, Resting
<1> QED BY <1>1, <1>5, <1>51, <1>6, <1>7, <1>8, <1>9, <1>10, <1>11, <1>12, <1>13 DEF IsHandle, Holding, h2

\* Another record for one wrapper.
LEMMA Rewrapped ==
  ASSUME NEW wr \in [Wrappers -> WrapperRecords], NEW w \in Wrappers, NEW x \in WrapperRecords
  PROVE  /\ [wr EXCEPT ![w] = x] \in [Wrappers -> WrapperRecords]
         /\ \A v \in Wrappers : [wr EXCEPT ![w] = x][v] = IF v = w THEN x ELSE wr[v]
OBVIOUS

\* An owning wrapper that is not lent is taken from the host.
LEMMA TakeWrapper ==
  ASSUME NEW rp, NEW hd, NEW wr, NEW cl, NEW dd, Holding(rp, hd, wr, cl, dd, 0),
         NEW w \in Wrappers, Owns(wr[w]), wr[w].lends = 0
  PROVE  Holding(rp, hd, [wr EXCEPT ![w] = R!NoWrapper], cl, dd, wr[w].rep)
<1> DEFINE w2 == [wr EXCEPT ![w] = R!NoWrapper]  r == wr[w].rep
<1>1. /\ R!NoWrapper \in WrapperRecords
      /\ R!NoWrapper.rep = 0 /\ ~R!NoWrapper.valid /\ ~R!NoWrapper.owns /\ ~R!NoWrapper.pending
      /\ R!NoWrapper.lends = 0 /\ R!NoWrapper.scope = 0 /\ ~Owns(R!NoWrapper)
  BY WrapperFields
<1>3. /\ w2 \in [Wrappers -> WrapperRecords]
      /\ \A v \in Wrappers : w2[v] = IF v = w THEN R!NoWrapper ELSE wr[v]
  BY <1>1, Rewrapped DEF Holding, Typed
<1>4. r \in RepNumbers /\ r # 0 /\ rp[r].at = "alive" /\ wr[w].scope = 0
  BY ResourceAssumption DEF Holding, Typed, WrapperRecords, OwnedLives, Wrapping, Owns
<1>5. \A k \in CallNumbers : \A l \in cl[k].lent : ~(l.by = Host /\ l.where = w)
  BY Unlent
<1> HIDE DEF w2, r
<1>7. Typed(rp, hd, w2, cl, dd)
  BY <1>3 DEF Holding, Typed
<1>8. OwnedOnce(hd, w2, cl, r)
  <2>0. OwnedOnce(hd, wr, cl, 0)
    BY DEF Holding
  <2>1. \A v \in Wrappers : Owns(w2[v]) => w2[v] = wr[v] /\ Owns(wr[v]) /\ v # w
    BY <1>1, <1>3
  <2>2. \A v \in Wrappers : Owns(w2[v]) => w2[v].rep # r
    BY <2>0, <2>1 DEF OwnedOnce, r
  <2>3. /\ \A i \in Insts : \A s \in Spots : hd[i][s].own => hd[i][s].rep # r
        /\ \A k \in CallNumbers : cl[k].own # r
    BY <2>0 DEF OwnedOnce, r
  <2> QED BY <2>0, <2>1, <2>2, <2>3 DEF OwnedOnce
<1>9. OwnedLives(rp, hd, w2, cl, r)
  BY <1>1, <1>3, <1>4 DEF Holding, OwnedLives
<1>10. LivesOwned(rp, hd, w2, cl, dd, r)
  <2> SUFFICES ASSUME dd = {}, NEW q \in RepNumbers, rp[q].at = "alive", Ownerless(hd, w2, cl, r, q)
               PROVE FALSE
    BY DEF LivesOwned
  <2>1. Ownerless(hd, wr, cl, 0, q)
    BY <1>3, ResourceAssumption DEF Ownerless, r
  <2> QED BY <2>1 DEF Holding, LivesOwned
<1>11. Lending(hd, w2, cl, r)
  <2>1. \A q \in RepNumbers : Ownerless(hd, wr, cl, 0, q) => Ownerless(hd, w2, cl, r, q)
    BY <1>1, <1>3 DEF Ownerless, r
  <2> QED BY <1>3, <1>5, <2>1 DEF Holding, Lending, Typed, CallRecords, Loans
<1>12. Counted(hd, w2, cl)
  BY <1>1, <1>3 DEF Holding, Counted
<1>13. Wrapping(w2, cl)
  BY <1>1, <1>3 DEF Holding, Wrapping
<1> QED BY <1>4, <1>7, <1>8, <1>9, <1>10, <1>11, <1>12, <1>13 DEF Holding, w2, r

\* What a step has taken gets a wrapper.
LEMMA GiveWrapper ==
  ASSUME NEW rp, NEW hd, NEW wr, NEW cl, NEW dd, NEW r, r # 0, Holding(rp, hd, wr, cl, dd, r),
         NEW w \in Wrappers, wr[w] = R!NoWrapper
  PROVE  Holding(rp, hd, [wr EXCEPT ![w] = R!Owned(r)], cl, dd, 0)
<1> DEFINE w2 == [wr EXCEPT ![w] = R!Owned(r)]
<1>1. /\ R!NoWrapper.lends = 0 /\ ~Owns(R!NoWrapper)
      /\ R!Owned(r) \in WrapperRecords
      /\ R!Owned(r).rep = r /\ R!Owned(r).valid /\ R!Owned(r).owns /\ ~R!Owned(r).pending
      /\ R!Owned(r).lends = 0 /\ R!Owned(r).scope = 0 /\ Owns(R!Owned(r))
      /\ r \in RepNumbers /\ rp[r].at = "alive"
  <2>1. r \in RepNumbers /\ rp[r].at = "alive"
    BY DEF Holding, OwnedLives
  <2> QED BY <2>1, WrapperFields
<1>3. /\ w2 \in [Wrappers -> WrapperRecords]
      /\ \A v \in Wrappers : w2[v] = IF v = w THEN R!Owned(r) ELSE wr[v]
  BY <1>1, Rewrapped DEF Holding, Typed
<1>4. \A k \in CallNumbers : \A l \in cl[k].lent : ~(l.by = Host /\ l.where = w)
  BY <1>1, Unlent
<1> HIDE DEF w2
<1>6. Typed(rp, hd, w2, cl, dd)
  BY <1>3 DEF Holding, Typed
<1>7. OwnedOnce(hd, w2, cl, 0)
  <2>0. OwnedOnce(hd, wr, cl, r)
    BY DEF Holding
  <2>1. \A v \in Wrappers : Owns(w2[v]) =>
          \/ w2[v] = wr[v] /\ Owns(wr[v]) /\ wr[v].rep # r /\ wr[v].rep # 0
          \/ v = w /\ w2[v].rep = r
    BY <1>1, <1>3, <2>0 DEF OwnedOnce, Holding, OwnedLives
  <2>2. \A u, v \in Wrappers : Owns(w2[v]) /\ Owns(w2[u]) /\ w2[v].rep = w2[u].rep => v = u
    BY <2>0, <2>1 DEF OwnedOnce
  <2>3. /\ \A i \in Insts : \A s \in Spots : hd[i][s].own => hd[i][s].rep # r /\ hd[i][s].rep # 0
        /\ \A k \in CallNumbers : cl[k].own # r
    BY <2>0 DEF OwnedOnce, Holding, OwnedLives
  <2>4. \A i \in Insts : \A s \in Spots : hd[i][s].own =>
          \A v \in Wrappers : Owns(w2[v]) => w2[v].rep # hd[i][s].rep
    BY <2>0, <2>1, <2>3 DEF OwnedOnce
  <2>5. \A v \in Wrappers : Owns(w2[v]) => (\A k \in CallNumbers : cl[k].own # w2[v].rep) /\ w2[v].rep # 0
    BY <2>0, <2>1, <2>3 DEF OwnedOnce
  <2> QED BY <2>0, <2>2, <2>3, <2>4, <2>5 DEF OwnedOnce
<1>8. OwnedLives(rp, hd, w2, cl, 0)
  BY <1>1, <1>3, ResourceAssumption DEF Holding, OwnedLives
<1>9. LivesOwned(rp, hd, w2, cl, dd, 0)
  <2> SUFFICES ASSUME dd = {}, NEW q \in RepNumbers, rp[q].at = "alive", Ownerless(hd, w2, cl, 0, q)
               PROVE FALSE
    BY DEF LivesOwned
  <2>1. Ownerless(hd, wr, cl, r, q)
    <3>0. Owns(w2[w]) /\ w2[w].rep = r
      BY <1>1, <1>3
    <3>1. r # q
      BY <3>0 DEF Ownerless
    <3>2. \A v \in Wrappers : Owns(wr[v]) => Owns(w2[v]) /\ w2[v].rep = wr[v].rep
      BY <1>1, <1>3
    <3> QED BY <3>1, <3>2 DEF Ownerless
  <2> QED BY <2>1 DEF Holding, LivesOwned
<1>10. Lending(hd, w2, cl, 0)
  <2>1. \A q \in RepNumbers : Ownerless(hd, wr, cl, r, q) => Ownerless(hd, w2, cl, 0, q)
    BY <1>1, <1>3, ResourceAssumption DEF Ownerless
  <2> QED BY <1>3, <1>4, <2>1 DEF Holding, Lending, Typed, CallRecords, Loans
<1>11. Counted(hd, w2, cl)
  BY <1>1, <1>3 DEF Holding, Counted
<1>12. Wrapping(w2, cl)
  BY <1>1, <1>3, ResourceAssumption DEF Holding, Wrapping
<1> QED BY <1>1, <1>6, <1>7, <1>8, <1>9, <1>10, <1>11, <1>12 DEF Holding, w2

\* A call keeps all that is said of it but whose owner it is, when it gets or gives away an own.
LEMMA Carried ==
  ASSUME NEW rp, NEW hd, NEW wr, NEW cl, NEW dd, NEW tr, Holding(rp, hd, wr, cl, dd, tr),
         NEW k \in CallNumbers, cl[k].at \in {"waiting", "returned"}, NEW r \in RepNumbers \cup {0}
  PROVE  LET c2 == [cl EXCEPT ![k].own = r] IN
         /\ c2 \in [CallNumbers -> CallRecords]
         /\ \A j \in CallNumbers : c2[j].lent = cl[j].lent /\ c2[j].from = cl[j].from
                                   /\ c2[j].own = IF j = k THEN r ELSE cl[j].own
         /\ Born(rp, hd, c2) /\ Counted(hd, wr, c2) /\ Wrapping(wr, c2) /\ Calling(c2)
         /\ Borrowing(hd, c2, dd)
         /\ Resting(hd, c2) /\ Ordered(c2) /\ Living(rp, c2, dd)
<1> DEFINE c2 == [cl EXCEPT ![k].own = r]
<1>0. cl \in [CallNumbers -> CallRecords]
  BY DEF Holding, Typed
<1>1. [cl[k] EXCEPT !.own = r] \in CallRecords
  BY <1>0 DEF CallRecords
<1>2. c2 \in [CallNumbers -> CallRecords]
  BY <1>0, <1>1
<1>3. \A j \in CallNumbers : c2[j] = IF j = k THEN [cl[k] EXCEPT !.own = r] ELSE cl[j]
  BY <1>0
<1>4. \A j \in CallNumbers :
        /\ c2[j].at = cl[j].at /\ c2[j].from = cl[j].from /\ c2[j].to = cl[j].to /\ c2[j].lent = cl[j].lent
        /\ c2[j].borrows = cl[j].borrows /\ c2[j].parent = cl[j].parent /\ c2[j].root = cl[j].root
        /\ c2[j].across = cl[j].across /\ c2[j].own = IF j = k THEN r ELSE cl[j].own
  BY <1>0, <1>3 DEF CallRecords
<1>5. \A j \in CallNumbers : j # k => c2[j] = cl[j]
  BY <1>3
<1> HIDE DEF c2
<1>6. Born(rp, hd, c2)
  BY <1>4 DEF Holding, Born
<1>7. \A by, where : BorrowersIn(c2, by, where) = BorrowersIn(cl, by, where)
  BY <1>4 DEF BorrowersIn
<1>8. Counted(hd, wr, c2)
  BY <1>7 DEF Holding, Counted
<1>9. Wrapping(wr, c2)
  <2>1. \A w \in Wrappers : wr[w].scope \in CallNumbers \cup {0}
    BY DEF Holding, Typed, WrapperRecords
  <2> QED BY <1>4, <2>1 DEF Holding, Wrapping
<1>10. Calling(c2)
  <2>1. \A j \in CallNumbers : cl[j].root \in CallNumbers \cup {0}
    BY <1>0 DEF CallRecords
  <2>2. FromHost \subseteq CallNumbers
    BY ResourceAssumption
  <2>3. \A j \in CallNumbers : c2[j].at = "none" => c2[j].lent = {}
    BY <1>4, <1>5 DEF Holding, Calling
  <2> QED BY <1>4, <2>1, <2>2, <2>3 DEF Holding, Calling
<1>11. Borrowing(hd, c2, dd)
  <2>1. \A i \in Insts : \A s \in Spots : hd[i][s].scope \in CallNumbers \cup {0}
    BY DEF Holding, Typed, Handles
  <2> QED BY <1>4, <2>1 DEF Holding, Borrowing
<1>12. \A j \in CallNumbers : Pure(c2, j) <=> Pure(cl, j)
  <2>1. ASSUME NEW j \in CallNumbers, cl[j].at = "running" PROVE cl[j].root \in CallNumbers
    BY <2>1, ResourceAssumption DEF Holding, Calling
  <2> QED BY <1>4, <2>1 DEF Pure
<1>13. Resting(hd, c2)
  <2>1. ASSUME NEW j \in CallNumbers, NEW l \in cl[j].lent PROVE l.of \in CallNumbers \cup {0}
    BY <1>0 DEF CallRecords, Loans
  <2> QED BY <1>4, <1>12, <2>1 DEF Holding, Resting
<1>14. Ordered(c2)
  BY <1>4, <1>12 DEF Holding, Ordered
<1>15. Living(rp, c2, dd)
  <2>1. ASSUME NEW j \in CallNumbers, cl[j].at \in {"running", "waiting"} PROVE cl[j].root \in CallNumbers
    BY <2>1, ResourceAssumption DEF Holding, Calling
  <2>2. \A j \in CallNumbers : Lasting(c2, dd, j) => Lasting(cl, dd, j)
    BY <1>4, <2>1 DEF Lasting
  <2> QED BY <1>4, <2>2 DEF Holding, Living
<1> QED BY <1>2, <1>4, <1>6, <1>8, <1>9, <1>10, <1>11, <1>13, <1>14, <1>15 DEF c2

\* What a call travels with is taken from it.
LEMMA TakeCall ==
  ASSUME NEW rp, NEW hd, NEW wr, NEW cl, NEW dd, Holding(rp, hd, wr, cl, dd, 0),
         NEW k \in CallNumbers, cl[k].own # 0
  PROVE  Holding(rp, hd, wr, [cl EXCEPT ![k].own = 0], dd, cl[k].own)
<1> DEFINE c2 == [cl EXCEPT ![k].own = 0]  r == cl[k].own
<1>0. cl[k].at \in {"waiting", "returned"} /\ r \in RepNumbers /\ rp[r].at = "alive"
  BY DEF Holding, Calling, Typed, CallRecords, OwnedLives
<1>1. /\ c2 \in [CallNumbers -> CallRecords]
      /\ \A j \in CallNumbers : c2[j].lent = cl[j].lent /\ c2[j].from = cl[j].from
                                /\ c2[j].own = IF j = k THEN 0 ELSE cl[j].own
      /\ Born(rp, hd, c2) /\ Counted(hd, wr, c2) /\ Wrapping(wr, c2) /\ Calling(c2) /\ Borrowing(hd, c2, dd)
      /\ Resting(hd, c2) /\ Ordered(c2) /\ Living(rp, c2, dd)
  BY SMTT(30), <1>0, Carried
<1> HIDE DEF c2, r
<1>2. Typed(rp, hd, wr, c2, dd)
  BY <1>1 DEF Holding, Typed
<1>3. OwnedOnce(hd, wr, c2, r)
  <2>0. OwnedOnce(hd, wr, cl, 0) /\ (\A i \in Insts : \A s \in Spots : hd[i][s].own => hd[i][s].rep # 0)
        /\ \A w \in Wrappers : Owns(wr[w]) => wr[w].rep # 0
    BY DEF Holding, OwnedLives
  <2>1. \A j \in CallNumbers : c2[j].own # 0 => c2[j].own = cl[j].own /\ j # k
    BY <1>1
  <2>2. /\ \A i \in Insts : \A s \in Spots : hd[i][s].own => hd[i][s].rep # r
        /\ \A w \in Wrappers : Owns(wr[w]) => wr[w].rep # r
        /\ \A j \in CallNumbers : c2[j].own # r
    BY <2>0, <2>1, <1>0, ResourceAssumption DEF OwnedOnce, r
  <2> QED BY <2>0, <2>1, <2>2 DEF OwnedOnce
<1>4. OwnedLives(rp, hd, wr, c2, r)
  BY <1>0, <1>1 DEF Holding, OwnedLives
<1>5. LivesOwned(rp, hd, wr, c2, dd, r)
  <2> SUFFICES ASSUME dd = {}, NEW q \in RepNumbers, rp[q].at = "alive", Ownerless(hd, wr, c2, r, q)
               PROVE FALSE
    BY DEF LivesOwned
  <2>1. Ownerless(hd, wr, cl, 0, q)
    BY <1>1, ResourceAssumption DEF Ownerless, r
  <2> QED BY <2>1 DEF Holding, LivesOwned
<1>6. Lending(hd, wr, c2, r)
  <2>1. \A q \in RepNumbers : Ownerless(hd, wr, cl, 0, q) => Ownerless(hd, wr, c2, r, q)
    BY <1>1, ResourceAssumption DEF Ownerless, r
  <2>2. \A j \in CallNumbers : \A l \in cl[j].lent : l.rep \in RepNumbers
    BY DEF Holding, Typed, CallRecords, Loans
  <2> QED BY <1>1, <2>1, <2>2 DEF Holding, Lending
<1> QED BY <1>0, <1>1, <1>2, <1>3, <1>4, <1>5, <1>6 DEF Holding, c2, r

\* What a step has taken travels with a call.
LEMMA GiveCall ==
  ASSUME NEW rp, NEW hd, NEW wr, NEW cl, NEW dd, NEW r, r # 0, Holding(rp, hd, wr, cl, dd, r),
         NEW k \in CallNumbers, cl[k].own = 0, cl[k].at \in {"waiting", "returned"}
  PROVE  Holding(rp, hd, wr, [cl EXCEPT ![k].own = r], dd, 0)
<1> DEFINE c2 == [cl EXCEPT ![k].own = r]
<1>0. r \in RepNumbers /\ rp[r].at = "alive"
  BY DEF Holding, OwnedLives
<1>1. /\ c2 \in [CallNumbers -> CallRecords]
      /\ \A j \in CallNumbers : c2[j].lent = cl[j].lent /\ c2[j].from = cl[j].from
                                /\ c2[j].own = IF j = k THEN r ELSE cl[j].own
      /\ Born(rp, hd, c2) /\ Counted(hd, wr, c2) /\ Wrapping(wr, c2) /\ Calling(c2) /\ Borrowing(hd, c2, dd)
      /\ Resting(hd, c2) /\ Ordered(c2) /\ Living(rp, c2, dd)
  BY <1>0, Carried
<1> HIDE DEF c2
<1>2. Typed(rp, hd, wr, c2, dd)
  BY <1>1 DEF Holding, Typed
<1>3. OwnedOnce(hd, wr, c2, 0)
  <2>0. OwnedOnce(hd, wr, cl, r) /\ (\A i \in Insts : \A s \in Spots : hd[i][s].own => hd[i][s].rep # 0)
        /\ \A w \in Wrappers : Owns(wr[w]) => wr[w].rep # 0
    BY DEF Holding, OwnedLives
  <2>1. \A j \in CallNumbers :
          \/ j # k /\ c2[j].own = cl[j].own /\ cl[j].own # r
          \/ j = k /\ c2[j].own = r
    BY <1>1, <2>0 DEF OwnedOnce
  <2>2. /\ \A i \in Insts : \A s \in Spots : hd[i][s].own => hd[i][s].rep # r
        /\ \A w \in Wrappers : Owns(wr[w]) => wr[w].rep # r
    BY <2>0 DEF OwnedOnce
  <2>3. \A j, n \in CallNumbers : c2[j].own # 0 /\ c2[j].own = c2[n].own => j = n
    BY <2>0, <2>1 DEF OwnedOnce
  <2> QED BY <2>0, <2>1, <2>2, <2>3 DEF OwnedOnce
<1>4. OwnedLives(rp, hd, wr, c2, 0)
  BY <1>0, <1>1 DEF Holding, OwnedLives
<1>5. LivesOwned(rp, hd, wr, c2, dd, 0)
  <2> SUFFICES ASSUME dd = {}, NEW q \in RepNumbers, rp[q].at = "alive", Ownerless(hd, wr, c2, 0, q)
               PROVE FALSE
    BY DEF LivesOwned
  <2>1. Ownerless(hd, wr, cl, r, q)
    <3>1. \A j \in CallNumbers : c2[j].own # q
      BY DEF Ownerless
    <3>2. c2[k].own = r /\ \A j \in CallNumbers : j # k => c2[j].own = cl[j].own
      BY <1>1
    <3>3. cl[k].own # q /\ r # q
      BY <3>1, <3>2, ResourceAssumption
    <3> QED BY <3>1, <3>2, <3>3 DEF Ownerless
  <2> QED BY <2>1 DEF Holding, LivesOwned
<1>6. Lending(hd, wr, c2, 0)
  <2>1. \A q \in RepNumbers : Ownerless(hd, wr, cl, r, q) => Ownerless(hd, wr, c2, 0, q)
    BY <1>1, ResourceAssumption DEF Ownerless
  <2>2. \A j \in CallNumbers : \A l \in cl[j].lent : l.rep \in RepNumbers
    BY DEF Holding, Typed, CallRecords, Loans
  <2> QED BY <1>1, <2>1, <2>2 DEF Holding, Lending
<1> QED BY <1>0, <1>1, <1>2, <1>3, <1>4, <1>5, <1>6 DEF Holding, c2

\* Another state of one representation.
LEMMA Restated ==
  ASSUME NEW rp \in [RepNumbers -> [at : {"unborn", "alive", "gone"}, ran : 0..1]], NEW r \in RepNumbers,
         NEW x \in [at : {"unborn", "alive", "gone"}, ran : 0..1]
  PROVE  /\ [rp EXCEPT ![r] = x] \in [RepNumbers -> [at : {"unborn", "alive", "gone"}, ran : 0..1]]
         /\ \A q \in RepNumbers : [rp EXCEPT ![r] = x][q] = IF q = r THEN x ELSE rp[q]
OBVIOUS

\* The guest makes a resource.
LEMMA Bear ==
  ASSUME NEW rp, NEW hd, NEW wr, NEW cl, NEW dd, Holding(rp, hd, wr, cl, dd, 0),
         NEW r \in RepNumbers, rp[r].at = "unborn"
  PROVE  Holding([rp EXCEPT ![r].at = "alive"], hd, wr, cl, dd, r)
<1> DEFINE x == [rp[r] EXCEPT !.at = "alive"]  r2 == [rp EXCEPT ![r].at = "alive"]
<1>1. /\ rp \in [RepNumbers -> [at : {"unborn", "alive", "gone"}, ran : 0..1]]
      /\ \A q \in RepNumbers : rp[q].ran = 1 <=> rp[q].at = "gone"
  BY DEF Holding, Typed
<1>2. x \in [at : {"unborn", "alive", "gone"}, ran : 0..1] /\ x.at = "alive" /\ x.ran # 1
  BY <1>1
<1>3. r2 = [rp EXCEPT ![r] = x]
  BY <1>1
<1>4. /\ r2 \in [RepNumbers -> [at : {"unborn", "alive", "gone"}, ran : 0..1]]
      /\ \A q \in RepNumbers : r2[q] = IF q = r THEN x ELSE rp[q]
  BY <1>1, <1>2, <1>3, Restated
<1> HIDE DEF x, r2
<1>5. Typed(r2, hd, wr, cl, dd)
  BY <1>1, <1>2, <1>4 DEF Holding, Typed
<1>6. /\ \A i \in Insts : \A s \in Spots : hd[i][s].rep # 0 => hd[i][s].rep # r /\ hd[i][s].rep \in RepNumbers
      /\ \A w \in Wrappers : Owns(wr[w]) => wr[w].rep # r /\ wr[w].rep \in RepNumbers /\ wr[w].rep # 0
      /\ \A k \in CallNumbers : cl[k].own # r /\ cl[k].own \in RepNumbers \cup {0}
      /\ \A k \in CallNumbers : \A l \in cl[k].lent : l.rep # r /\ l.rep \in RepNumbers
      /\ \A i \in Insts : \A s \in Spots : hd[i][s].own => hd[i][s].rep # 0
  <2>1. /\ \A i \in Insts : \A s \in Spots : hd[i][s].rep # 0 => hd[i][s].rep # r /\ hd[i][s].rep \in RepNumbers
        /\ \A i \in Insts : \A s \in Spots : hd[i][s].own => hd[i][s].rep # 0
    BY DEF Holding, Typed, Handles, Born, OwnedLives
  <2>2. \A w \in Wrappers : Owns(wr[w]) => wr[w].rep # r /\ wr[w].rep \in RepNumbers /\ wr[w].rep # 0
    BY DEF Holding, Typed, WrapperRecords, OwnedLives
  <2>3. /\ \A k \in CallNumbers : cl[k].own # r /\ cl[k].own \in RepNumbers \cup {0}
    BY ResourceAssumption DEF Holding, Typed, CallRecords, OwnedLives
  <2>4. \A k \in CallNumbers : \A l \in cl[k].lent : l.rep # r /\ l.rep \in RepNumbers
    BY DEF Holding, Typed, CallRecords, Loans, Born
  <2> QED BY <2>1, <2>2, <2>3, <2>4
<1>7. OwnedOnce(hd, wr, cl, r)
  <2>1. OwnedOnce(hd, wr, cl, 0)
    BY DEF Holding
  <2> QED BY <1>6, <2>1 DEF OwnedOnce
<1>8. OwnedLives(r2, hd, wr, cl, r)
  BY <1>2, <1>4, <1>6, ResourceAssumption DEF Holding, OwnedLives
<1>9. LivesOwned(r2, hd, wr, cl, dd, r)
  <2> SUFFICES ASSUME dd = {}, NEW q \in RepNumbers, r2[q].at = "alive", Ownerless(hd, wr, cl, r, q)
               PROVE FALSE
    BY DEF LivesOwned
  <2>1. q # r /\ rp[q].at = "alive"
    BY <1>4 DEF Ownerless
  <2>2. Ownerless(hd, wr, cl, 0, q)
    BY ResourceAssumption DEF Ownerless
  <2> QED BY <2>1, <2>2 DEF Holding, LivesOwned
<1>10. Born(r2, hd, cl)
  BY <1>2, <1>4, <1>6 DEF Holding, Born
<1>11. Lending(hd, wr, cl, r)
  BY <1>6 DEF Holding, Lending, Ownerless
<1>12. Living(r2, cl, dd)
  BY <1>4, <1>6 DEF Holding, Living
<1> QED BY <1>5, <1>7, <1>8, <1>9, <1>10, <1>11, <1>12 DEF Holding, r2

\* While a call that keeps what it has borrowed goes on, its owner has it: nobody else can.
LEMMA Needed ==
  ASSUME NEW rp, NEW hd, NEW wr, NEW cl, NEW dd, NEW r, r # 0, Holding(rp, hd, wr, cl, dd, r),
         NEW k \in CallNumbers, Lasting(cl, dd, k), NEW l \in cl[k].lent, l.rep = r
  PROVE  FALSE
<1> DEFINE S == {j \in CallNumbers : Lasting(cl, dd, j) /\ \E m \in cl[j].lent : m.rep = r}
<1>1. ASSUME NEW j \in S
      PROVE  /\ cl[j].at = "running" /\ j \notin FromHost
             /\ Pure(cl, j) /\ \E m \in cl[j].lent : m.of \in S
  <2>1. j \in CallNumbers /\ Lasting(cl, dd, j)
    OBVIOUS
  <2>2. PICK m \in cl[j].lent : m.rep = r
    BY Zenon
  <2>3. m \in Loans /\ r \in RepNumbers /\ r # 0
    BY <2>2 DEF Holding, Typed, CallRecords
  <2>4. m.by # Host
    BY <2>1, <2>2 DEF Holding, Lending, OwnedOnce
  <2>5. m.of # 0
    <3> SUFFICES ASSUME m.of = 0 PROVE FALSE
      OBVIOUS
    <3>1. m.where # 0
      BY <2>1, <2>2, <2>4 DEF Holding, Lending, Ownerless
    <3>2. m.by \in Insts /\ m.where \in Spots /\ hd[m.by][m.where].rep = r /\ hd[m.by][m.where].scope = 0
      BY <2>1, <2>2, <2>3, <2>4, <3>1 DEF Holding, Lending, Loans, Spots
    <3>3. hd[m.by][m.where].own
      BY <2>3, <3>2 DEF Holding, Kinds2
    <3> QED BY <3>2, <3>3 DEF Holding, OwnedOnce
  <2>6. j \notin FromHost
    BY <2>1, <2>2, <2>4 DEF Holding, Lending, Calling, Lasting
  <2>7. cl[j].at = "running" /\ Pure(cl, j)
    BY <2>1, <2>6 DEF Holding, Calling, Lasting, Pure
  <2>8. cl[m.of].at = "running" /\ cl[m.of].root = cl[j].root /\ m.of \in CallNumbers
        /\ \E n \in cl[m.of].lent : n.rep = r
    BY <2>1, <2>2, <2>3, <2>5, <2>7 DEF Holding, Resting, Loans
  <2>9. Lasting(cl, dd, m.of)
    BY <2>1, <2>7, <2>8 DEF Lasting
  <2> QED BY <2>6, <2>7, <2>8, <2>9
<1>2. k \in S /\ S \in SUBSET CallNumbers
  OBVIOUS
<1> HIDE DEF S
<1>3. S # {}
  BY <1>2
<1>4. PICK j \in S : Pure(cl, j) => \A m \in cl[j].lent : m.of \notin S
  BY <1>1, <1>2, <1>3 DEF Holding, Ordered
<1> QED BY <1>1, <1>4

\* The destructor runs.
LEMMA Destroy ==
  ASSUME NEW rp, NEW hd, NEW wr, NEW cl, NEW dd, NEW r, r # 0, Holding(rp, hd, wr, cl, dd, r)
  PROVE  Holding([rp EXCEPT ![r] = [at |-> "gone", ran |-> @.ran + 1]], hd, wr, cl, dd, 0)
<1> DEFINE x == [at |-> "gone", ran |-> rp[r].ran + 1]  r2 == [rp EXCEPT ![r] = x]
<1>1. /\ rp \in [RepNumbers -> [at : {"unborn", "alive", "gone"}, ran : 0..1]]
      /\ \A q \in RepNumbers : rp[q].ran = 1 <=> rp[q].at = "gone"
      /\ r \in RepNumbers /\ rp[r].at = "alive"
  BY DEF Holding, Typed, OwnedLives
<1>2. rp[r].ran = 0
  BY <1>1
<1>3. x \in [at : {"unborn", "alive", "gone"}, ran : 0..1] /\ x.at = "gone" /\ x.ran = 1
  BY <1>2
<1>4. /\ r2 \in [RepNumbers -> [at : {"unborn", "alive", "gone"}, ran : 0..1]]
      /\ \A q \in RepNumbers : r2[q] = IF q = r THEN x ELSE rp[q]
  BY <1>1, <1>3, Restated
<1>41. r2 = [rp EXCEPT ![r] = [at |-> "gone", ran |-> @.ran + 1]]
  OBVIOUS
<1> HIDE DEF x, r2
<1>5. Typed(r2, hd, wr, cl, dd)
  BY <1>1, <1>3, <1>4 DEF Holding, Typed
<1>6. /\ \A i \in Insts : \A s \in Spots : hd[i][s].own =>
           hd[i][s].rep # r /\ hd[i][s].rep \in RepNumbers /\ rp[hd[i][s].rep].at = "alive"
      /\ \A w \in Wrappers : Owns(wr[w]) => wr[w].rep # r /\ wr[w].rep \in RepNumbers /\ rp[wr[w].rep].at = "alive"
      /\ \A k \in CallNumbers : cl[k].own # 0 =>
           cl[k].own # r /\ cl[k].own \in RepNumbers /\ rp[cl[k].own].at = "alive"
  <2>1. OwnedOnce(hd, wr, cl, r)
    BY DEF Holding
  <2>2. \A i \in Insts : \A s \in Spots : hd[i][s].own =>
          hd[i][s].rep # r /\ hd[i][s].rep \in RepNumbers /\ rp[hd[i][s].rep].at = "alive"
    BY <2>1 DEF OwnedOnce, Holding, Typed, Handles, OwnedLives
  <2>3. \A w \in Wrappers : Owns(wr[w]) =>
          wr[w].rep # r /\ wr[w].rep \in RepNumbers /\ rp[wr[w].rep].at = "alive"
    BY <2>1 DEF OwnedOnce, Holding, Typed, WrapperRecords, OwnedLives
  <2>4. \A k \in CallNumbers : cl[k].own # 0 =>
          cl[k].own # r /\ cl[k].own \in RepNumbers /\ rp[cl[k].own].at = "alive"
    BY <2>1 DEF OwnedOnce, Holding, Typed, CallRecords, OwnedLives
  <2> QED BY <2>2, <2>3, <2>4
<1>7. OwnedOnce(hd, wr, cl, 0)
  BY <1>6, ResourceAssumption DEF Holding, OwnedOnce
<1>8. OwnedLives(r2, hd, wr, cl, 0)
  BY <1>4, <1>6, ResourceAssumption DEF OwnedLives
<1>9. LivesOwned(r2, hd, wr, cl, dd, 0)
  <2> SUFFICES ASSUME dd = {}, NEW q \in RepNumbers, r2[q].at = "alive", Ownerless(hd, wr, cl, 0, q)
               PROVE FALSE
    BY DEF LivesOwned
  <2>1. q # r /\ rp[q].at = "alive"
    BY <1>3, <1>4
  <2>2. Ownerless(hd, wr, cl, r, q)
    BY <2>1 DEF Ownerless
  <2> QED BY <2>1, <2>2 DEF Holding, LivesOwned
<1>10. Born(r2, hd, cl)
  <2>1. /\ \A i \in Insts : \A s \in Spots : hd[i][s].rep \in RepNumbers \cup {0}
        /\ \A k \in CallNumbers : \A l \in cl[k].lent : l.rep \in RepNumbers
    BY DEF Holding, Typed, Handles, CallRecords, Loans
  <2>2. \A q \in RepNumbers : rp[q].at # "unborn" => r2[q].at # "unborn"
    BY <1>3, <1>4
  <2> QED BY <2>1, <2>2, ResourceAssumption DEF Holding, Born
<1>11. Lending(hd, wr, cl, 0)
  <2>1. \A k \in CallNumbers : \A l \in cl[k].lent : l.rep \in RepNumbers
    BY DEF Holding, Typed, CallRecords, Loans
  <2> QED BY <2>1, ResourceAssumption DEF Holding, Lending, Ownerless
<1>12. Living(r2, cl, dd)
  <2> SUFFICES ASSUME NEW k \in CallNumbers, Lasting(cl, dd, k), NEW l \in cl[k].lent
               PROVE  r2[l.rep].at = "alive"
    BY DEF Living
  <2>1. l.rep \in RepNumbers
    BY DEF Holding, Typed, CallRecords, Loans
  <2>2. l.rep # r
    BY Needed
  <2> QED BY <1>4, <2>1, <2>2 DEF Holding, Living
<1> QED BY <1>41, <1>5, <1>7, <1>8, <1>9, <1>10, <1>11, <1>12 DEF Holding

\* Where an instance has died, what a step has taken may be lost.
LEMMA Lose ==
  ASSUME NEW rp, NEW hd, NEW wr, NEW cl, NEW dd, NEW r, Holding(rp, hd, wr, cl, dd, r), dd # {}
  PROVE  Holding(rp, hd, wr, cl, dd, 0)
<1>1. \A q \in RepNumbers : Ownerless(hd, wr, cl, r, q) => Ownerless(hd, wr, cl, 0, q)
  BY ResourceAssumption DEF Ownerless
<1>2. \A k \in CallNumbers : \A l \in cl[k].lent : l.rep \in RepNumbers
  BY DEF Holding, Typed, CallRecords, Loans
<1>3. Lending(hd, wr, cl, 0)
  BY <1>1, <1>2 DEF Holding, Lending
<1>4. OwnedOnce(hd, wr, cl, 0)
  BY DEF Holding, OwnedOnce, OwnedLives
<1>5. OwnedLives(rp, hd, wr, cl, 0) /\ LivesOwned(rp, hd, wr, cl, dd, 0)
  BY DEF Holding, OwnedLives, LivesOwned
<1> QED BY <1>3, <1>4, <1>5 DEF Holding

\* An instance dies.
LEMMA Die ==
  ASSUME NEW rp, NEW hd, NEW wr, NEW cl, NEW dd, NEW tr, Holding(rp, hd, wr, cl, dd, tr), NEW died \in SUBSET Insts
  PROVE  Holding(rp, hd, wr, cl, dd \cup died, tr)
<1>1. LivesOwned(rp, hd, wr, cl, dd \cup died, tr)
  BY DEF Holding, LivesOwned
<1>2. Borrowing(hd, cl, dd \cup died)
  BY DEF Holding, Borrowing
<1>3. Living(rp, cl, dd \cup died)
  BY DEF Holding, Living, Lasting
<1>4. Typed(rp, hd, wr, cl, dd \cup died)
  BY DEF Holding, Typed
<1> QED BY <1>1, <1>2, <1>3, <1>4 DEF Holding

-----------------------------------------------------------------------------
(* Calls come, go on and end.                                                  *)

\* A call of a guest's function by the host waits to be started.
LEMMA OpenHost ==
  ASSUME NEW rp, NEW hd, NEW wr, NEW cl, NEW dd, NEW tr, Holding(rp, hd, wr, cl, dd, tr),
         NEW k \in FromHost, cl[k].at = "none",
         \A i \in Insts : \A s \in Spots : hd[i][s].scope # k,
         NEW c \in CallRecords, c.at = "waiting", c.from = Host, c.to \in Insts, c.own = 0, c.borrows = 0,
         c.root = k, ~c.across,
         NEW w2 \in [Wrappers -> WrapperRecords],
         \A v \in Wrappers : /\ w2[v].rep = wr[v].rep /\ w2[v].valid = wr[v].valid /\ w2[v].owns = wr[v].owns
                             /\ w2[v].pending = wr[v].pending /\ w2[v].scope = wr[v].scope,
         \/ c.lent = {} /\ \A v \in Wrappers : w2[v].lends = wr[v].lends
         \/ \E b \in Wrappers :
              /\ Owns(wr[b]) /\ c.lent = {R!Loan(Host, b, 0, wr[b].rep)}
              /\ \A v \in Wrappers : w2[v].lends = wr[v].lends + IF v = b THEN 1 ELSE 0
  PROVE  Holding(rp, hd, w2, [cl EXCEPT ![k] = c], dd, tr)
<1> DEFINE c2 == [cl EXCEPT ![k] = c]
<1>0. k \in CallNumbers /\ k # 0 /\ FromHost \subseteq CallNumbers /\ 0 \notin CallNumbers /\ Host \notin Insts
      /\ 0 \notin RepNumbers /\ IsFiniteSet(CallNumbers)
  BY ResourceAssumption
<1>1. /\ c2 \in [CallNumbers -> CallRecords] /\ cl \in [CallNumbers -> CallRecords]
      /\ \A j \in CallNumbers : c2[j] = IF j = k THEN c ELSE cl[j]
  BY <1>0 DEF Holding, Typed
<1>2. cl[k].lent = {} /\ cl[k].own = 0 /\ cl[k].borrows = 0
  BY <1>0 DEF Holding, Calling
<1>3. \A v \in Wrappers : Owns(w2[v]) <=> Owns(wr[v])
  BY DEF Owns
<1>4. \A l \in c.lent : /\ l.by = Host /\ l.of = 0 /\ l.where \in Wrappers /\ Owns(wr[l.where])
                        /\ wr[l.where].rep = l.rep /\ c.lent = {l}
                        /\ \A v \in Wrappers : w2[v].lends = wr[v].lends + IF v = l.where THEN 1 ELSE 0
  BY DEF R!Loan
<1>41. c.lent = {} => \A v \in Wrappers : w2[v].lends = wr[v].lends
  OBVIOUS
<1> HIDE DEF c2
<1>5. Typed(rp, hd, w2, c2, dd)
  BY <1>1 DEF Holding, Typed
<1>6. \A r, q : r # 0 => (Ownerless(hd, w2, c2, q, r) <=> Ownerless(hd, wr, cl, q, r))
  BY <1>0, <1>1, <1>2, <1>3 DEF Ownerless
<1>7. OwnedOnce(hd, w2, c2, tr)
  BY <1>0, <1>1, <1>2, <1>3 DEF Holding, OwnedOnce
<1>8. OwnedLives(rp, hd, w2, c2, tr)
  BY <1>0, <1>1, <1>2, <1>3 DEF Holding, OwnedLives
<1>9. LivesOwned(rp, hd, w2, c2, dd, tr)
  BY <1>0, <1>6 DEF Holding, LivesOwned
<1>10. \A l \in c.lent : l.rep \in RepNumbers /\ rp[l.rep].at = "alive"
  BY <1>4, <1>0 DEF Holding, OwnedLives, Typed, CallRecords, Loans
<1>11. Born(rp, hd, c2)
  BY <1>1, <1>10 DEF Holding, Born
<1>12. Lending(hd, w2, c2, tr)
  <2>1. \A j \in CallNumbers : \A l \in cl[j].lent : l.rep # 0
    BY <1>0, <1>1 DEF CallRecords, Loans
  <2>2. ASSUME NEW j \in CallNumbers, j # k
        PROVE  /\ \A l, m \in c2[j].lent : l = m
               /\ \A l \in c2[j].lent :
                  /\ l.by = c2[j].from
                  /\ l.by = Host => l.of = 0 /\ l.where \in Wrappers /\ Owns(w2[l.where]) /\ w2[l.where].rep = l.rep
                  /\ l.by # Host /\ l.where # 0 => hd[l.by][l.where].rep = l.rep /\ hd[l.by][l.where].scope = l.of
                  /\ l.by # Host /\ l.where = 0 /\ l.of = 0 => Ownerless(hd, w2, c2, tr, l.rep)
    <3>1. c2[j] = cl[j]
      BY <1>1, <2>2
    <3> QED BY <3>1, <2>1, <1>3, <1>6 DEF Holding, Lending
  <2>3. /\ \A l, m \in c.lent : l = m
        /\ \A l \in c.lent : /\ l.by = Host /\ l.of = 0 /\ l.where \in Wrappers /\ Owns(w2[l.where])
                             /\ w2[l.where].rep = l.rep
    BY <1>3, <1>4
  <2>4. c2[k] = c
    BY <1>0, <1>1
  <2> QED BY <2>2, <2>3, <2>4 DEF Lending
<1>13. Counted(hd, w2, c2)
  <2>1. ASSUME NEW by, NEW where, ~\E l \in c.lent : l.by = by /\ l.where = where
        PROVE  BorrowersIn(c2, by, where) = BorrowersIn(cl, by, where)
    BY <1>0, <1>1, <1>2, <2>1 DEF BorrowersIn
  <2>2. \A i \in Insts : \A s \in Spots : hd[i][s].lends = Cardinality(BorrowersIn(c2, i, s))
    BY <1>0, <1>4, <2>1 DEF Holding, Counted
  <2>3. ASSUME NEW w \in Wrappers, NEW l \in c.lent, l.where = w
        PROVE  w2[w].lends = Cardinality(BorrowersIn(c2, Host, w))
    <3>1. BorrowersIn(c2, Host, w) = BorrowersIn(cl, Host, w) \cup {k} /\ k \notin BorrowersIn(cl, Host, w)
      BY <1>0, <1>1, <1>2, <1>4, <2>3 DEF BorrowersIn
    <3>2. IsFiniteSet(BorrowersIn(cl, Host, w))
      BY <1>0, FS_Subset, BorrowersIn(cl, Host, w) \subseteq CallNumbers DEF BorrowersIn
    <3>3. Cardinality(BorrowersIn(c2, Host, w)) = Cardinality(BorrowersIn(cl, Host, w)) + 1
      BY <3>1, <3>2, FS_AddElement
    <3> QED BY <3>3, <1>4, <2>3 DEF Holding, Counted
  <2>4. ASSUME NEW w \in Wrappers, ~\E l \in c.lent : l.by = Host /\ l.where = w
        PROVE  w2[w].lends = Cardinality(BorrowersIn(c2, Host, w))
    <3>1. w2[w].lends = wr[w].lends
      <4>1. CASE c.lent = {}
        BY <4>1, <1>41
      <4>2. CASE c.lent # {}
        <5>1. PICK l \in c.lent : TRUE
          BY <4>2
        <5>2. w # l.where
          BY <1>4, <2>4
        <5>3. w2[w].lends = wr[w].lends + 0
          BY <1>4, <5>2
        <5> QED BY <5>3 DEF Holding, Typed, WrapperRecords
      <4> QED BY <4>1, <4>2
    <3> QED BY <2>1, <2>4, <3>1 DEF Holding, Counted
  <2>5. \A w \in Wrappers : w2[w].lends = Cardinality(BorrowersIn(c2, Host, w))
    BY <1>4, <2>3, <2>4
  <2> QED BY <2>2, <2>5 DEF Counted
<1>14. Wrapping(w2, c2)
  <2>1. \A w \in Wrappers : wr[w].scope # k
    BY <1>0 DEF Holding, Wrapping
  <2>2. \A w \in Wrappers : wr[w].scope \in CallNumbers \cup {0}
    BY DEF Holding, Typed, WrapperRecords
  <2> QED BY <1>1, <2>1, <2>2 DEF Holding, Wrapping
<1>15. Calling(c2)
  <2>1. ASSUME NEW j \in CallNumbers, j # k
        PROVE  /\ c2[j] = cl[j]
               /\ cl[j].at # "none" /\ j \notin FromHost => cl[j].parent # k /\ cl[j].root # k
    BY <1>0, <1>1, <2>1 DEF Holding, Calling
  <2>2. c2[k] = c
    BY <1>0, <1>1
  <2> QED BY <1>0, <2>1, <2>2 DEF Holding, Calling
<1>16. Borrowing(hd, c2, dd)
  <2>1. \A i \in Insts : \A s \in Spots : hd[i][s].scope \in CallNumbers \cup {0}
    BY DEF Holding, Typed, Handles
  <2> QED BY <1>0, <1>1, <1>2, <2>1 DEF Holding, Borrowing
<1>17. \A j \in CallNumbers : Pure(c2, j) => j # k /\ Pure(cl, j) /\ c2[j] = cl[j]
  <2>1. ASSUME NEW j \in CallNumbers, cl[j].at = "running" PROVE cl[j].root \in CallNumbers \ {k}
    BY <1>0, <2>1 DEF Holding, Calling
  <2> QED BY <1>0, <1>1, <2>1 DEF Pure
<1>18. Resting(hd, c2)
  <2>1. ASSUME NEW j \in CallNumbers, NEW l \in cl[j].lent PROVE l.of \in CallNumbers \cup {0}
    BY <1>1 DEF CallRecords, Loans
  <2>2. \A j \in CallNumbers : cl[j].at = "running" => c2[j] = cl[j]
    BY <1>0, <1>1
  <2> QED BY <1>17, <2>1, <2>2 DEF Holding, Resting
<1>19. Ordered(c2)
  <2>1. \A j \in CallNumbers : c2[j].at = "running" => c2[j] = cl[j]
    BY <1>0, <1>1
  <2> SUFFICES ASSUME NEW S \in SUBSET CallNumbers, S # {},
                      \A j \in S : c2[j].at = "running" /\ j \notin FromHost
               PROVE  \E j \in S : c2[j].parent \notin S /\ (Pure(c2, j) => \A l \in c2[j].lent : l.of \notin S)
    BY DEF Ordered
  <2>2. \A j \in S : c2[j] = cl[j]
    BY <2>1
  <2>3. PICK j \in S : cl[j].parent \notin S /\ (Pure(cl, j) => \A l \in cl[j].lent : l.of \notin S)
    <3>1. \A j \in S : cl[j].at = "running" /\ j \notin FromHost
      BY <2>2
    <3>2. Ordered(cl)
      BY DEF Holding
    <3> QED BY <3>1, <3>2 DEF Ordered
  <2> QED BY <1>17, <2>2, <2>3
<1>20. Living(rp, c2, dd)
  <2> SUFFICES ASSUME NEW j \in CallNumbers, Lasting(c2, dd, j), NEW l \in c2[j].lent
               PROVE rp[l.rep].at = "alive"
    BY DEF Living
  <2>1. CASE j = k
    BY <1>0, <1>1, <1>10, <2>1
  <2>2. CASE j # k
    <3>1. c2[j] = cl[j]
      BY <1>1, <2>2
    <3>2. cl[j].root \in CallNumbers /\ (cl[j].root = k => j = k)
      BY <1>0, <2>2, <3>1 DEF Holding, Calling, Lasting
    <3>3. Lasting(cl, dd, j)
      BY <1>1, <2>2, <3>1, <3>2 DEF Lasting
    <3> QED BY <3>1, <3>3 DEF Holding, Living
  <2> QED BY <2>1, <2>2
<1> QED BY <1>5, <1>7, <1>8, <1>9, <1>11, <1>12, <1>13, <1>14, <1>15, <1>16, <1>18, <1>19, <1>20
     DEF Holding, c2

\* In an activation whose innermost call is the host's own, that is the only one.
LEMMA Innermost ==
  ASSUME NEW rp, NEW hd, NEW wr, NEW cl, NEW dd, NEW tr, Holding(rp, hd, wr, cl, dd, tr),
         NEW k \in FromHost, \A j \in CallNumbers : ~(cl[j].at = "running" /\ cl[j].parent = k)
  PROVE  \A j \in CallNumbers : j # k /\ cl[j].at # "none" => cl[j].root # k
<1> DEFINE S == {j \in CallNumbers : j \notin FromHost /\ cl[j].at = "running" /\ cl[j].root = k}
<1>0. FromHost \subseteq CallNumbers
  BY ResourceAssumption
<1> SUFFICES ASSUME NEW i \in CallNumbers, i # k, cl[i].at # "none", cl[i].root = k PROVE FALSE
  OBVIOUS
<1>1. i \in S
  BY <1>0 DEF Holding, Calling
<1>2. S \in SUBSET CallNumbers /\ S # {} /\ \A j \in S : cl[j].at = "running" /\ j \notin FromHost
  BY <1>1
<1>3. Ordered(cl)
  BY DEF Holding
<1>4. PICK j \in S : cl[j].parent \notin S
  BY <1>2, <1>3, Zenon DEF Ordered
<1>5. /\ cl[j].parent \in CallNumbers /\ cl[cl[j].parent].at = "running" /\ cl[cl[j].parent].root = k
      /\ j \in CallNumbers /\ cl[j].at = "running"
  BY <1>4 DEF Holding, Calling
<1>6. cl[j].parent \in FromHost
  BY <1>4, <1>5
<1>7. cl[j].parent = k
  BY <1>0, <1>5, <1>6 DEF Holding, Calling
<1> QED BY <1>5, <1>7

\* A call of the host starts, fails to start, returns or fails.
LEMMA Progress ==
  ASSUME NEW rp, NEW hd, NEW wr, NEW cl, NEW dd, NEW tr, Holding(rp, hd, wr, cl, dd, tr),
         NEW k \in FromHost, cl[k].own = 0, NEW a,
         \/ cl[k].at = "waiting" /\ a \in {"running", "failed"}
         \/ /\ cl[k].at = "running" /\ (a = "failed" \/ (a = "returned" /\ cl[k].borrows = 0))
            /\ \A j \in CallNumbers : j # k /\ cl[j].at # "none" => cl[j].root # k
  PROVE  Holding(rp, hd, wr, [cl EXCEPT ![k].at = a], dd, tr)
<1> DEFINE c2 == [cl EXCEPT ![k].at = a]
<1>0. k \in CallNumbers /\ k # 0 /\ FromHost \subseteq CallNumbers /\ 0 \notin CallNumbers /\ Host \notin Insts
  BY ResourceAssumption
<1>1. cl \in [CallNumbers -> CallRecords]
  BY DEF Holding, Typed
<1>2. a \in {"running", "failed", "returned"}
  OBVIOUS
<1>3. [cl[k] EXCEPT !.at = a] \in CallRecords
  BY <1>0, <1>1, <1>2 DEF CallRecords
<1>4. c2 \in [CallNumbers -> CallRecords] /\ \A j \in CallNumbers : j # k => c2[j] = cl[j]
  BY <1>1, <1>3
<1>5. \A j \in CallNumbers :
        /\ c2[j].from = cl[j].from /\ c2[j].to = cl[j].to /\ c2[j].lent = cl[j].lent /\ c2[j].own = cl[j].own
        /\ c2[j].borrows = cl[j].borrows /\ c2[j].parent = cl[j].parent /\ c2[j].root = cl[j].root
        /\ c2[j].across = cl[j].across /\ c2[j].at = IF j = k THEN a ELSE cl[j].at
  BY <1>1 DEF CallRecords
<1>6. /\ cl[k].from = Host /\ cl[k].to # Host /\ cl[k].root = k
      /\ \A l \in cl[k].lent : l.of = 0
      /\ cl[k].borrows # 0 => cl[k].at = "running"
      /\ \A j \in CallNumbers : j \notin FromHost /\ cl[j].at # "none" /\ cl[k].at = "waiting" =>
           cl[j].root # k /\ cl[j].parent # k
      /\ \A j \in CallNumbers : j \notin FromHost /\ cl[j].at # "none" /\ cl[j].parent = k => cl[j].root = k
  <2>1. /\ cl[k].from = Host /\ cl[k].to # Host /\ cl[k].root = k
        /\ cl[k].borrows # 0 => cl[k].at = "running"
    BY <1>0 DEF Holding, Calling
  <2>2. \A l \in cl[k].lent : l.of = 0
    BY <1>0, <2>1 DEF Holding, Lending
  <2>3. /\ \A j \in CallNumbers : j \notin FromHost /\ cl[j].at # "none" /\ cl[k].at = "waiting" =>
             cl[j].root # k /\ cl[j].parent # k
        /\ \A j \in CallNumbers : j \notin FromHost /\ cl[j].at # "none" /\ cl[j].parent = k => cl[j].root = k
    BY <1>0, <2>1 DEF Holding, Calling
  <2> QED BY <2>1, <2>2, <2>3
<1> HIDE DEF c2
<1>7. Typed(rp, hd, wr, c2, dd)
  BY <1>4 DEF Holding, Typed
<1>8. \A r, q : Ownerless(hd, wr, c2, q, r) <=> Ownerless(hd, wr, cl, q, r)
  BY <1>5 DEF Ownerless
<1>9. OwnedOnce(hd, wr, c2, tr) /\ OwnedLives(rp, hd, wr, c2, tr)
  BY <1>5 DEF Holding, OwnedOnce, OwnedLives
<1>10. LivesOwned(rp, hd, wr, c2, dd, tr) /\ Born(rp, hd, c2) /\ Lending(hd, wr, c2, tr)
  BY <1>5, <1>8 DEF Holding, LivesOwned, Born, Lending
<1>11. Counted(hd, wr, c2)
  <2>1. \A by, where : BorrowersIn(c2, by, where) = BorrowersIn(cl, by, where)
    BY <1>5 DEF BorrowersIn
  <2> QED BY <2>1 DEF Holding, Counted
<1>12. Wrapping(wr, c2)
  <2>1. \A w \in Wrappers : wr[w].scope \in CallNumbers \cup {0} /\ wr[w].scope # k
    BY <1>0, <1>6 DEF Holding, Typed, WrapperRecords, Wrapping
  <2> QED BY <1>5, <2>1 DEF Holding, Wrapping
<1>13. Calling(c2)
  <2>1. ASSUME NEW j \in CallNumbers, j # k
        PROVE  /\ c2[j] = cl[j]
               /\ cl[j].at # "none" /\ j \notin FromHost => /\ c2[cl[j].parent].at = "running"
                                                            /\ c2[cl[j].root].at = "running"
    BY <1>0, <1>4, <1>5, <1>6, <2>1 DEF Holding, Calling
  <2> QED BY <1>0, <1>2, <1>5, <1>6, <2>1 DEF Holding, Calling
<1>14. Borrowing(hd, c2, dd)
  <2>1. \A i \in Insts : \A s \in Spots : hd[i][s].scope \in CallNumbers \cup {0}
    BY DEF Holding, Typed, Handles
  <2>2. cl[k].at # "none"
    OBVIOUS
  <2>3. \A j \in CallNumbers : (c2[j].at = "none" <=> cl[j].at = "none")
                               /\ (c2[j].borrows = 1 /\ c2[j].at = "running" => cl[j].borrows = 1 /\ cl[j].at = "running")
    BY <1>0, <1>2, <1>5, <1>6, <2>2
  <2> QED BY <1>5, <2>1, <2>3 DEF Holding, Borrowing
<1>15. \A j \in CallNumbers : Pure(c2, j) => j = k \/ Pure(cl, j)
  <2>1. ASSUME NEW j \in CallNumbers, cl[j].at = "running" PROVE cl[j].root \in CallNumbers
    BY <1>0, <2>1 DEF Holding, Calling
  <2> QED BY <1>5, <2>1 DEF Pure
<1>16. Resting(hd, c2)
  <2> SUFFICES ASSUME NEW j \in CallNumbers, Pure(c2, j), NEW l \in c2[j].lent, l.of # 0
               PROVE  /\ c2[l.of].at = "running" /\ c2[l.of].root = c2[j].root /\ c2[l.of].borrows = 1
                      /\ \E m \in c2[l.of].lent : m.rep = l.rep
                      /\ l.where = 0 => \A i \in Insts : \A s \in Spots : hd[i][s].scope # l.of
    BY DEF Resting
  <2>1. l \in cl[j].lent /\ j # k
    BY <1>5, <1>6
  <2>2. l.of \in CallNumbers
    BY <1>1, <2>1 DEF CallRecords, Loans
  <2>3. /\ cl[l.of].at = "running" /\ cl[l.of].root = cl[j].root /\ cl[l.of].borrows = 1
        /\ \E m \in cl[l.of].lent : m.rep = l.rep
        /\ l.where = 0 => \A i \in Insts : \A s \in Spots : hd[i][s].scope # l.of
    BY <1>15, <2>1 DEF Holding, Resting
  <2>4. l.of # k
    BY <2>1, <2>3, <1>6, <1>15 DEF Pure
  <2> QED BY <1>4, <1>5, <2>2, <2>3, <2>4
<1>17. Ordered(c2)
  <2>1. \A S \in SUBSET CallNumbers : \A j \in S : j \notin FromHost => c2[j] = cl[j] /\ (Pure(c2, j) => Pure(cl, j))
    BY <1>4, <1>15
  <2>2. Ordered(cl)
    BY DEF Holding
  <2> SUFFICES ASSUME NEW S \in SUBSET CallNumbers, S # {},
                      \A j \in S : c2[j].at = "running" /\ j \notin FromHost
               PROVE  \E j \in S : c2[j].parent \notin S /\ (Pure(c2, j) => \A l \in c2[j].lent : l.of \notin S)
    BY DEF Ordered
  <2>3. \A j \in S : cl[j].at = "running" /\ j \notin FromHost
    BY <2>1
  <2>4. PICK j \in S : cl[j].parent \notin S /\ (Pure(cl, j) => \A l \in cl[j].lent : l.of \notin S)
    BY <2>2, <2>3 DEF Ordered
  <2> QED BY <2>1, <2>4
<1>18. Living(rp, c2, dd)
  <2>1. ASSUME NEW j \in CallNumbers, cl[j].at \in {"running", "waiting"} PROVE cl[j].root \in CallNumbers
    BY <1>0, <2>1 DEF Holding, Calling
  <2>2. \A j \in CallNumbers : Lasting(c2, dd, j) => Lasting(cl, dd, j)
    BY <1>5, <1>6, <2>1 DEF Lasting
  <2> QED BY <1>5, <2>2 DEF Holding, Living
<1> QED BY <1>7, <1>9, <1>10, <1>11, <1>12, <1>13, <1>14, <1>16, <1>17, <1>18 DEF Holding, c2

\* What a set of calls leaves when these end, with their lends.
Ended(cl, K) == [k \in CallNumbers |-> IF k \in K THEN R!NoCall ELSE cl[k]]

\* How many lends of a handle or wrapper end with them.
Lends(cl, K, by, where) == Cardinality(K \cap BorrowersIn(cl, by, where))

\* The call as there is none, by its fields.
LEMMA NoCallFields ==
  /\ R!NoCall \in CallRecords
  /\ R!NoCall.at = "none" /\ R!NoCall.own = 0 /\ R!NoCall.lent = {} /\ R!NoCall.borrows = 0
  /\ ~R!NoCall.across
<1>1. R!NoCall \in CallRecords
  BY ResourceAssumption DEF R!NoCall, CallRecords
<1> QED BY <1>1 DEF R!NoCall

\* Calls end in which no other that goes on was made, and on whose borrows none rests.
LEMMA Close ==
  ASSUME NEW rp, NEW hd, NEW wr, NEW cl, NEW dd, NEW tr, Holding(rp, hd, wr, cl, dd, tr),
         NEW K \in SUBSET CallNumbers,
         \A k \in K : cl[k].own = 0,
         \A w \in Wrappers : wr[w].scope \notin K,
         \A j \in CallNumbers \ K : cl[j].at # "none" /\ j \notin FromHost =>
           cl[j].root \notin K /\ cl[j].parent \notin K,
         \A j \in CallNumbers \ K : Pure(cl, j) => \A l \in cl[j].lent : l.of \notin K,
         NEW h2 \in [Insts -> [Spots -> Handles]],
         \A i \in Insts : \A s \in Spots :
           /\ h2[i][s].rep = hd[i][s].rep /\ h2[i][s].own = hd[i][s].own /\ h2[i][s].scope = hd[i][s].scope
           /\ h2[i][s].lends = hd[i][s].lends - Lends(cl, K, i, s),
         NEW w2 \in [Wrappers -> WrapperRecords],
         \A w \in Wrappers :
           /\ w2[w].rep = wr[w].rep /\ w2[w].valid = wr[w].valid /\ w2[w].owns = wr[w].owns
           /\ w2[w].pending = wr[w].pending /\ w2[w].scope = wr[w].scope
           /\ w2[w].lends = wr[w].lends - Lends(cl, K, Host, w)
  PROVE  Holding(rp, h2, w2, Ended(cl, K), dd, tr)
<1> DEFINE c2 == Ended(cl, K)
<1>0. FromHost \subseteq CallNumbers /\ 0 \notin CallNumbers /\ Host \notin Insts /\ 0 \notin RepNumbers
      /\ IsFiniteSet(CallNumbers)
  BY ResourceAssumption
<1>1. cl \in [CallNumbers -> CallRecords]
  BY DEF Holding, Typed
<1>2. /\ R!NoCall \in CallRecords
      /\ R!NoCall.at = "none" /\ R!NoCall.own = 0 /\ R!NoCall.lent = {} /\ R!NoCall.borrows = 0
  BY NoCallFields
<1>3. c2 \in [CallNumbers -> CallRecords] /\ \A j \in CallNumbers : c2[j] = IF j \in K THEN R!NoCall ELSE cl[j]
  BY <1>1, <1>2 DEF Ended
<1> HIDE DEF c2
<1>4. \A w \in Wrappers : Owns(w2[w]) <=> Owns(wr[w])
  BY DEF Owns
<1>5. \A j \in CallNumbers : c2[j].own = cl[j].own
  BY <1>2, <1>3
<1>6. \A j \in CallNumbers : c2[j].at # "none" => j \notin K /\ c2[j] = cl[j]
  BY <1>2, <1>3
<1>7. \A j \in CallNumbers : \A l \in c2[j].lent : l \in cl[j].lent /\ j \notin K /\ c2[j] = cl[j]
  BY <1>2, <1>3
<1>8. Typed(rp, h2, w2, c2, dd)
  BY <1>3 DEF Holding, Typed
<1>9. \A by, where : /\ BorrowersIn(c2, by, where) = BorrowersIn(cl, by, where) \ K
                     /\ Cardinality(BorrowersIn(c2, by, where))
                        = Cardinality(BorrowersIn(cl, by, where)) - Lends(cl, K, by, where)
                     /\ BorrowersIn(cl, by, where) = {} => Lends(cl, K, by, where) = 0
  <2> SUFFICES ASSUME NEW by, NEW where
               PROVE  /\ BorrowersIn(c2, by, where) = BorrowersIn(cl, by, where) \ K
                      /\ Cardinality(BorrowersIn(c2, by, where))
                         = Cardinality(BorrowersIn(cl, by, where)) - Lends(cl, K, by, where)
                      /\ BorrowersIn(cl, by, where) = {} => Lends(cl, K, by, where) = 0
    OBVIOUS
  <2> DEFINE B == BorrowersIn(cl, by, where)
  <2>1. BorrowersIn(c2, by, where) = B \ K
    BY <1>2, <1>3 DEF BorrowersIn
  <2>2. IsFiniteSet(B)
    BY <1>0, FS_Subset, B \subseteq CallNumbers DEF BorrowersIn
  <2>3. Cardinality(B \ K) = Cardinality(B) - Cardinality(B \cap K)
    BY <2>2, FS_Difference
  <2>4. B \cap K = K \cap B /\ (B = {} => K \cap B = {})
    OBVIOUS
  <2>5. Cardinality({}) = 0
    BY FS_EmptySet
  <2> QED BY <2>1, <2>3, <2>4, <2>5 DEF Lends
<1>10. Kinds2(h2)
  <2>1. ASSUME NEW i \in Insts, NEW s \in Spots, h2[i][s].rep = 0 PROVE h2[i][s].lends = 0
    <3>1. hd[i][s].lends = 0
      BY <2>1 DEF Holding, Kinds2
    <3>2. BorrowersIn(cl, i, s) = {}
      BY <3>1, Unlent DEF BorrowersIn
    <3> QED BY <3>1, <3>2, <1>9
  <2> QED BY <2>1 DEF Holding, Kinds2
<1>11. \A q, r : Ownerless(h2, w2, c2, q, r) <=> Ownerless(hd, wr, cl, q, r)
  BY <1>4, <1>5 DEF Ownerless
<1>12. OwnedOnce(h2, w2, c2, tr)
  <2>0. OwnedOnce(hd, wr, cl, tr)
    BY DEF Holding
  <2>1. ASSUME NEW i \in Insts, NEW j \in Insts, NEW s \in Spots, NEW t \in Spots,
               h2[i][s].own, h2[j][t].own, h2[i][s].rep = h2[j][t].rep
        PROVE  i = j /\ s = t
    <3>1. hd[i][s].own /\ hd[j][t].own /\ hd[i][s].rep = hd[j][t].rep
      BY <2>1
    <3> QED BY <2>0, <3>1 DEF OwnedOnce
  <2>2. \A v, w \in Wrappers : Owns(w2[v]) /\ Owns(w2[w]) /\ w2[v].rep = w2[w].rep => v = w
    BY <1>4, <2>0 DEF OwnedOnce
  <2>3. \A i \in Insts : \A s \in Spots : h2[i][s].own =>
          /\ \A w \in Wrappers : Owns(w2[w]) => w2[w].rep # h2[i][s].rep
          /\ \A k \in CallNumbers : c2[k].own # h2[i][s].rep
          /\ tr # h2[i][s].rep
    BY <1>4, <1>5, <2>0 DEF OwnedOnce
  <2>4. /\ \A w \in Wrappers : Owns(w2[w]) => (\A k \in CallNumbers : c2[k].own # w2[w].rep) /\ tr # w2[w].rep
        /\ tr # 0 => \A k \in CallNumbers : c2[k].own # tr
        /\ \A j, k \in CallNumbers : c2[j].own # 0 /\ c2[j].own = c2[k].own => j = k
    BY <1>4, <1>5, <2>0 DEF OwnedOnce
  <2> QED BY <2>1, <2>2, <2>3, <2>4 DEF OwnedOnce
<1>13. OwnedLives(rp, h2, w2, c2, tr) /\ LivesOwned(rp, h2, w2, c2, dd, tr)
  BY <1>4, <1>5, <1>11 DEF Holding, OwnedLives, LivesOwned
<1>14. Born(rp, h2, c2)
  BY <1>7 DEF Holding, Born
<1>15. Lending(h2, w2, c2, tr)
  <2>1. \A j \in CallNumbers : \A l \in cl[j].lent :
          /\ l.by # Host => l.by \in Insts
          /\ l.where # 0 => l.where \in Spots
    BY <1>1 DEF CallRecords, Loans, Spots
  <2> QED BY <1>4, <1>7, <1>11, <2>1 DEF Holding, Lending
<1>16. Counted(h2, w2, c2)
  BY <1>9 DEF Holding, Counted
<1>17. Wrapping(w2, c2)
  <2>1. ASSUME NEW w \in Wrappers, wr[w].scope # 0 PROVE wr[w].scope \in CallNumbers \ K
    BY <2>1 DEF Holding, Typed, WrapperRecords
  <2> QED BY <1>3, <2>1 DEF Holding, Wrapping
<1>18. Calling(c2)
  <2>1. ASSUME NEW j \in CallNumbers, j \notin K
        PROVE  /\ c2[j] = cl[j]
               /\ cl[j].at # "none" /\ j \notin FromHost => /\ c2[cl[j].parent] = cl[cl[j].parent]
                                                            /\ c2[cl[j].root] = cl[cl[j].root]
    BY <1>0, <1>3, <2>1 DEF Holding, Calling
  <2>2. \A j \in K : c2[j] = R!NoCall
    BY <1>3
  <2> QED BY <1>2, <2>1, <2>2 DEF Holding, Calling
<1>19. Borrowing(h2, c2, dd)
  <2>1. \A i \in Insts : \A s \in Spots : hd[i][s].scope \in CallNumbers \cup {0}
    BY DEF Holding, Typed, Handles
  <2>0. Borrowing(hd, cl, dd)
    BY DEF Holding
  <2>2. \A i, j \in Insts : \A s, t \in Spots :
          h2[i][s].scope # 0 /\ h2[i][s].scope = h2[j][t].scope => i = j /\ s = t
    BY SMTT(30), <2>0 DEF Borrowing
  <2>3. ASSUME NEW i \in Insts, NEW s \in Spots, h2[i][s].scope # 0, c2[h2[i][s].scope].at # "none"
        PROVE  c2[h2[i][s].scope].borrows = 1 /\ \E l \in c2[h2[i][s].scope].lent : l.rep = h2[i][s].rep
    BY <1>6, <2>0, <2>1, <2>3 DEF Borrowing
  <2>4. ASSUME dd = {}, NEW k \in CallNumbers, c2[k].borrows = 1, c2[k].at = "running"
        PROVE  \E i \in Insts : \E s \in Spots : h2[i][s].scope = k
    <3>1. cl[k].borrows = 1 /\ cl[k].at = "running"
      BY <1>6, <2>4
    <3>2. PICK i \in Insts, s \in Spots : hd[i][s].scope = k
      BY <2>0, <2>4, <3>1 DEF Borrowing
    <3> QED BY <3>2
  <2> QED BY <2>2, <2>3, <2>4 DEF Borrowing
<1>20. \A j \in CallNumbers : Pure(c2, j) => j \notin K /\ Pure(cl, j) /\ c2[j] = cl[j]
  <2>1. ASSUME NEW j \in CallNumbers, Pure(c2, j) PROVE Pure(cl, j)
    <3>1. j \notin K /\ c2[j] = cl[j] /\ cl[j].at = "running"
      BY <1>6, <2>1 DEF Pure
    <3>2. cl[j].root \in CallNumbers /\ (cl[j].root \notin K \/ cl[j].root = j)
      BY <1>0, <3>1 DEF Holding, Calling
    <3> QED BY <1>3, <2>1, <3>1, <3>2 DEF Pure
  <2> QED BY <1>6, <2>1 DEF Pure
<1>21. Resting(h2, c2)
  <2>1. ASSUME NEW j \in CallNumbers, NEW l \in cl[j].lent PROVE l.of \in CallNumbers \cup {0}
    BY <1>1 DEF CallRecords, Loans
  <2> QED BY <1>3, <1>20, <2>1 DEF Holding, Resting
<1>22. Ordered(c2)
  <2> SUFFICES ASSUME NEW S \in SUBSET CallNumbers, S # {},
                      \A j \in S : c2[j].at = "running" /\ j \notin FromHost
               PROVE  \E j \in S : c2[j].parent \notin S /\ (Pure(c2, j) => \A l \in c2[j].lent : l.of \notin S)
    BY DEF Ordered
  <2>1. \A j \in S : c2[j] = cl[j] /\ cl[j].at = "running" /\ j \notin FromHost
    BY <1>6
  <2>2. Ordered(cl)
    BY DEF Holding
  <2>3. PICK j \in S : cl[j].parent \notin S /\ (Pure(cl, j) => \A l \in cl[j].lent : l.of \notin S)
    BY <2>1, <2>2 DEF Ordered
  <2> QED BY <1>20, <2>1, <2>3
<1>23. Living(rp, c2, dd)
  <2> SUFFICES ASSUME NEW j \in CallNumbers, Lasting(c2, dd, j), NEW l \in c2[j].lent
               PROVE rp[l.rep].at = "alive"
    BY DEF Living
  <2>1. j \notin K /\ c2[j] = cl[j] /\ cl[j].at \in {"waiting", "running"}
    BY <1>6 DEF Lasting
  <2>2. cl[j].root \in CallNumbers /\ (cl[j].root \notin K \/ cl[j].root = j)
    BY <1>0, <2>1 DEF Holding, Calling
  <2>3. Lasting(cl, dd, j)
    BY <1>3, <2>1, <2>2 DEF Lasting
  <2> QED BY <2>1, <2>3 DEF Holding, Living
<1> QED BY <1>8, <1>10, <1>12, <1>13, <1>14, <1>15, <1>16, <1>17, <1>18, <1>19, <1>21, <1>22, <1>23
     DEF Holding, c2

-----------------------------------------------------------------------------
(* Calls of guests, and what they lend.                                        *)

\* A guest's call j, as c, is made in k, which lends what it has at one place or nothing, and which
\* makes its activation one that crosses another when that is a borrow of another activation.
Opens(hd, h2, cl, c2, k, j, c) ==
  /\ k \in CallNumbers /\ cl[k].at = "running" /\ cl[k].to # Host
  /\ j \in CallNumbers \ FromHost /\ cl[j].at = "none"
  /\ \A i \in Insts : \A s \in Spots : hd[i][s].scope # j
  /\ c \in CallRecords /\ c.at = "running" /\ c.from = cl[k].to /\ c.own = 0 /\ c.borrows = 0
  /\ c.parent = k /\ c.root = cl[k].root
  /\ h2 \in [Insts -> [Spots -> Handles]]
  /\ \A i \in Insts : \A s \in Spots :
       h2[i][s].rep = hd[i][s].rep /\ h2[i][s].own = hd[i][s].own /\ h2[i][s].scope = hd[i][s].scope
  /\ \/ c.lent = {} /\ \A i \in Insts : \A s \in Spots : h2[i][s].lends = hd[i][s].lends
     \/ \E b \in Spots :
          /\ hd[c.from][b].rep # 0 /\ c.lent = {R!Loan(c.from, b, hd[c.from][b].scope, hd[c.from][b].rep)}
          /\ \A i \in Insts : \A s \in Spots :
               h2[i][s].lends = hd[i][s].lends + IF i = c.from /\ s = b THEN 1 ELSE 0
  /\ c2 \in [CallNumbers -> CallRecords] /\ c2[j] = c
  /\ \A n \in CallNumbers \ {j} :
       /\ c2[n].at = cl[n].at /\ c2[n].from = cl[n].from /\ c2[n].to = cl[n].to /\ c2[n].lent = cl[n].lent
       /\ c2[n].own = cl[n].own /\ c2[n].borrows = cl[n].borrows
       /\ c2[n].parent = cl[n].parent /\ c2[n].root = cl[n].root
       /\ n # cl[k].root => c2[n] = cl[n]
  /\ cl[cl[k].root].across => c2[cl[k].root].across
  /\ ~c2[cl[k].root].across =>
       \A l \in c.lent : l.of # 0 => cl[l.of].at = "running" /\ cl[l.of].root = cl[k].root

\* Then the call is there, with its loan.
LEMMA OpenGuest ==
  ASSUME NEW rp, NEW hd, NEW wr, NEW cl, NEW dd, NEW tr, Holding(rp, hd, wr, cl, dd, tr),
         NEW h2, NEW c2, NEW k, NEW j, NEW c, Opens(hd, h2, cl, c2, k, j, c)
  PROVE  Holding(rp, h2, wr, c2, dd, tr)
<1> DEFINE q == cl[k].root  x == c2[cl[k].root].across
<1>a1. k \in CallNumbers /\ cl[k].at = "running" /\ cl[k].to # Host
  BY DEF Opens
<1>a2. j \in CallNumbers \ FromHost /\ cl[j].at = "none"
  BY DEF Opens
<1>a3. \A i \in Insts : \A s \in Spots : hd[i][s].scope # j
  BY DEF Opens
<1>a4. c \in CallRecords /\ c.at = "running" /\ c.from = cl[k].to /\ c.own = 0 /\ c.borrows = 0
  BY DEF Opens
<1>a5. c.parent = k /\ c.root = cl[k].root
  BY DEF Opens
<1>a6. h2 \in [Insts -> [Spots -> Handles]]
  BY DEF Opens
<1>a7. \A i \in Insts : \A s \in Spots :
         h2[i][s].rep = hd[i][s].rep /\ h2[i][s].own = hd[i][s].own /\ h2[i][s].scope = hd[i][s].scope
  BY DEF Opens
<1>a8. \/ c.lent = {} /\ \A i \in Insts : \A s \in Spots : h2[i][s].lends = hd[i][s].lends
       \/ \E b \in Spots :
            /\ hd[c.from][b].rep # 0 /\ c.lent = {R!Loan(c.from, b, hd[c.from][b].scope, hd[c.from][b].rep)}
            /\ \A i \in Insts : \A s \in Spots :
                 h2[i][s].lends = hd[i][s].lends + IF i = c.from /\ s = b THEN 1 ELSE 0
  BY DEF Opens
<1>a9. c2 \in [CallNumbers -> CallRecords] /\ c2[j] = c
  BY DEF Opens
<1>a10. \A n \in CallNumbers \ {j} :
          /\ c2[n].at = cl[n].at /\ c2[n].from = cl[n].from /\ c2[n].to = cl[n].to /\ c2[n].lent = cl[n].lent
          /\ c2[n].own = cl[n].own /\ c2[n].borrows = cl[n].borrows
          /\ c2[n].parent = cl[n].parent /\ c2[n].root = cl[n].root
          /\ n # cl[k].root => c2[n] = cl[n]
  BY DEF Opens
<1>a11. cl[cl[k].root].across => x
  BY DEF Opens
<1>a12. ~x =>
          \A l \in c.lent : l.of # 0 => cl[l.of].at = "running" /\ cl[l.of].root = cl[k].root
  BY DEF Opens
<1> HIDE DEF x
<1> USE <1>a1, <1>a2, <1>a3, <1>a4, <1>a5, <1>a6, <1>a7, <1>a8, <1>a11, <1>a12
<1>0. FromHost \subseteq CallNumbers /\ 0 \notin CallNumbers /\ Host \notin Insts /\ 0 \notin RepNumbers
      /\ IsFiniteSet(CallNumbers)
  BY ResourceAssumption
<1>1. cl \in [CallNumbers -> CallRecords]
  BY DEF Holding, Typed
<1>2. q \in FromHost /\ cl[q].at = "running" /\ cl[q].root = q /\ q # j /\ k # j /\ c.from \in Insts
  <2>1. q \in FromHost /\ cl[q].at = "running" /\ cl[q].root = q
    BY <1>0 DEF Holding, Calling
  <2> QED BY <1>1, <2>1 DEF CallRecords
<1>4. c2 \in [CallNumbers -> CallRecords]
  BY <1>a9
<1>5. /\ c2[j] = c
      /\ \A n \in CallNumbers : n # j =>
           /\ c2[n].at = cl[n].at /\ c2[n].from = cl[n].from /\ c2[n].to = cl[n].to /\ c2[n].lent = cl[n].lent
           /\ c2[n].own = cl[n].own /\ c2[n].borrows = cl[n].borrows
           /\ c2[n].parent = cl[n].parent /\ c2[n].root = cl[n].root
           /\ c2[n].across = IF n = q THEN x ELSE cl[n].across
  BY <1>a9, <1>a10 DEF x
<1>6. \A n \in CallNumbers : n # j /\ n # q => c2[n] = cl[n]
  BY <1>a10
<1>7. cl[j].lent = {} /\ cl[j].own = 0 /\ cl[j].borrows = 0
  BY <1>0 DEF Holding, Calling
<1>8. \A l \in c.lent : /\ l.by = c.from /\ l.where \in Spots /\ l.of = hd[c.from][l.where].scope
                        /\ l.rep = hd[c.from][l.where].rep /\ l.rep # 0 /\ c.lent = {l}
                        /\ \A i \in Insts : \A s \in Spots :
                             h2[i][s].lends = hd[i][s].lends + IF i = c.from /\ s = l.where THEN 1 ELSE 0
  BY DEF R!Loan
<1>9. c.lent = {} => \A i \in Insts : \A s \in Spots : h2[i][s].lends = hd[i][s].lends
  OBVIOUS
<1> HIDE DEF q
<1>10. \A n \in CallNumbers : c2[n].own = cl[n].own
  BY <1>5, <1>7
<1>11. Typed(rp, h2, wr, c2, dd)
  BY <1>4 DEF Holding, Typed
<1>12. Kinds2(h2)
  <2>1. ASSUME NEW i \in Insts, NEW s \in Spots, hd[i][s].rep = 0 PROVE h2[i][s].lends = 0
    <3>1. hd[i][s].lends = 0
      BY <2>1 DEF Holding, Kinds2
    <3>2. CASE c.lent = {}
      BY <1>9, <3>1, <3>2
    <3>3. CASE c.lent # {}
      <4>1. PICK l \in c.lent : TRUE
        BY <3>3
      <4>2. ~(i = c.from /\ s = l.where)
        BY <1>8, <2>1
      <4> QED BY <1>8, <3>1, <4>2
    <3> QED BY <3>2, <3>3
  <2> QED BY <2>1 DEF Holding, Kinds2
<1>13. \A u, r : Ownerless(h2, wr, c2, u, r) <=> Ownerless(hd, wr, cl, u, r)
  <2> SUFFICES ASSUME NEW u, NEW r PROVE Ownerless(h2, wr, c2, u, r) <=> Ownerless(hd, wr, cl, u, r)
    OBVIOUS
  <2>1. Ownerless(h2, wr, c2, u, r) => Ownerless(hd, wr, cl, u, r)
    BY <1>10 DEF Ownerless
  <2>2. Ownerless(hd, wr, cl, u, r) => Ownerless(h2, wr, c2, u, r)
    BY <1>10 DEF Ownerless
  <2> QED BY <2>1, <2>2
<1>14. OwnedOnce(h2, wr, c2, tr)
  <2>0. OwnedOnce(hd, wr, cl, tr)
    BY DEF Holding
  <2>1. ASSUME NEW i \in Insts, NEW n \in Insts, NEW s \in Spots, NEW t \in Spots,
               h2[i][s].own, h2[n][t].own, h2[i][s].rep = h2[n][t].rep
        PROVE  i = n /\ s = t
    <3>1. hd[i][s].own /\ hd[n][t].own /\ hd[i][s].rep = hd[n][t].rep
      BY <2>1
    <3> QED BY <2>0, <3>1 DEF OwnedOnce
  <2>2. ASSUME NEW i \in Insts, NEW s \in Spots, h2[i][s].own
        PROVE  /\ \A w \in Wrappers : Owns(wr[w]) => wr[w].rep # h2[i][s].rep
               /\ \A n \in CallNumbers : c2[n].own # h2[i][s].rep
               /\ tr # h2[i][s].rep
    <3>1. hd[i][s].own /\ hd[i][s].rep = h2[i][s].rep
      BY <2>2
    <3> QED BY <1>10, <2>0, <3>1 DEF OwnedOnce
  <2>3. /\ \A w \in Wrappers : Owns(wr[w]) => (\A n \in CallNumbers : c2[n].own # wr[w].rep) /\ tr # wr[w].rep
        /\ tr # 0 => \A n \in CallNumbers : c2[n].own # tr
        /\ \A m, n \in CallNumbers : c2[m].own # 0 /\ c2[m].own = c2[n].own => m = n
        /\ \A v, w \in Wrappers : Owns(wr[v]) /\ Owns(wr[w]) /\ wr[v].rep = wr[w].rep => v = w
    BY <1>10, <2>0 DEF OwnedOnce
  <2> QED BY <2>1, <2>2, <2>3 DEF OwnedOnce
<1>15. OwnedLives(rp, h2, wr, c2, tr) /\ LivesOwned(rp, h2, wr, c2, dd, tr)
  <2>1. OwnedLives(rp, h2, wr, c2, tr)
    BY <1>10 DEF Holding, OwnedLives
  <2>2. LivesOwned(rp, h2, wr, c2, dd, tr)
    BY <1>13 DEF Holding, LivesOwned
  <2> QED BY <2>1, <2>2
<1>16. \A n \in CallNumbers : n # j => c2[n].lent = cl[n].lent
  BY <1>5
<1>17. Born(rp, h2, c2)
  <2>0. Born(rp, hd, cl)
    BY DEF Holding
  <2> HIDE <1>a4, <1>a6, <1>a8, <1>a11, <1>a12
  <2>1. \A i \in Insts : \A s \in Spots : h2[i][s].rep # 0 => rp[h2[i][s].rep].at # "unborn"
    BY <2>0 DEF Born
  <2>2. ASSUME NEW n \in CallNumbers, n # j, NEW l \in c2[n].lent
        PROVE  rp[l.rep].at # "unborn"
    <3>1. l \in cl[n].lent
      BY <1>16, <2>2
    <3> QED BY <2>0, <3>1 DEF Born
  <2>3. ASSUME NEW l \in c2[j].lent
        PROVE  rp[l.rep].at # "unborn"
    <3>1. l \in c.lent
      BY <1>5, <2>3
    <3>2. l.where \in Spots /\ l.rep = hd[c.from][l.where].rep /\ l.rep # 0
      BY <1>8, <3>1
    <3>3. c.from \in Insts
      BY <1>2
    <3> QED BY <2>0, <3>2, <3>3 DEF Born
  <2> QED BY <2>1, <2>2, <2>3 DEF Born
<1>18. Lending(h2, wr, c2, tr)
  <2>1. \A n \in CallNumbers : \A l \in cl[n].lent :
          /\ l.by # Host => l.by \in Insts
          /\ l.where # 0 => l.where \in Spots
    BY <1>1 DEF CallRecords, Loans, Spots
  <2>2. ASSUME NEW n \in CallNumbers, n # j
        PROVE  /\ \A l, m \in c2[n].lent : l = m
               /\ \A l \in c2[n].lent :
                  /\ l.by = c2[n].from
                  /\ l.by = Host => l.of = 0 /\ l.where \in Wrappers /\ Owns(wr[l.where]) /\ wr[l.where].rep = l.rep
                  /\ l.by # Host /\ l.where # 0 => h2[l.by][l.where].rep = l.rep /\ h2[l.by][l.where].scope = l.of
                  /\ l.by # Host /\ l.where = 0 /\ l.of = 0 => Ownerless(h2, wr, c2, tr, l.rep)
    <3>1. c2[n].lent = cl[n].lent /\ c2[n].from = cl[n].from
      BY <1>5, <2>2
    <3> QED BY <3>1, <2>1, <1>13 DEF Holding, Lending
  <2>3. /\ \A l, m \in c.lent : l = m
        /\ \A l \in c.lent : /\ l.by = c.from /\ l.by # Host /\ l.where # 0
                             /\ h2[l.by][l.where].rep = l.rep /\ h2[l.by][l.where].scope = l.of
    <3> HIDE <1>a4, <1>a6, <1>a8, <1>a11, <1>a12
    <3>1. \A l, m \in c.lent : l = m
      BY <1>8
    <3>2. ASSUME NEW l \in c.lent
          PROVE  /\ l.by = c.from /\ l.by # Host /\ l.where # 0
                 /\ h2[l.by][l.where].rep = l.rep /\ h2[l.by][l.where].scope = l.of
      <4>1. /\ l.by = c.from /\ l.where \in Spots /\ l.of = hd[c.from][l.where].scope
            /\ l.rep = hd[c.from][l.where].rep
        BY <1>8, <3>2
      <4>2. l.by # Host /\ l.where # 0
        BY <1>0, <1>2, <4>1 DEF Spots
      <4>3. h2[c.from][l.where].rep = hd[c.from][l.where].rep /\ h2[c.from][l.where].scope = hd[c.from][l.where].scope
        BY <1>2, <4>1
      <4> QED BY <4>1, <4>2, <4>3
    <3> QED BY <3>1, <3>2
  <2> HIDE <1>a4, <1>a6, <1>a7, <1>a8, <1>a11, <1>a12
  <2>4. c2[j].lent = c.lent /\ c2[j].from = c.from
    BY <1>5
  <2> QED BY <2>2, <2>3, <2>4 DEF Lending
<1>19. Counted(h2, wr, c2)
  <2>1. ASSUME NEW by, NEW where, ~\E l \in c.lent : l.by = by /\ l.where = where
        PROVE  BorrowersIn(c2, by, where) = BorrowersIn(cl, by, where)
    BY <1>5, <1>7, <1>16, <2>1 DEF BorrowersIn
  <2>2. \A w \in Wrappers : wr[w].lends = Cardinality(BorrowersIn(c2, Host, w))
    BY <1>0, <1>2, <1>8, <2>1 DEF Holding, Counted
  <2>3. ASSUME NEW i \in Insts, NEW s \in Spots, NEW l \in c.lent, l.by = i, l.where = s
        PROVE  h2[i][s].lends = Cardinality(BorrowersIn(c2, i, s))
    <3>1. BorrowersIn(c2, i, s) = BorrowersIn(cl, i, s) \cup {j} /\ j \notin BorrowersIn(cl, i, s)
      BY <1>5, <1>7, <1>16, <2>3 DEF BorrowersIn
    <3>2. IsFiniteSet(BorrowersIn(cl, i, s))
      BY <1>0, FS_Subset, BorrowersIn(cl, i, s) \subseteq CallNumbers DEF BorrowersIn
    <3>3. Cardinality(BorrowersIn(c2, i, s)) = Cardinality(BorrowersIn(cl, i, s)) + 1
      BY ZenonT(60), <3>1, <3>2, FS_AddElement
    <3>4. h2[i][s].lends = hd[i][s].lends + 1
      BY <1>8, <2>3
    <3> QED BY <3>3, <3>4 DEF Holding, Counted
  <2>4. ASSUME NEW i \in Insts, NEW s \in Spots, ~\E l \in c.lent : l.by = i /\ l.where = s
        PROVE  h2[i][s].lends = Cardinality(BorrowersIn(c2, i, s))
    <3>1. h2[i][s].lends = hd[i][s].lends
      <4>1. CASE c.lent = {}
        BY <4>1, <1>9
      <4>2. CASE c.lent # {}
        <5>1. PICK l \in c.lent : TRUE
          BY <4>2
        <5>2. ~(i = c.from /\ s = l.where)
          BY <1>8, <2>4
        <5>3. h2[i][s].lends = hd[i][s].lends + 0
          BY <1>8, <5>2
        <5> QED BY <5>3 DEF Holding, Typed, Handles
      <4> QED BY <4>1, <4>2
    <3> QED BY <2>1, <2>4, <3>1 DEF Holding, Counted
  <2>5. \A i \in Insts : \A s \in Spots : h2[i][s].lends = Cardinality(BorrowersIn(c2, i, s))
    BY <2>3, <2>4
  <2> QED BY <2>2, <2>5 DEF Counted
<1>20. Wrapping(wr, c2)
  <2>1. ASSUME NEW w \in Wrappers, wr[w].scope # 0 PROVE wr[w].scope \in CallNumbers \ {j}
    BY <2>1 DEF Holding, Typed, WrapperRecords, Wrapping
  <2> QED BY <1>5, <2>1 DEF Holding, Wrapping
<1>21. Calling(c2)
  <2>1. ASSUME NEW n \in CallNumbers, n # j
        PROVE  /\ cl[n].at = "none" => n # q
               /\ cl[n].at # "none" /\ n \notin FromHost =>
                    cl[n].parent # j /\ cl[n].parent \in CallNumbers /\ cl[n].root # j /\ cl[n].root \in FromHost
    BY <1>0, <1>2, <2>1 DEF Holding, Calling
  <2>2. ASSUME NEW n \in CallNumbers, n # j, n \in FromHost
        PROVE  /\ c2[n].at = "none" => c2[n].lent = {}
               /\ c2[n].at # "none" => c2[n].from = Host /\ c2[n].to # Host /\ c2[n].root = n
               /\ c2[n].own # 0 => c2[n].at \in {"waiting", "returned"}
               /\ c2[n].borrows # 0 => c2[n].at \in {"running", "failed"} /\ c2[n].to # Host
    BY <1>5, <1>6, <2>1, <2>2 DEF Holding, Calling
  <2>3. ASSUME NEW n \in CallNumbers, n # j, n \notin FromHost
        PROVE  /\ c2[n].at = "none" => c2[n].lent = {}
               /\ c2[n].at # "none" =>
                    /\ c2[n].at = "running" /\ c2[n].from # Host
                    /\ c2[n].parent \in CallNumbers /\ c2[c2[n].parent].at = "running"
                    /\ c2[c2[n].parent].to # Host
                    /\ c2[c2[n].parent].root = c2[n].root
                    /\ c2[n].root \in FromHost /\ c2[c2[n].root].at = "running"
               /\ c2[n].own # 0 => c2[n].at \in {"waiting", "returned"}
               /\ c2[n].borrows # 0 => c2[n].at \in {"running", "failed"} /\ c2[n].to # Host
    <3>1. c2[n] = cl[n]
      BY <1>2, <1>6, <2>3
    <3> QED BY <1>0, <1>5, <2>1, <2>3, <3>1 DEF Holding, Calling
  <2>4. /\ c.at = "running" /\ c.from # Host /\ c.parent \in CallNumbers
        /\ c2[k].at = "running" /\ c2[k].to # Host /\ c2[k].root = c.root
        /\ c.root \in FromHost /\ c2[c.root].at = "running"
    BY <1>0, <1>2, <1>5 DEF q
  <2> QED BY <1>5, <2>2, <2>3, <2>4 DEF Calling
<1>22. Borrowing(h2, c2, dd)
  <2>0. Borrowing(hd, cl, dd)
    BY DEF Holding
  <2>1. \A i \in Insts : \A s \in Spots : hd[i][s].scope \in CallNumbers \cup {0}
    BY DEF Holding, Typed, Handles
  <2>2. \A i, n \in Insts : \A s, t \in Spots :
          h2[i][s].scope # 0 /\ h2[i][s].scope = h2[n][t].scope => i = n /\ s = t
    BY <2>0 DEF Borrowing
  <2>3. ASSUME NEW i \in Insts, NEW s \in Spots, h2[i][s].scope # 0, c2[h2[i][s].scope].at # "none"
        PROVE  c2[h2[i][s].scope].borrows = 1 /\ \E l \in c2[h2[i][s].scope].lent : l.rep = h2[i][s].rep
    <3>1. h2[i][s].scope = hd[i][s].scope /\ h2[i][s].rep = hd[i][s].rep /\ hd[i][s].scope \in CallNumbers \ {j}
      BY <2>1, <2>3
    <3>2. /\ c2[hd[i][s].scope].at = cl[hd[i][s].scope].at
          /\ c2[hd[i][s].scope].borrows = cl[hd[i][s].scope].borrows
          /\ c2[hd[i][s].scope].lent = cl[hd[i][s].scope].lent
      BY <1>5, <3>1
    <3>3. hd[i][s].scope # 0 /\ cl[hd[i][s].scope].at # "none"
      BY <2>3, <3>1, <3>2
    <3>4. /\ cl[hd[i][s].scope].borrows = 1
          /\ \E l \in cl[hd[i][s].scope].lent : l.rep = hd[i][s].rep
      BY <2>0, <3>3 DEF Borrowing
    <3> QED BY <3>1, <3>2, <3>4
  <2>4. ASSUME dd = {}, NEW n \in CallNumbers, c2[n].borrows = 1, c2[n].at = "running"
        PROVE  \E i \in Insts : \E s \in Spots : h2[i][s].scope = n
    <3>1. cl[n].borrows = 1 /\ cl[n].at = "running"
      BY <1>5, <2>4
    <3>2. PICK i \in Insts, s \in Spots : hd[i][s].scope = n
      BY <2>0, <2>4, <3>1 DEF Borrowing
    <3> QED BY <3>2
  <2> HIDE <1>a4, <1>a6, <1>a7, <1>a8, <1>a11, <1>a12
  <2> QED BY <2>2, <2>3, <2>4 DEF Borrowing
<1>23. \A n \in CallNumbers : n # j /\ Pure(c2, n) => Pure(cl, n)
  <2>1. ASSUME NEW n \in CallNumbers, cl[n].at = "running" PROVE cl[n].root \in CallNumbers \ {j}
    BY <1>0, <2>1 DEF Holding, Calling
  <2> QED BY <1>2, <1>5, <2>1 DEF Pure, q
<1>24. Pure(c2, j) => ~x /\ ~cl[q].across
  BY <1>0, <1>2, <1>5 DEF Pure, q
<1>25. \A n \in CallNumbers : n # j /\ Pure(cl, n) => \A l \in cl[n].lent : l.of # j
  BY <1>0 DEF Holding, Resting
<1>26. Resting(h2, c2)
  <2>0. Borrowing(hd, cl, dd)
    BY DEF Holding
  <2>1. ASSUME NEW n \in CallNumbers, n # j, Pure(c2, n), NEW l \in c2[n].lent, l.of # 0
        PROVE  /\ c2[l.of].at = "running" /\ c2[l.of].root = c2[n].root /\ c2[l.of].borrows = 1
               /\ \E m \in c2[l.of].lent : m.rep = l.rep
               /\ l.where = 0 => \A i \in Insts : \A s \in Spots : h2[i][s].scope # l.of
    <3>1. l \in cl[n].lent /\ Pure(cl, n) /\ c2[n].root = cl[n].root
      BY <1>5, <1>23, <2>1
    <3>2. l.of \in CallNumbers /\ l.of # j
      BY <1>1, <1>25, <2>1, <3>1 DEF CallRecords, Loans
    <3>3. /\ cl[l.of].at = "running" /\ cl[l.of].root = cl[n].root /\ cl[l.of].borrows = 1
          /\ \E m \in cl[l.of].lent : m.rep = l.rep
          /\ l.where = 0 => \A i \in Insts : \A s \in Spots : hd[i][s].scope # l.of
      BY <2>1, <3>1 DEF Holding, Resting
    <3> QED BY <1>5, <3>1, <3>2, <3>3
  <2>2. ASSUME Pure(c2, j), NEW l \in c.lent, l.of # 0
        PROVE  /\ c2[l.of].at = "running" /\ c2[l.of].root = c.root /\ c2[l.of].borrows = 1
               /\ \E m \in c2[l.of].lent : m.rep = l.rep
               /\ l.where # 0
    <3>1. /\ l.of \in CallNumbers /\ cl[l.of].at = "running" /\ cl[l.of].root = cl[k].root
          /\ l.of = hd[c.from][l.where].scope /\ l.rep = hd[c.from][l.where].rep /\ l.where \in Spots
      BY <1>1, <1>8, <1>24, <2>2 DEF CallRecords, Loans
    <3>2. cl[l.of].borrows = 1 /\ \E m \in cl[l.of].lent : m.rep = l.rep
      <4>1. /\ hd[c.from][l.where].scope # 0 /\ cl[hd[c.from][l.where].scope].at # "none"
            /\ c.from \in Insts /\ l.where \in Spots
        BY <1>2, <2>2, <3>1
      <4>2. /\ cl[hd[c.from][l.where].scope].borrows = 1
            /\ \E m \in cl[hd[c.from][l.where].scope].lent : m.rep = hd[c.from][l.where].rep
        BY <2>0, <4>1 DEF Borrowing
      <4> QED BY <3>1, <4>2
    <3>3. l.of # j
      BY <3>1
    <3> QED BY <1>5, <3>1, <3>2, <3>3 DEF Spots
  <2> QED BY <1>5, <2>1, <2>2 DEF Resting
<1>27. Ordered(c2)
  <2> SUFFICES ASSUME NEW S \in SUBSET CallNumbers, S # {},
                      \A n \in S : c2[n].at = "running" /\ n \notin FromHost
               PROVE  \E n \in S : c2[n].parent \notin S /\ (Pure(c2, n) => \A l \in c2[n].lent : l.of \notin S)
    BY DEF Ordered
  <2>1. CASE S \ {j} = {}
    <3>1. S = {j} /\ c2[j].parent = k /\ \A l \in c2[j].lent : l.of # j
      BY <1>2, <1>5, <1>8, <2>1
    <3> QED BY <1>2, <3>1
  <2>2. CASE S \ {j} # {}
    <3>1. \A n \in S \ {j} : cl[n].at = "running" /\ n \notin FromHost /\ cl[n].parent # j
      BY <1>5 DEF Holding, Calling
    <3>2. PICK n \in S \ {j} : cl[n].parent \notin S \ {j} /\ (Pure(cl, n) => \A l \in cl[n].lent : l.of \notin S \ {j})
      <4>1. Ordered(cl) /\ S \ {j} \in SUBSET CallNumbers
        BY DEF Holding
      <4> QED BY <2>2, <3>1, <4>1 DEF Ordered
    <3>3. n \in S /\ n # j /\ n \in CallNumbers
      OBVIOUS
    <3>4. cl[n].parent \notin S
      BY <3>1, <3>2
    <3>5. Pure(cl, n) => \A l \in cl[n].lent : l.of \notin S
      BY <1>25, <3>2, <3>3
    <3> QED BY <1>5, <1>23, <3>3, <3>4, <3>5
  <2> QED BY <2>1, <2>2
<1>28. Living(rp, c2, dd)
  <2> SUFFICES ASSUME NEW n \in CallNumbers, Lasting(c2, dd, n), NEW l \in c2[n].lent
               PROVE rp[l.rep].at = "alive"
    BY DEF Living
  <2>0. \A m \in CallNumbers : m # j /\ cl[m].at \in {"waiting", "running"} =>
          cl[m].root \in CallNumbers /\ cl[m].root # j
    BY <1>0 DEF Holding, Calling
  <2>1. CASE n # j
    <3>1. cl[n].at \in {"waiting", "running"} /\ cl[n].at = c2[n].at /\ c2[n].root = cl[n].root
      BY <1>5, <2>1 DEF Lasting
    <3>2. Lasting(cl, dd, n)
      BY <1>2, <1>5, <2>0, <2>1, <3>1 DEF Lasting, q
    <3> QED BY <1>5, <2>1, <3>2 DEF Holding, Living
  <2>2. CASE n = j
    <3>1. l \in c.lent /\ ~x /\ ~cl[q].across /\ cl[q].to \notin dd
      BY <1>0, <1>2, <1>5, <2>2 DEF Lasting, q
    <3>2. /\ l.where \in Spots /\ c.from \in Insts /\ l.of = hd[c.from][l.where].scope
          /\ l.rep = hd[c.from][l.where].rep /\ l.rep # 0
      BY <1>2, <1>8, <3>1
    <3>3. CASE l.of = 0
      <4>1. hd[c.from][l.where].own
        BY <3>2, <3>3 DEF Holding, Kinds2
      <4>2. \A i \in Insts : \A s \in Spots : hd[i][s].own => rp[hd[i][s].rep].at = "alive"
        BY DEF Holding, OwnedLives
      <4>3. rp[hd[c.from][l.where].rep].at = "alive"
        <5> HIDE <1>a6, <1>a7, <1>a8, <1>a11, <1>a12
        <5>. QED  BY <3>2, <4>1, <4>2
      <4> QED BY <3>2, <4>3
    <3>4. CASE l.of # 0
      <4>1. cl[l.of].at = "running" /\ cl[l.of].root = q /\ l.of \in CallNumbers
        <5>1. hd \in [Insts -> [Spots -> Handles]]
          BY DEF Holding, Typed
        <5>2. hd[c.from][l.where].scope \in CallNumbers \cup {0}
          BY <3>2, <5>1 DEF Handles
        <5>3. cl[l.of].at = "running" /\ cl[l.of].root = q
          BY <3>1, <3>4 DEF q
        <5> QED BY <3>2, <3>4, <5>2, <5>3
      <4>2. PICK m \in cl[l.of].lent : m.rep = l.rep
        <5>1. hd[c.from][l.where].scope # 0 /\ cl[hd[c.from][l.where].scope].at # "none"
          BY <3>2, <3>4, <4>1
        <5>2. \E m \in cl[hd[c.from][l.where].scope].lent : m.rep = hd[c.from][l.where].rep
          BY <3>2, <5>1 DEF Holding, Borrowing
        <5> HIDE <1>a4, <1>a6, <1>a7, <1>a8, <1>a11, <1>a12
        <5>3. \E m \in cl[l.of].lent : m.rep = l.rep
          BY <3>2, <5>2
        <5> QED BY <5>3
      <4>3. Lasting(cl, dd, l.of)
        BY <3>1, <4>1 DEF Lasting
      <4> QED BY <4>1, <4>2, <4>3 DEF Holding, Living
    <3> QED BY <3>3, <3>4
  <2> QED BY <2>1, <2>2
<1> QED BY <1>11, <1>12, <1>14, <1>15, <1>17, <1>18, <1>19, <1>20, <1>21, <1>22, <1>26, <1>27, <1>28
        DEF Holding

\* A call keeps all that is said of it but the handle it has given out, when it gives one or gets it back.
LEMMA Reborrowed ==
  ASSUME NEW rp, NEW hd, NEW wr, NEW cl, NEW dd, NEW tr, Holding(rp, hd, wr, cl, dd, tr),
         NEW c2 \in [CallNumbers -> CallRecords],
         \A j \in CallNumbers :
           /\ c2[j].at = cl[j].at /\ c2[j].from = cl[j].from /\ c2[j].to = cl[j].to /\ c2[j].lent = cl[j].lent
           /\ c2[j].own = cl[j].own /\ c2[j].parent = cl[j].parent /\ c2[j].root = cl[j].root
           /\ c2[j].across = cl[j].across
           /\ c2[j].borrows = cl[j].borrows \/ c2[j].borrows = 0 \/ (cl[j].at = "running" /\ cl[j].to # Host)
  PROVE  /\ \A j \in CallNumbers : Pure(c2, j) <=> Pure(cl, j)
         /\ Born(rp, hd, c2) /\ Counted(hd, wr, c2) /\ Wrapping(wr, c2) /\ Calling(c2)
         /\ Ordered(c2) /\ Living(rp, c2, dd)
<1>0. cl \in [CallNumbers -> CallRecords]
  BY DEF Holding, Typed
<1>4. \A j \in CallNumbers :
        /\ c2[j].at = cl[j].at /\ c2[j].from = cl[j].from /\ c2[j].to = cl[j].to /\ c2[j].lent = cl[j].lent
        /\ c2[j].own = cl[j].own /\ c2[j].parent = cl[j].parent /\ c2[j].root = cl[j].root
        /\ c2[j].across = cl[j].across
        /\ c2[j].borrows = cl[j].borrows \/ c2[j].borrows = 0 \/ (cl[j].at = "running" /\ cl[j].to # Host)
  OBVIOUS
<1>6. Born(rp, hd, c2)
  BY <1>4 DEF Holding, Born
<1>7. \A by, where : BorrowersIn(c2, by, where) = BorrowersIn(cl, by, where)
  BY <1>4 DEF BorrowersIn
<1>8. Counted(hd, wr, c2)
  BY <1>7 DEF Holding, Counted
<1>9. Wrapping(wr, c2)
  <2>1. \A w \in Wrappers : wr[w].scope \in CallNumbers \cup {0}
    BY DEF Holding, Typed, WrapperRecords
  <2> QED BY <1>4, <2>1 DEF Holding, Wrapping
<1>10. Calling(c2)
  <2>1. \A j \in CallNumbers : cl[j].root \in CallNumbers \cup {0}
    BY <1>0 DEF CallRecords
  <2>2. FromHost \subseteq CallNumbers
    BY ResourceAssumption
  <2>3. \A j \in CallNumbers : c2[j].at = "none" => c2[j].lent = {}
    BY <1>4 DEF Holding, Calling
  <2> QED BY <1>4, <2>1, <2>2, <2>3 DEF Holding, Calling
<1>12. \A j \in CallNumbers : Pure(c2, j) <=> Pure(cl, j)
  <2>1. ASSUME NEW j \in CallNumbers, cl[j].at = "running" PROVE cl[j].root \in CallNumbers
    BY <2>1, ResourceAssumption DEF Holding, Calling
  <2> QED BY <1>4, <2>1 DEF Pure
<1>14. Ordered(c2)
  <2>1. Ordered(cl)
    BY DEF Holding
  <2> QED BY SMTT(30), <1>4, <1>12, <2>1 DEF Ordered
<1>15. Living(rp, c2, dd)
  <2>1. ASSUME NEW j \in CallNumbers, cl[j].at \in {"running", "waiting"} PROVE cl[j].root \in CallNumbers
    BY <2>1, ResourceAssumption DEF Holding, Calling
  <2>2. \A j \in CallNumbers : Lasting(c2, dd, j) => Lasting(cl, dd, j)
    BY <1>4, <2>1 DEF Lasting
  <2> QED BY <1>4, <2>2 DEF Holding, Living
<1> QED BY <1>6, <1>8, <1>9, <1>10, <1>12, <1>14, <1>15

-----------------------------------------------------------------------------
(* Borrows come and go.                                                        *)

\* A call that was lent something gets a handle of it.
LEMMA ShowBorrow ==
  ASSUME NEW rp, NEW hd, NEW wr, NEW cl, NEW dd, NEW tr, Holding(rp, hd, wr, cl, dd, tr),
         NEW j \in CallNumbers, cl[j].at = "running", cl[j].to # Host, cl[j].borrows = 0,
         NEW r \in RepNumbers, \E l \in cl[j].lent : l.rep = r,
         \A i \in Insts : \A s \in Spots : hd[i][s].scope # j,
         NEW d \in Insts, NEW s \in Spots, hd[d][s].rep = 0
  PROVE  Holding(rp, [hd EXCEPT ![d][s] = R!Borrowing(r, j)], wr, [cl EXCEPT ![j].borrows = 1], dd, tr)
<1> DEFINE c2 == [cl EXCEPT ![j].borrows = 1]  h2 == [hd EXCEPT ![d][s] = R!Borrowing(r, j)]
<1>0. cl \in [CallNumbers -> CallRecords] /\ 0 \notin RepNumbers /\ 0 \notin CallNumbers
  BY ResourceAssumption DEF Holding, Typed
<1>1. /\ ~hd[d][s].own /\ hd[d][s].lends = 0 /\ hd[d][s].scope = 0
      /\ R!Borrowing(r, j) \in Handles /\ IsHandle(R!Borrowing(r, j), r, FALSE, j)
  BY Records DEF Holding, Kinds2
<1>2. /\ h2 \in [Insts -> [Spots -> Handles]]
      /\ \A i \in Insts : \A t \in Spots : h2[i][t] = IF i = d /\ t = s THEN R!Borrowing(r, j) ELSE hd[i][t]
  BY <1>1, Placed DEF Holding, Typed
<1>3. /\ c2 \in [CallNumbers -> CallRecords]
      /\ \A k \in CallNumbers :
              /\ c2[k].at = cl[k].at /\ c2[k].lent = cl[k].lent /\ c2[k].from = cl[k].from
              /\ c2[k].own = cl[k].own
              /\ c2[k].root = cl[k].root /\ c2[k].borrows = IF k = j THEN 1 ELSE cl[k].borrows
              /\ Pure(c2, k) <=> Pure(cl, k)
      /\ Born(rp, hd, c2) /\ Counted(hd, wr, c2) /\ Wrapping(wr, c2) /\ Calling(c2)
      /\ Ordered(c2) /\ Living(rp, c2, dd)
  <2>1. [cl[j] EXCEPT !.borrows = 1] \in CallRecords
    BY <1>0 DEF CallRecords
  <2>2. /\ c2 \in [CallNumbers -> CallRecords]
        /\ \A k \in CallNumbers : c2[k] = IF k = j THEN [cl[j] EXCEPT !.borrows = 1] ELSE cl[k]
    BY <1>0, <2>1
  <2> HIDE DEF c2
  <2>3. \A k \in CallNumbers :
          /\ c2[k].at = cl[k].at /\ c2[k].from = cl[k].from /\ c2[k].to = cl[k].to /\ c2[k].lent = cl[k].lent
          /\ c2[k].own = cl[k].own /\ c2[k].parent = cl[k].parent /\ c2[k].root = cl[k].root
          /\ c2[k].across = cl[k].across /\ c2[k].borrows = IF k = j THEN 1 ELSE cl[k].borrows
    BY <1>0, <2>2 DEF CallRecords
  <2>4. \A k \in CallNumbers : c2[k].borrows = cl[k].borrows \/ c2[k].borrows = 0 \/ cl[k].at = "running"
    BY <2>3
  <2> QED BY <2>2, <2>3, <2>4, Reborrowed
<1>4. \A k \in CallNumbers : \A l \in cl[k].lent : ~(l.by = d /\ l.where = s)
  BY <1>1, Unlent
<1>5. rp[r].at # "unborn"
  BY DEF Holding, Born
<1> HIDE DEF c2, h2
<1>6. Typed(rp, h2, wr, c2, dd) /\ tr \in RepNumbers \cup {0}
  BY <1>2, <1>3 DEF Holding, Typed
<1>7. Kinds2(h2)
  BY <1>0, <1>1, <1>2 DEF IsHandle, Holding, Kinds2
<1>8. \A i \in Insts : \A t \in Spots : (h2[i][t].own <=> hd[i][t].own) /\ (hd[i][t].own => h2[i][t].rep = hd[i][t].rep)
  BY <1>1, <1>2 DEF IsHandle
<1>9. OwnedOnce(h2, wr, c2, tr)
  <2>0. OwnedOnce(hd, wr, cl, tr)
    BY DEF Holding
  <2>1. \A i, n \in Insts : \A t, u \in Spots :
          h2[i][t].own /\ h2[n][u].own /\ h2[i][t].rep = h2[n][u].rep => i = n /\ t = u
    BY <1>8, <2>0 DEF OwnedOnce
  <2> QED BY <1>3, <1>8, <2>0, <2>1 DEF OwnedOnce
<1>10. OwnedLives(rp, h2, wr, c2, tr)
  BY <1>3, <1>8 DEF Holding, OwnedLives
<1>11. \A u, q : Ownerless(h2, wr, c2, u, q) <=> Ownerless(hd, wr, cl, u, q)
  BY <1>3, <1>8 DEF Ownerless
<1>12. LivesOwned(rp, h2, wr, c2, dd, tr)
  BY <1>11 DEF Holding, LivesOwned
<1>13. Born(rp, h2, c2)
  BY <1>1, <1>2, <1>3, <1>5 DEF IsHandle, Born
<1>14. Lending(h2, wr, c2, tr)
  <2>1. ASSUME NEW k \in CallNumbers, NEW l \in cl[k].lent, l.by # Host, l.where # 0
        PROVE  h2[l.by][l.where] = hd[l.by][l.where]
    <3>1. l.by \in Insts /\ l.where \in Spots
      BY <1>0, <2>1 DEF CallRecords, Loans, Spots
    <3> QED BY <1>2, <1>4, <2>1, <3>1
  <2> QED BY <1>3, <1>11, <2>1 DEF Holding, Lending
<1>15. Counted(h2, wr, c2)
  BY <1>1, <1>2, <1>3 DEF IsHandle, Counted
<1>16. \A i \in Insts : \A t \in Spots : h2[i][t].scope = IF i = d /\ t = s THEN j ELSE hd[i][t].scope
  BY <1>1, <1>2 DEF IsHandle
<1>17. Borrowing(h2, c2, dd)
  <2>0. Borrowing(hd, cl, dd)
    BY DEF Holding
  <2>1. \A i, n \in Insts : \A t, u \in Spots :
          h2[i][t].scope # 0 /\ h2[i][t].scope = h2[n][u].scope => i = n /\ t = u
    BY <1>16, <2>0 DEF Borrowing
  <2>2. ASSUME NEW i \in Insts, NEW t \in Spots, h2[i][t].scope # 0, c2[h2[i][t].scope].at # "none"
        PROVE  c2[h2[i][t].scope].borrows = 1 /\ \E l \in c2[h2[i][t].scope].lent : l.rep = h2[i][t].rep
    <3>1. CASE i = d /\ t = s
      BY <1>1, <1>2, <1>3, <3>1 DEF IsHandle
    <3>2. CASE ~(i = d /\ t = s)
      <4>1. h2[i][t] = hd[i][t] /\ hd[i][t].scope \in CallNumbers \ {j}
        BY <1>2, <2>2, <3>2 DEF Holding, Typed, Handles
      <4>2. /\ c2[hd[i][t].scope].at = cl[hd[i][t].scope].at
            /\ c2[hd[i][t].scope].borrows = cl[hd[i][t].scope].borrows
            /\ c2[hd[i][t].scope].lent = cl[hd[i][t].scope].lent
        BY <1>3, <4>1
      <4> QED BY <2>0, <2>2, <4>1, <4>2 DEF Borrowing
    <3> QED BY <3>1, <3>2
  <2>3. ASSUME dd = {}, NEW n \in CallNumbers, c2[n].borrows = 1, c2[n].at = "running"
        PROVE  \E i \in Insts : \E t \in Spots : h2[i][t].scope = n
    <3>1. CASE n = j
      BY <1>16, <3>1
    <3>2. CASE n # j
      <4>1. cl[n].borrows = 1 /\ cl[n].at = "running"
        BY <1>3, <2>3, <3>2
      <4>2. PICK i \in Insts, t \in Spots : hd[i][t].scope = n
        BY <2>0, <2>3, <4>1 DEF Borrowing
      <4>3. h2[i][t].scope = n
        BY <1>0, <1>1, <1>16, <4>2
      <4> QED BY <4>3
    <3> QED BY <3>1, <3>2
  <2> QED BY <2>1, <2>2, <2>3 DEF Borrowing
<1>18. Resting(h2, c2)
  <2> SUFFICES ASSUME NEW k \in CallNumbers, Pure(c2, k), NEW l \in c2[k].lent, l.of # 0
               PROVE  /\ c2[l.of].at = "running" /\ c2[l.of].root = c2[k].root /\ c2[l.of].borrows = 1
                      /\ \E m \in c2[l.of].lent : m.rep = l.rep
                      /\ l.where = 0 => \A i \in Insts : \A t \in Spots : h2[i][t].scope # l.of
    BY DEF Resting
  <2>1. l \in cl[k].lent /\ Pure(cl, k)
    BY <1>3
  <2>2. l.of \in CallNumbers
    BY <1>0, <2>1 DEF CallRecords, Loans
  <2>3. /\ cl[l.of].at = "running" /\ cl[l.of].root = cl[k].root /\ cl[l.of].borrows = 1
        /\ \E m \in cl[l.of].lent : m.rep = l.rep
        /\ l.where = 0 => \A i \in Insts : \A t \in Spots : hd[i][t].scope # l.of
    BY <2>1 DEF Holding, Resting
  <2>4. l.of # j
    BY <2>3
  <2> QED BY <1>3, <1>16, <2>2, <2>3, <2>4
<1> QED BY <1>3, <1>6, <1>7, <1>9, <1>10, <1>12, <1>13, <1>14, <1>15, <1>17, <1>18 DEF Holding, c2, h2

\* A handle of a borrow that is not lent is dropped.
LEMMA DropBorrow ==
  ASSUME NEW rp, NEW hd, NEW wr, NEW cl, NEW dd, NEW tr, Holding(rp, hd, wr, cl, dd, tr),
         NEW i \in Insts, NEW s \in Spots, hd[i][s].rep # 0, ~hd[i][s].own, hd[i][s].lends = 0
  PROVE  Holding(rp, [hd EXCEPT ![i][s] = R!NoHandle], wr,
                 IF cl[hd[i][s].scope].at = "none" THEN cl ELSE [cl EXCEPT ![hd[i][s].scope].borrows = @ - 1], dd, tr)
<1> DEFINE j == hd[i][s].scope
           c2 == IF cl[j].at = "none" THEN cl ELSE [cl EXCEPT ![j].borrows = @ - 1]
           h2 == [hd EXCEPT ![i][s] = R!NoHandle]
<1>0. cl \in [CallNumbers -> CallRecords] /\ 0 \notin RepNumbers /\ 0 \notin CallNumbers
  BY ResourceAssumption DEF Holding, Typed
<1>1. j # 0 /\ j \in CallNumbers /\ hd[i][s].scope = j
  BY DEF Holding, Kinds2, Typed, Handles
<1>2. cl[j].at # "none" => cl[j].borrows = 1
  BY <1>1 DEF Holding, Borrowing
<1>21. IsHandle(R!NoHandle, 0, FALSE, 0)
  BY Records
<1>3. /\ h2 \in [Insts -> [Spots -> Handles]]
      /\ \A n \in Insts : \A t \in Spots : h2[n][t] = IF n = i /\ t = s THEN R!NoHandle ELSE hd[n][t]
  <2>1. hd \in [Insts -> [Spots -> Handles]] /\ R!NoHandle \in Handles
    BY Records DEF Holding, Typed
  <2> QED BY <2>1, Placed
<1> HIDE DEF j
<1>4. /\ c2 \in [CallNumbers -> CallRecords]
      /\ \A k \in CallNumbers :
              /\ c2[k].at = cl[k].at /\ c2[k].lent = cl[k].lent /\ c2[k].from = cl[k].from
              /\ c2[k].own = cl[k].own
              /\ c2[k].root = cl[k].root
              /\ c2[k].borrows = IF k = j /\ cl[j].at # "none" THEN 0 ELSE cl[k].borrows
              /\ Pure(c2, k) <=> Pure(cl, k)
      /\ Born(rp, hd, c2) /\ Counted(hd, wr, c2) /\ Wrapping(wr, c2) /\ Calling(c2)
      /\ Ordered(c2) /\ Living(rp, c2, dd)
  <2>1. CASE cl[j].at = "none"
    <3>1. c2 = cl
      BY <2>1
    <3> QED BY <1>0, <2>1, <3>1 DEF Holding
  <2>2. CASE cl[j].at # "none"
    <3>1. [cl[j] EXCEPT !.borrows = cl[j].borrows - 1] = [cl[j] EXCEPT !.borrows = 0]
      BY <1>2, <2>2
    <3>2. [cl[j] EXCEPT !.borrows = 0] \in CallRecords
      BY <1>0, <1>1 DEF CallRecords
    <3>3. /\ c2 \in [CallNumbers -> CallRecords]
          /\ \A k \in CallNumbers : c2[k] = IF k = j THEN [cl[j] EXCEPT !.borrows = 0] ELSE cl[k]
      BY <1>0, <2>2, <3>1, <3>2
    <3> HIDE DEF c2
    <3>4. \A k \in CallNumbers :
            /\ c2[k].at = cl[k].at /\ c2[k].from = cl[k].from /\ c2[k].to = cl[k].to
            /\ c2[k].lent = cl[k].lent
            /\ c2[k].own = cl[k].own /\ c2[k].parent = cl[k].parent /\ c2[k].root = cl[k].root
            /\ c2[k].across = cl[k].across /\ c2[k].borrows = IF k = j THEN 0 ELSE cl[k].borrows
      BY <1>0, <3>3 DEF CallRecords
    <3>5. \A k \in CallNumbers : c2[k].borrows = cl[k].borrows \/ c2[k].borrows = 0 \/ cl[k].at = "running"
      BY <3>4
    <3> QED BY <2>2, <3>3, <3>4, <3>5, Reborrowed
  <2> QED BY <2>1, <2>2
<1>5. \A k \in CallNumbers : \A l \in cl[k].lent : ~(l.by = i /\ l.where = s)
  BY Unlent
<1> HIDE DEF c2, h2
<1>6. Typed(rp, h2, wr, c2, dd) /\ tr \in RepNumbers \cup {0}
  BY <1>3, <1>4 DEF Holding, Typed
<1>7. Kinds2(h2)
  BY <1>21, <1>3 DEF IsHandle, Holding, Kinds2
<1>8. \A n \in Insts : \A t \in Spots : (h2[n][t].own <=> hd[n][t].own) /\ (hd[n][t].own => h2[n][t].rep = hd[n][t].rep)
  BY <1>21, <1>3 DEF IsHandle
<1>9. OwnedOnce(h2, wr, c2, tr)
  <2>0. OwnedOnce(hd, wr, cl, tr)
    BY DEF Holding
  <2>1. \A m, n \in Insts : \A t, u \in Spots :
          h2[m][t].own /\ h2[n][u].own /\ h2[m][t].rep = h2[n][u].rep => m = n /\ t = u
    BY <1>8, <2>0 DEF OwnedOnce
  <2> QED BY <1>4, <1>8, <2>0, <2>1 DEF OwnedOnce
<1>10. OwnedLives(rp, h2, wr, c2, tr)
  BY <1>4, <1>8 DEF Holding, OwnedLives
<1>11. \A u, q : Ownerless(h2, wr, c2, u, q) <=> Ownerless(hd, wr, cl, u, q)
  BY <1>4, <1>8 DEF Ownerless
<1>12. LivesOwned(rp, h2, wr, c2, dd, tr)
  BY <1>11 DEF Holding, LivesOwned
<1>13. Born(rp, h2, c2)
  BY <1>21, <1>3, <1>4 DEF IsHandle, Born
<1>14. Lending(h2, wr, c2, tr)
  <2>1. ASSUME NEW k \in CallNumbers, NEW l \in cl[k].lent, l.by # Host, l.where # 0
        PROVE  h2[l.by][l.where] = hd[l.by][l.where]
    <3>1. l.by \in Insts /\ l.where \in Spots
      BY <1>0, <2>1 DEF CallRecords, Loans, Spots
    <3> QED BY <1>3, <1>5, <2>1, <3>1
  <2> QED BY <1>4, <1>11, <2>1 DEF Holding, Lending
<1>15. Counted(h2, wr, c2)
  BY <1>21, <1>3, <1>4 DEF IsHandle, Counted
<1>16. \A n \in Insts : \A t \in Spots : h2[n][t].scope = IF n = i /\ t = s THEN 0 ELSE hd[n][t].scope
  BY <1>21, <1>3 DEF IsHandle
<1>161. \A n \in Insts : \A t \in Spots : hd[n][t].scope = j => n = i /\ t = s
  BY <1>1 DEF Holding, Borrowing
<1>17. Borrowing(h2, c2, dd)
  <2>0. Borrowing(hd, cl, dd)
    BY DEF Holding
  <2>1. \A m, n \in Insts : \A t, u \in Spots :
          h2[m][t].scope # 0 /\ h2[m][t].scope = h2[n][u].scope => m = n /\ t = u
    BY <1>16, <2>0 DEF Borrowing
  <2>2. ASSUME NEW n \in Insts, NEW t \in Spots, h2[n][t].scope # 0, c2[h2[n][t].scope].at # "none"
        PROVE  c2[h2[n][t].scope].borrows = 1 /\ \E l \in c2[h2[n][t].scope].lent : l.rep = h2[n][t].rep
    <3>1. h2[n][t] = hd[n][t] /\ hd[n][t].scope \in CallNumbers \ {j}
      BY <1>3, <1>16, <1>161, <2>2 DEF Holding, Typed, Handles
    <3>2. /\ c2[hd[n][t].scope].at = cl[hd[n][t].scope].at
          /\ c2[hd[n][t].scope].borrows = cl[hd[n][t].scope].borrows
          /\ c2[hd[n][t].scope].lent = cl[hd[n][t].scope].lent
      BY <1>4, <3>1
    <3> QED BY <2>0, <2>2, <3>1, <3>2 DEF Borrowing
  <2>3. ASSUME dd = {}, NEW n \in CallNumbers, c2[n].borrows = 1, c2[n].at = "running"
        PROVE  \E m \in Insts : \E t \in Spots : h2[m][t].scope = n
    <3>1. cl[n].borrows = 1 /\ cl[n].at = "running" /\ n # j
      BY <1>4, <2>3
    <3>2. PICK m \in Insts, t \in Spots : hd[m][t].scope = n
      BY <2>0, <2>3, <3>1 DEF Borrowing
    <3>3. h2[m][t].scope = n
      BY <1>1, <1>16, <3>1, <3>2
    <3> QED BY <3>3
  <2> QED BY <2>1, <2>2, <2>3 DEF Borrowing
<1>18. Resting(h2, c2)
  <2> SUFFICES ASSUME NEW k \in CallNumbers, Pure(c2, k), NEW l \in c2[k].lent, l.of # 0
               PROVE  /\ c2[l.of].at = "running" /\ c2[l.of].root = c2[k].root /\ c2[l.of].borrows = 1
                      /\ \E m \in c2[l.of].lent : m.rep = l.rep
                      /\ l.where = 0 => \A n \in Insts : \A t \in Spots : h2[n][t].scope # l.of
    BY DEF Resting
  <2>1. l \in cl[k].lent /\ Pure(cl, k)
    BY <1>4
  <2>2. l.of \in CallNumbers /\ l \in Loans
    BY <1>0, <2>1 DEF CallRecords, Loans
  <2>3. /\ cl[l.of].at = "running" /\ cl[l.of].root = cl[k].root /\ cl[l.of].borrows = 1
        /\ \E m \in cl[l.of].lent : m.rep = l.rep
        /\ l.where = 0 => \A n \in Insts : \A t \in Spots : hd[n][t].scope # l.of
    BY <2>1 DEF Holding, Resting
  <2>4. l.of # j
    <3> SUFFICES ASSUME l.of = j PROVE FALSE
      OBVIOUS
    <3>1. l.where # 0
      BY <1>1, <2>3
    <3>2. l.by # Host
      BY <2>1 DEF Holding, Lending
    <3>3. l.by \in Insts /\ l.where \in Spots /\ hd[l.by][l.where].scope = j
      BY <2>1, <2>2, <3>1, <3>2 DEF Holding, Lending, Loans, Spots
    <3> QED BY <1>5, <1>161, <2>1, <3>3
  <2> QED BY <1>4, <1>16, <2>2, <2>3, <2>4
<1> QED BY <1>4, <1>6, <1>7, <1>9, <1>10, <1>12, <1>13, <1>14, <1>15, <1>17, <1>18 DEF Holding, c2, h2, j

-----------------------------------------------------------------------------
(* What a trap takes.                                                          *)

\* What a trap has taken from its table is where no loan of it is looked for.
LEMMA LostLoans ==
  ASSUME NEW L \in SUBSET Loans, NEW i \in Insts, NEW s \in Spots
  PROVE  /\ R!Lost(L, i, s) \in SUBSET Loans
         /\ \A m \in R!Lost(L, i, s) : \E l \in L :
              /\ m.by = l.by /\ m.of = l.of /\ m.rep = l.rep
              /\ m.where = IF l.by = i /\ l.where = s THEN 0 ELSE l.where
              /\ m = IF l.by = i /\ l.where = s THEN [l EXCEPT !.where = 0] ELSE l
         /\ \A l \in L : \E m \in R!Lost(L, i, s) :
              /\ m.by = l.by /\ m.of = l.of /\ m.rep = l.rep
              /\ m.where = IF l.by = i /\ l.where = s THEN 0 ELSE l.where
<1> DEFINE f(l) == IF l.by = i /\ l.where = s THEN [l EXCEPT !.where = 0] ELSE l
<1>1. ASSUME NEW l \in Loans
      PROVE  /\ f(l) \in Loans /\ f(l).by = l.by /\ f(l).of = l.of /\ f(l).rep = l.rep
             /\ f(l).where = IF l.by = i /\ l.where = s THEN 0 ELSE l.where
  BY DEF Loans
<1>2. R!Lost(L, i, s) = {f(l) : l \in L}
  BY DEF R!Lost
<1>3. \A l \in L : l \in Loans
  OBVIOUS
<1>4. \A m \in R!Lost(L, i, s) : \E l \in L : m = f(l)
  BY <1>2
<1>5. \A l \in L : f(l) \in R!Lost(L, i, s)
  BY <1>2
<1>6. \A l \in L : f(l) = IF l.by = i /\ l.where = s THEN [l EXCEPT !.where = 0] ELSE l
  OBVIOUS
<1> HIDE DEF f
<1>7. R!Lost(L, i, s) \subseteq Loans
  BY <1>1, <1>3, <1>4
<1>8. ASSUME NEW m \in R!Lost(L, i, s)
      PROVE  \E l \in L :
              /\ m.by = l.by /\ m.of = l.of /\ m.rep = l.rep
              /\ m.where = IF l.by = i /\ l.where = s THEN 0 ELSE l.where
              /\ m = IF l.by = i /\ l.where = s THEN [l EXCEPT !.where = 0] ELSE l
  BY <1>1, <1>3, <1>4, <1>6
<1>9. ASSUME NEW l \in L
      PROVE  \E m \in R!Lost(L, i, s) :
              /\ m.by = l.by /\ m.of = l.of /\ m.rep = l.rep
              /\ m.where = IF l.by = i /\ l.where = s THEN 0 ELSE l.where
  BY <1>1, <1>3, <1>5
<1> QED BY <1>7, <1>8, <1>9

\* Where an instance has died, a handle is taken from its table, lent as it may be.
LEMMA Vanish ==
  ASSUME NEW rp, NEW hd, NEW wr, NEW cl, NEW dd, Holding(rp, hd, wr, cl, dd, 0), dd # {},
         NEW i \in Insts, NEW s \in Spots, hd[i][s].rep # 0,
         NEW c2 \in [CallNumbers -> CallRecords],
         \A k \in CallNumbers :
           /\ c2[k].at = cl[k].at /\ c2[k].from = cl[k].from /\ c2[k].to = cl[k].to /\ c2[k].own = cl[k].own
           /\ c2[k].borrows = cl[k].borrows /\ c2[k].parent = cl[k].parent /\ c2[k].root = cl[k].root
           /\ c2[k].across = cl[k].across /\ c2[k].lent = R!Lost(cl[k].lent, i, s)
  PROVE  Holding(rp, [hd EXCEPT ![i][s] = R!NoHandle], wr, c2, dd, 0)
<1> DEFINE h2 == [hd EXCEPT ![i][s] = R!NoHandle]
<1>0. cl \in [CallNumbers -> CallRecords] /\ 0 \notin RepNumbers /\ 0 \notin CallNumbers /\ Host \notin Insts
      /\ FromHost \subseteq CallNumbers
  BY ResourceAssumption DEF Holding, Typed
<1>1. IsHandle(R!NoHandle, 0, FALSE, 0)
  BY Records
<1>2. /\ h2 \in [Insts -> [Spots -> Handles]]
      /\ \A n \in Insts : \A t \in Spots : h2[n][t] = IF n = i /\ t = s THEN R!NoHandle ELSE hd[n][t]
  <2>1. hd \in [Insts -> [Spots -> Handles]] /\ R!NoHandle \in Handles
    BY Records DEF Holding, Typed
  <2> QED BY <2>1, Placed
<1>3. \A k \in CallNumbers : cl[k].lent \in SUBSET Loans /\ R!Lost(cl[k].lent, i, s) \in SUBSET Loans
  BY <1>0, LostLoans DEF CallRecords
<1>4. c2 \in [CallNumbers -> CallRecords]
  OBVIOUS
<1>5. \A k \in CallNumbers :
        /\ c2[k].at = cl[k].at /\ c2[k].from = cl[k].from /\ c2[k].to = cl[k].to /\ c2[k].own = cl[k].own
        /\ c2[k].borrows = cl[k].borrows /\ c2[k].parent = cl[k].parent /\ c2[k].root = cl[k].root
        /\ c2[k].across = cl[k].across /\ c2[k].lent = R!Lost(cl[k].lent, i, s)
  OBVIOUS
<1>6. \A k \in CallNumbers :
        /\ \A m \in c2[k].lent : \E l \in cl[k].lent :
              /\ m.by = l.by /\ m.of = l.of /\ m.rep = l.rep
              /\ m.where = IF l.by = i /\ l.where = s THEN 0 ELSE l.where
              /\ m = IF l.by = i /\ l.where = s THEN [l EXCEPT !.where = 0] ELSE l
        /\ \A l \in cl[k].lent : \E m \in c2[k].lent :
              /\ m.by = l.by /\ m.of = l.of /\ m.rep = l.rep
              /\ m.where = IF l.by = i /\ l.where = s THEN 0 ELSE l.where
  <2> TAKE k \in CallNumbers
  <2>1. c2[k].lent = R!Lost(cl[k].lent, i, s) /\ cl[k].lent \in SUBSET Loans
    BY <1>3
  <2>. QED  BY <2>1, LostLoans
<1>61. \A k \in CallNumbers : \A m \in c2[k].lent : ~(m.by = i /\ m.where = s)
  BY <1>6 DEF Spots
<1> HIDE DEF h2
<1>7. Typed(rp, h2, wr, c2, dd)
  BY <1>2, <1>4 DEF Holding, Typed
<1>8. Kinds2(h2)
  BY <1>1, <1>2 DEF IsHandle, Holding, Kinds2
<1>9. \A n \in Insts : \A t \in Spots : h2[n][t].own => hd[n][t].own /\ h2[n][t] = hd[n][t]
  BY <1>1, <1>2 DEF IsHandle
<1>10. OwnedOnce(h2, wr, c2, 0)
  BY <1>5, <1>9 DEF Holding, OwnedOnce
<1>11. OwnedLives(rp, h2, wr, c2, 0) /\ LivesOwned(rp, h2, wr, c2, dd, 0)
  BY <1>5, <1>9 DEF Holding, OwnedLives, LivesOwned
<1>12. \A q : Ownerless(hd, wr, cl, 0, q) => Ownerless(h2, wr, c2, 0, q)
  BY <1>5, <1>9 DEF Ownerless
<1>13. hd[i][s].own => Ownerless(h2, wr, c2, 0, hd[i][s].rep)
  <2> SUFFICES ASSUME hd[i][s].own PROVE Ownerless(h2, wr, c2, 0, hd[i][s].rep)
    OBVIOUS
  <2>0. OwnedOnce(hd, wr, cl, 0)
    BY DEF Holding
  <2>1. \A n \in Insts : \A t \in Spots : h2[n][t].own => h2[n][t].rep # hd[i][s].rep
    BY <1>1, <1>2, <2>0 DEF IsHandle, OwnedOnce
  <2>2. (\A w \in Wrappers : Owns(wr[w]) => wr[w].rep # hd[i][s].rep)
        /\ (\A k \in CallNumbers : cl[k].own # hd[i][s].rep)
    BY <2>0 DEF OwnedOnce
  <2> QED BY <1>5, <2>1, <2>2 DEF Ownerless
<1>14. Born(rp, h2, c2)
  <2>1. \A n \in Insts : \A t \in Spots : h2[n][t].rep # 0 => rp[h2[n][t].rep].at # "unborn"
    BY <1>1, <1>2 DEF IsHandle, Holding, Born
  <2>2. \A k \in CallNumbers : \A m \in c2[k].lent : rp[m.rep].at # "unborn"
    BY <1>6 DEF Holding, Born
  <2> QED BY <2>1, <2>2 DEF Born
<1>15. Lending(h2, wr, c2, 0)
  <2> SUFFICES ASSUME NEW k \in CallNumbers
               PROVE  /\ \A l, m \in c2[k].lent : l = m
                      /\ \A m \in c2[k].lent :
                           /\ m.by = c2[k].from
                           /\ m.by = Host =>
                                m.of = 0 /\ m.where \in Wrappers /\ Owns(wr[m.where]) /\ wr[m.where].rep = m.rep
                           /\ m.by # Host /\ m.where # 0 =>
                                h2[m.by][m.where].rep = m.rep /\ h2[m.by][m.where].scope = m.of
                           /\ m.by # Host /\ m.where = 0 /\ m.of = 0 => Ownerless(h2, wr, c2, 0, m.rep)
    BY DEF Lending
  <2>1. \A l, m \in cl[k].lent : l = m
    BY DEF Holding, Lending
  <2>2. \A l, m \in c2[k].lent : l = m
    BY <1>6, <2>1
  <2>3. ASSUME NEW m \in c2[k].lent
        PROVE  /\ m.by = c2[k].from
               /\ m.by = Host =>
                    m.of = 0 /\ m.where \in Wrappers /\ Owns(wr[m.where]) /\ wr[m.where].rep = m.rep
               /\ m.by # Host /\ m.where # 0 =>
                    h2[m.by][m.where].rep = m.rep /\ h2[m.by][m.where].scope = m.of
               /\ m.by # Host /\ m.where = 0 /\ m.of = 0 => Ownerless(h2, wr, c2, 0, m.rep)
    <3>1. PICK l \in cl[k].lent :
              /\ m.by = l.by /\ m.of = l.of /\ m.rep = l.rep
              /\ m.where = IF l.by = i /\ l.where = s THEN 0 ELSE l.where
      BY <1>6
    <3>2. /\ l.by = cl[k].from /\ l \in Loans /\ m \in Loans
          /\ l.by = Host => l.of = 0 /\ l.where \in Wrappers /\ Owns(wr[l.where]) /\ wr[l.where].rep = l.rep
          /\ l.by # Host /\ l.where # 0 => hd[l.by][l.where].rep = l.rep /\ hd[l.by][l.where].scope = l.of
          /\ l.by # Host /\ l.where = 0 /\ l.of = 0 => Ownerless(hd, wr, cl, 0, l.rep)
      BY <1>3, <1>5 DEF Holding, Lending
    <3>3. CASE l.by = i /\ l.where = s
      <4>1. hd[i][s].rep = l.rep /\ hd[i][s].scope = l.of
        BY <1>0, <3>2, <3>3 DEF Spots
      <4>2. l.of = 0 => hd[i][s].own
        BY <4>1 DEF Holding, Kinds2
      <4> QED BY ZenonT(60), <1>0, <1>5, <1>13, <3>1, <3>2, <3>3, <4>1, <4>2
    <3>4. CASE ~(l.by = i /\ l.where = s)
      <4>1. m.by = l.by /\ m.where = l.where /\ m.of = l.of /\ m.rep = l.rep
        BY <3>1, <3>4
      <4>2. l.by # Host /\ l.where # 0 => h2[l.by][l.where] = hd[l.by][l.where]
        BY <1>2, <3>2, <3>4 DEF Loans, Spots
      <4> QED BY <1>5, <1>12, <3>2, <4>1, <4>2
    <3> QED BY <3>3, <3>4
  <2> QED BY <2>2, <2>3
<1>16. Counted(h2, wr, c2)
  <2>1. ASSUME NEW by, NEW where, where # 0, ~(by = i /\ where = s)
        PROVE  BorrowersIn(c2, by, where) = BorrowersIn(cl, by, where)
    BY <1>6, <2>1 DEF BorrowersIn
  <2>2. BorrowersIn(c2, i, s) = {} /\ Cardinality({}) = 0
    BY <1>61, FS_EmptySet DEF BorrowersIn
  <2>3. 0 \notin Wrappers
    BY ResourceAssumption
  <2>4. \A w \in Wrappers : BorrowersIn(c2, Host, w) = BorrowersIn(cl, Host, w)
    BY <1>0, <2>1, <2>3
  <2>5. ASSUME NEW n \in Insts, NEW t \in Spots PROVE h2[n][t].lends = Cardinality(BorrowersIn(c2, n, t))
    <3>1. CASE n = i /\ t = s
      BY <1>1, <1>2, <2>2, <3>1 DEF IsHandle
    <3>2. CASE ~(n = i /\ t = s)
      BY <1>2, <2>1, <3>2 DEF Holding, Counted, Spots
    <3> QED BY <3>1, <3>2
  <2> QED BY <2>4, <2>5 DEF Holding, Counted
<1>17. Wrapping(wr, c2)
  <2> SUFFICES ASSUME NEW w \in Wrappers, wr[w].scope # 0
               PROVE  /\ wr[w].valid /\ c2[wr[w].scope].at = "running" /\ c2[wr[w].scope].to = Host
                      /\ \E l \in c2[wr[w].scope].lent : l.rep = wr[w].rep
    BY DEF Holding, Wrapping
  <2>1. wr[w].scope \in CallNumbers
    BY DEF Holding, Typed, WrapperRecords
  <2>2. /\ wr[w].valid /\ cl[wr[w].scope].at = "running" /\ cl[wr[w].scope].to = Host
        /\ \E l \in cl[wr[w].scope].lent : l.rep = wr[w].rep
    BY DEF Holding, Wrapping
  <2> QED BY <1>5, <1>6, <2>1, <2>2
<1>18. Calling(c2)
  <2>1. ASSUME NEW k \in CallNumbers, cl[k].at = "none" PROVE c2[k].lent = {}
    BY <1>6, <2>1 DEF Holding, Calling
  <2>2. \A k \in CallNumbers : cl[k].root \in CallNumbers \cup {0}
    BY <1>0 DEF CallRecords
  <2> QED BY <1>0, <1>5, <2>1, <2>2 DEF Holding, Calling
<1>19. \A n \in Insts : \A t \in Spots : h2[n][t].scope # 0 => h2[n][t] = hd[n][t] /\ ~(n = i /\ t = s)
  BY <1>1, <1>2 DEF IsHandle
<1>20. Borrowing(h2, c2, dd)
  <2>0. Borrowing(hd, cl, dd)
    BY DEF Holding
  <2>1. \A m, n \in Insts : \A t, u \in Spots :
          h2[m][t].scope # 0 /\ h2[m][t].scope = h2[n][u].scope => m = n /\ t = u
    BY <1>19, <2>0 DEF Borrowing
  <2>2. ASSUME NEW n \in Insts, NEW t \in Spots, h2[n][t].scope # 0, c2[h2[n][t].scope].at # "none"
        PROVE  c2[h2[n][t].scope].borrows = 1 /\ \E l \in c2[h2[n][t].scope].lent : l.rep = h2[n][t].rep
    <3>1. h2[n][t] = hd[n][t] /\ hd[n][t].scope \in CallNumbers
      BY <1>19, <2>2 DEF Holding, Typed, Handles
    <3>2. cl[hd[n][t].scope].borrows = 1 /\ \E l \in cl[hd[n][t].scope].lent : l.rep = hd[n][t].rep
      BY <1>5, <2>0, <2>2, <3>1 DEF Borrowing
    <3> QED BY <1>5, <1>6, <3>1, <3>2
  <2> QED BY <2>1, <2>2 DEF Borrowing
<1>21. \A k \in CallNumbers : Pure(c2, k) <=> Pure(cl, k)
  <2>1. ASSUME NEW j \in CallNumbers, cl[j].at = "running" PROVE cl[j].root \in CallNumbers
    BY <1>0, <2>1 DEF Holding, Calling
  <2> QED BY <1>5, <2>1 DEF Pure
<1>22. Resting(h2, c2)
  <2> SUFFICES ASSUME NEW k \in CallNumbers, Pure(c2, k), NEW m \in c2[k].lent, m.of # 0
               PROVE  /\ c2[m.of].at = "running" /\ c2[m.of].root = c2[k].root /\ c2[m.of].borrows = 1
                      /\ \E n \in c2[m.of].lent : n.rep = m.rep
                      /\ m.where = 0 => \A n \in Insts : \A t \in Spots : h2[n][t].scope # m.of
    BY DEF Resting
  <2>1. PICK l \in cl[k].lent :
              /\ m.by = l.by /\ m.of = l.of /\ m.rep = l.rep
              /\ m.where = IF l.by = i /\ l.where = s THEN 0 ELSE l.where
    BY <1>6
  <2>2. l.of \in CallNumbers /\ l \in Loans
    BY <1>3, <2>1 DEF Loans
  <2>3. /\ cl[l.of].at = "running" /\ cl[l.of].root = cl[k].root /\ cl[l.of].borrows = 1
        /\ \E n \in cl[l.of].lent : n.rep = l.rep
        /\ l.where = 0 => \A n \in Insts : \A t \in Spots : hd[n][t].scope # l.of
    BY <1>21, <2>1 DEF Holding, Resting
  <2>4. m.where = 0 => \A n \in Insts : \A t \in Spots : h2[n][t].scope # m.of
    <3>1. CASE l.by = i /\ l.where = s
      <4>1. hd[i][s].scope = l.of
        BY <1>0, <3>1 DEF Holding, Lending, Spots
      <4>2. \A n \in Insts : \A t \in Spots : hd[n][t].scope = l.of => n = i /\ t = s
        BY <2>1, <4>1 DEF Holding, Borrowing
      <4> QED BY <1>19, <2>1, <4>2
    <3>2. CASE ~(l.by = i /\ l.where = s)
      BY <1>19, <2>1, <2>3, <3>2
    <3> QED BY <3>1, <3>2
  <2> QED BY <1>5, <1>6, <2>1, <2>2, <2>3, <2>4
<1>23. Ordered(c2)
  <2>1. \A j \in CallNumbers : \A S : (\A l \in cl[j].lent : l.of \notin S) => \A m \in c2[j].lent : m.of \notin S
    BY <1>6
  <2> SUFFICES ASSUME NEW S \in SUBSET CallNumbers, S # {},
                      \A j \in S : c2[j].at = "running" /\ j \notin FromHost
               PROVE  \E j \in S : c2[j].parent \notin S /\ (Pure(c2, j) => \A l \in c2[j].lent : l.of \notin S)
    BY DEF Ordered
  <2>2. \A j \in S : cl[j].at = "running" /\ j \notin FromHost
    BY <1>5
  <2>3. PICK j \in S : cl[j].parent \notin S /\ (Pure(cl, j) => \A l \in cl[j].lent : l.of \notin S)
    BY <2>2 DEF Holding, Ordered
  <2> QED BY <1>5, <1>21, <2>1, <2>3
<1>24. Living(rp, c2, dd)
  <2>1. ASSUME NEW j \in CallNumbers, cl[j].at \in {"running", "waiting"} PROVE cl[j].root \in CallNumbers
    BY <1>0, <2>1 DEF Holding, Calling
  <2>2. \A j \in CallNumbers : Lasting(c2, dd, j) => Lasting(cl, dd, j)
    BY <1>5, <2>1 DEF Lasting
  <2> QED BY <1>6, <2>2 DEF Holding, Living
<1> QED BY <1>7, <1>8, <1>10, <1>11, <1>14, <1>15, <1>16, <1>17, <1>18, <1>20, <1>22, <1>23, <1>24
        DEF Holding, h2

-----------------------------------------------------------------------------
(* Wrappers.                                                                   *)

\* Wrappers that own nothing come, change or go.
LEMMA Unowned ==
  ASSUME NEW rp, NEW hd, NEW wr, NEW cl, NEW dd, NEW tr, Holding(rp, hd, wr, cl, dd, tr),
         NEW w2 \in [Wrappers -> WrapperRecords],
         \A w \in Wrappers :
           \/ w2[w] = wr[w]
           \/ ~Owns(wr[w]) /\ ~Owns(w2[w]) /\ w2[w].lends \in {0, wr[w].lends}
           \/ Owns(wr[w]) /\ Owns(w2[w]) /\ w2[w].rep = wr[w].rep /\ w2[w].lends = wr[w].lends,
         Wrapping(w2, cl)
  PROVE  Holding(rp, hd, w2, cl, dd, tr)
<1>1. \A w \in Wrappers : (Owns(w2[w]) <=> Owns(wr[w])) /\ (Owns(wr[w]) => w2[w].rep = wr[w].rep)
  OBVIOUS
<1>2. Typed(rp, hd, w2, cl, dd)
  BY DEF Holding, Typed
<1>3. \A q, r : Ownerless(hd, w2, cl, q, r) <=> Ownerless(hd, wr, cl, q, r)
  BY <1>1 DEF Ownerless
<1>4. OwnedOnce(hd, w2, cl, tr)
  <2>0. OwnedOnce(hd, wr, cl, tr)
    BY DEF Holding
  <2>1. \A v, w \in Wrappers : Owns(w2[v]) /\ Owns(w2[w]) /\ w2[v].rep = w2[w].rep => v = w
    BY <1>1, <2>0 DEF OwnedOnce
  <2>2. \A w \in Wrappers : Owns(w2[w]) => Owns(wr[w]) /\ w2[w].rep = wr[w].rep
    BY <1>1
  <2> QED BY <2>0, <2>1, <2>2 DEF OwnedOnce
<1>5. OwnedLives(rp, hd, w2, cl, tr) /\ LivesOwned(rp, hd, w2, cl, dd, tr)
  <2>1. OwnedLives(rp, hd, w2, cl, tr)
    BY <1>1 DEF Holding, OwnedLives
  <2>2. LivesOwned(rp, hd, w2, cl, dd, tr)
    BY <1>3 DEF Holding, LivesOwned
  <2> QED BY <2>1, <2>2
<1>6. Lending(hd, w2, cl, tr)
  <2>1. \A k \in CallNumbers : \A l \in cl[k].lent : l.by = Host =>
          l.where \in Wrappers /\ Owns(w2[l.where]) /\ w2[l.where].rep = l.rep
    BY <1>1 DEF Holding, Lending
  <2>2. \A q, r : Ownerless(hd, wr, cl, q, r) => Ownerless(hd, w2, cl, q, r)
    BY <1>3
  <2> QED BY <2>1, <2>2 DEF Holding, Lending
<1>7. Counted(hd, w2, cl)
  <2>1. ASSUME NEW w \in Wrappers, ~Owns(wr[w]) PROVE wr[w].lends = 0
    <3>1. BorrowersIn(cl, Host, w) = {}
      BY <2>1 DEF BorrowersIn, Holding, Lending
    <3> QED BY <3>1, FS_EmptySet DEF Holding, Counted
  <2>2. \A w \in Wrappers : w2[w].lends = wr[w].lends
    BY <2>1
  <2> QED BY <2>2 DEF Holding, Counted
<1> QED BY <1>2, <1>4, <1>5, <1>6, <1>7 DEF Holding

\* A borrow that a call of the host's was lent gets a wrapper.
LEMMA WrapBorrow ==
  ASSUME NEW rp, NEW hd, NEW wr, NEW cl, NEW dd, NEW tr, Holding(rp, hd, wr, cl, dd, tr),
         NEW w \in Wrappers, wr[w] = R!NoWrapper,
         NEW j \in CallNumbers, cl[j].at = "running", cl[j].to = Host,
         NEW x \in WrapperRecords, x.rep # 0, x.valid, ~x.owns, x.lends = 0, ~x.pending, x.scope = j,
         \E l \in cl[j].lent : l.rep = x.rep
  PROVE  Holding(rp, hd, [wr EXCEPT ![w] = x], cl, dd, tr)
<1> DEFINE w2 == [wr EXCEPT ![w] = x]
<1>1. /\ w2 \in [Wrappers -> WrapperRecords]
      /\ \A v \in Wrappers : w2[v] = IF v = w THEN x ELSE wr[v]
  BY Rewrapped DEF Holding, Typed
<1>2. ~Owns(R!NoWrapper) /\ ~Owns(x)
  BY WrapperFields DEF Owns
<1> HIDE DEF w2
<1>3. Wrapping(w2, cl)
  BY <1>1, ResourceAssumption DEF Holding, Wrapping
<1>4. \A v \in Wrappers : \/ w2[v] = wr[v]
                          \/ ~Owns(wr[v]) /\ ~Owns(w2[v]) /\ w2[v].lends \in {0, wr[v].lends}
  BY <1>1, <1>2
<1> QED BY <1>1, <1>3, <1>4, Unowned DEF w2

\* Wrappers of borrows are no longer valid.
LEMMA Unwrap ==
  ASSUME NEW rp, NEW hd, NEW wr, NEW cl, NEW dd, NEW tr, Holding(rp, hd, wr, cl, dd, tr),
         NEW w2 \in [Wrappers -> WrapperRecords],
         \A w \in Wrappers :
           \/ w2[w] = wr[w]
           \/ /\ wr[w].scope # 0 /\ ~w2[w].valid /\ ~w2[w].pending /\ w2[w].scope = 0
              /\ w2[w].lends \in {0, wr[w].lends}
  PROVE  Holding(rp, hd, w2, cl, dd, tr)
<1>1. \A w \in Wrappers : \/ w2[w] = wr[w]
                          \/ ~Owns(wr[w]) /\ ~Owns(w2[w]) /\ w2[w].lends \in {0, wr[w].lends}
  BY DEF Owns, Holding, Wrapping
<1>2. Wrapping(w2, cl)
  BY DEF Holding, Wrapping
<1> QED BY <1>1, <1>2, Unowned

\* A wrapper that is lent is dropped later.
LEMMA Defer ==
  ASSUME NEW rp, NEW hd, NEW wr, NEW cl, NEW dd, NEW tr, Holding(rp, hd, wr, cl, dd, tr),
         NEW w \in Wrappers, wr[w].valid, wr[w].owns
  PROVE  Holding(rp, hd, [wr EXCEPT ![w].valid = FALSE, ![w].pending = TRUE], cl, dd, tr)
<1> DEFINE x == [wr[w] EXCEPT !.valid = FALSE, !.pending = TRUE]
           w2 == [wr EXCEPT ![w].valid = FALSE, ![w].pending = TRUE]
<1>0. wr \in [Wrappers -> WrapperRecords]
  BY DEF Holding, Typed
<1>1. [wr[w] EXCEPT !.valid = FALSE] \in WrapperRecords
  BY <1>0 DEF WrapperRecords
<1>2. x \in WrapperRecords
  BY <1>1 DEF WrapperRecords
<1>3. /\ x.rep = wr[w].rep /\ ~x.valid /\ x.owns /\ x.lends = wr[w].lends /\ x.pending
      /\ x.scope = wr[w].scope /\ wr[w].scope = 0
  <2>1. wr[w].scope = 0
    BY DEF Holding, Wrapping
  <2> QED BY <1>0, <2>1 DEF WrapperRecords
<1>4. w2 = [wr EXCEPT ![w] = x]
  BY <1>0
<1> HIDE DEF x
<1>5. /\ w2 \in [Wrappers -> WrapperRecords]
      /\ \A v \in Wrappers : w2[v] = IF v = w THEN x ELSE wr[v]
  BY <1>0, <1>2, <1>4, Rewrapped
<1> HIDE DEF w2
<1>6. \A v \in Wrappers : \/ w2[v] = wr[v]
                          \/ Owns(wr[v]) /\ Owns(w2[v]) /\ w2[v].rep = wr[v].rep /\ w2[v].lends = wr[v].lends
  BY <1>3, <1>5 DEF Owns
<1>7. Wrapping(w2, cl)
  BY <1>3, <1>5 DEF Holding, Wrapping
<1> QED BY <1>5, <1>6, <1>7, Unowned DEF w2

-----------------------------------------------------------------------------
(* The tables themselves.                                                      *)

\* The room a table has left.
Spare(t) == MaxSlots + Len(t.free) - Len(t.slots)

\* A table's parts.
LEMMA TabularFields ==
  ASSUME NEW t \in Tabular
  PROVE  /\ t.slots \in Seq(Handles) /\ t.free \in Seq(Spots)
         /\ \A s \in Spots : At(t, s) \in Handles
         /\ t = [slots |-> t.slots, free |-> t.free]
         /\ Spare(t) \in Int
<1>1. t.slots \in Seq(Handles) /\ t.free \in Seq(Spots) /\ t = [slots |-> t.slots, free |-> t.free]
  BY DEF Tabular
<1>2. \A s \in Spots : At(t, s) \in Handles
  <2>1. DOMAIN t.slots = 1..Len(t.slots) /\ \A s \in 1..Len(t.slots) : t.slots[s] \in Handles
    BY <1>1
  <2>. QED  BY <2>1, Records DEF At
<1>3. Spare(t) \in Int
  BY <1>1, ResourceAssumption DEF Spare
<1>. QED  BY <1>1, <1>2, <1>3

\* Table.add: the handle gets a place where none was.
LEMMA PutHandle ==
  ASSUME NEW t, Orderly(t), NEW h \in Handles, h.rep # 0, Spare(t) >= 1
  PROVE  /\ Orderly(R!Put(t, h)) /\ Spare(R!Put(t, h)) = Spare(t) - 1
         /\ \E p \in Spots :
              /\ At(t, p).rep = 0
              /\ \A s \in Spots : At(R!Put(t, h), s) = IF s = p THEN h ELSE At(t, s)
<1>1. t \in Tabular /\ t.slots \in Seq(Handles) /\ t.free \in Seq(Spots)
  BY TabularFields DEF Orderly
<1>2. Len(t.slots) \in Nat /\ Len(t.free) \in Nat /\ DOMAIN t.slots = 1..Len(t.slots) /\ DOMAIN t.free = 1..Len(t.free)
  BY <1>1
<1>3. R!NoHandle \in Handles /\ R!NoHandle.rep = 0
  BY Records DEF IsHandle
<1>4. CASE t.free = <<>>
  <2> DEFINE q == [t EXCEPT !.slots = Append(@, h)]
  <2>1. R!Put(t, h) = q
    BY <1>4 DEF R!Put
  <2>2. q.slots = Append(t.slots, h) /\ q.free = <<>> /\ q \in Tabular
    <3>1. Append(t.slots, h) \in Seq(Handles)
      BY <1>1
    <3>. QED  BY <3>1, <1>1, <1>4 DEF Tabular
  <2>3. Len(t.free) = 0
    BY <1>4
  <2>4. /\ Append(t.slots, h) \in Seq(Handles) /\ Len(Append(t.slots, h)) = Len(t.slots) + 1
        /\ DOMAIN Append(t.slots, h) = 1..(Len(t.slots) + 1)
        /\ \A s \in 1..Len(t.slots) : Append(t.slots, h)[s] = t.slots[s]
        /\ Append(t.slots, h)[Len(t.slots) + 1] = h
    BY <1>1
  <2>5. Orderly(q)
    <3>1. Len(q.slots) <= MaxSlots
      BY <2>2, <2>3, <2>4, <1>2, ResourceAssumption DEF Spare
    <3>2. DOMAIN q.free = {}
      BY <2>2
    <3>3. \A s \in DOMAIN t.slots : t.slots[s].rep # 0
      BY <1>4 DEF Orderly
    <3>4. \A s \in DOMAIN q.slots : q.slots[s].rep # 0
      BY <2>2, <2>4, <3>3, <1>2
    <3>. QED  BY <2>2, <3>1, <3>2, <3>4 DEF Orderly
  <2>6. Len(t.slots) + 1 \in Spots /\ At(t, Len(t.slots) + 1) = R!NoHandle
    BY <1>2 DEF Spots, At
  <2>7. \A s \in Spots : At(q, s) = IF s = Len(t.slots) + 1 THEN h ELSE At(t, s)
    BY <1>2, <2>2, <2>4 DEF Spots, At
  <2> HIDE DEF q
  <2>8. Spare(q) = Spare(t) - 1
    BY <1>2, <2>2, <2>3, <2>4, ResourceAssumption DEF Spare
  <2>. QED  BY <2>1, <2>5, <2>6, <2>7, <2>8, <1>3
<1>5. CASE t.free # <<>>
  <2> DEFINE n == Len(t.free)
             p == t.free[n]
             q == [slots |-> [t.slots EXCEPT ![p] = h], free |-> SubSeq(t.free, 1, n - 1)]
  <2>1. n \in Nat \ {0}
    BY <1>1, <1>5
  <2>2. R!Put(t, h) = q
    BY <1>5 DEF R!Put, R!Last, R!Front
  <2>3. p \in DOMAIN t.slots /\ t.slots[p].rep = 0 /\ p \in Spots
    BY <2>1, <1>2, <1>1 DEF Orderly, Spots
  <2>4. /\ SubSeq(t.free, 1, n - 1) \in Seq(Spots) /\ Len(SubSeq(t.free, 1, n - 1)) = n - 1
        /\ \A m \in 1..(n - 1) : SubSeq(t.free, 1, n - 1)[m] = t.free[m]
    BY <2>1, <1>1, <1>2
  <2>4a. DOMAIN SubSeq(t.free, 1, n - 1) = 1..(n - 1)
    BY <2>4
  <2>5. /\ [t.slots EXCEPT ![p] = h] \in Seq(Handles) /\ Len([t.slots EXCEPT ![p] = h]) = Len(t.slots)
        /\ DOMAIN [t.slots EXCEPT ![p] = h] = DOMAIN t.slots
        /\ \A s \in DOMAIN t.slots : [t.slots EXCEPT ![p] = h][s] = IF s = p THEN h ELSE t.slots[s]
    BY <2>3, <1>1, <1>2
  <2>6. q.slots = [t.slots EXCEPT ![p] = h] /\ q.free = SubSeq(t.free, 1, n - 1) /\ q \in Tabular
    BY <2>4, <2>5 DEF Tabular
  <2>7. Orderly(q)
    <3>1. Len(q.slots) <= MaxSlots
      BY <2>5, <2>6 DEF Orderly
    <3>2. \A m \in DOMAIN q.free : q.free[m] \in DOMAIN q.slots /\ q.free[m] = t.free[m] /\ m \in DOMAIN t.free /\ m # n
      BY <2>1, <2>4, <2>4a, <2>5, <2>6, <1>2 DEF Orderly
    <3>3. \A m, l \in DOMAIN q.free : q.free[m] = q.free[l] => m = l
      BY <3>2 DEF Orderly
    <3>4. ASSUME NEW s \in DOMAIN q.slots
          PROVE  q.slots[s].rep = 0 <=> \E m \in DOMAIN q.free : q.free[m] = s
      <4>1. CASE s = p
        <5>1. \A m \in DOMAIN q.free : q.free[m] # p
          BY <3>2, <2>1, <1>2 DEF Orderly
        <5>. QED  BY <5>1, <4>1, <2>5, <2>6, <2>3
      <4>2. CASE s # p
        <5>1. q.slots[s] = t.slots[s] /\ s \in DOMAIN t.slots
          BY <4>2, <2>5, <2>6
        <5>2. (\E m \in DOMAIN t.free : t.free[m] = s) => \E m \in DOMAIN q.free : q.free[m] = s
          <6>1. \A m \in DOMAIN t.free : t.free[m] = s => m \in 1..(n - 1)
            BY <4>2, <1>2, <2>1
          <6>. QED  BY <6>1, <2>4, <2>4a, <2>6
        <5>. QED  BY <5>1, <5>2, <3>2 DEF Orderly
      <4>. QED  BY <4>1, <4>2
    <3> HIDE DEF q
    <3>. QED  BY <2>6, <3>1, <3>2, <3>3, <3>4 DEF Orderly
  <2>8. At(t, p).rep = 0
    BY <2>3 DEF At
  <2>9. \A s \in Spots : At(q, s) = IF s = p THEN h ELSE At(t, s)
    BY <2>3, <2>5, <2>6 DEF At
  <2> HIDE DEF q, p
  <2>10. Spare(q) = Spare(t) - 1
    <3>1. Len(q.free) = n - 1 /\ Len(q.slots) = Len(t.slots)
      BY <2>4, <2>5, <2>6
    <3> HIDE DEF n
    <3>. QED  BY <3>1, <1>2, <2>1, ResourceAssumption DEF Spare, n
  <2>. QED  BY <2>2, <2>3, <2>7, <2>8, <2>9, <2>10
<1>. QED  BY <1>4, <1>5

\* Table.remove: the place of the handle is free again.
LEMMA TakeSlot ==
  ASSUME NEW t, Orderly(t), NEW p \in DOMAIN t.slots, t.slots[p].rep # 0
  PROVE  /\ Orderly(R!Take(t, p)) /\ Spare(R!Take(t, p)) = Spare(t) + 1
         /\ p \in Spots
         /\ \A s \in Spots : At(R!Take(t, p), s) = IF s = p THEN R!NoHandle ELSE At(t, s)
<1>1. t \in Tabular /\ t.slots \in Seq(Handles) /\ t.free \in Seq(Spots)
  BY TabularFields DEF Orderly
<1>2. Len(t.slots) \in Nat /\ Len(t.free) \in Nat /\ DOMAIN t.slots = 1..Len(t.slots) /\ DOMAIN t.free = 1..Len(t.free)
  BY <1>1
<1>3. R!NoHandle \in Handles /\ R!NoHandle.rep = 0
  BY Records DEF IsHandle
<1>4. p \in Spots
  BY <1>2 DEF Spots
<1> DEFINE q == [slots |-> [t.slots EXCEPT ![p] = R!NoHandle], free |-> Append(t.free, p)]
           n == Len(t.free) + 1
<1>5. R!Take(t, p) = q
  BY DEF R!Take
<1>6. /\ Append(t.free, p) \in Seq(Spots) /\ Len(Append(t.free, p)) = n /\ n \in Nat
      /\ DOMAIN Append(t.free, p) = 1..n
      /\ \A m \in 1..Len(t.free) : Append(t.free, p)[m] = t.free[m]
      /\ Append(t.free, p)[n] = p
  BY <1>1, <1>4
<1>7. /\ [t.slots EXCEPT ![p] = R!NoHandle] \in Seq(Handles)
      /\ Len([t.slots EXCEPT ![p] = R!NoHandle]) = Len(t.slots)
      /\ DOMAIN [t.slots EXCEPT ![p] = R!NoHandle] = DOMAIN t.slots
      /\ \A s \in DOMAIN t.slots : [t.slots EXCEPT ![p] = R!NoHandle][s] = IF s = p THEN R!NoHandle ELSE t.slots[s]
  BY <1>1, <1>2, <1>3
<1>8. q.slots = [t.slots EXCEPT ![p] = R!NoHandle] /\ q.free = Append(t.free, p) /\ q \in Tabular
  BY <1>6, <1>7 DEF Tabular
<1>9. \A m \in DOMAIN t.free : t.free[m] # p
  BY DEF Orderly
<1>10. \A m \in DOMAIN q.free : (m \in DOMAIN t.free /\ q.free[m] = t.free[m]) \/ (m = n /\ q.free[m] = p)
  BY <1>2, <1>6, <1>8
<1>11. \A m \in DOMAIN t.free : m \in DOMAIN q.free /\ q.free[m] = t.free[m]
  BY <1>2, <1>6, <1>8
<1>12. Orderly(q)
  <2>1. Len(q.slots) <= MaxSlots
    BY <1>7, <1>8 DEF Orderly
  <2>2. \A m \in DOMAIN q.free : q.free[m] \in DOMAIN q.slots
    BY <1>7, <1>8, <1>10 DEF Orderly
  <2>3. \A m, l \in DOMAIN q.free : q.free[m] = q.free[l] => m = l
    BY <1>9, <1>10 DEF Orderly
  <2>4. ASSUME NEW s \in DOMAIN q.slots
        PROVE  q.slots[s].rep = 0 <=> \E m \in DOMAIN q.free : q.free[m] = s
    <3>1. CASE s = p
      <4>1. n \in DOMAIN q.free /\ q.free[n] = p
        BY <1>2, <1>6, <1>8
      <4>. QED  BY <4>1, <3>1, <1>7, <1>8, <1>3
    <3>2. CASE s # p
      <4>1. q.slots[s] = t.slots[s] /\ s \in DOMAIN t.slots
        BY <3>2, <1>7, <1>8
      <4>. QED  BY <4>1, <3>2, <1>10, <1>11 DEF Orderly
    <3>. QED  BY <3>1, <3>2
  <2> HIDE DEF q
  <2>. QED  BY <1>8, <2>1, <2>2, <2>3, <2>4 DEF Orderly
<1>13. \A s \in Spots : At(q, s) = IF s = p THEN R!NoHandle ELSE At(t, s)
  BY <1>7, <1>8 DEF At
<1> HIDE DEF q
<1>14. Spare(q) = Spare(t) + 1
  <2>1. Len(q.free) = Len(t.free) + 1 /\ Len(q.slots) = Len(t.slots)
    BY <1>6, <1>7, <1>8
  <2>. QED  BY <2>1, <1>2, ResourceAssumption DEF Spare
<1>. QED  BY <1>4, <1>5, <1>12, <1>13, <1>14

\* The places of a table, and what is in those it has.
LEMMA HeldAt ==
  ASSUME NEW tb, IsTables(tb)
  PROVE  /\ HeldIn(tb) \in [Insts -> [Spots -> Handles]]
         /\ \A i \in Insts : \A s \in Spots : HeldIn(tb)[i][s] = At(tb[i], s)
         /\ \A i \in Insts : DOMAIN tb[i].slots \subseteq Spots /\ Spare(tb[i]) \in Int
         /\ \A i \in Insts : \A s \in DOMAIN tb[i].slots : HeldIn(tb)[i][s] = tb[i].slots[s]
<1>1. \A i \in Insts : tb[i] \in Tabular
  BY DEF IsTables
<1>2. \A i \in Insts : \A s \in Spots : At(tb[i], s) \in Handles
  BY <1>1, TabularFields
<1>3. \A i \in Insts : DOMAIN tb[i].slots \subseteq Spots /\ Spare(tb[i]) \in Int
  <2>1. \A i \in Insts : tb[i].slots \in Seq(Handles) /\ Spare(tb[i]) \in Int
    BY <1>1, TabularFields
  <2>. QED  BY <2>1 DEF Spots
<1>. QED  BY <1>2, <1>3 DEF HeldIn, At

\* Tables are the same that hold the same handles at the same places.
LEMMA HeldSame ==
  ASSUME NEW h1 \in [Insts -> [Spots -> Handles]], NEW h2 \in [Insts -> [Spots -> Handles]],
         \A i \in Insts : \A s \in Spots : h1[i][s] = h2[i][s]
  PROVE  h1 = h2
<1>1. ASSUME NEW i \in Insts
      PROVE  h1[i] = h2[i]
  <2>1. h1[i] \in [Spots -> Handles] /\ h2[i] \in [Spots -> Handles]
    OBVIOUS
  <2>. QED  BY <2>1
<1>. QED  BY <1>1

\* Another table for one instance, which has another handle at one place.
LEMMA Retabled ==
  ASSUME NEW tb, IsTables(tb), NEW i \in Insts, NEW t, Orderly(t), NEW p \in Spots, NEW h \in Handles,
         \A s \in Spots : At(t, s) = IF s = p THEN h ELSE At(tb[i], s)
  PROVE  /\ IsTables([tb EXCEPT ![i] = t])
         /\ HeldIn([tb EXCEPT ![i] = t]) = [HeldIn(tb) EXCEPT ![i][p] = h]
         /\ \A j \in Insts : [tb EXCEPT ![i] = t][j] = IF j = i THEN t ELSE tb[j]
<1> DEFINE tc == [tb EXCEPT ![i] = t]
<1>1. tb \in [Insts -> Tabular] /\ t \in Tabular
  BY DEF IsTables, Orderly
<1>2. tc \in [Insts -> Tabular] /\ \A j \in Insts : tc[j] = IF j = i THEN t ELSE tb[j]
  BY <1>1
<1> HIDE DEF tc
<1>3. IsTables(tc)
  BY <1>2 DEF IsTables
<1>4. /\ HeldIn(tb) \in [Insts -> [Spots -> Handles]] /\ HeldIn(tc) \in [Insts -> [Spots -> Handles]]
      /\ \A j \in Insts : \A s \in Spots : HeldIn(tb)[j][s] = At(tb[j], s) /\ HeldIn(tc)[j][s] = At(tc[j], s)
  BY <1>3, HeldAt
<1>5. /\ [HeldIn(tb) EXCEPT ![i][p] = h] \in [Insts -> [Spots -> Handles]]
      /\ \A j \in Insts : \A s \in Spots :
           [HeldIn(tb) EXCEPT ![i][p] = h][j][s] = IF j = i /\ s = p THEN h ELSE HeldIn(tb)[j][s]
  BY <1>4, Placed
<1>6. \A j \in Insts : \A s \in Spots : HeldIn(tc)[j][s] = [HeldIn(tb) EXCEPT ![i][p] = h][j][s]
  BY <1>2, <1>4, <1>5
<1>7. HeldIn(tc) = [HeldIn(tb) EXCEPT ![i][p] = h]
  BY <1>4, <1>5, <1>6, HeldSame
<1>. QED  BY <1>2, <1>3, <1>7 DEF tc

\* A handle that owns gets a place.
LEMMA GivenStands ==
  ASSUME NEW rp, NEW tb, NEW wr, NEW cl, NEW dd, NEW r, Stands(rp, tb, wr, cl, dd, r),
         NEW d \in Insts, r # 0 => Spare(tb[d]) >= 1
  PROVE  /\ Stands(rp, R!Given(tb, d, r), wr, cl, dd, 0)
         /\ \A i \in Insts :
              Spare(R!Given(tb, d, r)[i]) = IF i = d /\ r # 0 THEN Spare(tb[i]) - 1 ELSE Spare(tb[i])
         /\ \A i \in Insts : \A s \in Spots : HeldIn(R!Given(tb, d, r))[i][s].scope # 0 =>
              HeldIn(R!Given(tb, d, r))[i][s].scope = HeldIn(tb)[i][s].scope
<1>1. CASE r = 0
  <2>1. R!Given(tb, d, r) = tb
    BY <1>1 DEF R!Given
  <2>. QED  BY <1>1, <2>1
<1>2. CASE r # 0
  <2> DEFINE t == R!Put(tb[d], R!Owning(r))
  <2>1. IsTables(tb) /\ Orderly(tb[d]) /\ Holding(rp, HeldIn(tb), wr, cl, dd, r)
    BY DEF Stands, IsTables
  <2>2. r \in RepNumbers
    BY <2>1, <1>2 DEF Holding
  <2>3. R!Owning(r) \in Handles /\ R!Owning(r).rep = r /\ R!Owning(r).scope = 0 /\ r # 0
    BY <2>2, <1>2, Records DEF IsHandle
  <2>4. PICK p \in Spots : /\ At(tb[d], p).rep = 0
                           /\ \A s \in Spots : At(t, s) = IF s = p THEN R!Owning(r) ELSE At(tb[d], s)
    BY <2>1, <2>3, <1>2, PutHandle
  <2>5. Orderly(t) /\ Spare(t) = Spare(tb[d]) - 1
    BY <2>1, <2>3, <1>2, PutHandle
  <2>6. R!Given(tb, d, r) = [tb EXCEPT ![d] = t]
    BY <1>2 DEF R!Given
  <2> HIDE DEF t
  <2>7. /\ IsTables([tb EXCEPT ![d] = t])
        /\ HeldIn([tb EXCEPT ![d] = t]) = [HeldIn(tb) EXCEPT ![d][p] = R!Owning(r)]
        /\ \A j \in Insts : [tb EXCEPT ![d] = t][j] = IF j = d THEN t ELSE tb[j]
    BY <2>1, <2>3, <2>4, <2>5, Retabled
  <2>8. HeldIn(tb)[d][p].rep = 0 /\ HeldIn(tb) \in [Insts -> [Spots -> Handles]]
    BY <2>1, <2>4, HeldAt
  <2>9. Holding(rp, [HeldIn(tb) EXCEPT ![d][p] = R!Owning(r)], wr, cl, dd, 0)
    BY <2>1, <2>8, <1>2, GiveHandle
  <2>10. \A i \in Insts : \A s \in Spots :
           [HeldIn(tb) EXCEPT ![d][p] = R!Owning(r)][i][s] = IF i = d /\ s = p THEN R!Owning(r) ELSE HeldIn(tb)[i][s]
    BY <2>8, <2>3, Placed
  <2>11. Stands(rp, R!Given(tb, d, r), wr, cl, dd, 0)
    BY <2>6, <2>7, <2>9 DEF Stands
  <2>12. \A i \in Insts :
           Spare(R!Given(tb, d, r)[i]) = IF i = d /\ r # 0 THEN Spare(tb[i]) - 1 ELSE Spare(tb[i])
    BY <2>5, <2>6, <2>7, <1>2
  <2>13. \A i \in Insts : \A s \in Spots : HeldIn(R!Given(tb, d, r))[i][s].scope # 0 =>
           HeldIn(R!Given(tb, d, r))[i][s].scope = HeldIn(tb)[i][s].scope
    <3>1. HeldIn(R!Given(tb, d, r)) = [HeldIn(tb) EXCEPT ![d][p] = R!Owning(r)]
      BY <2>6, <2>7
    <3>2. \A i \in Insts : \A s \in Spots :
            HeldIn(R!Given(tb, d, r))[i][s] = IF i = d /\ s = p THEN R!Owning(r) ELSE HeldIn(tb)[i][s]
      BY <2>10, <3>1
    <3>. QED  BY <2>3, <3>2
  <2>. QED  BY <2>11, <2>12, <2>13
<1>. QED  BY <1>1, <1>2

\* A handle of a borrow gets one.
LEMMA ShownStands ==
  ASSUME NEW rp, NEW tb, NEW wr, NEW cl, NEW dd, NEW tr, Stands(rp, tb, wr, cl, dd, tr),
         NEW j \in CallNumbers, cl[j].at = "running", cl[j].to # Host, cl[j].borrows = 0,
         NEW r \in RepNumbers \cup {0}, r # 0 => \E l \in cl[j].lent : l.rep = r,
         \A i \in Insts : \A s \in Spots : HeldIn(tb)[i][s].scope # j,
         NEW d \in Insts, Spare(tb[d]) >= R!BorrowsOf(d, r)
  PROVE  Stands(rp, R!Shown(tb, d, r, j), wr, [cl EXCEPT ![j].borrows = R!BorrowsOf(d, r)], dd, tr)
<1>0. cl \in [CallNumbers -> CallRecords]
  BY DEF Stands, Holding, Typed
<1>1. CASE r = 0 \/ d = Impl
  <2>1. R!Shown(tb, d, r, j) = tb /\ R!BorrowsOf(d, r) = 0
    BY <1>1 DEF R!Shown, R!BorrowsOf
  <2>2. [cl[j] EXCEPT !.borrows = 0] = cl[j]
    BY <1>0 DEF CallRecords
  <2>3. [cl EXCEPT ![j].borrows = 0] = cl
    BY <1>0, <2>2
  <2>. QED  BY <2>1, <2>3
<1>2. CASE r # 0 /\ d # Impl
  <2> DEFINE t == R!Put(tb[d], R!Borrowing(r, j))
  <2>1. IsTables(tb) /\ Orderly(tb[d]) /\ Holding(rp, HeldIn(tb), wr, cl, dd, tr)
    BY DEF Stands, IsTables
  <2>2. r \in RepNumbers /\ R!BorrowsOf(d, r) = 1
    BY <1>2 DEF R!BorrowsOf
  <2>3. R!Borrowing(r, j) \in Handles /\ R!Borrowing(r, j).rep = r /\ r # 0
    BY <2>2, <1>2, Records DEF IsHandle
  <2>4. PICK p \in Spots : /\ At(tb[d], p).rep = 0
                           /\ \A s \in Spots : At(t, s) = IF s = p THEN R!Borrowing(r, j) ELSE At(tb[d], s)
    BY <2>1, <2>2, <2>3, PutHandle
  <2>5. Orderly(t)
    BY <2>1, <2>2, <2>3, PutHandle
  <2>6. R!Shown(tb, d, r, j) = [tb EXCEPT ![d] = t]
    BY <1>2 DEF R!Shown
  <2> HIDE DEF t
  <2>7. /\ IsTables([tb EXCEPT ![d] = t])
        /\ HeldIn([tb EXCEPT ![d] = t]) = [HeldIn(tb) EXCEPT ![d][p] = R!Borrowing(r, j)]
    BY <2>1, <2>3, <2>4, <2>5, Retabled
  <2>8. HeldIn(tb)[d][p].rep = 0
    BY <2>1, <2>4, HeldAt
  <2>9. Holding(rp, [HeldIn(tb) EXCEPT ![d][p] = R!Borrowing(r, j)], wr, [cl EXCEPT ![j].borrows = 1], dd, tr)
    BY <2>1, <2>2, <2>8, <1>2, ShowBorrow
  <2>. QED  BY <2>2, <2>6, <2>7, <2>9 DEF Stands
<1>. QED  BY <1>1, <1>2

\* A handle leaves its table.
LEMMA RemovedAt ==
  ASSUME NEW tb, IsTables(tb), NEW i \in Insts, NEW s \in DOMAIN tb[i].slots, tb[i].slots[s].rep # 0
  PROVE  /\ s \in Spots /\ s # 0 /\ HeldIn(tb)[i][s] = tb[i].slots[s]
         /\ IsTables(R!Removed(tb, i, s))
         /\ HeldIn(R!Removed(tb, i, s)) = [HeldIn(tb) EXCEPT ![i][s] = R!NoHandle]
         /\ \A j \in Insts : Spare(R!Removed(tb, i, s)[j]) = IF j = i THEN Spare(tb[j]) + 1 ELSE Spare(tb[j])
<1>1. Orderly(tb[i])
  BY DEF IsTables
<1>2. s \in Spots /\ HeldIn(tb)[i][s] = tb[i].slots[s]
  BY HeldAt
<1>3. s # 0
  BY <1>2 DEF Spots
<1> DEFINE t == R!Take(tb[i], s)
<1>4. /\ Orderly(t) /\ Spare(t) = Spare(tb[i]) + 1
      /\ \A x \in Spots : At(t, x) = IF x = s THEN R!NoHandle ELSE At(tb[i], x)
  BY <1>1, TakeSlot
<1>5. R!Removed(tb, i, s) = [tb EXCEPT ![i] = t]
  BY <1>3 DEF R!Removed
<1> HIDE DEF t
<1>6. /\ IsTables([tb EXCEPT ![i] = t])
      /\ HeldIn([tb EXCEPT ![i] = t]) = [HeldIn(tb) EXCEPT ![i][s] = R!NoHandle]
      /\ \A j \in Insts : [tb EXCEPT ![i] = t][j] = IF j = i THEN t ELSE tb[j]
  BY <1>2, <1>4, Records, Retabled
<1>. QED  BY <1>2, <1>3, <1>4, <1>5, <1>6

\* An own that is not lent leaves its table: the step has taken it.
LEMMA RemovedStands ==
  ASSUME NEW rp, NEW tb, NEW wr, NEW cl, NEW dd, Stands(rp, tb, wr, cl, dd, 0), NEW i \in Insts, NEW s,
         s # 0 => /\ s \in DOMAIN tb[i].slots /\ tb[i].slots[s].rep # 0
                  /\ tb[i].slots[s].own /\ tb[i].slots[s].lends = 0
  PROVE  /\ Stands(rp, R!Removed(tb, i, s), wr, cl, dd, IF s = 0 THEN 0 ELSE tb[i].slots[s].rep)
         /\ \A j \in Insts :
              Spare(R!Removed(tb, i, s)[j]) = IF j = i /\ s # 0 THEN Spare(tb[j]) + 1 ELSE Spare(tb[j])
         /\ \A j \in Insts : \A x \in Spots : HeldIn(R!Removed(tb, i, s))[j][x].scope # 0 =>
              HeldIn(R!Removed(tb, i, s))[j][x].scope = HeldIn(tb)[j][x].scope
<1>1. CASE s = 0
  <2>1. R!Removed(tb, i, s) = tb
    BY <1>1 DEF R!Removed
  <2>. QED  BY <1>1, <2>1
<1>2. CASE s # 0
  <2>1. IsTables(tb) /\ Holding(rp, HeldIn(tb), wr, cl, dd, 0) /\ HeldIn(tb) \in [Insts -> [Spots -> Handles]]
    BY HeldAt DEF Stands
  <2>2. /\ s \in Spots /\ s # 0 /\ HeldIn(tb)[i][s] = tb[i].slots[s]
        /\ IsTables(R!Removed(tb, i, s))
        /\ HeldIn(R!Removed(tb, i, s)) = [HeldIn(tb) EXCEPT ![i][s] = R!NoHandle]
        /\ \A j \in Insts : Spare(R!Removed(tb, i, s)[j]) = IF j = i THEN Spare(tb[j]) + 1 ELSE Spare(tb[j])
    BY <1>2, <2>1, RemovedAt
  <2>3. Holding(rp, [HeldIn(tb) EXCEPT ![i][s] = R!NoHandle], wr, cl, dd, HeldIn(tb)[i][s].rep)
    BY <1>2, <2>1, <2>2, TakeHandle
  <2>4. /\ R!NoHandle \in Handles /\ R!NoHandle.scope = 0
        /\ \A j \in Insts : \A x \in Spots :
             [HeldIn(tb) EXCEPT ![i][s] = R!NoHandle][j][x] = IF j = i /\ x = s THEN R!NoHandle ELSE HeldIn(tb)[j][x]
    BY <2>1, <2>2, Records, Placed DEF IsHandle
  <2>5. Stands(rp, R!Removed(tb, i, s), wr, cl, dd, IF s = 0 THEN 0 ELSE tb[i].slots[s].rep)
    BY <1>2, <2>2, <2>3 DEF Stands
  <2>. QED  BY <1>2, <2>2, <2>4, <2>5
<1>. QED  BY <1>1, <1>2

\* A borrow that is not lent leaves its table, and the call it was of has one less.
LEMMA DroppedStands ==
  ASSUME NEW rp, NEW tb, NEW wr, NEW cl, NEW dd, NEW tr, Stands(rp, tb, wr, cl, dd, tr), NEW i \in Insts,
         NEW s \in DOMAIN tb[i].slots, tb[i].slots[s].rep # 0, ~tb[i].slots[s].own, tb[i].slots[s].lends = 0
  PROVE  Stands(rp, R!Removed(tb, i, s), wr,
                IF cl[tb[i].slots[s].scope].at = "none" THEN cl
                ELSE [cl EXCEPT ![tb[i].slots[s].scope].borrows = @ - 1], dd, tr)
<1>1. IsTables(tb) /\ Holding(rp, HeldIn(tb), wr, cl, dd, tr)
  BY DEF Stands
<1>2. /\ s \in Spots /\ HeldIn(tb)[i][s] = tb[i].slots[s] /\ IsTables(R!Removed(tb, i, s))
      /\ HeldIn(R!Removed(tb, i, s)) = [HeldIn(tb) EXCEPT ![i][s] = R!NoHandle]
  BY <1>1, RemovedAt
<1> DEFINE h == tb[i].slots[s]
           c2 == IF cl[h.scope].at = "none" THEN cl ELSE [cl EXCEPT ![h.scope].borrows = @ - 1]
<1>3. Holding(rp, [HeldIn(tb) EXCEPT ![i][s] = R!NoHandle], wr, c2, dd, tr)
  <2> DEFINE g == HeldIn(tb)[i][s]
             c1 == IF cl[g.scope].at = "none" THEN cl ELSE [cl EXCEPT ![g.scope].borrows = @ - 1]
  <2>1. g.rep # 0 /\ ~g.own /\ g.lends = 0
    BY <1>2
  <2>2. Holding(rp, [HeldIn(tb) EXCEPT ![i][s] = R!NoHandle], wr, c1, dd, tr)
    BY <1>1, <1>2, <2>1, DropBorrow
  <2>3. c1 = c2
    BY <1>2
  <2> HIDE DEF c1, c2
  <2>. QED  BY <2>2, <2>3
<1> HIDE DEF c2, h
<1>4. Stands(rp, R!Removed(tb, i, s), wr, c2, dd, tr)
  BY <1>2, <1>3 DEF Stands
<1>. QED  BY <1>4 DEF c2, h

\* Where an instance has died, any handle may leave its table.
LEMMA VanishStands ==
  ASSUME NEW rp, NEW tb, NEW wr, NEW cl, NEW dd, Stands(rp, tb, wr, cl, dd, 0), dd # {}, NEW i \in Insts, NEW s,
         s # 0 => s \in DOMAIN tb[i].slots /\ tb[i].slots[s].rep # 0,
         NEW c2 \in [CallNumbers -> CallRecords],
         \A k \in CallNumbers :
           /\ c2[k].at = cl[k].at /\ c2[k].from = cl[k].from /\ c2[k].to = cl[k].to /\ c2[k].own = cl[k].own
           /\ c2[k].borrows = cl[k].borrows /\ c2[k].parent = cl[k].parent /\ c2[k].root = cl[k].root
           /\ c2[k].across = cl[k].across /\ c2[k].lent = R!Lost(cl[k].lent, i, s)
  PROVE  Stands(rp, R!Removed(tb, i, s), wr, c2, dd, 0)
<1>1. CASE s = 0
  <2>1. R!Removed(tb, i, s) = tb
    BY <1>1 DEF R!Removed
  <2>2. cl \in [CallNumbers -> CallRecords]
    BY DEF Stands, Holding, Typed
  <2>3. \A l \in Loans : [l EXCEPT !.where = 0] \in Loans /\ (l.where = 0 => [l EXCEPT !.where = 0] = l)
    BY DEF Loans
  <2>4. ASSUME NEW k \in CallNumbers
        PROVE  c2[k] = cl[k]
    <3>1. cl[k].lent \in SUBSET Loans
      BY <2>2 DEF CallRecords
    <3>2. R!Lost(cl[k].lent, i, 0) = cl[k].lent
      <4>1. \A l \in cl[k].lent : (IF l.by = i /\ l.where = 0 THEN [l EXCEPT !.where = 0] ELSE l) = l
        BY <2>3, <3>1
      <4>. QED  BY <4>1 DEF R!Lost
    <3>. QED  BY <1>1, <2>2, <3>2 DEF CallRecords
  <2>5. c2 = cl
    BY <2>2, <2>4
  <2>. QED  BY <2>1, <2>5
<1>2. CASE s # 0
  <2>1. IsTables(tb) /\ Holding(rp, HeldIn(tb), wr, cl, dd, 0)
    BY DEF Stands
  <2>2. /\ s \in Spots /\ HeldIn(tb)[i][s] = tb[i].slots[s] /\ IsTables(R!Removed(tb, i, s))
        /\ HeldIn(R!Removed(tb, i, s)) = [HeldIn(tb) EXCEPT ![i][s] = R!NoHandle]
    BY <1>2, <2>1, RemovedAt
  <2>3. HeldIn(tb)[i][s].rep # 0
    BY <1>2, <2>2
  <2>4. Holding(rp, [HeldIn(tb) EXCEPT ![i][s] = R!NoHandle], wr, c2, dd, 0)
    <3> DEFINE hd == HeldIn(tb)
    <3>1. hd[i][s].rep # 0 /\ Holding(rp, hd, wr, cl, dd, 0) /\ s \in Spots
      BY <2>1, <2>2, <2>3
    <3> HIDE DEF hd
    <3>2. Holding(rp, [hd EXCEPT ![i][s] = R!NoHandle], wr, c2, dd, 0)
      BY ZenonT(60), <3>1, Vanish
    <3>. QED  BY <3>2 DEF hd
  <2>. QED  BY <2>2, <2>4 DEF Stands
<1>. QED  BY <1>1, <1>2

-----------------------------------------------------------------------------
(* Lends in the tables.                                                        *)

\* Tables whose handles differ in how often they are lent.
LEMMA Relent ==
  ASSUME NEW tb, IsTables(tb), NEW tc \in [Insts -> Tabular],
         \A i \in Insts : /\ tc[i].free = tb[i].free /\ DOMAIN tc[i].slots = DOMAIN tb[i].slots
                          /\ Len(tc[i].slots) = Len(tb[i].slots)
                          /\ \A s \in DOMAIN tb[i].slots : tc[i].slots[s].rep = tb[i].slots[s].rep
  PROVE  IsTables(tc) /\ \A i \in Insts : Spare(tc[i]) = Spare(tb[i])
<1>1. ASSUME NEW i \in Insts
      PROVE  Orderly(tc[i])
  <2>1. Orderly(tb[i]) /\ tc[i] \in Tabular
    BY DEF IsTables
  <2>. QED  BY <2>1 DEF Orderly
<1>. QED  BY <1>1 DEF IsTables, Spare

\* The handle at one place is lent once more.
LEMMA LentAt ==
  ASSUME NEW tb, IsTables(tb), NEW i \in Insts, NEW b, b = 0 \/ b \in DOMAIN tb[i].slots
  PROVE  /\ IsTables(R!Lent(tb, i, b))
         /\ \A j \in Insts : /\ DOMAIN R!Lent(tb, i, b)[j].slots = DOMAIN tb[j].slots
                             /\ Spare(R!Lent(tb, i, b)[j]) = Spare(tb[j])
         /\ \A j \in Insts : \A s \in Spots :
              /\ HeldIn(R!Lent(tb, i, b))[j][s].rep = HeldIn(tb)[j][s].rep
              /\ HeldIn(R!Lent(tb, i, b))[j][s].own = HeldIn(tb)[j][s].own
              /\ HeldIn(R!Lent(tb, i, b))[j][s].scope = HeldIn(tb)[j][s].scope
              /\ HeldIn(R!Lent(tb, i, b))[j][s].lends = HeldIn(tb)[j][s].lends + IF j = i /\ s = b THEN 1 ELSE 0
<1>1. tb \in [Insts -> Tabular] /\ 0 \notin Spots
  BY DEF IsTables, Spots
<1>2. \A j \in Insts : /\ tb[j].slots \in Seq(Handles) /\ tb[j].free \in Seq(Spots) /\ DOMAIN tb[j].slots \subseteq Spots
                       /\ tb[j] = [slots |-> tb[j].slots, free |-> tb[j].free]
  BY <1>1, TabularFields, HeldAt
<1>3. \A j \in Insts : \A s \in Spots : HeldIn(tb)[j][s] \in Handles
  BY HeldAt
<1>4. CASE b = 0
  <2>1. R!Lent(tb, i, b) = tb
    BY <1>4 DEF R!Lent
  <2>2. \A j \in Insts : \A s \in Spots : HeldIn(tb)[j][s].lends = HeldIn(tb)[j][s].lends + 0
    BY <1>3 DEF Handles
  <2>. QED  BY <1>1, <1>4, <2>1, <2>2
<1>5. CASE b # 0
  <2> DEFINE g == tb[i].slots[b]
             sl == [tb[i].slots EXCEPT ![b] = [g EXCEPT !.lends = @ + 1]]
             tc == [tb EXCEPT ![i].slots[b].lends = @ + 1]
  <2>1. R!Lent(tb, i, b) = tc
    BY <1>5 DEF R!Lent
  <2>2. b \in DOMAIN tb[i].slots /\ b \in Spots /\ g \in Handles
    <3>1. b \in DOMAIN tb[i].slots /\ tb[i].slots \in Seq(Handles)
      BY <1>2, <1>5
    <3>2. \A ts \in Seq(Handles) : \A s \in DOMAIN ts : ts[s] \in Handles
      OBVIOUS
    <3>. QED  BY <3>1, <3>2, <1>2
  <2>3. /\ [g EXCEPT !.lends = @ + 1] \in Handles
        /\ [g EXCEPT !.lends = @ + 1].rep = g.rep /\ [g EXCEPT !.lends = @ + 1].own = g.own
        /\ [g EXCEPT !.lends = @ + 1].scope = g.scope /\ [g EXCEPT !.lends = @ + 1].lends = g.lends + 1
    BY <2>2 DEF Handles
  <2>4. /\ sl \in Seq(Handles) /\ DOMAIN sl = DOMAIN tb[i].slots /\ Len(sl) = Len(tb[i].slots)
        /\ \A s \in DOMAIN tb[i].slots : sl[s] = IF s = b THEN [g EXCEPT !.lends = @ + 1] ELSE tb[i].slots[s]
    <3> DEFINE ts == tb[i].slots
               e == [g EXCEPT !.lends = @ + 1]
    <3>1. ts \in Seq(Handles) /\ b \in DOMAIN ts /\ e \in Handles /\ sl = [ts EXCEPT ![b] = e]
      BY <1>2, <2>2, <2>3
    <3> HIDE DEF ts, e, sl
    <3>2. /\ sl \in Seq(Handles) /\ DOMAIN sl = DOMAIN ts /\ Len(sl) = Len(ts)
          /\ \A s \in DOMAIN ts : sl[s] = IF s = b THEN e ELSE ts[s]
      BY <3>1
    <3>. QED  BY <3>2 DEF ts, e
  <2>5. tc = [tb EXCEPT ![i] = [tb[i] EXCEPT !.slots = sl]]
    BY <1>1
  <2>6. /\ [tb[i] EXCEPT !.slots = sl] \in Tabular /\ [tb[i] EXCEPT !.slots = sl].slots = sl
        /\ [tb[i] EXCEPT !.slots = sl].free = tb[i].free
    BY <1>1, <2>4 DEF Tabular
  <2>7. /\ tc \in [Insts -> Tabular] /\ \A j \in Insts \ {i} : tc[j] = tb[j]
        /\ tc[i].slots = sl /\ tc[i].free = tb[i].free
    BY <1>1, <2>5, <2>6
  <2> HIDE DEF tc, sl
  <2>8. \A j \in Insts : DOMAIN tc[j].slots = DOMAIN tb[j].slots /\ Len(tc[j].slots) = Len(tb[j].slots)
    BY <2>4, <2>7
  <2>9. IsTables(tc) /\ \A j \in Insts : Spare(tc[j]) = Spare(tb[j])
    <3>1. \A j \in Insts : \A s \in DOMAIN tb[j].slots : tc[j].slots[s].rep = tb[j].slots[s].rep
      BY <2>3, <2>4, <2>7
    <3>2. \A j \in Insts : tc[j].free = tb[j].free
      BY <2>7
    <3>. QED  BY <2>7, <2>8, <3>1, <3>2, Relent
  <2>10. \A j \in Insts : \A s \in Spots :
            HeldIn(tc)[j][s] = IF j = i /\ s = b THEN [g EXCEPT !.lends = @ + 1] ELSE HeldIn(tb)[j][s]
    <3>1. \A j \in Insts : \A s \in Spots : HeldIn(tc)[j][s] = At(tc[j], s) /\ HeldIn(tb)[j][s] = At(tb[j], s)
      BY <2>9, HeldAt
    <3>2. \A s \in Spots : At(tc[i], s) = IF s = b THEN [g EXCEPT !.lends = @ + 1] ELSE At(tb[i], s)
      BY <2>2, <2>4, <2>7 DEF At
    <3>3. \A j \in Insts \ {i} : \A s \in Spots : At(tc[j], s) = At(tb[j], s)
      BY <2>7
    <3>. QED  BY <3>1, <3>2, <3>3
  <2>11. HeldIn(tb)[i][b] = g
    BY <2>2, HeldAt
  <2>12. ASSUME NEW j \in Insts, NEW s \in Spots
         PROVE  /\ HeldIn(tc)[j][s].rep = HeldIn(tb)[j][s].rep /\ HeldIn(tc)[j][s].own = HeldIn(tb)[j][s].own
                /\ HeldIn(tc)[j][s].scope = HeldIn(tb)[j][s].scope
                /\ HeldIn(tc)[j][s].lends = HeldIn(tb)[j][s].lends + IF j = i /\ s = b THEN 1 ELSE 0
    <3>1. CASE j = i /\ s = b
      BY <3>1, <2>3, <2>10, <2>11
    <3>2. CASE ~(j = i /\ s = b)
      <4>1. HeldIn(tb)[j][s].lends \in Int
        BY <1>3 DEF Handles
      <4>. QED  BY <3>2, <4>1, <2>10
    <3>. QED  BY <3>1, <3>2
  <2>. QED  BY <2>1, <2>8, <2>9, <2>12
<1>. QED  BY <1>4, <1>5

\* A guest's call j, as c, is made in k, which runs in i, and may have been lent the handle at b.
Makes(tb, cl, c2, k, i, j, c, b) ==
  /\ k \in CallNumbers /\ cl[k].at = "running" /\ i \in Insts /\ cl[k].to = i
  /\ j \in CallNumbers \ FromHost /\ cl[j].at = "none"
  /\ \A n \in Insts : \A s \in Spots : HeldIn(tb)[n][s].scope # j
  /\ b = 0 \/ (b \in DOMAIN tb[i].slots /\ tb[i].slots[b].rep # 0)
  /\ c \in CallRecords /\ c.at = "running" /\ c.from = i /\ c.own = 0 /\ c.borrows = 0
  /\ c.parent = k /\ c.root = cl[k].root
  /\ c.lent = IF b = 0 THEN {} ELSE {R!Loan(i, b, tb[i].slots[b].scope, tb[i].slots[b].rep)}
  /\ c2 \in [CallNumbers -> CallRecords] /\ c2[j] = c
  /\ \A n \in CallNumbers \ {j} :
       /\ c2[n].at = cl[n].at /\ c2[n].from = cl[n].from /\ c2[n].to = cl[n].to /\ c2[n].lent = cl[n].lent
       /\ c2[n].own = cl[n].own /\ c2[n].borrows = cl[n].borrows
       /\ c2[n].parent = cl[n].parent /\ c2[n].root = cl[n].root
       /\ n # cl[k].root => c2[n] = cl[n]
  /\ cl[cl[k].root].across => c2[cl[k].root].across
  /\ ~c2[cl[k].root].across =>
       \A l \in c.lent : l.of # 0 => cl[l.of].at = "running" /\ cl[l.of].root = cl[k].root

\* It is made.
LEMMA LentStands ==
  ASSUME NEW rp, NEW tb, NEW wr, NEW cl, NEW dd, NEW tr, Stands(rp, tb, wr, cl, dd, tr),
         NEW c2, NEW k, NEW i, NEW j, NEW c, NEW b, Makes(tb, cl, c2, k, i, j, c, b)
  PROVE  Stands(rp, R!Lent(tb, i, b), wr, c2, dd, tr)
<1>0. /\ k \in CallNumbers /\ cl[k].at = "running" /\ i \in Insts /\ cl[k].to = i
      /\ j \in CallNumbers \ FromHost /\ cl[j].at = "none"
      /\ \A n \in Insts : \A s \in Spots : HeldIn(tb)[n][s].scope # j
      /\ b = 0 \/ (b \in DOMAIN tb[i].slots /\ tb[i].slots[b].rep # 0)
      /\ c \in CallRecords /\ c.at = "running" /\ c.from = i /\ c.own = 0 /\ c.borrows = 0
      /\ c.parent = k /\ c.root = cl[k].root
      /\ c.lent = IF b = 0 THEN {} ELSE {R!Loan(i, b, tb[i].slots[b].scope, tb[i].slots[b].rep)}
      /\ c2 \in [CallNumbers -> CallRecords] /\ c2[j] = c
      /\ \A n \in CallNumbers \ {j} :
           /\ c2[n].at = cl[n].at /\ c2[n].from = cl[n].from /\ c2[n].to = cl[n].to /\ c2[n].lent = cl[n].lent
           /\ c2[n].own = cl[n].own /\ c2[n].borrows = cl[n].borrows
           /\ c2[n].parent = cl[n].parent /\ c2[n].root = cl[n].root
           /\ n # cl[k].root => c2[n] = cl[n]
      /\ cl[cl[k].root].across => c2[cl[k].root].across
      /\ ~c2[cl[k].root].across =>
           \A l \in c.lent : l.of # 0 => cl[l.of].at = "running" /\ cl[l.of].root = cl[k].root
  BY DEF Makes
<1> DEFINE hd == HeldIn(tb)
           h2 == HeldIn(R!Lent(tb, i, b))
<1>1. IsTables(tb) /\ Holding(rp, hd, wr, cl, dd, tr)
  BY DEF Stands
<1>2. /\ IsTables(R!Lent(tb, i, b))
      /\ \A n \in Insts : \A s \in Spots :
           /\ h2[n][s].rep = hd[n][s].rep /\ h2[n][s].own = hd[n][s].own /\ h2[n][s].scope = hd[n][s].scope
           /\ h2[n][s].lends = hd[n][s].lends + IF n = i /\ s = b THEN 1 ELSE 0
  BY <1>0, <1>1, LentAt
<1>3. h2 \in [Insts -> [Spots -> Handles]] /\ hd \in [Insts -> [Spots -> Handles]]
  BY <1>1, <1>2, HeldAt
<1>4. b # 0 => b \in Spots /\ hd[i][b] = tb[i].slots[b]
  BY <1>0, <1>1, HeldAt
<1>5. \A n \in Insts : \A s \in Spots : hd[n][s].lends \in Int
  BY <1>3 DEF Handles
<1>6. \A n \in Insts : \A s \in Spots : hd[n][s].scope # j
  BY <1>0
<1> HIDE DEF hd, h2
<1>7. \/ c.lent = {} /\ \A n \in Insts : \A s \in Spots : h2[n][s].lends = hd[n][s].lends
      \/ \E p \in Spots :
           /\ hd[c.from][p].rep # 0 /\ c.lent = {R!Loan(c.from, p, hd[c.from][p].scope, hd[c.from][p].rep)}
           /\ \A n \in Insts : \A s \in Spots :
                h2[n][s].lends = hd[n][s].lends + IF n = c.from /\ s = p THEN 1 ELSE 0
  <2>1. CASE b = 0
    BY <2>1, <1>0, <1>2, <1>5 DEF Spots
  <2>2. CASE b # 0
    <3>1. hd[i][b].rep # 0 /\ b \in Spots /\ c.lent = {R!Loan(i, b, hd[i][b].scope, hd[i][b].rep)}
      BY <2>2, <1>0, <1>4
    <3>. QED  BY <3>1, <1>0, <1>2
  <2>. QED  BY <2>1, <2>2
<1>8. Opens(hd, h2, cl, c2, k, j, c)
  <2>1. cl[k].to # Host /\ c.from = cl[k].to
    BY <1>0, ResourceAssumption
  <2>2. \A n \in CallNumbers \ {j} :
          /\ c2[n].at = cl[n].at /\ c2[n].from = cl[n].from /\ c2[n].to = cl[n].to /\ c2[n].lent = cl[n].lent
          /\ c2[n].own = cl[n].own /\ c2[n].borrows = cl[n].borrows
          /\ c2[n].parent = cl[n].parent /\ c2[n].root = cl[n].root
          /\ n # cl[k].root => c2[n] = cl[n]
    BY <1>0
  <2>3. \A n \in Insts : \A s \in Spots :
          h2[n][s].rep = hd[n][s].rep /\ h2[n][s].own = hd[n][s].own /\ h2[n][s].scope = hd[n][s].scope
    BY <1>2
  <2>4. /\ cl[cl[k].root].across => c2[cl[k].root].across
        /\ ~c2[cl[k].root].across =>
             \A l \in c.lent : l.of # 0 => cl[l.of].at = "running" /\ cl[l.of].root = cl[k].root
    BY <1>0
  <2>. QED  BY <1>0, <1>3, <1>6, <1>7, <2>1, <2>2, <2>3, <2>4, Zenon DEF Opens
<1>9. Holding(rp, h2, wr, c2, dd, tr)
  BY <1>1, <1>8, OpenGuest
<1>. QED  BY <1>2, <1>9 DEF Stands, h2

\* The lends of the calls K end, in every table.
LEMMA ReleasedAt ==
  ASSUME NEW rp, NEW tb, NEW wr, NEW dd, NEW tr, Stands(rp, tb, wr, call, dd, tr), NEW K \in SUBSET CallNumbers
  PROVE  /\ IsTables(R!ReleaseLenders(tb, K))
         /\ \A i \in Insts : /\ DOMAIN R!ReleaseLenders(tb, K)[i].slots = DOMAIN tb[i].slots
                             /\ Spare(R!ReleaseLenders(tb, K)[i]) = Spare(tb[i])
         /\ \A i \in Insts : \A s \in Spots :
              /\ HeldIn(R!ReleaseLenders(tb, K))[i][s].rep = HeldIn(tb)[i][s].rep
              /\ HeldIn(R!ReleaseLenders(tb, K))[i][s].own = HeldIn(tb)[i][s].own
              /\ HeldIn(R!ReleaseLenders(tb, K))[i][s].scope = HeldIn(tb)[i][s].scope
              /\ HeldIn(R!ReleaseLenders(tb, K))[i][s].lends = HeldIn(tb)[i][s].lends - Lends(call, K, i, s)
<1> DEFINE hd == HeldIn(tb)
           tc == R!ReleaseLenders(tb, K)
           e(i, s) == [tb[i].slots[s] EXCEPT !.lends = @ - Lends(call, K, i, s)]
           sl(i) == [s \in DOMAIN tb[i].slots |-> e(i, s)]
<1>1. IsTables(tb) /\ Holding(rp, hd, wr, call, dd, tr) /\ tb \in [Insts -> Tabular]
  BY DEF Stands, IsTables
<1>2. \A i \in Insts : /\ tb[i].slots \in Seq(Handles) /\ tb[i].free \in Seq(Spots) /\ DOMAIN tb[i].slots \subseteq Spots
                       /\ DOMAIN tb[i].slots = 1..Len(tb[i].slots) /\ Len(tb[i].slots) \in Nat
  BY <1>1, TabularFields, HeldAt
<1>3. \A i \in Insts : \A s \in DOMAIN tb[i].slots : tb[i].slots[s] \in Handles /\ hd[i][s] = tb[i].slots[s]
  BY <1>1, <1>2, HeldAt
<1>4. \A by, where : Lends(call, K, by, where) \in Nat
  <2> TAKE by, where
  <2>1. IsFiniteSet(K \cap BorrowersIn(call, by, where))
    <3>1. IsFiniteSet(CallNumbers) /\ K \cap BorrowersIn(call, by, where) \subseteq CallNumbers
      BY ResourceAssumption
    <3>. QED  BY <3>1, FS_Subset
  <2>. QED  BY <2>1, FS_CardinalityType DEF Lends
<1>5. tc = [i \in Insts |-> [tb[i] EXCEPT !.slots = sl(i)]]
  <2>0. \A S : R!Cardinality(S) = Cardinality(S)
    BY Zenon DEF R!Cardinality, Cardinality
  <2>1. \A i, s : R!Cardinality(K \cap R!Borrowers(i, s)) = Lends(call, K, i, s)
    <3>1. \A i, s : R!Borrowers(i, s) = BorrowersIn(call, i, s)
      BY DEF R!Borrowers, BorrowersIn
    <3>. QED  BY <2>0, <3>1 DEF Lends
  <2>2. \A i, s : [tb[i].slots[s] EXCEPT !.lends = @ - R!Cardinality(K \cap R!Borrowers(i, s))] = e(i, s)
    BY <2>1
  <2> HIDE DEF e
  <2>3. \A i : [s \in DOMAIN tb[i].slots |->
                  [tb[i].slots[s] EXCEPT !.lends = @ - R!Cardinality(K \cap R!Borrowers(i, s))]] = sl(i)
    BY <2>2
  <2> HIDE DEF sl
  <2> DEFINE o(i) == [s \in DOMAIN tb[i].slots |->
                       [tb[i].slots[s] EXCEPT !.lends = @ - R!Cardinality(K \cap R!Borrowers(i, s))]]
  <2>4. tc = [i \in Insts |-> [tb[i] EXCEPT !.slots = o(i)]]
    BY Zenon DEF R!ReleaseLenders
  <2>5. \A i : o(i) = sl(i)
    BY <2>3
  <2> HIDE DEF tc, o
  <2>. QED  BY <2>4, <2>5
<1>6. \A i \in Insts : \A s \in DOMAIN tb[i].slots :
        /\ e(i, s) \in Handles /\ e(i, s).rep = tb[i].slots[s].rep /\ e(i, s).own = tb[i].slots[s].own
        /\ e(i, s).scope = tb[i].slots[s].scope /\ e(i, s).lends = tb[i].slots[s].lends - Lends(call, K, i, s)
  <2> TAKE i \in Insts
  <2> TAKE s \in DOMAIN tb[i].slots
  <2> DEFINE g == tb[i].slots[s]
             n == Lends(call, K, i, s)
  <2>1. g \in Handles /\ n \in Nat
    BY <1>3, <1>4
  <2> HIDE DEF g, n
  <2>2. LET h == [g EXCEPT !.lends = @ - n] IN
        h \in Handles /\ h.rep = g.rep /\ h.own = g.own /\ h.scope = g.scope /\ h.lends = g.lends - n
    BY <2>1 DEF Handles
  <2>. QED  BY <2>2 DEF g, n
<1> HIDE DEF e
<1>7. \A i \in Insts : /\ sl(i) \in Seq(Handles) /\ DOMAIN sl(i) = DOMAIN tb[i].slots /\ Len(sl(i)) = Len(tb[i].slots)
                       /\ \A s \in DOMAIN tb[i].slots : sl(i)[s] = e(i, s)
  <2> TAKE i \in Insts
  <2>1. sl(i) \in [1..Len(tb[i].slots) -> Handles]
    BY <1>2, <1>6
  <2>2. sl(i) \in Seq(Handles) /\ DOMAIN sl(i) = DOMAIN tb[i].slots
    BY <1>2, <2>1
  <2>3. Len(sl(i)) = Len(tb[i].slots)
    BY <1>2, <2>1, <2>2
  <2>. QED  BY <2>2, <2>3
<1> HIDE DEF sl
<1>8. \A i \in Insts : [tb[i] EXCEPT !.slots = sl(i)] \in Tabular /\ [tb[i] EXCEPT !.slots = sl(i)].slots = sl(i)
                       /\ [tb[i] EXCEPT !.slots = sl(i)].free = tb[i].free
  BY <1>1, <1>7 DEF Tabular
<1>9. tc \in [Insts -> Tabular] /\ \A i \in Insts : tc[i].slots = sl(i) /\ tc[i].free = tb[i].free
  BY <1>5, <1>8
<1> HIDE DEF tc
<1>10. IsTables(tc) /\ \A i \in Insts : Spare(tc[i]) = Spare(tb[i])
  <2>1. \A i \in Insts : /\ tc[i].free = tb[i].free /\ DOMAIN tc[i].slots = DOMAIN tb[i].slots
                         /\ Len(tc[i].slots) = Len(tb[i].slots)
                         /\ \A s \in DOMAIN tb[i].slots : tc[i].slots[s].rep = tb[i].slots[s].rep
    BY <1>6, <1>7, <1>9
  <2>. QED  BY <1>1, <1>9, <2>1, Relent
<1>11. \A i \in Insts : DOMAIN tc[i].slots = DOMAIN tb[i].slots
  BY <1>7, <1>9
<1>12. ASSUME NEW i \in Insts, NEW s \in Spots
       PROVE  /\ HeldIn(tc)[i][s].rep = hd[i][s].rep /\ HeldIn(tc)[i][s].own = hd[i][s].own
              /\ HeldIn(tc)[i][s].scope = hd[i][s].scope
              /\ HeldIn(tc)[i][s].lends = hd[i][s].lends - Lends(call, K, i, s)
  <2>1. HeldIn(tc)[i][s] = At(tc[i], s) /\ hd[i][s] = At(tb[i], s)
    BY <1>1, <1>10, HeldAt
  <2>2. CASE s \in DOMAIN tb[i].slots
    <3>1. HeldIn(tc)[i][s] = e(i, s) /\ hd[i][s] = tb[i].slots[s]
      BY <2>1, <2>2, <1>7, <1>9, <1>11 DEF At
    <3>. QED  BY <2>2, <3>1, <1>6
  <2>3. CASE s \notin DOMAIN tb[i].slots
    <3>1. HeldIn(tc)[i][s] = R!NoHandle /\ hd[i][s] = R!NoHandle
      BY <2>1, <2>3, <1>11 DEF At
    <3>2. hd[i][s].lends = 0
      BY <3>1, Records DEF IsHandle
    <3>3. \A k \in CallNumbers : \A l \in call[k].lent : ~(l.by = i /\ l.where = s)
      BY <1>1, <3>2, Unlent
    <3>4. K \cap BorrowersIn(call, i, s) = {}
      BY <3>3 DEF BorrowersIn
    <3>5. Lends(call, K, i, s) = 0
      BY <3>4, FS_EmptySet DEF Lends
    <3>. QED  BY <3>1, <3>2, <3>5
  <2>. QED  BY <2>2, <2>3
<1>. QED  BY <1>10, <1>11, <1>12 DEF tc

\* Calls of guests end, none of which another was made in that goes on.
LEMMA ReleasedStands ==
  ASSUME NEW rp, NEW tb, NEW wr, NEW dd, NEW tr, Stands(rp, tb, wr, call, dd, tr),
         NEW K \in SUBSET CallNumbers, K \cap FromHost = {},
         \A w \in Wrappers : wr[w].scope \notin K,
         \A j \in CallNumbers \ K : call[j].at # "none" /\ j \notin FromHost => call[j].parent \notin K,
         \A j \in CallNumbers \ K : Pure(call, j) => \A l \in call[j].lent : l.of \notin K
  PROVE  Stands(rp, R!ReleaseLenders(tb, K), wr, Ended(call, K), dd, tr)
<1> DEFINE hd == HeldIn(tb)
           h2 == HeldIn(R!ReleaseLenders(tb, K))
<1>1. /\ IsTables(R!ReleaseLenders(tb, K)) /\ IsTables(tb) /\ Holding(rp, hd, wr, call, dd, tr)
      /\ \A i \in Insts : \A s \in Spots :
           /\ h2[i][s].rep = hd[i][s].rep /\ h2[i][s].own = hd[i][s].own /\ h2[i][s].scope = hd[i][s].scope
           /\ h2[i][s].lends = hd[i][s].lends - Lends(call, K, i, s)
  BY ReleasedAt DEF Stands
<1>2. h2 \in [Insts -> [Spots -> Handles]]
  BY <1>1, HeldAt
<1> HIDE DEF hd, h2
<1>3. \A k \in K : call[k].own = 0
  BY <1>1 DEF Holding, Calling
<1>4. \A j \in CallNumbers \ K : call[j].at # "none" /\ j \notin FromHost =>
        call[j].root \notin K /\ call[j].parent \notin K
  BY <1>1 DEF Holding, Calling
<1>5. \A w \in Wrappers : Lends(call, K, Host, w) = 0 /\ wr[w].lends \in Int
  <2> TAKE w \in Wrappers
  <2>1. \A k \in K : call[k].lent # {} => call[k].from # Host
    BY <1>1 DEF Holding, Calling
  <2>2. \A k \in K : \A l \in call[k].lent : l.by # Host
    BY <1>1, <2>1 DEF Holding, Lending
  <2>3. K \cap BorrowersIn(call, Host, w) = {}
    BY <2>2 DEF BorrowersIn
  <2>4. wr[w].lends \in Int
    BY <1>1 DEF Holding, Typed, WrapperRecords
  <2>. QED  BY <2>3, <2>4, FS_EmptySet DEF Lends
<1>6. wr \in [Wrappers -> WrapperRecords]
  BY <1>1 DEF Holding, Typed
<1>7. \A w \in Wrappers : wr[w].lends = wr[w].lends - Lends(call, K, Host, w)
  BY <1>5
<1>8. Holding(rp, h2, wr, Ended(call, K), dd, tr)
  <2> DEFINE cl == call
  <2>1. /\ Holding(rp, hd, wr, cl, dd, tr) /\ \A k \in K : cl[k].own = 0
        /\ \A w \in Wrappers : wr[w].scope \notin K
        /\ \A j \in CallNumbers \ K : cl[j].at # "none" /\ j \notin FromHost =>
             cl[j].root \notin K /\ cl[j].parent \notin K
        /\ \A j \in CallNumbers \ K : Pure(cl, j) => \A l \in cl[j].lent : l.of \notin K
    BY <1>1, <1>3, <1>4
  <2>2. \A i \in Insts : \A s \in Spots :
          /\ h2[i][s].rep = hd[i][s].rep /\ h2[i][s].own = hd[i][s].own /\ h2[i][s].scope = hd[i][s].scope
          /\ h2[i][s].lends = hd[i][s].lends - Lends(cl, K, i, s)
    BY <1>1
  <2>3. \A w \in Wrappers :
           /\ wr[w].rep = wr[w].rep /\ wr[w].valid = wr[w].valid /\ wr[w].owns = wr[w].owns
           /\ wr[w].pending = wr[w].pending /\ wr[w].scope = wr[w].scope
           /\ wr[w].lends = wr[w].lends - Lends(cl, K, Host, w)
    BY <1>7
  <2> HIDE DEF cl
  <2>4. Holding(rp, h2, wr, Ended(cl, K), dd, tr)
    BY SMTT(30), <1>2, <1>6, <2>1, <2>2, <2>3, Close
  <2>. QED  BY <2>4 DEF cl
<1>. QED  BY <1>1, <1>8 DEF Stands, h2

-----------------------------------------------------------------------------
(* Traps.                                                                      *)

\* The activation of a call.
LEMMA Activation ==
  ASSUME NEW rp, NEW hd, NEW wr, NEW dd, NEW tr, Holding(rp, hd, wr, call, dd, tr),
         NEW k \in CallNumbers, call[k].at = "running"
  PROVE  /\ R!Root(k) \in FromHost /\ R!Root(k) \in CallNumbers /\ R!Root(k) \notin R!Brackets(k)
         /\ R!Root(k) \in R!Frames(k) /\ k \in R!Frames(k)
         /\ call[R!Root(k)].at = "running" /\ call[R!Root(k)].own = 0 /\ call[R!Root(k)].to \in Insts
         /\ call[R!Root(k)].root = R!Root(k)
         /\ R!Brackets(k) \in SUBSET CallNumbers /\ R!Brackets(k) \cap FromHost = {}
         /\ \A j \in CallNumbers \ R!Brackets(k) : call[j].at # "none" /\ j # R!Root(k) => call[j].root # R!Root(k)
         /\ \A j \in CallNumbers \ R!Brackets(k) :
              call[j].at # "none" /\ j \notin FromHost => call[j].parent \notin R!Brackets(k)
         /\ \A j \in CallNumbers \ R!Brackets(k) : Pure(call, j) => \A l \in call[j].lent : l.of \notin R!Brackets(k)
<1>0. FromHost \subseteq CallNumbers /\ 0 \notin CallNumbers /\ Host \notin Insts
  BY ResourceAssumption
<1>1. call \in [CallNumbers -> CallRecords]
  BY DEF Holding, Typed
<1>2. \A j \in CallNumbers : /\ call[j].root \in CallNumbers \cup {0} /\ call[j].to \in Insts \cup {Host}
                             /\ call[j].lent \in SUBSET Loans
  BY <1>1 DEF CallRecords
<1> DEFINE q == R!Root(k)
           B == R!Brackets(k)
<1>3. q = call[k].root
  BY DEF R!Root
<1>4. q \in FromHost /\ call[q].at = "running" /\ call[q].root = q /\ q \in CallNumbers
  <2>1. CASE k \in FromHost
    BY <1>0, <1>3, <2>1 DEF Holding, Calling
  <2>2. CASE k \notin FromHost
    <3>1. q \in FromHost /\ call[q].at = "running"
      BY <1>3, <2>2 DEF Holding, Calling
    <3>. QED  BY <1>0, <3>1 DEF Holding, Calling
  <2>. QED  BY <2>1, <2>2
<1>5. call[q].own = 0 /\ call[q].to \in Insts
  <2>1. call[q].own = 0
    BY <1>4 DEF Holding, Calling
  <2>2. call[q].to # Host
    BY <1>4 DEF Holding, Calling
  <2>. QED  BY <1>2, <1>4, <2>1, <2>2
<1>6. \A j : j \in B <=> j \in CallNumbers /\ call[j].at = "running" /\ call[j].root = q /\ j # q
  BY DEF R!Brackets, R!Frames, R!Root
<1>7. \A j : j \in R!Frames(k) <=> j \in CallNumbers /\ call[j].at = "running" /\ call[j].root = q
  BY DEF R!Frames, R!Root
<1> HIDE DEF q, B
<1>8. B \cap FromHost = {}
  <2>1. \A j \in FromHost : call[j].at = "running" => call[j].root = j
    BY <1>0 DEF Holding, Calling
  <2>. QED  BY <1>6, <2>1
<1>9. \A j \in CallNumbers \ B : call[j].at # "none" /\ j # q => call[j].root # q
  <2> TAKE j \in CallNumbers \ B
  <2> HAVE call[j].at # "none" /\ j # q
  <2>1. CASE j \in FromHost
    BY <2>1 DEF Holding, Calling
  <2>2. CASE j \notin FromHost
    <3>1. call[j].at = "running"
      BY <2>2 DEF Holding, Calling
    <3>. QED  BY <3>1, <1>6
  <2>. QED  BY <2>1, <2>2
<1>10. \A j \in CallNumbers \ B : call[j].at # "none" /\ j \notin FromHost => call[j].parent \notin B
  <2> TAKE j \in CallNumbers \ B
  <2> HAVE call[j].at # "none" /\ j \notin FromHost
  <2>1. call[j].at = "running" /\ call[call[j].parent].root = call[j].root
    BY DEF Holding, Calling
  <2>. QED  BY <1>4, <1>6, <2>1
<1>11. \A j \in CallNumbers \ B : Pure(call, j) => \A l \in call[j].lent : l.of \notin B
  <2> TAKE j \in CallNumbers \ B
  <2> HAVE Pure(call, j)
  <2> TAKE l \in call[j].lent
  <2> SUFFICES ASSUME l.of \in B
               PROVE  FALSE
    OBVIOUS
  <2>1. l.of # 0 /\ call[l.of].root = q
    BY <1>0, <1>6
  <2>2. call[l.of].root = call[j].root /\ call[j].at = "running"
    BY <2>1 DEF Holding, Resting, Pure
  <2>3. j = q
    BY <1>6, <2>1, <2>2
  <2>4. call[j].from = Host
    BY <1>4, <2>3 DEF Holding, Calling
  <2>5. l.by = Host
    BY <2>4 DEF Holding, Lending
  <2>6. l.of = 0
    BY <2>5 DEF Holding, Lending
  <2>. QED  BY <2>1, <2>6
<1>12. B \in SUBSET CallNumbers /\ q \notin B /\ q \in R!Frames(k) /\ k \in R!Frames(k)
  BY <1>3, <1>4, <1>6, <1>7
<1>. QED  BY <1>4, <1>5, <1>8, <1>9, <1>10, <1>11, <1>12 DEF q, B

\* What is left of the calls and the wrappers where k has trapped.
Broken(k) == [Ended(call, R!Brackets(k)) EXCEPT ![R!Root(k)].at = "failed"]

\* Wrappers of borrows end with the calls they are of.
Shut(k) == [w \in Wrappers |-> IF wrapper[w].scope \in R!Frames(k)
                               THEN [wrapper[w] EXCEPT !.valid = FALSE, !.scope = 0] ELSE wrapper[w]]

\* The calls that are left, by their fields.
LEMMA BrokenFields ==
  ASSUME NEW rp, NEW hd, NEW wr, NEW dd, NEW tr, Holding(rp, hd, wr, call, dd, tr),
         NEW k \in CallNumbers, call[k].at = "running"
  PROVE  /\ Broken(k) \in [CallNumbers -> CallRecords]
         /\ \A j \in R!Brackets(k) : Broken(k)[j] = R!NoCall
         /\ \A j \in CallNumbers \ R!Brackets(k) :
              Broken(k)[j] = IF j = R!Root(k) THEN [call[j] EXCEPT !.at = "failed"] ELSE call[j]
<1> DEFINE B == R!Brackets(k)
           q == R!Root(k)
<1>1. call \in [CallNumbers -> CallRecords] /\ R!NoCall \in CallRecords
  BY NoCallFields DEF Holding, Typed
<1>2. q \in CallNumbers /\ q \notin B /\ B \subseteq CallNumbers
  BY Activation
<1> HIDE DEF B, q
<1>3. /\ Ended(call, B) \in [CallNumbers -> CallRecords]
      /\ \A j \in CallNumbers : Ended(call, B)[j] = IF j \in B THEN R!NoCall ELSE call[j]
  BY <1>1 DEF Ended
<1>4. [call[q] EXCEPT !.at = "failed"] \in CallRecords
  BY <1>1, <1>2 DEF CallRecords
<1>5. Broken(k) = [Ended(call, B) EXCEPT ![q] = [call[q] EXCEPT !.at = "failed"]]
  BY <1>2, <1>3 DEF Broken, B, q
<1>. QED  BY <1>2, <1>3, <1>4, <1>5 DEF B, q

\* A trap, but for the handle it takes.
LEMMA TrapStands ==
  ASSUME NEW rp, NEW dd, Stands(rp, table, wrapper, call, dd, 0),
         NEW k \in CallNumbers, call[k].at = "running"
  PROVE  Stands(rp, R!ReleaseLenders(table, R!Brackets(k)), Shut(k), Broken(k), dd, 0)
<1> DEFINE hd == HeldIn(table)
           B == R!Brackets(k)
           q == R!Root(k)
<1>1. Holding(rp, hd, wrapper, call, dd, 0)
  BY DEF Stands
<1>2. /\ q \in FromHost /\ q \in CallNumbers /\ q \notin B
      /\ call[q].at = "running" /\ call[q].own = 0
      /\ B \in SUBSET CallNumbers /\ B \cap FromHost = {}
      /\ \A j \in CallNumbers \ B : call[j].at # "none" /\ j # q => call[j].root # q
      /\ \A j \in CallNumbers \ B : call[j].at # "none" /\ j \notin FromHost => call[j].parent \notin B
      /\ \A j \in CallNumbers \ B : Pure(call, j) => \A l \in call[j].lent : l.of \notin B
      /\ B \subseteq R!Frames(k)
  <2>1. B \subseteq R!Frames(k)
    BY DEF R!Brackets
  <2>. QED  BY <1>1, <2>1, Activation
<1>3. wrapper \in [Wrappers -> WrapperRecords] /\ 0 \notin CallNumbers
  BY <1>1, ResourceAssumption DEF Holding, Typed
<1>4. \A j : j \in R!Frames(k) => j \in CallNumbers
  BY DEF R!Frames
<1>5. \A w \in Wrappers :
        LET x == [wrapper[w] EXCEPT !.valid = FALSE, !.scope = 0] IN
        /\ x \in WrapperRecords /\ ~x.valid /\ x.scope = 0
        /\ x.pending = wrapper[w].pending /\ x.lends = wrapper[w].lends
  BY <1>3 DEF WrapperRecords
<1>6. /\ Shut(k) \in [Wrappers -> WrapperRecords]
      /\ \A w \in Wrappers :
           \/ Shut(k)[w] = wrapper[w] /\ wrapper[w].scope \notin R!Frames(k)
           \/ /\ wrapper[w].scope # 0 /\ ~Shut(k)[w].valid /\ ~Shut(k)[w].pending /\ Shut(k)[w].scope = 0
              /\ Shut(k)[w].lends \in {0, wrapper[w].lends}
  <2>1. \A w \in Wrappers : wrapper[w].scope # 0 => ~wrapper[w].pending
    BY <1>1 DEF Holding, Wrapping
  <2>. QED  BY <1>3, <1>4, <1>5, <2>1 DEF Shut
<1> HIDE DEF hd, B, q
<1>7. Holding(rp, hd, Shut(k), call, dd, 0)
  BY <1>1, <1>6, Unwrap
<1>8. Stands(rp, table, Shut(k), call, dd, 0)
  BY <1>7 DEF Stands, hd
<1>9. \A w \in Wrappers : Shut(k)[w].scope \notin B
  BY <1>2, <1>3, <1>6
<1>10. Stands(rp, R!ReleaseLenders(table, B), Shut(k), Ended(call, B), dd, 0)
  BY <1>2, <1>8, <1>9, ReleasedStands
<1>11. /\ Ended(call, B)[q] = call[q]
       /\ \A j \in CallNumbers : j # q /\ Ended(call, B)[j].at # "none" => Ended(call, B)[j].root # q
  BY <1>2, NoCallFields DEF Ended
<1>12. Holding(rp, HeldIn(R!ReleaseLenders(table, B)), Shut(k), [Ended(call, B) EXCEPT ![q].at = "failed"], dd, 0)
  <2> DEFINE c1 == Ended(call, B)
             h1 == HeldIn(R!ReleaseLenders(table, B))
  <2>1. Holding(rp, h1, Shut(k), c1, dd, 0) /\ c1[q].own = 0 /\ c1[q].at = "running"
        /\ \A j \in CallNumbers : j # q /\ c1[j].at # "none" => c1[j].root # q
    BY <1>2, <1>10, <1>11 DEF Stands
  <2> HIDE DEF c1, h1
  <2>2. Holding(rp, h1, Shut(k), [c1 EXCEPT ![q].at = "failed"], dd, 0)
    BY <1>2, <2>1, Progress
  <2>. QED  BY <2>2 DEF c1, h1
<1>. QED  BY <1>10, <1>12 DEF Stands, Broken, B, q

\* Room, as the model of resources tests it.
LEMMA SpareRoom ==
  ASSUME IsTables(table), NEW i \in Insts, NEW n \in Nat
  PROVE  R!Room(i, n) <=> Spare(table[i]) >= n
<1>1. table[i] \in Tabular
  BY DEF IsTables
<1>2. Len(table[i].slots) \in Nat /\ Len(table[i].free) \in Nat
  BY <1>1 DEF Tabular
<1>. QED  BY <1>2, ResourceAssumption DEF R!Room, Spare

\* What is used is what holds a handle.
LEMMA UsedAt ==
  ASSUME IsTables(table), NEW i \in Insts, NEW s \in R!Used(i)
  PROVE  /\ s \in DOMAIN table[i].slots /\ s \in Spots /\ s # 0 /\ table[i].slots[s].rep # 0
         /\ R!Handle(i, s) = table[i].slots[s] /\ HeldIn(table)[i][s] = table[i].slots[s]
<1>1. s \in DOMAIN table[i].slots /\ table[i].slots[s].rep # 0 /\ R!Handle(i, s) = table[i].slots[s]
  BY DEF R!Used, R!Handle
<1>. QED  BY <1>1, HeldAt DEF Spots

\* A trap.
LEMMA TrapKeeps ==
  ASSUME Stands(rep, table, wrapper, call, dead, 0), Deferring,
         NEW k \in CallNumbers, call[k].at = "running", NEW i \in Insts, NEW s, s # 0 => s \in R!Used(i),
         NEW others \in SUBSET Insts, R!Trap(k, i, s, others)
  PROVE  /\ Stands(rep, table', wrapper', call', dead', 0) /\ Deferring' /\ dead' # {}
         /\ s # 0 /\ R!Handle(i, s).own /\ R!Handle(i, s).lends = 0 =>
              Stands(R!Destroyed(R!Handle(i, s).rep), table', wrapper', call', dead', 0)
<1> DEFINE B == R!Brackets(k)
           q == R!Root(k)
           tc == R!ReleaseLenders(table, B)
<1>1. IsTables(table) /\ Holding(rep, HeldIn(table), wrapper, call, dead, 0)
  BY DEF Stands
<1>2. q \in CallNumbers /\ call[q].to \in Insts /\ B \in SUBSET CallNumbers /\ q \notin B
  BY <1>1, Activation
<1>3. /\ Broken(k) \in [CallNumbers -> CallRecords] /\ \A j \in B : Broken(k)[j] = R!NoCall
      /\ \A j \in CallNumbers \ B : Broken(k)[j] = IF j = q THEN [call[j] EXCEPT !.at = "failed"] ELSE call[j]
  BY <1>1, BrokenFields
<1>4. /\ table' = R!Removed(tc, i, s) /\ wrapper' = Shut(k) /\ dead' = dead \cup {call[q].to} \cup others
      /\ call' = [j \in CallNumbers |-> IF j \in B THEN R!NoCall
                    ELSE [call[j] EXCEPT !.at = IF j = q THEN "failed" ELSE @, !.lent = R!Lost(@, i, s)]]
  BY DEF R!Trap, Shut
<1>5. call \in [CallNumbers -> CallRecords]
  BY <1>1, NoCallFields DEF Holding, Typed
<1> HIDE DEF B, q, tc
<1>6. \A j \in CallNumbers : call[j].lent \in SUBSET Loans /\ R!Lost(call[j].lent, i, s) \in SUBSET Loans
  <2>1. \A j \in CallNumbers : call[j].lent \in SUBSET Loans
    BY <1>5 DEF CallRecords
  <2>2. \A l \in Loans : [l EXCEPT !.where = 0] \in Loans
    BY DEF Loans
  <2>. QED  BY <2>1, <2>2 DEF R!Lost
<1>7. ASSUME NEW j \in CallNumbers
      PROVE  /\ call'[j] \in CallRecords
             /\ call'[j].at = Broken(k)[j].at /\ call'[j].from = Broken(k)[j].from
             /\ call'[j].to = Broken(k)[j].to
             /\ call'[j].own = Broken(k)[j].own /\ call'[j].borrows = Broken(k)[j].borrows
             /\ call'[j].parent = Broken(k)[j].parent /\ call'[j].root = Broken(k)[j].root
             /\ call'[j].across = Broken(k)[j].across /\ call'[j].lent = R!Lost(Broken(k)[j].lent, i, s)
  <2>1. CASE j \in B
    <3>1. call'[j] = R!NoCall /\ Broken(k)[j] = R!NoCall
      BY <2>1, <1>3, <1>4
    <3>2. R!Lost({}, i, s) = {}
      BY DEF R!Lost
    <3>. QED  BY <3>1, <3>2, NoCallFields
  <2>2. CASE j \notin B
    <3> DEFINE c == call[j]
               L == R!Lost(call[j].lent, i, s)
    <3>1. c \in CallRecords /\ L \in SUBSET Loans
      BY <1>5, <1>6
    <3>2. CASE j = q
      <4>1. call'[j] = [c EXCEPT !.at = "failed", !.lent = L] /\ Broken(k)[j] = [c EXCEPT !.at = "failed"]
        BY <2>2, <3>2, <1>3, <1>4
      <4>2. L = R!Lost([c EXCEPT !.at = "failed"].lent, i, s)
        BY <3>1 DEF CallRecords
      <4> HIDE DEF c, L
      <4>3. [c EXCEPT !.at = "failed", !.lent = L] \in CallRecords
        <5>1. [c EXCEPT !.at = "failed"] \in CallRecords
          BY <3>1 DEF CallRecords
        <5>. QED  BY <3>1, <5>1 DEF CallRecords
      <4>. QED  BY <3>1, <4>1, <4>2, <4>3 DEF CallRecords
    <3>3. CASE j # q
      <4>1. call'[j] = [c EXCEPT !.at = c.at, !.lent = L] /\ Broken(k)[j] = c
        BY <2>2, <3>3, <1>3, <1>4
      <4>2. L = R!Lost(c.lent, i, s)
        OBVIOUS
      <4> HIDE DEF c, L
      <4>3. [c EXCEPT !.at = c.at] = c
        BY <3>1 DEF CallRecords
      <4>4. [c EXCEPT !.at = c.at, !.lent = L] = [c EXCEPT !.lent = L]
        BY <4>3
      <4>5. [c EXCEPT !.lent = L] \in CallRecords
        BY <3>1 DEF CallRecords
      <4>. QED  BY <3>1, <4>1, <4>2, <4>4, <4>5 DEF CallRecords
    <3>. QED  BY <3>2, <3>3
  <2>. QED  BY <2>1, <2>2
<1>8. call' \in [CallNumbers -> CallRecords]
  BY <1>4, <1>7
<1> DEFINE died == {call[q].to} \cup others
<1>9. Stands(rep, table, wrapper, call, dead \cup died, 0)
  BY <1>1, <1>2, Die DEF Stands
<1>10. dead' = dead \cup died /\ dead' # {}
  BY <1>4
<1>11. Stands(rep, tc, Shut(k), Broken(k), dead', 0)
  BY <1>9, <1>10, TrapStands DEF tc, B
<1>12. /\ IsTables(tc)
       /\ \A n \in Insts : DOMAIN tc[n].slots = DOMAIN table[n].slots
       /\ \A n \in Insts : \A x \in Spots :
            /\ HeldIn(tc)[n][x].rep = HeldIn(table)[n][x].rep
            /\ HeldIn(tc)[n][x].own = HeldIn(table)[n][x].own
            /\ HeldIn(tc)[n][x].lends = HeldIn(table)[n][x].lends - Lends(call, B, n, x)
  BY <1>9, <1>2, ReleasedAt DEF tc
<1>13. s # 0 => /\ s \in DOMAIN tc[i].slots /\ s \in Spots /\ HeldIn(tc)[i][s] = tc[i].slots[s]
                /\ tc[i].slots[s].rep = R!Handle(i, s).rep /\ tc[i].slots[s].own = R!Handle(i, s).own
                /\ tc[i].slots[s].lends = R!Handle(i, s).lends - Lends(call, B, i, s)
                /\ R!Handle(i, s).rep # 0 /\ R!Handle(i, s) = HeldIn(table)[i][s]
  BY <1>1, <1>12, UsedAt, HeldAt
<1>14. Stands(rep, table', wrapper', call', dead', 0)
  <2> DEFINE c1 == Broken(k)
             c2 == call'
  <2>1. \A j \in CallNumbers :
           /\ c2[j].at = c1[j].at /\ c2[j].from = c1[j].from /\ c2[j].to = c1[j].to /\ c2[j].own = c1[j].own
           /\ c2[j].borrows = c1[j].borrows /\ c2[j].parent = c1[j].parent /\ c2[j].root = c1[j].root
           /\ c2[j].across = c1[j].across /\ c2[j].lent = R!Lost(c1[j].lent, i, s)
    BY <1>7
  <2>2. Stands(rep, tc, Shut(k), c1, dead', 0) /\ c2 \in [CallNumbers -> CallRecords]
    BY <1>8, <1>11
  <2>3. s # 0 => s \in DOMAIN tc[i].slots /\ tc[i].slots[s].rep # 0
    BY <1>13
  <2> HIDE DEF c1, c2
  <2>4. Stands(rep, R!Removed(tc, i, s), Shut(k), c2, dead', 0)
    BY <1>10, <2>1, <2>2, <2>3, VanishStands
  <2>. QED  BY <1>4, <2>4 DEF c2
<1>15. ASSUME s # 0, R!Handle(i, s).own, R!Handle(i, s).lends = 0
       PROVE  Stands(R!Destroyed(R!Handle(i, s).rep), table', wrapper', call', dead', 0)
  <2>1. \A j \in CallNumbers : \A l \in call[j].lent : ~(l.by = i /\ l.where = s)
    BY <1>1, <1>13, <1>15, Unlent
  <2>2. Lends(call, B, i, s) = 0
    <3>1. B \cap BorrowersIn(call, i, s) = {}
      BY <2>1 DEF BorrowersIn
    <3>. QED  BY <3>1, FS_EmptySet DEF Lends
  <2>3. \A j \in CallNumbers : \A l \in Broken(k)[j].lent : ~(l.by = i /\ l.where = s)
    <3>1. \A j \in CallNumbers : [call[j] EXCEPT !.at = "failed"].lent = call[j].lent
      BY <1>5 DEF CallRecords
    <3>. QED  BY ZenonT(60), <1>3, <2>1, <3>1, NoCallFields
  <2>4. ASSUME NEW j \in CallNumbers
        PROVE  call'[j] = Broken(k)[j]
    <3> DEFINE L == Broken(k)[j].lent
    <3>1. R!Lost(L, i, s) = L
      <4>1. \A l \in L : ~(l.by = i /\ l.where = s)
        BY <2>3
      <4> HIDE DEF L
      <4>. QED  BY <4>1 DEF R!Lost
    <3>2. call'[j] \in CallRecords /\ Broken(k)[j] \in CallRecords
      BY <1>3, <1>7
    <3>. QED  BY <1>7, <3>1, <3>2 DEF CallRecords
  <2>5. call' = Broken(k)
    BY <1>3, <1>8, <2>4
  <2> DEFINE r == R!Handle(i, s).rep
  <2>6. tc[i].slots[s].own /\ tc[i].slots[s].lends = 0 /\ tc[i].slots[s].rep = r /\ r # 0
    <3>1. tc[i].slots[s].lends = 0
      BY <1>13, <1>15, <2>2
    <3>2. tc[i].slots[s].rep = r /\ r # 0
      BY <1>13, <1>15
    <3>3. tc[i].slots[s].own
      BY <1>13, <1>15
    <3>. QED  BY <3>1, <3>2, <3>3
  <2> HIDE DEF r
  <2>7. Stands(rep, R!Removed(tc, i, s), Shut(k), Broken(k), dead', IF s = 0 THEN 0 ELSE tc[i].slots[s].rep)
    BY <1>11, <1>13, <1>15, <2>6, RemovedStands
  <2>8. Stands(rep, table', wrapper', call', dead', r)
    BY <1>4, <1>15, <2>5, <2>6, <2>7
  <2>9. Stands([rep EXCEPT ![r] = [at |-> "gone", ran |-> @.ran + 1]], table', wrapper', call', dead', 0)
    BY <2>6, <2>8, Destroy DEF Stands
  <2>. QED  BY <2>9 DEF R!Destroyed, r
<1>16. Deferring'
  <2>1. wrapper \in [Wrappers -> WrapperRecords]
    BY <1>1 DEF Holding, Typed
  <2>2. \A w \in Wrappers : wrapper'[w].pending = wrapper[w].pending /\ wrapper'[w].lends = wrapper[w].lends
    BY <1>4, <2>1 DEF Shut, WrapperRecords
  <2>. QED  BY <2>2 DEF Deferring
<1>. QED  BY <1>10, <1>14, <1>15, <1>16

-----------------------------------------------------------------------------
(* Each action keeps the invariant.                                            *)

\* A call that acts runs in an instance.
LEMMA ActingRuns ==
  ASSUME ResourceInv, NEW k \in CallNumbers, R!Acting(k)
  PROVE  /\ IsTables(table) /\ Stands(rep, table, wrapper, call, dead, 0) /\ Deferring
         /\ Holding(rep, HeldIn(table), wrapper, call, dead, 0)
         /\ call \in [CallNumbers -> CallRecords] /\ dead \in SUBSET Insts
         /\ call[k].at = "running" /\ call[k].to \in Insts /\ call[k].to # Host
<1>1. call \in [CallNumbers -> CallRecords] /\ dead \in SUBSET Insts
  BY DEF ResourceInv, Stands, Holding, Typed
<1>2. call[k].to \in Insts \cup {Host}
  BY <1>1 DEF CallRecords
<1>. QED  BY <1>1, <1>2 DEF ResourceInv, Stands, R!Acting

\* A guest traps.
LEMMA GuestTrapKeeps ==
  ASSUME ResourceInv, NEW k \in CallNumbers, R!GuestTrap(k)
  PROVE  ResourceInv'
<1>1. R!Acting(k) /\ R!Trap(k, call[k].to, 0, {}) /\ rep' = rep
  BY DEF R!GuestTrap
<1>2. Stands(rep, table', wrapper', call', dead', 0) /\ Deferring'
  BY <1>1, ActingRuns, TrapKeeps
<1>. QED  BY <1>1, <1>2 DEF ResourceInv

\* resource.new.
LEMMA NewKeeps ==
  ASSUME ResourceInv, NEW k \in CallNumbers, NEW r \in RepNumbers, R!New(k, r)
  PROVE  ResourceInv'
<1>1. /\ R!Acting(k) /\ rep[r].at = "unborn" /\ R!Room(Impl, 1)
      /\ rep' = [rep EXCEPT ![r].at = "alive"]
      /\ table' = [table EXCEPT ![Impl] = R!Put(@, R!Owning(r))]
      /\ wrapper' = wrapper /\ call' = call /\ dead' = dead
  BY DEF R!New
<1>2. r # 0 /\ Impl \in Insts
  BY ResourceAssumption DEF Impl, Insts
<1>3. /\ IsTables(table) /\ Stands(rep, table, wrapper, call, dead, 0) /\ Deferring
  BY <1>1, ActingRuns
<1>4. Stands(rep', table, wrapper, call, dead, r)
  BY <1>1, <1>3, Bear DEF Stands
<1>5. Spare(table[Impl]) >= 1
  BY <1>1, <1>2, <1>3, SpareRoom
<1>6. Stands(rep', R!Given(table, Impl, r), wrapper, call, dead, 0)
  BY <1>2, <1>4, <1>5, GivenStands
<1>7. table' = R!Given(table, Impl, r)
  BY <1>1, <1>2 DEF R!Given
<1>. QED  BY <1>1, <1>3, <1>6, <1>7 DEF ResourceInv, Deferring

\* resource.drop of a borrow.
LEMMA DropBorrowKeeps ==
  ASSUME ResourceInv, NEW k \in CallNumbers, NEW s \in R!Used(call[k].to), R!DropBorrow(k, s)
  PROVE  ResourceInv'
<1> DEFINE i == call[k].to
           h == R!Handle(i, s)
<1>1. R!Acting(k) /\ ~h.own /\ rep' = rep
  BY DEF R!DropBorrow
<1>2. /\ IsTables(table) /\ Stands(rep, table, wrapper, call, dead, 0) /\ Deferring
      /\ call[k].at = "running" /\ i \in Insts
  BY <1>1, ActingRuns
<1>3. s \in DOMAIN table[i].slots /\ table[i].slots[s].rep # 0 /\ h = table[i].slots[s]
  BY <1>2, UsedAt
<1>4. CASE h.lends # 0
  <2>1. R!Trap(k, i, s, {})
    BY <1>4 DEF R!DropBorrow, R!MayDrop
  <2>2. Stands(rep, table', wrapper', call', dead', 0) /\ Deferring'
    BY <1>2, <2>1, TrapKeeps
  <2>. QED  BY <1>1, <2>2 DEF ResourceInv
<1>5. CASE h.lends = 0
  <2>1. /\ table' = R!Removed(table, i, s) /\ wrapper' = wrapper /\ dead' = dead
        /\ call' = IF call[h.scope].at = "none" THEN call ELSE [call EXCEPT ![h.scope].borrows = @ - 1]
    BY <1>5 DEF R!DropBorrow, R!MayDrop
  <2> DEFINE cl == call
             c2 == IF cl[h.scope].at = "none" THEN cl ELSE [cl EXCEPT ![h.scope].borrows = @ - 1]
             c1 == IF cl[table[i].slots[s].scope].at = "none" THEN cl
                   ELSE [cl EXCEPT ![table[i].slots[s].scope].borrows = @ - 1]
  <2>2. Stands(rep, R!Removed(table, i, s), wrapper, c1, dead, 0)
    BY <1>1, <1>2, <1>3, <1>5, DroppedStands
  <2>3. c1 = c2
    BY <1>3
  <2> HIDE DEF c1
  <2>4. call' = c1
    BY <2>1, <2>3
  <2>5. Deferring'
    BY <1>2, <2>1 DEF Deferring
  <2>. QED  BY <1>1, <2>1, <2>2, <2>4, <2>5 DEF ResourceInv
<1>. QED  BY <1>4, <1>5

\* resource.drop of an own: the destructor runs, unless the implementing instance has died.
LEMMA DropOwnKeeps ==
  ASSUME ResourceInv, NEW k \in CallNumbers, NEW s \in R!Used(call[k].to), R!DropOwn(k, s)
  PROVE  ResourceInv'
<1> DEFINE i == call[k].to
           h == R!Handle(i, s)
<1>1. R!Acting(k) /\ h.own
  BY DEF R!DropOwn
<1>2. /\ IsTables(table) /\ Stands(rep, table, wrapper, call, dead, 0) /\ Deferring
      /\ call[k].at = "running" /\ i \in Insts
  BY <1>1, ActingRuns
<1>3. s \in DOMAIN table[i].slots /\ table[i].slots[s].rep # 0 /\ h = table[i].slots[s] /\ s # 0
  BY <1>2, UsedAt
<1>4. Impl \in Insts
  BY DEF Impl, Insts
<1>5. CASE R!Trap(k, i, s, {}) /\ rep' = rep
  <2>1. Stands(rep, table', wrapper', call', dead', 0) /\ Deferring'
    BY <1>2, <1>5, TrapKeeps
  <2>. QED  BY <1>5, <2>1 DEF ResourceInv
<1>6. CASE h.lends = 0 /\ rep' = R!Destroyed(h.rep) /\ R!Trap(k, i, s, {Impl})
  <2>1. Stands(R!Destroyed(R!Handle(i, s).rep), table', wrapper', call', dead', 0) /\ Deferring'
    BY <1>1, <1>2, <1>3, <1>4, <1>6, TrapKeeps
  <2>. QED  BY <1>6, <2>1 DEF ResourceInv
<1>7. CASE /\ h.lends = 0 /\ rep' = R!Destroyed(h.rep) /\ table' = R!Removed(table, i, s)
           /\ wrapper' = wrapper /\ call' = call /\ dead' = dead
  <2> DEFINE r == h.rep
  <2>1. r # 0 /\ r = table[i].slots[s].rep
    BY <1>3
  <2>2. Stands(rep, R!Removed(table, i, s), wrapper, call, dead, IF s = 0 THEN 0 ELSE table[i].slots[s].rep)
    BY <1>1, <1>2, <1>3, <1>7, RemovedStands
  <2> HIDE DEF r
  <2>3. Stands(rep, table', wrapper', call', dead', r)
    BY <1>3, <1>7, <2>1, <2>2
  <2>4. Stands([rep EXCEPT ![r] = [at |-> "gone", ran |-> @.ran + 1]], table', wrapper', call', dead', 0)
    BY <2>1, <2>3, Destroy DEF Stands
  <2>5. Deferring'
    BY <1>2, <1>7 DEF Deferring
  <2>. QED  BY <1>7, <2>4, <2>5 DEF ResourceInv, R!Destroyed, r
<1>. QED  BY <1>5, <1>6, <1>7 DEF R!DropOwn, R!MayDrop

-----------------------------------------------------------------------------
(* A call between guests.                                                      *)

\* A number taken afresh is no call's, and no handle is a borrow of it.
LEMMA FreshFacts ==
  ASSUME ResourceInv, NEW S \in SUBSET CallNumbers, NEW j, R!Fresh(S, j)
  PROVE  /\ j \in S /\ j \in CallNumbers /\ call[j].at = "none"
         /\ \A n \in Insts : \A s \in Spots : HeldIn(table)[n][s].scope # j
<1>1. j \in S /\ j \in CallNumbers /\ call[j].at = "none" /\ j # 0
  BY ResourceAssumption DEF R!Fresh, R!Unused
<1>2. \A n \in Insts : \A s \in R!Used(n) : R!Handle(n, s).scope # j
  BY DEF R!Fresh, R!Unused
<1>3. IsTables(table) /\ Kinds2(HeldIn(table))
  BY DEF ResourceInv, Stands, Holding
<1>4. ASSUME NEW n \in Insts, NEW s \in Spots
      PROVE  HeldIn(table)[n][s].scope # j
  <2>1. HeldIn(table)[n][s] = At(table[n], s)
    BY <1>3, HeldAt
  <2>2. CASE HeldIn(table)[n][s].rep = 0
    BY <1>1, <1>3, <2>2 DEF Kinds2
  <2>3. CASE HeldIn(table)[n][s].rep # 0
    <3>1. s \in R!Used(n) /\ R!Handle(n, s) = HeldIn(table)[n][s]
      BY <2>1, <2>3, Records DEF At, R!Used, R!Handle, IsHandle
    <3>. QED  BY <1>2, <3>1
  <2>. QED  BY <2>2, <2>3
<1>. QED  BY <1>1, <1>4

\* The record of a call that is made of a guest, before it has borrows and then.
MadeBare(i, d, k, q, L) ==
  [R!NoCall EXCEPT !.at = "running", !.from = i, !.to = d, !.parent = k, !.root = q, !.lent = L]
Borrowed(c, n) == [c EXCEPT !.borrows = n]

\* The fields of the former.
LEMMA BareMade ==
  ASSUME NEW i \in Insts \cup {Host}, NEW d \in Insts \cup {Host}, NEW k \in CallNumbers, NEW q \in CallNumbers,
         NEW L \in SUBSET Loans
  PROVE  /\ MadeBare(i, d, k, q, L) \in CallRecords
         /\ MadeBare(i, d, k, q, L).at = "running" /\ MadeBare(i, d, k, q, L).from = i
         /\ MadeBare(i, d, k, q, L).to = d /\ MadeBare(i, d, k, q, L).own = 0
         /\ MadeBare(i, d, k, q, L).lent = L
         /\ MadeBare(i, d, k, q, L).parent = k /\ MadeBare(i, d, k, q, L).root = q
         /\ ~MadeBare(i, d, k, q, L).across
<1> DEFINE c1 == [R!NoCall EXCEPT !.at = "running"]
           c2 == [c1 EXCEPT !.from = i]
           c3 == [c2 EXCEPT !.to = d]
           c4 == [c3 EXCEPT !.parent = k]
           c5 == [c4 EXCEPT !.root = q]
           c6 == [c5 EXCEPT !.lent = L]
<1>1. /\ c1 \in CallRecords /\ c1.at = "running" /\ c1.own = 0 /\ ~c1.across
  BY NoCallFields DEF CallRecords
<1> HIDE DEF c1
<1>2. /\ c2 \in CallRecords /\ c2.at = "running" /\ c2.own = 0 /\ ~c2.across /\ c2.from = i
  BY <1>1 DEF CallRecords
<1> HIDE DEF c2
<1>3. /\ c3 \in CallRecords /\ c3.at = "running" /\ c3.own = 0 /\ ~c3.across /\ c3.from = i /\ c3.to = d
  BY <1>2 DEF CallRecords
<1> HIDE DEF c3
<1>4. /\ c4 \in CallRecords /\ c4.at = "running" /\ c4.own = 0 /\ ~c4.across /\ c4.from = i /\ c4.to = d
      /\ c4.parent = k
  BY <1>3 DEF CallRecords
<1> HIDE DEF c4
<1>5. /\ c5 \in CallRecords /\ c5.at = "running" /\ c5.own = 0 /\ ~c5.across /\ c5.from = i /\ c5.to = d
      /\ c5.parent = k /\ c5.root = q
  BY <1>4 DEF CallRecords
<1> HIDE DEF c5
<1>6. /\ c6 \in CallRecords /\ c6.at = "running" /\ c6.own = 0 /\ ~c6.across /\ c6.from = i /\ c6.to = d
      /\ c6.parent = k /\ c6.root = q /\ c6.lent = L
  BY <1>5 DEF CallRecords
<1>7. MadeBare(i, d, k, q, L) = c6
  BY DEF c1, c2, c3, c4, c5, MadeBare
<1> HIDE DEF c6
<1>. QED  BY <1>6, <1>7

\* Those of any call, with other borrows.
LEMMA CallBorrows ==
  ASSUME NEW c \in CallRecords, NEW n \in {0, 1}
  PROVE  /\ Borrowed(c, n) \in CallRecords /\ Borrowed(c, n).borrows = n
         /\ Borrowed(c, n).at = c.at /\ Borrowed(c, n).from = c.from /\ Borrowed(c, n).to = c.to
         /\ Borrowed(c, n).own = c.own /\ Borrowed(c, n).lent = c.lent
         /\ Borrowed(c, n).parent = c.parent /\ Borrowed(c, n).root = c.root
         /\ Borrowed(c, n).across = c.across
         /\ Borrowed(Borrowed(c, n), 0) = Borrowed(c, 0) /\ Borrowed(Borrowed(c, 0), n) = Borrowed(c, n)
<1>1. ASSUME NEW x \in CallRecords, NEW m \in {0, 1}
      PROVE  /\ Borrowed(x, m) \in CallRecords /\ Borrowed(x, m).borrows = m
             /\ Borrowed(x, m).at = x.at /\ Borrowed(x, m).from = x.from /\ Borrowed(x, m).to = x.to
             /\ Borrowed(x, m).own = x.own /\ Borrowed(x, m).lent = x.lent
             /\ Borrowed(x, m).parent = x.parent /\ Borrowed(x, m).root = x.root
             /\ Borrowed(x, m).across = x.across
  BY DEF CallRecords, Borrowed
<1>2. ASSUME NEW x \in CallRecords, NEW y \in CallRecords, x.borrows = y.borrows,
             x.at = y.at, x.from = y.from, x.to = y.to, x.own = y.own, x.lent = y.lent,
             x.parent = y.parent, x.root = y.root, x.across = y.across
      PROVE  x = y
  <2>1. /\ x = [at |-> x.at, from |-> x.from, to |-> x.to, own |-> x.own, lent |-> x.lent, borrows |-> x.borrows,
                 parent |-> x.parent, root |-> x.root, across |-> x.across]
        /\ y = [at |-> y.at, from |-> y.from, to |-> y.to, own |-> y.own, lent |-> y.lent, borrows |-> y.borrows,
                 parent |-> y.parent, root |-> y.root, across |-> y.across]
    BY DEF CallRecords
  <2>. QED  BY <2>1, <1>2
<1>3. Borrowed(c, 0) \in CallRecords /\ Borrowed(c, n) \in CallRecords
  BY <1>1
<1>4. Borrowed(Borrowed(c, n), 0) \in CallRecords /\ Borrowed(Borrowed(c, 0), n) \in CallRecords
  BY <1>1, <1>3
<1>5. Borrowed(Borrowed(c, n), 0) = Borrowed(c, 0)
  BY <1>1, <1>2, <1>3, <1>4
<1>6. Borrowed(Borrowed(c, 0), n) = Borrowed(c, n)
  BY <1>1, <1>2, <1>3, <1>4
<1>. QED  BY <1>1, <1>5, <1>6

\* A call is made in k, of d, with the handle at b lent, and before it has its own handles.
Bare(k, j, d, b, r) == [R!Made(k, j, d, b, r) EXCEPT ![j].borrows = 0]

\* What that leaves: the tables with one lend more, and a call with its record.
LEMMA MadeFields ==
  ASSUME ResourceInv, NEW k \in CallNumbers, call[k].at = "running", call[k].to \in Insts,
         NEW j \in CallNumbers, call[j].at = "none", NEW d \in Insts \cup {Host},
         NEW b, b = 0 \/ b \in R!Used(call[k].to), NEW r
  PROVE  LET c2 == Bare(k, j, d, b, r)
             c == Bare(k, j, d, b, r)[j]
             i == call[k].to
             q == call[k].root
         IN  /\ c2 \in [CallNumbers -> CallRecords] /\ c \in CallRecords
             /\ R!Made(k, j, d, b, r) = [c2 EXCEPT ![j].borrows = R!BorrowsOf(d, r)]
             /\ c.at = "running" /\ c.from = i /\ c.to = d /\ c.own = 0 /\ c.borrows = 0 /\ c.parent = k
             /\ c.root = q
             /\ c.lent = IF b = 0 THEN {}
                         ELSE {R!Loan(i, b, table[i].slots[b].scope, table[i].slots[b].rep)}
             /\ \A n \in CallNumbers \ {j} :
                  /\ c2[n].at = call[n].at /\ c2[n].from = call[n].from /\ c2[n].to = call[n].to
                  /\ c2[n].lent = call[n].lent /\ c2[n].own = call[n].own /\ c2[n].borrows = call[n].borrows
                  /\ c2[n].parent = call[n].parent /\ c2[n].root = call[n].root
                  /\ n # q => c2[n] = call[n]
             /\ call[q].across => c2[q].across
             /\ ~c2[q].across => \A l \in c.lent : l.of # 0 => call[l.of].at = "running" /\ call[l.of].root = q
<1> DEFINE i == call[k].to
           q == call[k].root
           L == R!LoanOf(i, b)
           n1 == R!BorrowsOf(d, r)
           x == call[q].across \/ R!Crosses(k, i, b)
           c0 == MadeBare(i, d, k, q, L)
           e(n) == Borrowed(c0, n)
           c2 == Bare(k, j, d, b, r)
<1>1. /\ IsTables(table) /\ Holding(rep, HeldIn(table), wrapper, call, dead, 0)
      /\ call \in [CallNumbers -> CallRecords] /\ Kinds2(HeldIn(table))
  BY DEF ResourceInv, Stands, Holding, Typed
<1>2. q \in CallNumbers /\ call[q].at = "running" /\ q # j
  BY <1>1, Activation DEF R!Root
<1>3. b # 0 => /\ b \in Spots /\ R!Handle(i, b) = table[i].slots[b] /\ table[i].slots[b] \in Handles
               /\ table[i].slots[b].rep # 0 /\ HeldIn(table)[i][b] = table[i].slots[b]
  <2>1. HeldIn(table) \in [Insts -> [Spots -> Handles]]
    BY <1>1, HeldAt
  <2>. QED  BY <1>1, <2>1, UsedAt
<1>4. /\ L = IF b = 0 THEN {} ELSE {R!Loan(i, b, table[i].slots[b].scope, table[i].slots[b].rep)}
      /\ L \in SUBSET Loans
  <2>1. CASE b = 0
    BY <2>1 DEF R!LoanOf
  <2>2. CASE b # 0
    <3>1. L = {R!Loan(i, b, table[i].slots[b].scope, table[i].slots[b].rep)}
      BY <1>3, <2>2 DEF R!LoanOf
    <3>2. R!Loan(i, b, table[i].slots[b].scope, table[i].slots[b].rep) \in Loans
      BY <1>3, <2>2 DEF Handles, Loans, R!Loan, Spots
    <3>. QED  BY <2>2, <3>1, <3>2
  <2>. QED  BY <2>1, <2>2
<1>5. n1 \in {0, 1}
  BY DEF R!BorrowsOf
<1>6. x \in BOOLEAN
  BY DEF R!Crosses
<1>7. R!Made(k, j, d, b, r) = [call EXCEPT ![q].across = x, ![j] = e(n1)]
  BY DEF R!Made, R!Root, MadeBare, Borrowed
<1>8. \A n \in {0, 1} : /\ e(n) \in CallRecords /\ e(n).borrows = n
                      /\ e(n).at = "running" /\ e(n).from = i /\ e(n).to = d /\ e(n).own = 0 /\ e(n).lent = L
                      /\ e(n).parent = k /\ e(n).root = q
                      /\ Borrowed(e(n), 0) = e(0) /\ Borrowed(e(0), n) = e(n)
  <2>1. /\ c0 \in CallRecords /\ c0.at = "running" /\ c0.from = i /\ c0.to = d /\ c0.own = 0 /\ c0.lent = L
        /\ c0.parent = k /\ c0.root = q
    <3>1. i \in Insts \cup {Host} /\ q \in CallNumbers
      BY <1>2
    <3> HIDE DEF i, q, L
    <3>. QED  BY <3>1, <1>4, BareMade
  <2> HIDE DEF c0, i, q, L
  <2>. QED  BY <2>1, CallBorrows
<1>8a. [e(0) EXCEPT !.borrows = n1] = e(n1) /\ [e(n1) EXCEPT !.borrows = 0] = e(0)
  BY <1>5, <1>8, Zenon DEF Borrowed
<1> HIDE DEF i, q, L, n1, x, c0, e
<1>9. [call[q] EXCEPT !.across = x] \in CallRecords
  BY <1>1, <1>2, <1>6 DEF CallRecords
<1>10. /\ R!Made(k, j, d, b, r) \in [CallNumbers -> CallRecords]
       /\ \A n \in CallNumbers : R!Made(k, j, d, b, r)[n] =
            IF n = j THEN e(n1) ELSE IF n = q THEN [call[q] EXCEPT !.across = x] ELSE call[n]
  BY <1>1, <1>2, <1>5, <1>7, <1>8, <1>9
<1>11. /\ c2 \in [CallNumbers -> CallRecords]
       /\ \A n \in CallNumbers : c2[n] =
            IF n = j THEN e(0) ELSE IF n = q THEN [call[q] EXCEPT !.across = x] ELSE call[n]
  <2> DEFINE mk == R!Made(k, j, d, b, r)
             z == e(0)
  <2>1. [mk[j] EXCEPT !.borrows = 0] = z /\ z \in CallRecords
    BY <1>5, <1>8, <1>8a, <1>10
  <2>2. c2 = [mk EXCEPT ![j] = z]
    <3>1. c2 = [mk EXCEPT ![j].borrows = 0]
      BY DEF Bare
    <3>2. mk \in [CallNumbers -> CallRecords]
      BY <1>10
    <3> HIDE DEF mk, z, c2
    <3>. QED  BY <2>1, <3>1, <3>2
  <2>3. \A n \in CallNumbers : n # j => mk[n] = IF n = q THEN [call[q] EXCEPT !.across = x] ELSE call[n]
    BY <1>10
  <2>4. mk \in [CallNumbers -> CallRecords]
    BY <1>10
  <2> HIDE DEF mk, c2, z
  <2>5. c2 \in [CallNumbers -> CallRecords] /\ \A n \in CallNumbers : c2[n] = IF n = j THEN z ELSE mk[n]
    BY <2>1, <2>2, <2>4
  <2>. QED  BY <2>3, <2>5 DEF z
<1> HIDE DEF c2
<1>12. R!Made(k, j, d, b, r) = [c2 EXCEPT ![j].borrows = n1]
  <2> DEFINE z == e(n1)
  <2>1. [c2[j] EXCEPT !.borrows = n1] = z /\ z \in CallRecords
    BY <1>5, <1>8, <1>8a, <1>11
  <2>2. [c2 EXCEPT ![j].borrows = n1] = [c2 EXCEPT ![j] = z]
    BY <1>11, <2>1
  <2> HIDE DEF z
  <2>3. R!Made(k, j, d, b, r) = [c2 EXCEPT ![j] = z]
    BY <1>10, <1>11, <2>1 DEF z
  <2>. QED  BY <2>2, <2>3
<1>13. \A n \in CallNumbers \ {j} :
         /\ c2[n].at = call[n].at /\ c2[n].from = call[n].from /\ c2[n].to = call[n].to
         /\ c2[n].lent = call[n].lent /\ c2[n].own = call[n].own /\ c2[n].borrows = call[n].borrows
         /\ c2[n].parent = call[n].parent /\ c2[n].root = call[n].root
         /\ n # q => c2[n] = call[n]
  BY <1>1, <1>2, <1>11 DEF CallRecords
<1>14. c2[q].across = x
  BY <1>1, <1>2, <1>11 DEF CallRecords
<1>15. ~x => \A l \in L : l.of # 0 => call[l.of].at = "running" /\ call[l.of].root = q
  <2> SUFFICES ASSUME ~x, NEW l \in L, l.of # 0
               PROVE  call[l.of].at = "running" /\ call[l.of].root = q
    OBVIOUS
  <2>1. b # 0 /\ l.of = table[i].slots[b].scope
    BY <1>4 DEF R!Loan
  <2>2. ~table[i].slots[b].own
    BY <1>1, <1>3, <2>1 DEF Kinds2, i
  <2>3. R!Handle(i, b).scope \in R!Frames(k)
    BY <1>3, <2>1, <2>2 DEF x, R!Crosses
  <2>. QED  BY <1>3, <2>1, <2>3 DEF R!Frames, R!Root, q
<1>16. c2[j] = e(0) /\ e(0) \in CallRecords /\ (call[q].across => x)
  BY <1>8, <1>11 DEF x
<1>. QED  BY <1>4, <1>8, <1>11, <1>12, <1>13, <1>14, <1>15, <1>16 DEF i, q, c2, n1

\* The call k, which acts, makes j, of d, and lends b or nothing.
Asked(k, j, d, b) ==
  /\ ResourceInv /\ k \in CallNumbers /\ R!Acting(k) /\ R!Fresh(CallNumbers \ FromHost, j)
  /\ d \in Insts \cup {Host}
  /\ b = 0 \/ b \in R!Used(call[k].to)

\* What it lends is no borrow of the new call.
LEMMA MadeLent ==
  ASSUME NEW k, NEW j, NEW d, NEW b, Asked(k, j, d, b)
  PROVE  /\ IsTables(table) /\ Stands(rep, table, wrapper, call, dead, 0) /\ call[k].to \in Insts
         /\ call[k].at = "running"
         /\ j \in CallNumbers \ FromHost /\ call[j].at = "none"
         /\ \A n \in Insts : \A s \in Spots : HeldIn(table)[n][s].scope # j
         /\ b # 0 => /\ b \in DOMAIN table[call[k].to].slots /\ table[call[k].to].slots[b].rep # 0
                     /\ R!Handle(call[k].to, b) = table[call[k].to].slots[b]
                     /\ table[call[k].to].slots[b] \in Handles
         /\ \A n \in Insts : Spare(R!Lent(table, call[k].to, b)[n]) = Spare(table[n])
         /\ \A n \in Insts : \A s \in Spots : HeldIn(R!Lent(table, call[k].to, b))[n][s].scope # j
<1> DEFINE i == call[k].to
<1>0. /\ ResourceInv /\ k \in CallNumbers /\ R!Acting(k) /\ R!Fresh(CallNumbers \ FromHost, j)
      /\ b = 0 \/ b \in R!Used(i)
  BY DEF Asked
<1>1. /\ IsTables(table) /\ Stands(rep, table, wrapper, call, dead, 0) /\ call[k].at = "running"
      /\ i \in Insts
  BY <1>0, ActingRuns
<1>2. j \in CallNumbers \ FromHost /\ call[j].at = "none" /\ \A n \in Insts : \A s \in Spots : HeldIn(table)[n][s].scope # j
  <2>1. CallNumbers \ FromHost \in SUBSET CallNumbers
    OBVIOUS
  <2>. QED  BY <1>0, <2>1, FreshFacts
<1>3. b # 0 => /\ b \in DOMAIN table[i].slots /\ table[i].slots[b].rep # 0 /\ R!Handle(i, b) = table[i].slots[b]
               /\ HeldIn(table)[i][b] = table[i].slots[b] /\ b \in Spots
  BY <1>0, <1>1, UsedAt
<1>5. HeldIn(table) \in [Insts -> [Spots -> Handles]]
  BY <1>1, HeldAt
<1>6. b # 0 => table[i].slots[b] \in Handles
  BY <1>1, <1>3, <1>5
<1> HIDE DEF i
<1>7. b = 0 \/ b \in DOMAIN table[i].slots
  BY <1>3
<1>8. /\ \A n \in Insts : Spare(R!Lent(table, i, b)[n]) = Spare(table[n])
      /\ \A n \in Insts : \A s \in Spots : HeldIn(R!Lent(table, i, b))[n][s].scope = HeldIn(table)[n][s].scope
  BY <1>1, <1>7, LentAt
<1>. QED  BY <1>1, <1>2, <1>3, <1>6, <1>8 DEF i

\* The representation that a borrow is of.
LEMMA RepOf ==
  ASSUME IsTables(table), NEW i \in Insts, NEW b, b = 0 \/ b \in R!Used(i)
  PROVE  R!RepAt(i, b) \in RepNumbers \cup {0} /\ (b # 0 <=> R!RepAt(i, b) # 0)
<1>1. CASE b = 0
  BY <1>1 DEF R!RepAt
<1>2. CASE b # 0
  <2>1. b \in Spots /\ R!RepAt(i, b) = HeldIn(table)[i][b].rep /\ R!RepAt(i, b) # 0
    BY <1>2, UsedAt DEF R!RepAt
  <2>2. HeldIn(table)[i][b] \in Handles
    BY <2>1, HeldAt
  <2>. QED  BY <1>2, <2>1, <2>2 DEF Handles
<1>. QED  BY <1>1, <1>2

\* Then the call is there, and has what it was lent.
LEMMA MadeStands ==
  ASSUME NEW k, NEW j, NEW d, NEW b, NEW r, Asked(k, j, d, b)
  PROVE  /\ Stands(rep, R!Lent(table, call[k].to, b), wrapper, Bare(k, j, d, b, r), dead, 0)
         /\ R!Made(k, j, d, b, r) = [Bare(k, j, d, b, r) EXCEPT ![j].borrows = R!BorrowsOf(d, r)]
         /\ Bare(k, j, d, b, r)[j].at = "running" /\ Bare(k, j, d, b, r)[j].to = d
         /\ Bare(k, j, d, b, r)[j].borrows = 0
         /\ Bare(k, j, d, b, r)[j].lent = R!LoanOf(call[k].to, b)
         /\ Bare(k, j, d, b, r) \in [CallNumbers -> CallRecords]
<1> DEFINE i == call[k].to
           c2 == Bare(k, j, d, b, r)
           c == c2[j]
           cl == call
           q == cl[k].root
<1>0. /\ ResourceInv /\ k \in CallNumbers /\ R!Acting(k) /\ d \in Insts \cup {Host}
      /\ b = 0 \/ b \in R!Used(i)
  BY DEF Asked
<1>1. /\ IsTables(table) /\ Stands(rep, table, wrapper, call, dead, 0) /\ i \in Insts
      /\ call[k].at = "running"
      /\ j \in CallNumbers \ FromHost /\ call[j].at = "none"
      /\ \A n \in Insts : \A s \in Spots : HeldIn(table)[n][s].scope # j
      /\ b # 0 => /\ b \in DOMAIN table[i].slots /\ table[i].slots[b].rep # 0
                  /\ R!Handle(i, b) = table[i].slots[b]
  BY MadeLent
<1>4. /\ c2 \in [CallNumbers -> CallRecords] /\ c \in CallRecords
      /\ R!Made(k, j, d, b, r) = [c2 EXCEPT ![j].borrows = R!BorrowsOf(d, r)]
      /\ c.at = "running" /\ c.from = i /\ c.to = d /\ c.own = 0 /\ c.borrows = 0 /\ c.parent = k
      /\ c.root = q
      /\ c.lent = IF b = 0 THEN {} ELSE {R!Loan(i, b, table[i].slots[b].scope, table[i].slots[b].rep)}
      /\ \A n \in CallNumbers \ {j} :
           /\ c2[n].at = cl[n].at /\ c2[n].from = cl[n].from /\ c2[n].to = cl[n].to
           /\ c2[n].lent = cl[n].lent /\ c2[n].own = cl[n].own /\ c2[n].borrows = cl[n].borrows
           /\ c2[n].parent = cl[n].parent /\ c2[n].root = cl[n].root
           /\ n # q => c2[n] = cl[n]
      /\ cl[q].across => c2[q].across
      /\ ~c2[q].across => \A l \in c.lent : l.of # 0 => cl[l.of].at = "running" /\ cl[l.of].root = q
  BY <1>0, <1>1, MadeFields
<1>5. c.lent = R!LoanOf(i, b)
  BY <1>1, <1>4 DEF R!LoanOf
<1>8. Stands(rep, R!Lent(table, i, b), wrapper, c2, dead, 0)
  <2>1. Stands(rep, table, wrapper, cl, dead, 0) /\ cl[k].at = "running" /\ cl[k].to = i /\ cl[j].at = "none" /\ c2[j] = c
    BY <1>1
  <2>2. b = 0 \/ (b \in DOMAIN table[i].slots /\ table[i].slots[b].rep # 0)
    BY <1>1
  <2> HIDE DEF i, c2, c, cl, q
  <2>3. Makes(table, cl, c2, k, i, j, c, b)
    BY <1>0, <1>1, <1>4, <2>1, <2>2 DEF Makes, q
  <2>. QED  BY <2>1, <2>3, LentStands
<1>. QED  BY <1>4, <1>5, <1>8

\* The call k makes j, of d, lends b or nothing and passes o or nothing.
Moves(k, j, d, b, o) ==
  /\ Asked(k, j, d, b)
  /\ o # 0 => o \in R!Used(call[k].to) /\ R!Movable(R!Handle(call[k].to, o)) /\ o # b

\* The own is in the caller's table when the borrow has been lent.
LEMMA PassedTables ==
  ASSUME NEW k, NEW j, NEW d, NEW b, NEW o, Moves(k, j, d, b, o)
  PROVE  /\ \A n \in Insts : Spare(table[n]) \in Int
         /\ IsTables(R!Lent(table, call[k].to, b)) /\ IsTables(table) /\ call[k].to \in Insts
         /\ o # 0 => /\ o \in DOMAIN R!Lent(table, call[k].to, b)[call[k].to].slots
                     /\ R!Lent(table, call[k].to, b)[call[k].to].slots[o].rep # 0
                     /\ R!Lent(table, call[k].to, b)[call[k].to].slots[o].own
                     /\ R!Lent(table, call[k].to, b)[call[k].to].slots[o].lends = 0
                     /\ R!Lent(table, call[k].to, b)[call[k].to].slots[o].rep = R!RepAt(call[k].to, o)
<1> DEFINE i == call[k].to
           tb == R!Lent(table, i, b)
<1>0. Asked(k, j, d, b) /\ (o # 0 => o \in R!Used(i) /\ R!Movable(R!Handle(i, o)) /\ o # b)
  BY DEF Moves
<1>1. IsTables(table) /\ i \in Insts /\ (b = 0 \/ b \in DOMAIN table[i].slots)
  BY <1>0, MadeLent DEF Asked
<1>3. \A n \in Insts : Spare(table[n]) \in Int
  BY <1>1, HeldAt
<1>5. /\ \A n \in Insts : DOMAIN tb[n].slots = DOMAIN table[n].slots
      /\ \A n \in Insts : \A s \in Spots :
           /\ HeldIn(tb)[n][s].rep = HeldIn(table)[n][s].rep
           /\ HeldIn(tb)[n][s].own = HeldIn(table)[n][s].own
           /\ HeldIn(tb)[n][s].lends = HeldIn(table)[n][s].lends + IF n = i /\ s = b THEN 1 ELSE 0
      /\ IsTables(tb)
  BY <1>1, LentAt
<1> HIDE DEF i, tb
<1>7. ASSUME o # 0
      PROVE  /\ o \in DOMAIN tb[i].slots /\ tb[i].slots[o].rep # 0 /\ tb[i].slots[o].own
             /\ tb[i].slots[o].lends = 0
             /\ tb[i].slots[o].rep = R!RepAt(i, o)
  <2>1. o \in R!Used(i) /\ R!Handle(i, o).own /\ R!Handle(i, o).lends = 0 /\ o # b
    BY <1>0, <1>7 DEF R!Movable
  <2>2. /\ o \in DOMAIN table[i].slots /\ o \in Spots /\ table[i].slots[o].rep # 0
        /\ R!Handle(i, o) = HeldIn(table)[i][o] /\ R!Handle(i, o) = table[i].slots[o]
    BY <1>1, <2>1, UsedAt
  <2>3. o \in DOMAIN tb[i].slots /\ HeldIn(tb)[i][o] = tb[i].slots[o]
    BY <1>1, <1>5, <2>2, HeldAt
  <2>4. R!RepAt(i, o) = R!Handle(i, o).rep
    BY <1>7 DEF R!RepAt
  <2>5. /\ HeldIn(tb)[i][o].rep = HeldIn(table)[i][o].rep
        /\ HeldIn(tb)[i][o].own = HeldIn(table)[i][o].own
        /\ HeldIn(tb)[i][o].lends = HeldIn(table)[i][o].lends + IF i = i /\ o = b THEN 1 ELSE 0
    BY <1>1, <1>5, <2>2
  <2>6. HeldIn(table)[i][o].lends = 0 /\ HeldIn(table)[i][o].own /\ HeldIn(table)[i][o].rep = table[i].slots[o].rep
    BY <2>1, <2>2
  <2>7. tb[i].slots[o].lends = 0
    BY <2>1, <2>3, <2>5, <2>6
  <2>8. tb[i].slots[o].rep # 0 /\ tb[i].slots[o].rep = R!RepAt(i, o)
    BY <2>2, <2>3, <2>4, <2>5, <2>6
  <2>9. tb[i].slots[o].own
    BY <2>3, <2>5, <2>6
  <2>. QED  BY <2>3, <2>7, <2>8, <2>9
<1>. QED  BY <1>1, <1>3, <1>5, <1>7 DEF i, tb

\* With the own gone, there is no less room.
LEMMA PassedStands ==
  ASSUME NEW k, NEW j, NEW d, NEW b, NEW r, NEW o, Moves(k, j, d, b, o)
  PROVE  /\ Stands(rep, R!Removed(R!Lent(table, call[k].to, b), call[k].to, o), wrapper, Bare(k, j, d, b, r), dead,
                   R!RepAt(call[k].to, o))
         /\ \A n \in Insts :
              Spare(R!Removed(R!Lent(table, call[k].to, b), call[k].to, o)[n]) >= Spare(table[n])
         /\ \A n \in Insts : Spare(table[n]) \in Int
         /\ \A n \in Insts : \A s \in Spots :
              HeldIn(R!Removed(R!Lent(table, call[k].to, b), call[k].to, o))[n][s].scope # j
<1> DEFINE i == call[k].to
           c2 == Bare(k, j, d, b, r)
           tb == R!Lent(table, i, b)
<1>1. /\ \A n \in Insts : Spare(table[n]) \in Int
      /\ i \in Insts
      /\ o # 0 => /\ o \in DOMAIN tb[i].slots /\ tb[i].slots[o].rep # 0 /\ tb[i].slots[o].own
                  /\ tb[i].slots[o].lends = 0 /\ tb[i].slots[o].rep = R!RepAt(i, o)
  BY PassedTables
<1>0. Asked(k, j, d, b)
  BY DEF Moves
<1>2. Stands(rep, tb, wrapper, c2, dead, 0)
  BY <1>0, MadeStands
<1>3. /\ \A n \in Insts : Spare(tb[n]) = Spare(table[n])
      /\ \A n \in Insts : \A s \in Spots : HeldIn(tb)[n][s].scope # j
      /\ j # 0
  BY <1>0, MadeLent, ResourceAssumption
<1> HIDE DEF i, c2, tb
<1>4. /\ Stands(rep, R!Removed(tb, i, o), wrapper, c2, dead, IF o = 0 THEN 0 ELSE tb[i].slots[o].rep)
      /\ \A n \in Insts :
           Spare(R!Removed(tb, i, o)[n]) = IF n = i /\ o # 0 THEN Spare(tb[n]) + 1 ELSE Spare(tb[n])
      /\ \A n \in Insts : \A x \in Spots : HeldIn(R!Removed(tb, i, o))[n][x].scope # 0 =>
           HeldIn(R!Removed(tb, i, o))[n][x].scope = HeldIn(tb)[n][x].scope
  BY <1>1, <1>2, RemovedStands
<1>5. (IF o = 0 THEN 0 ELSE tb[i].slots[o].rep) = R!RepAt(i, o)
  BY <1>1 DEF R!RepAt
<1>6. \A n \in Insts : \A s \in Spots : HeldIn(R!Removed(tb, i, o))[n][s].scope # j
  BY <1>3, <1>4
<1>7. \A n \in Insts : Spare(R!Removed(tb, i, o)[n]) >= Spare(table[n])
  BY <1>1, <1>3, <1>4
<1>. QED  BY <1>1, <1>4, <1>5, <1>6, <1>7 DEF i, c2, tb

\* A call between guests is made, with the own it passes and the borrow it lends.
LEMMA EnterKeeps ==
  ASSUME ResourceInv, NEW k \in CallNumbers, NEW j, NEW d \in Insts,
         NEW o, NEW b, R!Enter(k, j, d, o, b)
  PROVE  ResourceInv'
<1> DEFINE i == call[k].to
           r == R!RepAt(i, b)
<1>1. /\ R!Acting(k) /\ R!Fresh(CallNumbers \ FromHost, j) /\ rep' = rep
      /\ {o, b} \ {0} \subseteq R!Used(i) /\ R!Room(d, R!Brought(d, o, r))
      /\ \/ R!Trap(k, i, 0, {})
         \/ o # 0 /\ R!Trap(k, i, o, {})
         \/ /\ o # 0 => R!Movable(R!Handle(i, o)) /\ o # b
            /\ table' = R!Shown(R!Given(R!Removed(R!Lent(table, i, b), i, o), d, R!RepAt(i, o)), d, r, j)
            /\ call' = R!Made(k, j, d, b, r)
            /\ wrapper' = wrapper /\ dead' = dead
  BY DEF R!Enter
<1>2. /\ IsTables(table) /\ Stands(rep, table, wrapper, call, dead, 0) /\ Deferring
      /\ call[k].at = "running" /\ i \in Insts
  BY <1>1, ActingRuns
<1>3. (o # 0 => o \in R!Used(i)) /\ (b # 0 => b \in R!Used(i))
  BY <1>1
<1> HIDE DEF i
<1>4. CASE R!Trap(k, i, 0, {})
  <2>1. Stands(rep, table', wrapper', call', dead', 0) /\ Deferring'
    BY <1>2, <1>4, TrapKeeps
  <2>. QED  BY <1>1, <2>1 DEF ResourceInv
<1>5. CASE o # 0 /\ R!Trap(k, i, o, {})
  <2>1. Stands(rep, table', wrapper', call', dead', 0) /\ Deferring'
    BY <1>2, <1>3, <1>5, TrapKeeps
  <2>. QED  BY <1>1, <2>1 DEF ResourceInv
<1>6. CASE /\ o # 0 => R!Movable(R!Handle(i, o)) /\ o # b
           /\ table' = R!Shown(R!Given(R!Removed(R!Lent(table, i, b), i, o), d, R!RepAt(i, o)), d, r, j)
           /\ call' = R!Made(k, j, d, b, r)
           /\ wrapper' = wrapper /\ dead' = dead
  <2> DEFINE c2 == Bare(k, j, d, b, r)
             q == R!RepAt(i, o)
             t1 == R!Removed(R!Lent(table, i, b), i, o)
             t2 == R!Given(t1, d, q)
             n == R!BorrowsOf(d, r)
  <2>0. Asked(k, j, d, b) /\ (b = 0 \/ b \in R!Used(i))
    BY <1>1, <1>3 DEF Asked, i
  <2>1. /\ j \in CallNumbers /\ call' = [c2 EXCEPT ![j].borrows = n]
        /\ c2[j].at = "running" /\ c2[j].to = d /\ c2[j].borrows = 0
        /\ (r # 0 => \E l \in c2[j].lent : l.rep = r) /\ r \in RepNumbers \cup {0}
    <3>1. r \in RepNumbers \cup {0} /\ (b # 0 <=> r # 0)
      BY <1>2, <2>0, RepOf
    <3>2. /\ R!Made(k, j, d, b, r) = [c2 EXCEPT ![j].borrows = n]
          /\ c2[j].at = "running" /\ c2[j].to = d /\ c2[j].borrows = 0 /\ c2[j].lent = R!LoanOf(i, b)
      BY <2>0, MadeStands DEF i
    <3>3. b # 0 => R!LoanOf(i, b) = {R!Loan(i, b, R!Handle(i, b).scope, r)}
      BY DEF R!LoanOf, R!RepAt
    <3>4. j \in CallNumbers
      BY <2>0, MadeLent
    <3> HIDE DEF c2, n, r
    <3>5. R!Loan(i, b, R!Handle(i, b).scope, r).rep = r
      BY DEF R!Loan
    <3>. QED  BY <1>6, <3>1, <3>2, <3>3, <3>4, <3>5 DEF r
  <2>2. /\ Stands(rep, t1, wrapper, c2, dead, q)
        /\ \A m \in Insts : Spare(t1[m]) >= Spare(table[m])
        /\ \A m \in Insts : Spare(table[m]) \in Int
        /\ \A m \in Insts : \A s \in Spots : HeldIn(t1)[m][s].scope # j
        /\ (o # 0 <=> q # 0)
    <3>1. o # 0 => o \in R!Used(i) /\ R!Movable(R!Handle(i, o)) /\ o # b
      BY <1>3, <1>6
    <3>0. Moves(k, j, d, b, o)
      BY <2>0, <3>1 DEF Moves, i
    <3>2. Stands(rep, t1, wrapper, c2, dead, q)
      BY <3>0, PassedStands DEF i
    <3>3. \A m \in Insts : Spare(t1[m]) >= Spare(table[m])
      BY <3>0, PassedStands DEF i
    <3>4. \A m \in Insts : Spare(table[m]) \in Int
      BY <1>2, HeldAt
    <3>5. \A m \in Insts : \A s \in Spots : HeldIn(t1)[m][s].scope # j
      BY <3>0, PassedStands DEF i
    <3>6. o # 0 <=> q # 0
      BY <1>2, <1>3, RepOf
    <3>. QED  BY <3>2, <3>3, <3>4, <3>5, <3>6
  <2>3. n \in {0, 1}
    BY DEF R!BorrowsOf
  <2>4. R!Brought(d, o, r) = n + IF o = 0 THEN 0 ELSE 1
    BY DEF R!Brought
  <2>5. Spare(table[d]) >= n + IF o = 0 THEN 0 ELSE 1
    <3>1. R!Brought(d, o, r) \in Nat
      BY <2>3, <2>4
    <3>2. Spare(table[d]) >= R!Brought(d, o, r)
      BY <1>1, <1>2, <3>1, SpareRoom
    <3>. QED  BY <2>4, <3>2
  <2>6. IsTables(t1)
    BY <2>2 DEF Stands
  <2>7. Spare(t1[d]) \in Int
    BY <2>6, HeldAt
  <2> HIDE DEF c2, q, t1, n, r
  <2>8. q # 0 => Spare(t1[d]) >= 1
    BY <2>2, <2>3, <2>5, <2>7
  <2>9. /\ Stands(rep, t2, wrapper, c2, dead, 0)
        /\ \A m \in Insts : Spare(t2[m]) = IF m = d /\ q # 0 THEN Spare(t1[m]) - 1 ELSE Spare(t1[m])
        /\ \A m \in Insts : \A s \in Spots : HeldIn(t2)[m][s].scope # 0 =>
             HeldIn(t2)[m][s].scope = HeldIn(t1)[m][s].scope
    BY <2>2, <2>8, GivenStands
  <2>10. Spare(t2[d]) >= n
    BY <2>2, <2>3, <2>5, <2>7, <2>9
  <2>11. \A m \in Insts : \A s \in Spots : HeldIn(t2)[m][s].scope # j
    BY <2>1, <2>2, <2>9, ResourceAssumption
  <2>12. (r # 0 => \E l \in c2[j].lent : l.rep = r) /\ d # Host
    BY <2>1, ResourceAssumption
  <2> HIDE DEF t2
  <2>13. Stands(rep, R!Shown(t2, d, r, j), wrapper, [c2 EXCEPT ![j].borrows = n], dead, 0)
    BY <2>1, <2>9, <2>10, <2>11, <2>12, ShownStands DEF n
  <2>14. table' = R!Shown(t2, d, r, j)
    BY <1>6 DEF t2, t1, q
  <2>15. Deferring'
    BY <1>2, <1>6 DEF Deferring
  <2>. QED  BY <1>1, <1>6, <2>1, <2>13, <2>14, <2>15 DEF ResourceInv
<1>. QED  BY <1>1, <1>4, <1>5, <1>6

-----------------------------------------------------------------------------
(* It returns.                                                                 *)

\* The callee's own leaves its table.
LEMMA TakenStands ==
  ASSUME ResourceInv, NEW i \in Insts, NEW o, o # 0 => o \in R!Used(i) /\ R!Movable(R!Handle(i, o))
  PROVE  /\ Stands(rep, R!Removed(table, i, o), wrapper, call, dead, R!RepAt(i, o))
         /\ \A n \in Insts : Spare(R!Removed(table, i, o)[n]) >= Spare(table[n])
<1>1. IsTables(table) /\ Stands(rep, table, wrapper, call, dead, 0)
  BY DEF ResourceInv, Stands
<1>2. o # 0 => /\ o \in DOMAIN table[i].slots /\ table[i].slots[o].rep # 0
               /\ table[i].slots[o].own /\ table[i].slots[o].lends = 0
               /\ table[i].slots[o].rep = R!RepAt(i, o)
  BY <1>1, UsedAt DEF R!Movable, R!RepAt
<1>3. /\ Stands(rep, R!Removed(table, i, o), wrapper, call, dead, IF o = 0 THEN 0 ELSE table[i].slots[o].rep)
      /\ \A n \in Insts :
           Spare(R!Removed(table, i, o)[n]) = IF n = i /\ o # 0 THEN Spare(table[n]) + 1 ELSE Spare(table[n])
  BY <1>1, <1>2, RemovedStands
<1>4. (IF o = 0 THEN 0 ELSE table[i].slots[o].rep) = R!RepAt(i, o)
  BY <1>2 DEF R!RepAt
<1>5. \A n \in Insts : Spare(table[n]) \in Int
  BY <1>1, HeldAt
<1>. QED  BY <1>3, <1>4, <1>5

\* A call that acts and has no borrows can end.
LEMMA Endable ==
  ASSUME ResourceInv, NEW j \in CallNumbers, R!Acting(j), call[j].borrows = 0
  PROVE  /\ \A w \in Wrappers : wrapper[w].scope \notin {j}
         /\ \A n \in CallNumbers \ {j} : call[n].at # "none" /\ n \notin FromHost => call[n].parent \notin {j}
         /\ \A n \in CallNumbers \ {j} : Pure(call, n) => \A l \in call[n].lent : l.of \notin {j}
<1>1. Holding(rep, HeldIn(table), wrapper, call, dead, 0) /\ call[j].to # Host /\ j # 0
  BY ActingRuns, ResourceAssumption
<1>2. \A w \in Wrappers : wrapper[w].scope # 0 => call[wrapper[w].scope].to = Host
  BY <1>1 DEF Holding, Wrapping
<1>3. \A n \in CallNumbers : ~(call[n].at = "running" /\ call[n].parent = j)
  BY DEF R!Acting
<1>4. \A n \in CallNumbers : call[n].at # "none" /\ n \notin FromHost => call[n].at = "running"
  BY <1>1 DEF Holding, Calling
<1>5. \A n \in CallNumbers : Pure(call, n) => \A l \in call[n].lent : l.of # 0 => call[l.of].borrows = 1
  BY <1>1 DEF Holding, Resting
<1>. QED  BY <1>1, <1>2, <1>3, <1>4, <1>5

\* It returns, with an own or none, or traps since it may not.
LEMMA ExitKeeps ==
  ASSUME ResourceInv, NEW j \in CallNumbers, NEW o, R!Exit(j, o)
  PROVE  ResourceInv'
<1> DEFINE i == call[j].from
           d == call[j].to
           q == R!RepAt(d, o)
           t1 == R!Removed(table, d, o)
           ok == (o # 0 => R!Movable(R!Handle(d, o))) /\ R!MayExit(j)
<1>1. /\ R!Acting(j) /\ i # Host /\ o \in R!Used(d) \cup {0} /\ R!Room(i, 1) /\ rep' = rep
      /\ ok => /\ table' = R!ReleaseLenders(R!Given(t1, i, q), {j})
               /\ call' = [call EXCEPT ![j] = R!NoCall] /\ wrapper' = wrapper /\ dead' = dead
      /\ ~ok => R!Trap(j, d, o, {})
  BY DEF R!Exit
<1>2. /\ IsTables(table) /\ Stands(rep, table, wrapper, call, dead, 0) /\ Deferring
      /\ Holding(rep, HeldIn(table), wrapper, call, dead, 0)
      /\ call \in [CallNumbers -> CallRecords] /\ call[j].at = "running" /\ d \in Insts
  BY <1>1, ActingRuns
<1>3. i \in Insts /\ j \notin FromHost
  <2>1. i \in Insts \cup {Host}
    BY <1>2 DEF CallRecords
  <2>2. j \in FromHost => call[j].from = Host
    BY <1>2 DEF Holding, Calling
  <2>. QED  BY <1>1, <2>1, <2>2
<1>4. CASE ok
  <2>1. call[j].borrows = 0 /\ (o # 0 => o \in R!Used(d) /\ R!Movable(R!Handle(d, o)))
    BY <1>1, <1>4 DEF R!MayExit
  <2>2. /\ table' = R!ReleaseLenders(R!Given(t1, i, q), {j})
        /\ call' = [call EXCEPT ![j] = R!NoCall] /\ wrapper' = wrapper /\ dead' = dead
    BY <1>1, <1>4
  <2>3. Spare(table[i]) >= 1
    BY <1>1, <1>2, <1>3, SpareRoom
  <2>4. /\ Stands(rep, t1, wrapper, call, dead, q)
        /\ \A n \in Insts : Spare(t1[n]) >= Spare(table[n])
    BY <1>2, <2>1, TakenStands
  <2>5. Spare(t1[i]) \in Int /\ Spare(table[i]) \in Int
    <3>1. IsTables(t1)
      BY <2>4 DEF Stands
    <3>. QED  BY <1>2, <1>3, <3>1, HeldAt
  <2> DEFINE t2 == R!Given(t1, i, q)
  <2> HIDE DEF t1, q
  <2>6. Stands(rep, t2, wrapper, call, dead, 0)
    BY <1>3, <2>3, <2>4, <2>5, GivenStands
  <2>7. /\ \A w \in Wrappers : wrapper[w].scope \notin {j}
        /\ \A n \in CallNumbers \ {j} : call[n].at # "none" /\ n \notin FromHost => call[n].parent \notin {j}
        /\ \A n \in CallNumbers \ {j} : Pure(call, n) => \A l \in call[n].lent : l.of \notin {j}
    BY <1>1, <2>1, Endable
  <2> HIDE DEF t2
  <2>8. Stands(rep, R!ReleaseLenders(t2, {j}), wrapper, Ended(call, {j}), dead, 0)
    <3>1. {j} \in SUBSET CallNumbers /\ {j} \cap FromHost = {}
      BY <1>3
    <3>. QED  BY <2>6, <2>7, <3>1, ReleasedStands
  <2>9. call' = Ended(call, {j})
    BY <1>2, <2>2 DEF Ended
  <2>10. Deferring'
    BY <1>2, <2>2 DEF Deferring
  <2>. QED  BY <1>1, <2>2, <2>8, <2>9, <2>10 DEF ResourceInv, t2
<1>5. CASE ~ok
  <2>1. o # 0 => o \in R!Used(d)
    BY <1>1
  <2>2. R!Trap(j, d, o, {})
    BY <1>1, <1>5
  <2>3. Stands(rep, table', wrapper', call', dead', 0) /\ Deferring'
    BY <1>2, <2>1, <2>2, TrapKeeps
  <2>. QED  BY <1>1, <2>3 DEF ResourceInv
<1>. QED  BY <1>4, <1>5

\* A call of the host's returns from its task, or traps.
LEMMA ReturnKeeps ==
  ASSUME ResourceInv, NEW k \in CallNumbers, NEW o, R!Return(k, o)
  PROVE  ResourceInv'
<1> DEFINE i == call[k].to
           q == R!RepAt(i, o)
           t1 == R!Removed(table, i, o)
           ok == (o # 0 => R!Movable(R!Handle(i, o))) /\ R!MayExit(k)
<1>1. /\ R!Acting(k) /\ call[k].from = Host /\ o \in R!Used(i) \cup {0} /\ rep' = rep
      /\ ok => /\ table' = t1 /\ wrapper' = wrapper /\ dead' = dead
               /\ call' = [call EXCEPT ![k].at = "returned", ![k].own = q]
      /\ ~ok => R!Trap(k, i, o, {})
  BY DEF R!Return
<1>2. /\ IsTables(table) /\ Stands(rep, table, wrapper, call, dead, 0) /\ Deferring
      /\ Holding(rep, HeldIn(table), wrapper, call, dead, 0)
      /\ call \in [CallNumbers -> CallRecords] /\ call[k].at = "running" /\ i \in Insts
  BY <1>1, ActingRuns
<1>3. k \in FromHost /\ call[k].own = 0
  BY <1>1, <1>2 DEF Holding, Calling
<1>4. CASE ok
  <2>1. call[k].borrows = 0 /\ (o # 0 => o \in R!Used(i) /\ R!Movable(R!Handle(i, o)))
    BY <1>1, <1>4 DEF R!MayExit
  <2>2. /\ table' = t1 /\ wrapper' = wrapper /\ dead' = dead
        /\ call' = [call EXCEPT ![k].at = "returned", ![k].own = q]
    BY <1>1, <1>4
  <2>3. Stands(rep, t1, wrapper, call, dead, q)
    BY <1>2, <2>1, TakenStands
  <2>4. \A j \in CallNumbers : j # k /\ call[j].at # "none" => call[j].root # k
    <3>1. \A j \in CallNumbers : ~(call[j].at = "running" /\ call[j].parent = k)
      BY <1>1 DEF R!Acting
    <3> DEFINE cl == call
    <3>2. Holding(rep, HeldIn(table), wrapper, cl, dead, 0) /\ \A j \in CallNumbers : ~(cl[j].at = "running" /\ cl[j].parent = k)
      BY <1>2, <3>1
    <3> HIDE DEF cl
    <3>3. \A j \in CallNumbers : j # k /\ cl[j].at # "none" => cl[j].root # k
      BY <1>3, <3>2, Innermost
    <3>. QED  BY <3>3 DEF cl
  <2> DEFINE h1 == HeldIn(t1)
             cl == call
             c1 == [cl EXCEPT ![k].at = "returned"]
  <2>5. /\ Holding(rep, h1, wrapper, cl, dead, q) /\ cl[k].own = 0 /\ cl[k].at = "running"
        /\ cl[k].borrows = 0
        /\ \A j \in CallNumbers : j # k /\ cl[j].at # "none" => cl[j].root # k
        /\ cl \in [CallNumbers -> CallRecords]
    BY <1>2, <1>3, <2>1, <2>3, <2>4 DEF Stands
  <2> HIDE DEF h1, cl, q
  <2>6. Holding(rep, h1, wrapper, c1, dead, q)
    BY <1>3, <2>5, Progress
  <2>7. c1[k].own = 0 /\ c1[k].at = "returned" /\ c1[k] \in CallRecords /\ c1 \in [CallNumbers -> CallRecords]
    BY <1>3, <2>5 DEF CallRecords
  <2>8. Holding(rep, h1, wrapper, [c1 EXCEPT ![k].own = q], dead, 0)
    <3>1. CASE q = 0
      <4>1. [c1[k] EXCEPT !.own = 0] = c1[k]
        BY <2>7 DEF CallRecords
      <4> HIDE DEF c1
      <4>2. [c1 EXCEPT ![k].own = 0] = c1
        BY <2>7, <4>1
      <4>. QED  BY <2>6, <3>1, <4>2
    <3>2. CASE q # 0
      <4> HIDE DEF c1
      <4>. QED  BY <2>6, <2>7, <3>2, GiveCall
    <3>. QED  BY <3>1, <3>2
  <2>9. call' = [c1 EXCEPT ![k].own = q]
    BY <2>2 DEF cl
  <2>10. Deferring'
    BY <1>2, <2>2 DEF Deferring
  <2>11. IsTables(t1)
    BY <2>3 DEF Stands
  <2>12. Stands(rep, t1, wrapper, [c1 EXCEPT ![k].own = q], dead, 0)
    BY <2>8, <2>11 DEF Stands, h1
  <2>. QED  BY <1>1, <2>2, <2>9, <2>10, <2>12 DEF ResourceInv
<1>5. CASE ~ok
  <2>1. o # 0 => o \in R!Used(i)
    BY <1>1
  <2>2. R!Trap(k, i, o, {})
    BY <1>1, <1>5
  <2>3. Stands(rep, table', wrapper', call', dead', 0) /\ Deferring'
    BY <1>2, <2>1, <2>2, TrapKeeps
  <2>. QED  BY <1>1, <2>3 DEF ResourceInv
<1>. QED  BY <1>4, <1>5

\* A call of the host's can never go on and fails.
LEMMA StallsKeeps ==
  ASSUME ResourceInv, NEW k \in CallNumbers, R!Stalls(k)
  PROVE  ResourceInv'
<1> DEFINE B == R!Brackets(k)
<1>1. /\ call[k].at = "running" /\ call[k].from = Host /\ \A j \in B : call[j].to # Host
      /\ table' = R!ReleaseLenders(table, B)
      /\ call' = [j \in CallNumbers |-> CASE j = k -> [call[k] EXCEPT !.at = "failed"]
                                          [] j \in B -> R!NoCall
                                          [] OTHER -> call[j]]
      /\ rep' = rep /\ wrapper' = wrapper /\ dead' = dead
  BY DEF R!Stalls
<1>2. /\ Stands(rep, table, wrapper, call, dead, 0) /\ Deferring
      /\ Holding(rep, HeldIn(table), wrapper, call, dead, 0)
      /\ call \in [CallNumbers -> CallRecords] /\ wrapper \in [Wrappers -> WrapperRecords]
  BY DEF ResourceInv, Stands, Holding, Typed
<1>3. k \in FromHost /\ R!Root(k) = k /\ call[k].to # Host
  BY <1>1, <1>2 DEF Holding, Calling, R!Root
<1>4. /\ Broken(k) \in [CallNumbers -> CallRecords] /\ \A j \in B : Broken(k)[j] = R!NoCall
      /\ \A j \in CallNumbers \ B : Broken(k)[j] = IF j = k THEN [call[j] EXCEPT !.at = "failed"] ELSE call[j]
  <2>1. /\ Broken(k) \in [CallNumbers -> CallRecords] /\ \A j \in B : Broken(k)[j] = R!NoCall
        /\ \A j \in CallNumbers \ B : Broken(k)[j] = IF j = R!Root(k) THEN [call[j] EXCEPT !.at = "failed"] ELSE call[j]
    BY <1>1, <1>2, BrokenFields
  <2>. QED  BY <1>3, <2>1
<1>5. k \notin B /\ \A j \in R!Frames(k) : j = k \/ j \in B
  BY <1>3 DEF R!Brackets
<1> HIDE DEF B
<1>6. call' = Broken(k)
  <2>1. \A j \in CallNumbers : call'[j] = Broken(k)[j]
    BY <1>1, <1>4, <1>5
  <2>2. call' = [j \in CallNumbers |-> call'[j]]
    BY <1>1
  <2>. QED  BY <1>4, <2>1, <2>2
<1>7. Shut(k) = wrapper
  <2>1. \A w \in Wrappers : wrapper[w].scope # 0 => call[wrapper[w].scope].to = Host
    BY <1>2 DEF Holding, Wrapping
  <2>2. \A w \in Wrappers : wrapper[w].scope \notin R!Frames(k)
    <3>1. \A j \in R!Frames(k) : j \in CallNumbers /\ call[j].to # Host
      BY <1>1, <1>3, <1>5 DEF R!Frames
    <3>. QED  BY <2>1, <3>1, ResourceAssumption
  <2>. QED  BY <1>2, <2>2 DEF Shut
<1>8. Stands(rep, R!ReleaseLenders(table, B), Shut(k), Broken(k), dead, 0)
  BY <1>1, <1>2, TrapStands DEF B
<1>9. Deferring'
  BY <1>1, <1>2 DEF Deferring
<1>. QED  BY <1>1, <1>6, <1>7, <1>8, <1>9 DEF ResourceInv

-----------------------------------------------------------------------------
(* The host's function is called.                                              *)

\* The wrapper of a borrow that the host's function was lent.
LEMMA BorrowWrapper ==
  ASSUME NEW r \in RepNumbers, NEW j \in CallNumbers
  PROVE  LET x == [R!NoWrapper EXCEPT !.rep = r, !.valid = TRUE, !.scope = j]
         IN  /\ x \in WrapperRecords /\ x.rep = r /\ x.valid /\ ~x.owns /\ x.lends = 0 /\ ~x.pending /\ x.scope = j
<1> DEFINE x1 == [R!NoWrapper EXCEPT !.rep = r]
           x2 == [x1 EXCEPT !.valid = TRUE]
           x3 == [x2 EXCEPT !.scope = j]
<1>1. x1 \in WrapperRecords /\ x1.rep = r /\ ~x1.owns /\ x1.lends = 0 /\ ~x1.pending
  BY WrapperFields DEF WrapperRecords
<1> HIDE DEF x1
<1>2. x2 \in WrapperRecords /\ x2.rep = r /\ x2.valid /\ ~x2.owns /\ x2.lends = 0 /\ ~x2.pending
  BY <1>1 DEF WrapperRecords
<1> HIDE DEF x2
<1>3. x3 \in WrapperRecords /\ x3.rep = r /\ x3.valid /\ ~x3.owns /\ x3.lends = 0 /\ ~x3.pending /\ x3.scope = j
  BY <1>2 DEF WrapperRecords
<1>. QED  BY <1>3 DEF x1, x2

\* A guest calls the host's function.
LEMMA ImportKeeps ==
  ASSUME ResourceInv, NEW k \in CallNumbers, NEW j, NEW o, NEW b, NEW v \in Wrappers, NEW w \in Wrappers,
         R!Import(k, j, o, b, v, w)
  PROVE  ResourceInv'
<1> DEFINE i == call[k].to
           r == R!RepAt(i, b)
           q == R!RepAt(i, o)
           x == [R!NoWrapper EXCEPT !.rep = r, !.valid = TRUE, !.scope = j]
           ok == o # 0 => R!Movable(R!Handle(i, o)) /\ o # b
<1>1. /\ R!Acting(k) /\ R!Fresh(CallNumbers \ FromHost, j) /\ rep' = rep
      /\ {o, b} \ {0} \subseteq R!Used(i)
      /\ wrapper[v] = R!NoWrapper /\ wrapper[w] = R!NoWrapper /\ w # v
  BY DEF R!Import, R!Free, R!FreeBut, R!Unheld
<1>1a. /\ ~ok => R!Trap(k, i, o, {})
       /\ ok => /\ table' = R!Removed(R!Lent(table, i, b), i, o)
                /\ wrapper' = [wrapper EXCEPT ![v] = IF o = 0 THEN @ ELSE R!Owned(q), ![w] = IF b = 0 THEN @ ELSE x]
                /\ call' = R!Made(k, j, Host, b, 0)
                /\ dead' = dead
  BY DEF R!Import
<1>2. /\ IsTables(table) /\ Stands(rep, table, wrapper, call, dead, 0) /\ Deferring
      /\ call[k].at = "running" /\ i \in Insts /\ wrapper \in [Wrappers -> WrapperRecords]
  BY <1>1, ActingRuns DEF Holding, Typed
<1>3. (o # 0 => o \in R!Used(i)) /\ (b # 0 => b \in R!Used(i))
  BY <1>1
<1>4. CASE ~ok
  <2>1. Stands(rep, table', wrapper', call', dead', 0) /\ Deferring'
    BY <1>1a, <1>2, <1>3, <1>4, TrapKeeps
  <2>. QED  BY <1>1, <2>1 DEF ResourceInv
<1>5. CASE ok
  <2> DEFINE c2 == Bare(k, j, Host, b, 0)
             t1 == R!Removed(R!Lent(table, i, b), i, o)
             w1 == IF o = 0 THEN wrapper ELSE [wrapper EXCEPT ![v] = R!Owned(q)]
             w2 == IF b = 0 THEN w1 ELSE [w1 EXCEPT ![w] = x]
             hd == HeldIn(t1)
  <2>1. Asked(k, j, Host, b) /\ Moves(k, j, Host, b, o)
    BY <1>1, <1>3, <1>5 DEF Asked, Moves
  <2>2. Stands(rep, t1, wrapper, c2, dead, q)
    BY <2>1, PassedStands
  <2>3. /\ r \in RepNumbers \cup {0} /\ (b # 0 <=> r # 0)
        /\ q \in RepNumbers \cup {0} /\ (o # 0 <=> q # 0)
    BY <1>2, <1>3, RepOf
  <2>4. j \in CallNumbers
    BY <2>1, MadeLent
  <2>5. /\ R!Made(k, j, Host, b, 0) = [c2 EXCEPT ![j].borrows = R!BorrowsOf(Host, 0)]
        /\ c2[j].at = "running" /\ c2[j].to = Host /\ c2[j].borrows = 0 /\ c2[j].lent = R!LoanOf(i, b)
        /\ c2 \in [CallNumbers -> CallRecords]
    BY <2>1, MadeStands
  <2>6. call' = c2
    <3>1. R!BorrowsOf(Host, 0) = 0
      BY DEF R!BorrowsOf
    <3> HIDE DEF c2
    <3>2. [c2[j] EXCEPT !.borrows = 0] = c2[j]
      BY <2>4, <2>5 DEF CallRecords
    <3>3. [c2 EXCEPT ![j].borrows = 0] = c2
      BY <2>5, <3>2
    <3>. QED  BY <1>1a, <1>5, <2>5, <3>1, <3>3
  <2>7. b # 0 => \E l \in c2[j].lent : l.rep = r
    <3>1. b # 0 => R!LoanOf(i, b) = {R!Loan(i, b, R!Handle(i, b).scope, r)}
      BY DEF R!LoanOf, R!RepAt
    <3> HIDE DEF c2, r
    <3>2. R!Loan(i, b, R!Handle(i, b).scope, r).rep = r
      BY DEF R!Loan
    <3>. QED  BY <2>5, <3>1, <3>2
  <2>8. b # 0 => x \in WrapperRecords /\ x.rep = r /\ x.valid /\ ~x.owns /\ x.lends = 0 /\ ~x.pending /\ x.scope = j
    BY <2>3, <2>4, BorrowWrapper
  <2> HIDE DEF c2, t1, x, q, r, hd
  <2>9. Holding(rep, hd, w1, c2, dead, 0)
    <3>1. Holding(rep, hd, wrapper, c2, dead, q)
      BY <2>2 DEF Stands, hd
    <3>. QED  BY <1>1, <2>3, <3>1, GiveWrapper
  <2>10. q # 0 => R!Owned(q) \in WrapperRecords /\ ~R!Owned(q).pending
    BY <2>3, WrapperFields
  <2>11. w1 \in [Wrappers -> WrapperRecords] /\ w1[w] = R!NoWrapper
         /\ \A u \in Wrappers : w1[u] = wrapper[u] \/ ~w1[u].pending
    BY <1>1, <1>2, <2>3, <2>10
  <2> HIDE DEF w1
  <2>12. Holding(rep, hd, w2, c2, dead, 0)
    <3>1. CASE b = 0
      BY <2>9, <3>1
    <3>2. CASE b # 0
      <4>1. x.rep # 0 /\ \E l \in c2[j].lent : l.rep = x.rep
        BY <2>3, <2>7, <2>8, <3>2
      <4>2. Holding(rep, hd, [w1 EXCEPT ![w] = x], c2, dead, 0)
        BY <2>4, <2>5, <2>8, <2>9, <2>11, <3>2, <4>1, WrapBorrow
      <4>. QED  BY <3>2, <4>2
    <3>. QED  BY <3>1, <3>2
  <2>13. wrapper' = w2
    <3>1. wrapper' = [wrapper EXCEPT ![v] = IF o = 0 THEN @ ELSE R!Owned(q), ![w] = IF b = 0 THEN @ ELSE x]
      BY <1>1a, <1>5 DEF q, x, r
    <3>. QED  BY <1>1, <1>2, <3>1 DEF w1
  <2>14. \A u \in Wrappers : w2[u] = wrapper[u] \/ ~w2[u].pending
    BY <2>8, <2>11
  <2>15. Deferring'
    BY <1>2, <2>13, <2>14 DEF Deferring
  <2>16. table' = t1 /\ dead' = dead /\ IsTables(t1)
    BY <1>1a, <1>5, <2>2 DEF t1, Stands
  <2>17. Stands(rep, t1, w2, c2, dead, 0)
    BY <2>12, <2>16 DEF Stands, hd
  <2>. QED  BY <1>1, <2>6, <2>13, <2>15, <2>16, <2>17 DEF ResourceInv
<1>. QED  BY <1>4, <1>5

\* A call of the host's function is a guest's.
LEMMA HostRuns ==
  ASSUME ResourceInv, NEW j \in CallNumbers, call[j].at = "running", call[j].to = Host
  PROVE  /\ IsTables(table) /\ Stands(rep, table, wrapper, call, dead, 0) /\ Deferring
         /\ Holding(rep, HeldIn(table), wrapper, call, dead, 0)
         /\ call \in [CallNumbers -> CallRecords] /\ wrapper \in [Wrappers -> WrapperRecords]
         /\ call[j].from \in Insts /\ j \notin FromHost /\ j # 0 /\ call[j].borrows = 0
         /\ \A n \in CallNumbers : call[n].at # "none" /\ n \notin FromHost => call[n].parent # j
         /\ \A n \in CallNumbers : Pure(call, n) => \A l \in call[n].lent : l.of # j
<1>1. /\ IsTables(table) /\ Stands(rep, table, wrapper, call, dead, 0) /\ Deferring
      /\ Holding(rep, HeldIn(table), wrapper, call, dead, 0)
      /\ call \in [CallNumbers -> CallRecords] /\ wrapper \in [Wrappers -> WrapperRecords]
  BY DEF ResourceInv, Stands, Holding, Typed
<1>2. j \notin FromHost /\ call[j].from # Host /\ call[j].borrows = 0
  BY <1>1 DEF Holding, Calling
<1>3. call[j].from \in Insts
  BY <1>1, <1>2 DEF CallRecords
<1>4. \A n \in CallNumbers : call[n].at # "none" /\ n \notin FromHost => call[call[n].parent].to # Host
  BY <1>1 DEF Holding, Calling
<1>5. \A n \in CallNumbers : Pure(call, n) => \A l \in call[n].lent : l.of # 0 => call[l.of].borrows = 1
  BY <1>1 DEF Holding, Resting
<1>6. j # 0
  BY ResourceAssumption
<1>. QED  BY <1>1, <1>2, <1>3, <1>4, <1>5, <1>6

\* That function throws.
LEMMA ImportFailsKeeps ==
  ASSUME ResourceInv, NEW j \in CallNumbers, R!ImportFails(j)
  PROVE  ResourceInv'
<1>1. call[j].at = "running" /\ call[j].to = Host /\ R!Trap(j, call[j].from, 0, {}) /\ rep' = rep
  BY DEF R!ImportFails
<1>2. Stands(rep, table, wrapper, call, dead, 0) /\ Deferring /\ call[j].from \in Insts
  BY <1>1, HostRuns
<1>3. Stands(rep, table', wrapper', call', dead', 0) /\ Deferring'
  BY <1>1, <1>2, TrapKeeps
<1>. QED  BY <1>1, <1>3 DEF ResourceInv

\* It returns, with a wrapper it gives away or none.
LEMMA ImportEndsKeeps ==
  ASSUME ResourceInv, NEW j \in CallNumbers, NEW w \in Wrappers \cup {0}, R!ImportEnds(j, w)
  PROVE  ResourceInv'
<1> DEFINE i == call[j].from
           r == IF w = 0 THEN 0 ELSE wrapper[w].rep
           lost == call[R!Root(j)].to \in dead
           t1 == IF w = 0 \/ lost THEN table ELSE R!Given(table, i, r)
           w1 == IF w = 0 THEN wrapper ELSE [wrapper EXCEPT ![w] = R!NoWrapper]
<1>1. /\ call[j].at = "running" /\ call[j].to = Host
      /\ w # 0 => /\ wrapper[w].valid /\ wrapper[w].owns /\ wrapper[w].lends = 0
                  /\ R!Room(i, 1)
      /\ table' = R!ReleaseLenders(IF w = 0 \/ lost THEN table ELSE R!Given(table, i, wrapper[w].rep), {j})
      /\ wrapper' = [v \in Wrappers |-> IF v = w THEN R!NoWrapper ELSE R!Ended(j)[v]]
      /\ call' = [call EXCEPT ![j] = R!NoCall]
      /\ rep' = rep /\ dead' = dead
  BY DEF R!ImportEnds, R!MayTake
<1>2. /\ IsTables(table) /\ Stands(rep, table, wrapper, call, dead, 0) /\ Deferring
      /\ Holding(rep, HeldIn(table), wrapper, call, dead, 0)
      /\ call \in [CallNumbers -> CallRecords] /\ wrapper \in [Wrappers -> WrapperRecords]
      /\ i \in Insts /\ j \notin FromHost /\ j # 0
      /\ \A n \in CallNumbers : call[n].at # "none" /\ n \notin FromHost => call[n].parent # j
      /\ \A n \in CallNumbers : Pure(call, n) => \A l \in call[n].lent : l.of # j
  BY <1>1, HostRuns
<1>3. w # 0 => w \in Wrappers /\ Spare(table[i]) >= 1
  BY <1>1, <1>2, SpareRoom
<1> DEFINE hd == HeldIn(table)
<1>4. Holding(rep, hd, w1, call, dead, r)
  <2>1. CASE w = 0
    BY <1>2, <2>1
  <2>2. CASE w # 0
    <3>1. w \in Wrappers /\ Owns(wrapper[w]) /\ wrapper[w].lends = 0
      BY <1>1, <1>3, <2>2 DEF Owns
    <3> DEFINE cl == call
    <3>2. Holding(rep, hd, wrapper, cl, dead, 0)
      BY <1>2
    <3> HIDE DEF cl, hd
    <3>3. Holding(rep, hd, [wrapper EXCEPT ![w] = R!NoWrapper], cl, dead, wrapper[w].rep)
      BY <3>1, <3>2, TakeWrapper
    <3>. QED  BY <2>2, <3>3 DEF cl
  <2>. QED  BY <2>1, <2>2
<1>5. R!NoWrapper \in WrapperRecords /\ ~R!NoWrapper.valid /\ ~R!NoWrapper.pending /\ R!NoWrapper.scope = 0
      /\ R!NoWrapper.lends = 0
  BY WrapperFields
<1>6. w1 \in [Wrappers -> WrapperRecords] /\ \A v \in Wrappers : w1[v] = IF v = w THEN R!NoWrapper ELSE wrapper[v]
  <2>1. w = 0 => \A v \in Wrappers : v # w
    BY ResourceAssumption
  <2>. QED  BY <1>2, <1>3, <1>5, <2>1
<1>7. Stands(rep, t1, w1, call, dead, 0)
  <2>1. CASE w = 0
    BY <1>2, <2>1
  <2>2. CASE w # 0 /\ lost
    <3> DEFINE cl == call
    <3>1. Holding(rep, hd, w1, cl, dead, r) /\ dead # {}
      BY <1>4, <2>2
    <3> HIDE DEF cl, hd, w1, r
    <3>2. Holding(rep, hd, w1, cl, dead, 0)
      BY <3>1, Lose
    <3>. QED  BY <1>2, <2>2, <3>2 DEF Stands, cl, hd
  <2>3. CASE w # 0 /\ ~lost
    <3> DEFINE cl == call
    <3>1. Stands(rep, table, w1, cl, dead, r)
      BY <1>2, <1>4 DEF Stands
    <3> HIDE DEF cl, w1, r
    <3>2. Stands(rep, R!Given(table, i, r), w1, cl, dead, 0)
      BY <1>2, <1>3, <2>3, <3>1, GivenStands
    <3>. QED  BY <2>3, <3>2 DEF cl
  <2>. QED  BY <2>1, <2>2, <2>3
<1> HIDE DEF w1, hd
<1>8. /\ wrapper' \in [Wrappers -> WrapperRecords]
      /\ \A v \in Wrappers : wrapper'[v] = IF v = w \/ wrapper[v].scope = j THEN R!NoWrapper ELSE wrapper[v]
  BY <1>1, <1>2, <1>5 DEF R!Ended
<1>9. Stands(rep, t1, wrapper', call, dead, 0)
  <2> DEFINE h1 == HeldIn(t1)
             w2 == wrapper'
             cl == call
  <2>1. Holding(rep, h1, w1, cl, dead, 0) /\ IsTables(t1)
    BY <1>7 DEF Stands
  <2>2. w2 \in [Wrappers -> WrapperRecords]
    BY <1>8
  <2>3. \A v \in Wrappers :
          \/ w2[v] = w1[v]
          \/ /\ w1[v].scope # 0 /\ ~w2[v].valid /\ ~w2[v].pending /\ w2[v].scope = 0
             /\ w2[v].lends \in {0, w1[v].lends}
    BY <1>2, <1>5, <1>6, <1>8
  <2> HIDE DEF h1, w2, cl, t1
  <2>4. Holding(rep, h1, w2, cl, dead, 0)
    BY <2>1, <2>2, <2>3, Unwrap
  <2>. QED  BY <2>1, <2>4 DEF Stands, h1, w2, cl
<1>10. Stands(rep, R!ReleaseLenders(t1, {j}), wrapper', Ended(call, {j}), dead, 0)
  <2> DEFINE w2 == wrapper'
  <2>1. \A v \in Wrappers : w2[v].scope \notin {j}
    BY <1>2, <1>5, <1>8
  <2>2. /\ {j} \in SUBSET CallNumbers /\ {j} \cap FromHost = {}
        /\ \A n \in CallNumbers \ {j} : call[n].at # "none" /\ n \notin FromHost => call[n].parent \notin {j}
        /\ \A n \in CallNumbers \ {j} : Pure(call, n) => \A l \in call[n].lent : l.of \notin {j}
    BY <1>2
  <2>3. Stands(rep, t1, w2, call, dead, 0)
    BY <1>9
  <2> HIDE DEF w2, t1
  <2>4. Stands(rep, R!ReleaseLenders(t1, {j}), w2, Ended(call, {j}), dead, 0)
    BY <2>1, <2>2, <2>3, ReleasedStands
  <2>. QED  BY <2>4 DEF w2
<1>11. table' = R!ReleaseLenders(t1, {j})
  BY <1>1
<1>12. call' = Ended(call, {j})
  BY <1>1, <1>2 DEF Ended
<1>13. Deferring'
  BY <1>2, <1>5, <1>8 DEF Deferring
<1>. QED  BY <1>1, <1>10, <1>11, <1>12, <1>13 DEF ResourceInv

-----------------------------------------------------------------------------
(* The host calls.                                                             *)

\* The record of a call that the host has made and that has not started.
Waiting(d, k, q, L) == [R!NoCall EXCEPT !.at = "waiting", !.to = d, !.root = k, !.own = q, !.lent = L]

\* Its fields.
LEMMA WaitingFields ==
  ASSUME NEW d \in Insts, NEW k \in CallNumbers, NEW q \in RepNumbers \cup {0}, NEW L \in SUBSET Loans
  PROVE  /\ Waiting(d, k, q, L) \in CallRecords
         /\ Waiting(d, k, q, L).at = "waiting" /\ Waiting(d, k, q, L).from = Host
         /\ Waiting(d, k, q, L).to = d /\ Waiting(d, k, q, L).own = q
         /\ Waiting(d, k, q, L).lent = L /\ Waiting(d, k, q, L).borrows = 0
         /\ Waiting(d, k, q, L).root = k /\ Waiting(d, k, q, L).parent = 0 /\ ~Waiting(d, k, q, L).across
<1> DEFINE c1 == [R!NoCall EXCEPT !.at = "waiting"]
           c2 == [c1 EXCEPT !.to = d]
           c3 == [c2 EXCEPT !.root = k]
           c4 == [c3 EXCEPT !.own = q]
           c5 == [c4 EXCEPT !.lent = L]
<1>0. R!NoCall.from = Host /\ R!NoCall.parent = 0
  BY DEF R!NoCall
<1>1. /\ c1 \in CallRecords /\ c1.at = "waiting" /\ c1.borrows = 0 /\ ~c1.across /\ c1.from = Host
      /\ c1.parent = 0
  BY <1>0, NoCallFields DEF CallRecords
<1> HIDE DEF c1
<1>2. /\ c2 \in CallRecords /\ c2.at = "waiting" /\ c2.borrows = 0 /\ ~c2.across /\ c2.from = Host
      /\ c2.parent = 0
      /\ c2.to = d
  BY <1>1 DEF CallRecords
<1> HIDE DEF c2
<1>3. /\ c3 \in CallRecords /\ c3.at = "waiting" /\ c3.borrows = 0 /\ ~c3.across /\ c3.from = Host
      /\ c3.parent = 0
      /\ c3.to = d /\ c3.root = k
  BY <1>2 DEF CallRecords
<1> HIDE DEF c3
<1>4. /\ c4 \in CallRecords /\ c4.at = "waiting" /\ c4.borrows = 0 /\ ~c4.across /\ c4.from = Host
      /\ c4.parent = 0
      /\ c4.to = d /\ c4.root = k /\ c4.own = q
  BY <1>3 DEF CallRecords
<1> HIDE DEF c4
<1>5. /\ c5 \in CallRecords /\ c5.at = "waiting" /\ c5.borrows = 0 /\ ~c5.across /\ c5.from = Host
      /\ c5.parent = 0
      /\ c5.to = d /\ c5.root = k /\ c5.own = q /\ c5.lent = L
  BY <1>4 DEF CallRecords
<1>6. Waiting(d, k, q, L) = c5
  BY DEF c1, c2, c3, c4, Waiting
<1> HIDE DEF c5
<1>. QED  BY <1>5, <1>6

\* Two records of calls with the same fields are the same.
LEMMA SameCall ==
  ASSUME NEW x \in CallRecords, NEW y \in CallRecords, x.borrows = y.borrows,
         x.at = y.at, x.from = y.from, x.to = y.to, x.own = y.own, x.lent = y.lent,
         x.parent = y.parent, x.root = y.root, x.across = y.across
  PROVE  x = y
<1>1. /\ x = [at |-> x.at, from |-> x.from, to |-> x.to, own |-> x.own, lent |-> x.lent, borrows |-> x.borrows,
               parent |-> x.parent, root |-> x.root, across |-> x.across]
      /\ y = [at |-> y.at, from |-> y.from, to |-> y.to, own |-> y.own, lent |-> y.lent, borrows |-> y.borrows,
               parent |-> y.parent, root |-> y.root, across |-> y.across]
  BY DEF CallRecords
<1>. QED  BY <1>1

\* The host's call takes the wrapper of the own and lends that of the borrow.
LEMMA HostCallKeeps ==
  ASSUME ResourceInv, NEW k, NEW d, NEW o \in Wrappers \cup {0}, NEW b \in Wrappers \cup {0},
         R!HostCall(k, d, o, b)
  PROVE  ResourceInv'
<1> DEFINE hd == HeldIn(table)
           cl == call
           q == IF o = 0 THEN 0 ELSE wrapper[o].rep
           L == IF b = 0 THEN {} ELSE {R!Loan(Host, b, 0, wrapper[b].rep)}
           w1 == IF o = 0 THEN wrapper ELSE [wrapper EXCEPT ![o] = R!NoWrapper]
           w2 == wrapper'
           c0 == Waiting(d, k, 0, L)
           c1 == [cl EXCEPT ![k] = c0]
<1>1. /\ R!Fresh(FromHost, k) /\ d \in Insts
      /\ o # 0 => wrapper[o].valid /\ wrapper[o].owns /\ wrapper[o].lends = 0 /\ o # b
      /\ b # 0 => wrapper[b].valid /\ wrapper[b].owns
      /\ wrapper' = [w \in Wrappers |->
           CASE w = o -> R!Kept([wrapper[w] EXCEPT !.valid = FALSE])
             [] w = b -> [wrapper[w] EXCEPT !.lends = @ + 1]
             [] OTHER -> wrapper[w]]
      /\ call' = [call EXCEPT ![k] = Waiting(d, k, q, L)]
      /\ rep' = rep /\ table' = table /\ dead' = dead
  BY DEF R!HostCall, R!MayTake, Waiting
<1>2. /\ IsTables(table) /\ Stands(rep, table, wrapper, call, dead, 0) /\ Deferring
      /\ Holding(rep, hd, wrapper, cl, dead, 0)
      /\ cl \in [CallNumbers -> CallRecords] /\ wrapper \in [Wrappers -> WrapperRecords]
  BY DEF ResourceInv, Stands, Holding, Typed
<1>3. /\ k \in FromHost /\ k \in CallNumbers /\ cl[k].at = "none"
      /\ \A i \in Insts : \A s \in Spots : hd[i][s].scope # k
  <2>1. FromHost \in SUBSET CallNumbers
    BY ResourceAssumption
  <2>. QED  BY <1>1, <2>1, FreshFacts
<1>4. /\ (o # 0 <=> o \in Wrappers) /\ (b # 0 <=> b \in Wrappers) /\ 0 \notin Wrappers
  BY ResourceAssumption
<1>5. /\ \A w \in Wrappers : wrapper[w].valid => wrapper[w].rep # 0 /\ ~wrapper[w].pending
      /\ \A w \in Wrappers : wrapper[w].rep \in RepNumbers \cup {0} /\ wrapper[w].lends \in Int
  BY <1>2 DEF Holding, Wrapping, WrapperRecords
<1>6. q \in RepNumbers \cup {0} /\ (o = 0 => q = 0) /\ (o # 0 => q = wrapper[o].rep /\ q # 0)
  BY <1>1, <1>4, <1>5
<1>7. L \in SUBSET Loans
  <2>1. CASE b = 0
    BY <2>1
  <2>2. CASE b # 0
    <3>1. wrapper[b].rep \in RepNumbers /\ b \in Nat
      BY <1>1, <1>4, <1>5, <2>2, ResourceAssumption
    <3>2. R!Loan(Host, b, 0, wrapper[b].rep) \in Loans
      BY <3>1 DEF Loans, R!Loan
    <3>. QED  BY <2>2, <3>2
  <2>. QED  BY <2>1, <2>2
<1>8. \A w \in Wrappers : w2[w] =
        IF w = o THEN R!NoWrapper ELSE IF w = b THEN [wrapper[w] EXCEPT !.lends = @ + 1] ELSE wrapper[w]
  <2>1. ASSUME o # 0
        PROVE  R!Kept([wrapper[o] EXCEPT !.valid = FALSE]) = R!NoWrapper
    <3>1. /\ ~[wrapper[o] EXCEPT !.valid = FALSE].valid /\ [wrapper[o] EXCEPT !.valid = FALSE].lends = 0
          /\ ~[wrapper[o] EXCEPT !.valid = FALSE].pending
      BY <1>1, <1>2, <1>4, <1>5, <2>1 DEF WrapperRecords
    <3>. QED  BY <3>1 DEF R!Kept
  <2>. QED  BY <1>1, <1>4, <2>1
<1>9. /\ w2 \in [Wrappers -> WrapperRecords]
      /\ \A v \in Wrappers : w1[v] = IF v = o THEN R!NoWrapper ELSE wrapper[v]
      /\ \A v \in Wrappers : /\ w2[v].rep = w1[v].rep /\ w2[v].valid = w1[v].valid /\ w2[v].owns = w1[v].owns
                             /\ w2[v].pending = w1[v].pending /\ w2[v].scope = w1[v].scope
                             /\ w2[v].lends = w1[v].lends + IF v = b THEN 1 ELSE 0
  <2>0. \A v \in Wrappers : w1[v] = IF v = o THEN R!NoWrapper ELSE wrapper[v]
    BY <1>2, <1>4
  <2>1. \A v \in Wrappers :
          LET x == [wrapper[v] EXCEPT !.lends = @ + 1]
          IN  /\ x \in WrapperRecords /\ x.rep = wrapper[v].rep /\ x.valid = wrapper[v].valid
              /\ x.owns = wrapper[v].owns /\ x.pending = wrapper[v].pending /\ x.scope = wrapper[v].scope
              /\ x.lends = wrapper[v].lends + 1
    BY <1>2 DEF WrapperRecords
  <2>2. R!NoWrapper \in WrapperRecords /\ R!NoWrapper.lends = 0
    BY WrapperFields
  <2>3. DOMAIN w2 = Wrappers /\ w2 = [v \in Wrappers |-> w2[v]]
    BY <1>1
  <2> HIDE DEF w2, w1
  <2>4. \A v \in Wrappers : w2[v] \in WrapperRecords
    BY <1>2, <1>8, <2>1, <2>2
  <2>5. w2 \in [Wrappers -> WrapperRecords]
    BY <2>3, <2>4
  <2>6. ASSUME NEW v \in Wrappers
        PROVE  /\ w2[v].rep = w1[v].rep /\ w2[v].valid = w1[v].valid /\ w2[v].owns = w1[v].owns
               /\ w2[v].pending = w1[v].pending /\ w2[v].scope = w1[v].scope
               /\ w2[v].lends = w1[v].lends + IF v = b THEN 1 ELSE 0
    <3>1. CASE v = o
      <4>1. w2[v] = w1[v] /\ w1[v] = R!NoWrapper /\ v # b
        BY <1>1, <1>4, <1>8, <2>0, <3>1
      <4>2. w1[v].lends = w1[v].lends + 0
        BY <2>2, <4>1
      <4>. QED  BY <4>1, <4>2
    <3>2. CASE v # o /\ v = b
      BY <1>8, <2>0, <2>1, <3>2
    <3>3. CASE v # o /\ v # b
      <4>1. w2[v] = w1[v] /\ w1[v] = wrapper[v]
        BY <1>8, <2>0, <3>3
      <4>2. w1[v].lends = w1[v].lends + 0
        BY <1>5, <4>1
      <4>. QED  BY <3>3, <4>1, <4>2
    <3>. QED  BY <3>1, <3>2, <3>3
  <2>. QED  BY <2>0, <2>5, <2>6
<1> HIDE DEF hd, cl, q
<1>10. Holding(rep, hd, w1, cl, dead, q)
  <2>1. CASE o = 0
    BY <1>2, <1>6, <2>1
  <2>2. CASE o # 0
    <3>1. o \in Wrappers /\ Owns(wrapper[o]) /\ wrapper[o].lends = 0
      BY <1>1, <1>4, <2>2 DEF Owns
    <3>2. Holding(rep, hd, [wrapper EXCEPT ![o] = R!NoWrapper], cl, dead, wrapper[o].rep)
      BY <1>2, <3>1, TakeWrapper
    <3>. QED  BY <1>6, <2>2, <3>2
  <2>. QED  BY <2>1, <2>2
<1> HIDE DEF w1, w2
<1>11. \/ L = {} /\ \A v \in Wrappers : w2[v].lends = w1[v].lends
       \/ \E u \in Wrappers :
            /\ Owns(w1[u]) /\ L = {R!Loan(Host, u, 0, w1[u].rep)}
            /\ \A v \in Wrappers : w2[v].lends = w1[v].lends + IF v = u THEN 1 ELSE 0
  <2>1. CASE b = 0
    <3>1. \A v \in Wrappers : w1[v].lends \in Int
      BY <1>5, <1>9, WrapperFields
    <3>. QED  BY <1>4, <1>9, <2>1, <3>1
  <2>2. CASE b # 0
    <3>1. b \in Wrappers /\ w1[b] = wrapper[b]
      BY <1>1, <1>4, <1>9, <2>2
    <3>2. Owns(w1[b]) /\ L = {R!Loan(Host, b, 0, w1[b].rep)}
      BY <1>1, <2>2, <3>1 DEF Owns
    <3>. QED  BY <1>9, <3>1, <3>2
  <2>. QED  BY <2>1, <2>2
<1> HIDE DEF L
<1>12. /\ c0 \in CallRecords /\ c0.at = "waiting" /\ c0.from = Host /\ c0.to \in Insts /\ c0.own = 0
       /\ c0.borrows = 0
       /\ c0.root = k /\ ~c0.across /\ c0.lent = L
  BY SMTT(30), <1>1, <1>3, <1>7, WaitingFields
<1>13. [c0 EXCEPT !.own = q] = Waiting(d, k, q, L)
  <2>1. /\ Waiting(d, k, q, L) \in CallRecords /\ c0.parent = 0
    BY <1>1, <1>3, <1>6, <1>7, WaitingFields
  <2> DEFINE x == [c0 EXCEPT !.own = q]
             y == Waiting(d, k, q, L)
  <2>2. /\ y.at = "waiting" /\ y.from = Host /\ y.to = d /\ y.own = q /\ y.lent = L /\ y.borrows = 0
        /\ y.root = k /\ y.parent = 0 /\ ~y.across
        /\ c0.to = d
    BY <1>1, <1>3, <1>6, <1>7, WaitingFields
  <2>3. y.across \in BOOLEAN /\ y.across = FALSE /\ c0.across = FALSE
    BY <1>12, <2>1, <2>2 DEF CallRecords
  <2>. HIDE DEF c0, y
  <2>4. /\ x \in CallRecords /\ x.at = "waiting" /\ x.from = Host /\ x.to = d /\ x.own = q /\ x.lent = L
        /\ x.borrows = 0
        /\ x.root = k /\ x.parent = 0 /\ x.across = FALSE
    BY <1>6, <1>12, <2>1, <2>2, <2>3 DEF CallRecords
  <2>5. y \in CallRecords
    BY <2>1 DEF y
  <2> HIDE DEF x
  <2>6. x = y
    BY <2>2, <2>3, <2>4, <2>5, SameCall
  <2>. QED  BY <2>6 DEF x, y
<1> HIDE DEF c0
<1>14. Holding(rep, hd, w2, c1, dead, q)
  BY <1>3, <1>9, <1>10, <1>11, <1>12, OpenHost
<1>15. c1[k] = c0 /\ c1 \in [CallNumbers -> CallRecords]
  BY <1>2, <1>3, <1>12
<1>16. [cl EXCEPT ![k] = Waiting(d, k, q, L)] = [c1 EXCEPT ![k].own = q]
  BY <1>2, <1>3, <1>13, <1>15
<1> HIDE DEF c1
<1>17. Holding(rep, hd, w2, [c1 EXCEPT ![k].own = q], dead, 0)
  <2>1. CASE q = 0
    <3>1. [c0 EXCEPT !.own = 0] = c0
      BY <1>12 DEF CallRecords
    <3>2. [c1 EXCEPT ![k].own = 0] = c1
      BY <1>15, <3>1
    <3>. QED  BY <1>14, <2>1, <3>2
  <2>2. CASE q # 0
    BY <1>3, <1>12, <1>14, <1>15, <2>2, GiveCall
  <2>. QED  BY <2>1, <2>2
<1>18. Deferring'
  BY <1>2, <1>4, <1>5, <1>9, WrapperFields DEF Deferring, w2
<1>19. call' = [c1 EXCEPT ![k].own = q]
  BY <1>1, <1>16 DEF cl, q, L
<1>20. Stands(rep, table, w2, [c1 EXCEPT ![k].own = q], dead, 0)
  BY <1>2, <1>17 DEF Stands, hd
<1>. QED  BY <1>1, <1>18, <1>19, <1>20 DEF ResourceInv, w2

\* What is known of a call that waits, and what is left when its own has been taken from it.
LEMMA WaitingCall ==
  ASSUME ResourceInv, NEW k \in CallNumbers, call[k].at = "waiting"
  PROVE  /\ k \in FromHost /\ call[k] \in CallRecords /\ call[k].to \in Insts /\ call[k].borrows = 0
         /\ call[k].own \in RepNumbers \cup {0}
         /\ \A i \in Insts : \A s \in Spots : HeldIn(table)[i][s].scope # k
         /\ Holding(rep, HeldIn(table), wrapper, [call EXCEPT ![k].own = 0], dead, call[k].own)
         /\ [call EXCEPT ![k].own = 0] \in [CallNumbers -> CallRecords]
         /\ [call EXCEPT ![k].own = 0][k] = [call[k] EXCEPT !.own = 0]
         /\ [call[k] EXCEPT !.own = 0] \in CallRecords
<1> DEFINE hd == HeldIn(table)
           cl == call
<1>1. Holding(rep, hd, wrapper, cl, dead, 0) /\ cl \in [CallNumbers -> CallRecords]
  BY DEF ResourceInv, Stands, Holding, Typed
<1>2. k # 0 /\ Host \notin Insts
  BY ResourceAssumption
<1>3. cl[k].at = "waiting"
  OBVIOUS
<1> HIDE DEF hd, cl
<1>4. k \in FromHost /\ cl[k].to # Host /\ cl[k].borrows = 0
  BY <1>1, <1>3 DEF Holding, Calling
<1>5. cl[k] \in CallRecords /\ cl[k].to \in Insts /\ cl[k].own \in RepNumbers \cup {0}
  BY <1>1, <1>4 DEF CallRecords
<1>6. \A i \in Insts : \A s \in Spots : hd[i][s].scope # k
  BY <1>1, <1>2, <1>3, <1>4 DEF Holding, Borrowing
<1>7. /\ [cl[k] EXCEPT !.own = 0] \in CallRecords
      /\ cl[k].own = 0 => [cl[k] EXCEPT !.own = 0] = cl[k]
  BY <1>5 DEF CallRecords
<1>8. /\ [cl EXCEPT ![k].own = 0] \in [CallNumbers -> CallRecords]
      /\ [cl EXCEPT ![k].own = 0][k] = [cl[k] EXCEPT !.own = 0]
      /\ cl[k].own = 0 => [cl EXCEPT ![k].own = 0] = cl
  BY <1>1, <1>7
<1>9. Holding(rep, hd, wrapper, [cl EXCEPT ![k].own = 0], dead, cl[k].own)
  <2>1. CASE cl[k].own = 0
    BY <1>1, <1>8, <2>1
  <2>2. CASE cl[k].own # 0
    BY <1>1, <2>2, TakeCall
  <2>. QED  BY <2>1, <2>2
<1>. QED  BY <1>4, <1>5, <1>6, <1>7, <1>8, <1>9 DEF hd, cl

\* The task starts, unless its instance has died.
LEMMA StartKeeps ==
  ASSUME ResourceInv, NEW k \in CallNumbers, R!Start(k)
  PROVE  ResourceInv'
<1> DEFINE hd == HeldIn(table)
           cl == call
           c == cl[k]
           q == cl[k].own
           d == cl[k].to
           r == IF c.lent = {} THEN 0 ELSE (CHOOSE l \in c.lent : TRUE).rep
           n == R!BorrowsOf(d, r)
           c1 == [cl EXCEPT ![k].own = 0]
           x1 == [c EXCEPT !.own = 0]
<1>1. /\ c.at = "waiting"
      /\ d \in dead => call' = [call EXCEPT ![k].at = "failed", ![k].own = 0] /\ table' = table
      /\ d \notin dead => /\ R!Room(d, R!Brought(d, q, r))
                          /\ table' = R!Shown(R!Given(table, d, q), d, r, k)
                          /\ call' = [call EXCEPT ![k] =
                                        [c EXCEPT !.at = "running", !.own = 0, !.borrows = n]]
      /\ rep' = rep /\ wrapper' = wrapper /\ dead' = dead
  BY DEF R!Start
<1>2. /\ IsTables(table) /\ Stands(rep, table, wrapper, call, dead, 0) /\ Deferring
      /\ cl \in [CallNumbers -> CallRecords]
  BY DEF ResourceInv, Stands, Holding, Typed
<1>3. /\ k \in FromHost /\ c \in CallRecords /\ d \in Insts /\ c.borrows = 0 /\ q \in RepNumbers \cup {0}
      /\ \A i \in Insts : \A s \in Spots : hd[i][s].scope # k
      /\ Holding(rep, hd, wrapper, c1, dead, q)
      /\ c1 \in [CallNumbers -> CallRecords] /\ c1[k] = x1 /\ x1 \in CallRecords
  <2>1. call[k].at = "waiting"
    BY <1>1
  <2>. QED  BY <2>1, WaitingCall
<1>4. Deferring'
  BY <1>1, <1>2 DEF Deferring
<1>5. /\ x1.at = "waiting" /\ x1.own = 0 /\ x1.from = c.from /\ x1.to = d /\ x1.lent = c.lent
      /\ x1.borrows = 0
      /\ x1.parent = c.parent /\ x1.root = c.root /\ x1.across = c.across
  BY <1>1, <1>3 DEF CallRecords
<1> HIDE DEF hd, x1
<1>6. CASE d \in dead
  <2> DEFINE x2 == [x1 EXCEPT !.at = "failed"]
             y == [c EXCEPT !.at = "failed"]
             z == [y EXCEPT !.own = 0]
  <2>1. call' = [cl EXCEPT ![k] = z]
    <3>1. call' = [call EXCEPT ![k].at = "failed", ![k].own = 0]
      BY <1>1, <1>6
    <3>. QED  BY <1>2, <3>1
  <2>2. x2 = z
    <3>1. /\ y \in CallRecords /\ y.at = "failed" /\ y.from = c.from /\ y.to = d /\ y.lent = c.lent
          /\ y.borrows = 0
          /\ y.parent = c.parent /\ y.root = c.root /\ y.across = c.across
      BY <1>3 DEF CallRecords
    <3> HIDE DEF y
    <3>2. /\ z \in CallRecords /\ z.at = "failed" /\ z.from = c.from /\ z.to = d /\ z.lent = c.lent
          /\ z.borrows = 0
          /\ z.parent = c.parent /\ z.root = c.root /\ z.across = c.across /\ z.own = 0
      BY <3>1 DEF CallRecords
    <3>3. /\ x2 \in CallRecords /\ x2.at = "failed" /\ x2.from = c.from /\ x2.to = d /\ x2.lent = c.lent
          /\ x2.borrows = 0
          /\ x2.parent = c.parent /\ x2.root = c.root /\ x2.across = c.across /\ x2.own = 0
      BY <1>3, <1>5 DEF CallRecords
    <3> HIDE DEF x2, z
    <3>. QED  BY <3>2, <3>3, SameCall
  <2>3. [c1 EXCEPT ![k].at = "failed"] = [cl EXCEPT ![k] = z]
    <3> HIDE DEF z
    <3>. QED  BY <1>2, <1>3, <2>2 DEF x2
  <2>4. Holding(rep, hd, wrapper, c1, dead, 0) /\ c1[k].own = 0 /\ c1[k].at = "waiting"
    <3> HIDE DEF c1, q
    <3>. QED  BY <1>3, <1>5, <1>6, Lose
  <2>5. Holding(rep, hd, wrapper, [c1 EXCEPT ![k].at = "failed"], dead, 0)
    <3> HIDE DEF c1
    <3>. QED  BY <1>3, <2>4, Progress
  <2>6. Holding(rep, hd, wrapper, call', dead, 0)
    BY <2>1, <2>3, <2>5
  <2>7. table' = table
    BY <1>1, <1>6
  <2>8. Stands(rep, table, wrapper, call', dead, 0)
    BY <1>2, <2>6 DEF Stands, hd
  <2>. QED  BY <1>1, <1>4, <2>7, <2>8 DEF ResourceInv
<1>7. CASE d \notin dead
  <2> DEFINE x2 == [x1 EXCEPT !.at = "running"]
             c2 == [c1 EXCEPT ![k].at = "running"]
             t2 == R!Given(table, d, q)
             z == [c EXCEPT !.at = "running", !.own = 0, !.borrows = n]
  <2>1. Holding(rep, hd, wrapper, c2, dead, q)
    <3>1. c1[k].own = 0 /\ c1[k].at = "waiting"
      BY <1>3, <1>5
    <3> HIDE DEF c1, q
    <3>. QED  BY <1>3, <3>1, Progress
  <2>2. c2 \in [CallNumbers -> CallRecords] /\ c2[k] = x2 /\ x2 \in CallRecords
    <3>1. x2 \in CallRecords
      BY <1>3 DEF CallRecords
    <3> HIDE DEF c1
    <3>. QED  BY <1>3, <3>1
  <2>3. /\ x2.at = "running" /\ x2.own = 0 /\ x2.from = c.from /\ x2.to = d /\ x2.lent = c.lent
        /\ x2.borrows = 0
        /\ x2.parent = c.parent /\ x2.root = c.root /\ x2.across = c.across
    BY <1>3, <1>5 DEF CallRecords
  <2>4. r \in RepNumbers \cup {0} /\ (r # 0 => \E l \in x2.lent : l.rep = r)
    <3>1. CASE c.lent = {}
      BY <3>1
    <3>2. CASE c.lent # {}
      <4>1. (CHOOSE l \in c.lent : TRUE) \in c.lent
        BY <3>2
      <4>2. c.lent \subseteq Loans
        BY <1>3 DEF CallRecords
      <4>. QED  BY <2>3, <3>2, <4>1, <4>2 DEF Loans
    <3>. QED  BY <3>1, <3>2
  <2>5. n \in {0, 1} /\ R!Brought(d, q, r) = n + IF q = 0 THEN 0 ELSE 1
    BY DEF R!BorrowsOf, R!Brought
  <2>6. Spare(table[d]) \in Int /\ Spare(table[d]) >= n + IF q = 0 THEN 0 ELSE 1
    <3>1. R!Brought(d, q, r) \in Nat /\ R!Room(d, R!Brought(d, q, r))
      BY <1>1, <1>7, <2>5
    <3>2. Spare(table[d]) >= R!Brought(d, q, r)
      BY <1>2, <1>3, <3>1, SpareRoom
    <3>. QED  BY <1>2, <1>3, <2>5, <3>2, HeldAt
  <2>7. call' = [cl EXCEPT ![k] = z]
    BY <1>1, <1>7
  <2>8. [x2 EXCEPT !.borrows = n] = z
    <3> DEFINE a == [x2 EXCEPT !.borrows = n]
               y1 == [c EXCEPT !.at = "running"]
               y2 == [y1 EXCEPT !.own = 0]
               y3 == [y2 EXCEPT !.borrows = n]
    <3>1. /\ y1 \in CallRecords /\ y1.at = "running" /\ y1.from = c.from /\ y1.to = d /\ y1.lent = c.lent
          /\ y1.parent = c.parent /\ y1.root = c.root /\ y1.across = c.across
      BY <1>3 DEF CallRecords
    <3>1a. z = y3
      OBVIOUS
    <3> HIDE DEF y1, n, z
    <3>2. /\ y2 \in CallRecords /\ y2.at = "running" /\ y2.from = c.from /\ y2.to = d /\ y2.lent = c.lent
          /\ y2.parent = c.parent /\ y2.root = c.root /\ y2.across = c.across /\ y2.own = 0
      BY <3>1 DEF CallRecords
    <3> HIDE DEF y2
    <3>3. /\ y3 \in CallRecords /\ y3.at = "running" /\ y3.from = c.from /\ y3.to = d /\ y3.lent = c.lent
          /\ y3.parent = c.parent /\ y3.root = c.root /\ y3.across = c.across /\ y3.own = 0 /\ y3.borrows = n
      BY <2>5, <3>2 DEF CallRecords
    <3> HIDE DEF x2
    <3>4. /\ a \in CallRecords /\ a.at = "running" /\ a.from = c.from /\ a.to = d /\ a.lent = c.lent
          /\ a.parent = c.parent /\ a.root = c.root /\ a.across = c.across /\ a.own = 0 /\ a.borrows = n
      <4>1. a = Borrowed(x2, n)
        BY DEF Borrowed
      <4> HIDE DEF a
      <4>2. /\ Borrowed(x2, n) \in CallRecords /\ Borrowed(x2, n).borrows = n
            /\ Borrowed(x2, n).at = x2.at /\ Borrowed(x2, n).from = x2.from /\ Borrowed(x2, n).to = x2.to
            /\ Borrowed(x2, n).own = x2.own /\ Borrowed(x2, n).lent = x2.lent
            /\ Borrowed(x2, n).parent = x2.parent /\ Borrowed(x2, n).root = x2.root
            /\ Borrowed(x2, n).across = x2.across
        <5>1. x2 \in CallRecords /\ n \in {0, 1}
          BY <2>2, <2>5
        <5>. QED  BY <5>1, CallBorrows, Zenon
      <4>. QED  BY <2>3, <4>1, <4>2
    <3> HIDE DEF a, y3
    <3>5. a = y3
      BY <3>3, <3>4, SameCall
    <3>. QED  BY <3>1a, <3>5 DEF a
  <2> HIDE DEF z, x2, n, r
  <2>9. [c2 EXCEPT ![k].borrows = n] = [cl EXCEPT ![k] = z]
    <3>1. \A j \in CallNumbers : c2[j] = IF j = k THEN x2 ELSE cl[j]
      BY <1>2, <1>3, <2>2
    <3>2. c2 = [cl EXCEPT ![k] = x2]
      BY <1>2, <2>2, <3>1
    <3> HIDE DEF c2
    <3>. QED  BY <1>2, <2>2, <2>8, <3>2
  <2> HIDE DEF c2, q, c1
  <2>10. Stands(rep, table, wrapper, c2, dead, q)
    BY <1>2, <2>1 DEF Stands, hd
  <2>11. q # 0 => Spare(table[d]) >= 1
    BY <2>5, <2>6
  <2>12. d \in Insts /\ d # Host
    BY <1>3, ResourceAssumption
  <2> HIDE DEF d
  <2>13. /\ Stands(rep, t2, wrapper, c2, dead, 0)
         /\ \A i \in Insts : Spare(t2[i]) = IF i = d /\ q # 0 THEN Spare(table[i]) - 1 ELSE Spare(table[i])
         /\ \A i \in Insts : \A s \in Spots : HeldIn(t2)[i][s].scope # 0 => HeldIn(t2)[i][s].scope = HeldIn(table)[i][s].scope
    BY <2>10, <2>11, <2>12, GivenStands
  <2>14. Spare(t2[d]) >= n
    BY <2>5, <2>6, <2>12, <2>13
  <2>15. \A i \in Insts : \A s \in Spots : HeldIn(t2)[i][s].scope # k
    BY <1>3, <2>13, ResourceAssumption DEF hd
  <2> HIDE DEF t2
  <2>16. c2[k].at = "running" /\ c2[k].to # Host /\ c2[k].borrows = 0 /\ (r # 0 => \E l \in c2[k].lent : l.rep = r)
    BY <2>2, <2>3, <2>4, <2>12
  <2>17. Stands(rep, R!Shown(t2, d, r, k), wrapper, [c2 EXCEPT ![k].borrows = n], dead, 0)
    BY <2>4, <2>12, <2>13, <2>14, <2>15, <2>16, ShownStands DEF n
  <2>18. table' = R!Shown(t2, d, r, k)
    BY <1>1, <1>7 DEF t2, q, r, d
  <2>. QED  BY <1>1, <1>4, <2>7, <2>9, <2>17, <2>18 DEF ResourceInv
<1>. QED  BY <1>6, <1>7

\* How often a wrapper is lent.
LEMMA LendCount ==
  ASSUME NEW rp, NEW hd, NEW wr, NEW cl, NEW dd, NEW tr, Holding(rp, hd, wr, cl, dd, tr), NEW w \in Wrappers
  PROVE  /\ wr[w].lends \in Nat
         /\ \A k \in CallNumbers : \A l \in cl[k].lent : l.by = Host /\ l.where = w => wr[w].lends >= 1
<1>1. BorrowersIn(cl, Host, w) \subseteq CallNumbers
  BY DEF BorrowersIn
<1>2. IsFiniteSet(BorrowersIn(cl, Host, w))
  BY <1>1, FS_Subset, ResourceAssumption
<1>3. wr[w].lends = Cardinality(BorrowersIn(cl, Host, w))
  BY DEF Holding, Counted
<1>4. wr[w].lends \in Nat
  BY <1>2, <1>3, FS_CardinalityType
<1>5. ASSUME NEW k \in CallNumbers, NEW l \in cl[k].lent, l.by = Host /\ l.where = w
      PROVE  wr[w].lends >= 1
  <2>1. BorrowersIn(cl, Host, w) # {}
    BY <1>5 DEF BorrowersIn
  <2>2. wr[w].lends # 0
    BY <1>2, <1>3, <2>1, FS_EmptySet
  <2>. QED  BY <1>4, <2>2
<1>. QED  BY <1>4, <1>5

\* One call lends once.
LEMMA LendsOne ==
  ASSUME NEW cl, NEW k \in CallNumbers, NEW by, NEW where
  PROVE  Lends(cl, {k}, by, where) = IF \E l \in cl[k].lent : l.by = by /\ l.where = where THEN 1 ELSE 0
<1> DEFINE some == \E l \in cl[k].lent : l.by = by /\ l.where = where
<1>1. {k} \cap BorrowersIn(cl, by, where) = IF some THEN {k} ELSE {}
  BY DEF BorrowersIn
<1>2. Cardinality({k}) = 1 /\ Cardinality({}) = 0
  BY FS_Singleton, FS_EmptySet
<1>. QED  BY <1>1, <1>2 DEF Lends

\* The destructor of what has been taken from its owner is called by the host.
LEMMA DtorHolds ==
  ASSUME NEW hd, NEW wr, NEW cl, NEW r, r # 0, Holding(rep, hd, wr, cl, dead, r), R!HostDtor(r)
  PROVE  Holding(rep', hd, wr, cl, dead', 0)
<1>1. CASE Impl \in dead
  <2>1. rep' = rep /\ dead' = dead /\ dead # {}
    BY <1>1 DEF R!HostDtor
  <2>. QED  BY <2>1, Lose
<1>2. CASE Impl \notin dead
  <2>1. rep' = [rep EXCEPT ![r] = [at |-> "gone", ran |-> @.ran + 1]] /\ (dead' = dead \/ dead' = dead \cup {Impl})
    BY <1>2 DEF R!HostDtor, R!Destroyed
  <2> DEFINE r2 == [rep EXCEPT ![r] = [at |-> "gone", ran |-> @.ran + 1]]
  <2>2. Holding(r2, hd, wr, cl, dead, 0)
    BY Destroy
  <2>3. {Impl} \in SUBSET Insts
    BY DEF Impl, Insts
  <2> HIDE DEF r2
  <2>4. Holding(r2, hd, wr, cl, dead \cup {Impl}, 0)
    BY <2>2, <2>3, Die
  <2>5. rep' = r2
    BY <2>1 DEF r2
  <2>. QED  BY <2>1, <2>2, <2>4, <2>5
<1>. QED  BY <1>1, <1>2

\* The host drops a wrapper, at once or when the last of its lends has ended.
LEMMA HostDropKeeps ==
  ASSUME ResourceInv, NEW w \in Wrappers, R!HostDrop(w)
  PROVE  ResourceInv'
<1> DEFINE hd == HeldIn(table)
           cl == call
           x == wrapper[w]
           now == [wrapper EXCEPT ![w] = R!NoWrapper]
<1>1. /\ x.valid /\ table' = table /\ call' = call
      /\ x.owns /\ x.lends > 0 => wrapper' = [wrapper EXCEPT ![w].valid = FALSE, ![w].pending = TRUE] /\ rep' = rep /\ dead' = dead
      /\ ~(x.owns /\ x.lends > 0) =>
           /\ wrapper' = [R!Invalid(w) EXCEPT ![w] = IF x.scope = 0 THEN @ ELSE R!NoWrapper]
           /\ x.owns => R!HostDtor(x.rep)
           /\ ~x.owns => rep' = rep /\ dead' = dead
  BY DEF R!HostDrop
<1>2. /\ IsTables(table) /\ Deferring /\ Holding(rep, hd, wrapper, cl, dead, 0)
      /\ wrapper \in [Wrappers -> WrapperRecords]
  BY DEF ResourceInv, Stands, Holding, Typed
<1>3. x.lends \in Nat /\ x.rep # 0 /\ ~x.pending /\ (x.owns <=> x.scope = 0) /\ x \in WrapperRecords
  <2> HIDE DEF hd, cl
  <2>1. x.lends \in Nat
    BY <1>2, LendCount
  <2>. QED  BY <1>1, <1>2, <2>1 DEF Holding, Wrapping
<1> HIDE DEF hd, cl
<1>4. CASE x.owns /\ x.lends > 0
  <2> DEFINE w2 == [wrapper EXCEPT ![w].valid = FALSE, ![w].pending = TRUE]
  <2>1. Holding(rep, hd, w2, cl, dead, 0)
    BY <1>1, <1>2, <1>4, Defer
  <2>2. wrapper' = w2 /\ rep' = rep /\ dead' = dead
    BY <1>1, <1>4
  <2>3. \A v \in Wrappers : (v # w => w2[v] = wrapper[v]) /\ w2[w].lends = x.lends
    BY <1>2 DEF WrapperRecords
  <2> HIDE DEF w2
  <2>4. Deferring'
    BY <1>2, <1>4, <2>2, <2>3 DEF Deferring
  <2>5. Stands(rep, table, w2, cl, dead, 0)
    BY <1>2, <2>1 DEF Stands, hd
  <2>. QED  BY <1>1, <2>2, <2>4, <2>5 DEF ResourceInv, cl
<1>5. CASE ~(x.owns /\ x.lends > 0)
  <2>1. wrapper' = now
    <3>1. wrapper' = [R!Invalid(w) EXCEPT ![w] = IF x.scope = 0 THEN @ ELSE R!NoWrapper]
      BY <1>1, <1>5
    <3> DEFINE y == [x EXCEPT !.valid = FALSE]
    <3>2. R!Invalid(w) = [wrapper EXCEPT ![w] = R!Kept(y)]
      BY DEF R!Invalid
    <3>3. x.scope = 0 => R!Kept(y) = R!NoWrapper
      <4>1. x.scope = 0 => ~y.valid /\ y.lends = 0 /\ ~y.pending
        BY <1>3, <1>5 DEF WrapperRecords
      <4> HIDE DEF y
      <4>. QED  BY <4>1 DEF R!Kept
    <3> HIDE DEF y
    <3>. QED  BY <1>2, <3>1, <3>2, <3>3
  <2>2. /\ now \in [Wrappers -> WrapperRecords]
        /\ \A v \in Wrappers : now[v] = IF v = w THEN R!NoWrapper ELSE wrapper[v]
        /\ ~R!NoWrapper.valid /\ ~R!NoWrapper.pending /\ R!NoWrapper.scope = 0 /\ R!NoWrapper.lends = 0
    BY <1>2, WrapperFields
  <2>3. Deferring'
    BY <1>2, <2>1, <2>2 DEF Deferring
  <2>4. Holding(rep', hd, now, cl, dead', 0)
    <3>1. CASE x.owns
      <4>1. Owns(x) /\ x.lends = 0 /\ R!HostDtor(x.rep)
        BY <1>1, <1>3, <1>5, <3>1 DEF Owns
      <4>2. Holding(rep, hd, now, cl, dead, x.rep)
        BY <1>2, <4>1, TakeWrapper
      <4> HIDE DEF now
      <4>. QED  BY <1>3, <4>1, <4>2, DtorHolds
    <3>2. CASE ~x.owns
      <4>1. rep' = rep /\ dead' = dead /\ x.scope # 0
        BY <1>1, <1>3, <1>5, <3>2
      <4> HIDE DEF now
      <4>2. \A v \in Wrappers :
              \/ now[v] = wrapper[v]
              \/ /\ wrapper[v].scope # 0 /\ ~now[v].valid /\ ~now[v].pending /\ now[v].scope = 0
                 /\ now[v].lends \in {0, wrapper[v].lends}
        BY <2>2, <4>1
      <4>3. Holding(rep, hd, now, cl, dead, 0)
        BY <1>2, <2>2, <4>2, Unwrap
      <4>. QED  BY <4>1, <4>3
    <3>. QED  BY <3>1, <3>2
  <2>5. Stands(rep', table, now, cl, dead', 0)
    BY <1>2, <2>4 DEF Stands, hd
  <2>. QED  BY <1>1, <2>1, <2>3, <2>5 DEF ResourceInv, cl
<1>. QED  BY <1>4, <1>5

\* A wrapper with one lend less.
Unlend(x) == [x EXCEPT !.lends = @ - 1]

\* Its fields.
LEMMA UnlendFields ==
  ASSUME NEW x \in WrapperRecords
  PROVE  /\ Unlend(x) \in WrapperRecords /\ Unlend(x).rep = x.rep /\ Unlend(x).valid = x.valid
         /\ Unlend(x).owns = x.owns /\ Unlend(x).pending = x.pending /\ Unlend(x).scope = x.scope
         /\ Unlend(x).lends = x.lends - 1
BY DEF WrapperRecords, Unlend

\* The host's call k ends: w2 has the wrapper w of its result, and one lend less of what it lent.
Settling(wr, w2, cl, k, w) ==
  /\ k \in CallNumbers /\ cl[k].at \in {"returned", "failed"} /\ w \in Wrappers /\ wr[w] = R!NoWrapper
  /\ w2 \in [Wrappers -> WrapperRecords]
  /\ \A v \in Wrappers : w2[v] =
       IF v = w THEN (IF cl[k].own = 0 THEN wr[v] ELSE R!Owned(cl[k].own))
       ELSE IF \E l \in cl[k].lent : l.where = v THEN Unlend(wr[v]) ELSE wr[v]

\* Whom a settled call lends, and that nothing rests on it.
LEMMA SettlingCall ==
  ASSUME NEW rp, NEW hd, NEW wr, NEW cl, NEW dd, Holding(rp, hd, wr, cl, dd, 0),
         NEW k \in CallNumbers, cl[k].at \in {"returned", "failed"}
  PROVE  /\ k \in FromHost /\ cl[k].from = Host /\ cl[k].own \in RepNumbers \cup {0}
         /\ \A l \in cl[k].lent : /\ l.by = Host /\ l.where \in Wrappers /\ Owns(wr[l.where])
                                  /\ wr[l.where].rep = l.rep
         /\ \A l, m \in cl[k].lent : l = m
         /\ \A v \in Wrappers : wr[v].scope # k
         /\ \A j \in CallNumbers \ {k} : cl[j].at # "none" /\ j \notin FromHost => cl[j].root # k /\ cl[j].parent # k
         /\ \A j \in CallNumbers \ {k} : Pure(cl, j) => \A l \in cl[j].lent : l.of # k
<1>1. cl \in [CallNumbers -> CallRecords] /\ k # 0
  BY ResourceAssumption DEF Holding, Typed
<1>2. k \in FromHost /\ cl[k].from = Host
  BY <1>1 DEF Holding, Calling
<1>3. cl[k].own \in RepNumbers \cup {0}
  BY <1>1 DEF CallRecords
<1>4. \A l \in cl[k].lent : l.by = Host /\ l.where \in Wrappers /\ Owns(wr[l.where]) /\ wr[l.where].rep = l.rep
  BY <1>2 DEF Holding, Lending
<1>5. \A l, m \in cl[k].lent : l = m
  BY DEF Holding, Lending
<1>6. \A v \in Wrappers : wr[v].scope # k
  BY <1>1 DEF Holding, Wrapping
<1>7. \A j \in CallNumbers \ {k} : cl[j].at # "none" /\ j \notin FromHost => cl[j].root # k /\ cl[j].parent # k
  BY DEF Holding, Calling
<1>8. \A j \in CallNumbers \ {k} : Pure(cl, j) => \A l \in cl[j].lent : l.of # k
  BY <1>1 DEF Holding, Resting
<1>. QED  BY <1>2, <1>3, <1>4, <1>5, <1>6, <1>7, <1>8

\* Then nothing is left of the call, its result has a wrapper, and its lends have ended.
LEMMA Settled ==
  ASSUME NEW rp, NEW hd, NEW wr, NEW cl, NEW dd, Holding(rp, hd, wr, cl, dd, 0),
         NEW w2, NEW k, NEW w, Settling(wr, w2, cl, k, w)
  PROVE  Holding(rp, hd, w2, Ended(cl, {k}), dd, 0)
<1> DEFINE q == cl[k].own
           c1 == [cl EXCEPT ![k].own = 0]
           w1 == IF q = 0 THEN wr ELSE [wr EXCEPT ![w] = R!Owned(q)]
<1>0. /\ k \in CallNumbers /\ cl[k].at \in {"returned", "failed"} /\ w \in Wrappers /\ wr[w] = R!NoWrapper
      /\ w2 \in [Wrappers -> WrapperRecords]
      /\ \A v \in Wrappers : w2[v] =
           IF v = w THEN (IF q = 0 THEN wr[v] ELSE R!Owned(q))
           ELSE IF \E l \in cl[k].lent : l.where = v THEN Unlend(wr[v]) ELSE wr[v]
  BY DEF Settling
<1>1. /\ cl \in [CallNumbers -> CallRecords] /\ wr \in [Wrappers -> WrapperRecords]
      /\ hd \in [Insts -> [Spots -> Handles]]
  BY DEF Holding, Typed
<1>2. /\ k \in FromHost /\ cl[k].from = Host /\ q \in RepNumbers \cup {0}
      /\ \A l \in cl[k].lent : l.by = Host /\ l.where \in Wrappers /\ Owns(wr[l.where])
      /\ \A v \in Wrappers : wr[v].scope # k
      /\ \A j \in CallNumbers \ {k} : cl[j].at # "none" /\ j \notin FromHost => cl[j].root # k /\ cl[j].parent # k
      /\ \A j \in CallNumbers \ {k} : Pure(cl, j) => \A l \in cl[j].lent : l.of # k
  BY <1>0, SettlingCall
<1>3. /\ c1 \in [CallNumbers -> CallRecords]
      /\ \A j \in CallNumbers : /\ c1[j].at = cl[j].at /\ c1[j].root = cl[j].root /\ c1[j].parent = cl[j].parent
                                /\ c1[j].lent = cl[j].lent /\ c1[j].across = cl[j].across
                                /\ j # k => c1[j] = cl[j]
      /\ c1[k].own = 0
      /\ q = 0 => c1 = cl
  <2>1. /\ [cl[k] EXCEPT !.own = 0] \in CallRecords
        /\ q = 0 => [cl[k] EXCEPT !.own = 0] = cl[k]
    BY <1>0, <1>1 DEF CallRecords
  <2>2. /\ [cl[k] EXCEPT !.own = 0].at = cl[k].at /\ [cl[k] EXCEPT !.own = 0].root = cl[k].root
        /\ [cl[k] EXCEPT !.own = 0].parent = cl[k].parent /\ [cl[k] EXCEPT !.own = 0].lent = cl[k].lent
        /\ [cl[k] EXCEPT !.own = 0].across = cl[k].across /\ [cl[k] EXCEPT !.own = 0].own = 0
    BY <1>0, <1>1 DEF CallRecords
  <2>. QED  BY <1>0, <1>1, <2>1, <2>2
<1>4. w1 \in [Wrappers -> WrapperRecords] /\ \A v \in Wrappers : w1[v] = IF v = w /\ q # 0 THEN R!Owned(q) ELSE wr[v]
  BY <1>0, <1>1, <1>2, WrapperFields
<1> HIDE DEF c1
<1>5. Holding(rp, hd, w1, c1, dd, 0)
  <2>1. CASE q = 0
    BY <1>3, <2>1
  <2>2. CASE q # 0
    <3>1. Holding(rp, hd, wr, c1, dd, q)
      <4>1. c1 = [cl EXCEPT ![k].own = 0]
        BY DEF c1
      <4>. QED  BY <1>0, <2>2, <4>1, TakeCall
    <3> HIDE DEF q
    <3>. QED  BY <1>0, <2>2, <3>1, GiveWrapper
  <2>. QED  BY <2>1, <2>2
<1>6. Ended(c1, {k}) = Ended(cl, {k})
  BY <1>3 DEF Ended
<1> HIDE DEF w1, q
<1>7. /\ \A j \in {k} : c1[j].own = 0
      /\ \A v \in Wrappers : w1[v].scope \notin {k}
      /\ \A j \in CallNumbers \ {k} : c1[j].at # "none" /\ j \notin FromHost => c1[j].root \notin {k} /\ c1[j].parent \notin {k}
      /\ \A j \in CallNumbers \ {k} : Pure(c1, j) => \A l \in c1[j].lent : l.of \notin {k}
      /\ {k} \in SUBSET CallNumbers
  <2>1. \A v \in Wrappers : w1[v].scope # k
    <3>1. q # 0 => R!Owned(q).scope = 0
      BY <1>2, WrapperFields
    <3>. QED  BY <1>0, <1>2, <1>4, <3>1, ResourceAssumption
  <2>2. \A j \in CallNumbers \ {k} : Pure(c1, j) => \A l \in c1[j].lent : l.of # k
    <3> SUFFICES ASSUME NEW j \in CallNumbers \ {k}, Pure(c1, j), NEW l \in c1[j].lent PROVE l.of # k
      OBVIOUS
    <3>1. cl[j].at = "running" /\ cl[j].root \in CallNumbers
      <4>1. cl[j].at = "running"
        BY <1>3 DEF Pure
      <4>. QED  BY <4>1, ResourceAssumption DEF Holding, Calling
    <3>2. Pure(cl, j)
      BY <1>3, <3>1 DEF Pure
    <3>. QED  BY <1>2, <1>3, <3>2
  <2>. QED  BY <1>0, <1>2, <1>3, <2>1, <2>2
<1>8. \A i \in Insts : \A s \in Spots : hd[i][s].lends = hd[i][s].lends - Lends(c1, {k}, i, s)
  <2> SUFFICES ASSUME NEW i \in Insts, NEW s \in Spots
               PROVE  hd[i][s].lends = hd[i][s].lends - Lends(c1, {k}, i, s)
    OBVIOUS
  <2>1. \A l \in c1[k].lent : l.by # i
    BY <1>0, <1>2, <1>3, ResourceAssumption
  <2>2. Lends(c1, {k}, i, s) = 0
    BY <1>0, <2>1, LendsOne
  <2>3. hd[i][s].lends \in Int
    BY <1>1 DEF Handles
  <2>. QED  BY <2>2, <2>3
<1>9. \A v \in Wrappers :
        /\ w2[v].rep = w1[v].rep /\ w2[v].valid = w1[v].valid /\ w2[v].owns = w1[v].owns
        /\ w2[v].pending = w1[v].pending /\ w2[v].scope = w1[v].scope
        /\ w2[v].lends = w1[v].lends - Lends(c1, {k}, Host, v)
  <2> SUFFICES ASSUME NEW v \in Wrappers
               PROVE  /\ w2[v].rep = w1[v].rep /\ w2[v].valid = w1[v].valid /\ w2[v].owns = w1[v].owns
                      /\ w2[v].pending = w1[v].pending /\ w2[v].scope = w1[v].scope
                      /\ w2[v].lends = w1[v].lends - Lends(c1, {k}, Host, v)
    OBVIOUS
  <2> DEFINE lent == \E l \in cl[k].lent : l.where = v
             n == Lends(c1, {k}, Host, v)
  <2>1. n = IF lent THEN 1 ELSE 0
    <3>1. n = IF \E l \in c1[k].lent : l.by = Host /\ l.where = v THEN 1 ELSE 0
      <4>1. k \in CallNumbers
        BY <1>0
      <4>. QED  BY <4>1, LendsOne, Zenon
    <3>. QED  BY <1>0, <1>2, <1>3, <3>1
  <2>2. v = w => ~lent
    BY <1>0, <1>2, WrapperFields
  <2>3. w1[v].lends \in Int
    BY <1>4 DEF WrapperRecords
  <2> HIDE DEF n
  <2>4. CASE lent
    <3>1. w1[v] = wr[v] /\ w2[v] = Unlend(wr[v]) /\ wr[v] \in WrapperRecords
      BY <1>0, <1>1, <1>4, <2>2, <2>4
    <3>. QED  BY <2>1, <2>4, <3>1, UnlendFields DEF n
  <2>5. CASE ~lent
    <3>1. w2[v] = w1[v]
      BY <1>0, <1>4, <2>5
    <3>2. w1[v].lends = w1[v].lends - n
      BY <2>1, <2>3, <2>5
    <3>. QED  BY <3>1, <3>2 DEF n
  <2>. QED  BY <2>4, <2>5
<1>10. Holding(rp, hd, w2, Ended(c1, {k}), dd, 0)
  <2> DEFINE K == {k}
  <2>1. /\ K \in SUBSET CallNumbers
        /\ \A j \in K : c1[j].own = 0
        /\ \A v \in Wrappers : w1[v].scope \notin K
        /\ \A j \in CallNumbers \ K : c1[j].at # "none" /\ j \notin FromHost => c1[j].root \notin K /\ c1[j].parent \notin K
        /\ \A j \in CallNumbers \ K : Pure(c1, j) => \A l \in c1[j].lent : l.of \notin K
    BY <1>7
  <2>2. \A i \in Insts : \A s \in Spots :
          /\ hd[i][s].rep = hd[i][s].rep /\ hd[i][s].own = hd[i][s].own /\ hd[i][s].scope = hd[i][s].scope
          /\ hd[i][s].lends = hd[i][s].lends - Lends(c1, K, i, s)
    BY <1>8
  <2>3. \A v \in Wrappers :
          /\ w2[v].rep = w1[v].rep /\ w2[v].valid = w1[v].valid /\ w2[v].owns = w1[v].owns
          /\ w2[v].pending = w1[v].pending /\ w2[v].scope = w1[v].scope
          /\ w2[v].lends = w1[v].lends - Lends(c1, K, Host, v)
    BY <1>9
  <2> HIDE DEF K
  <2>4. Holding(rp, hd, w2, Ended(c1, K), dd, 0)
    <3>1. w2 \in [Wrappers -> WrapperRecords] /\ hd \in [Insts -> [Spots -> Handles]]
      BY <1>0, <1>1
    <3>. QED  BY <1>5, <2>1, <2>2, <2>3, <3>1, Close
  <2>. QED  BY <2>4 DEF K
<1>. QED  BY <1>6, <1>10

\* What becomes of a wrapper when one of its lends ends.
LEMMA KeptLess ==
  ASSUME NEW x \in WrapperRecords, Owns(x), x.lends \in Nat, x.lends >= 1, x.valid => ~x.pending
  PROVE  R!Kept([x EXCEPT !.lends = @ - 1, !.pending = @ /\ x.lends > 1])
           = IF R!Deferred(x) THEN R!NoWrapper ELSE Unlend(x)
<1> DEFINE u == Unlend(x)
           p == x.pending /\ x.lends > 1
           y == [u EXCEPT !.pending = p]
<1>1. [x EXCEPT !.lends = @ - 1, !.pending = @ /\ x.lends > 1] = y
  BY DEF Unlend
<1>2. /\ u \in WrapperRecords /\ u.valid = x.valid /\ u.pending = x.pending /\ u.lends = x.lends - 1
  BY UnlendFields
<1>3. R!Deferred(x) <=> x.pending /\ x.lends = 1
  BY DEF R!Deferred
<1> HIDE DEF u
<1>4. y.valid = u.valid /\ y.lends = u.lends /\ (y.pending <=> p)
  BY <1>2 DEF WrapperRecords
<1>5. CASE x.pending /\ x.lends = 1
  <2>1. ~y.valid /\ y.lends = 0 /\ ~y.pending
    BY <1>2, <1>4, <1>5
  <2> HIDE DEF y
  <2>. QED  BY <1>1, <1>3, <1>5, <2>1 DEF R!Kept
<1>6. CASE ~(x.pending /\ x.lends = 1)
  <2>1. p = u.pending
    <3>1. CASE x.pending
      <4>1. x.lends > 1
        BY <1>6, <3>1
      <4>2. p = TRUE
        BY <3>1, <4>1
      <4>3. x.pending = TRUE
        BY <3>1 DEF WrapperRecords
      <4>. QED  BY <1>2, <4>2, <4>3
    <3>2. CASE ~x.pending
      BY <1>2, <3>2 DEF WrapperRecords
    <3>. QED  BY <3>1, <3>2
  <2>2. y = u
    BY <1>2, <2>1 DEF WrapperRecords
  <2>3. u.valid \/ u.pending
    BY <1>2 DEF Owns
  <2> HIDE DEF y
  <2>. QED  BY <1>1, <1>3, <1>6, <2>2, <2>3 DEF R!Kept, u
<1>. QED  BY <1>5, <1>6

\* The caller's continuation.
LEMMA SettleKeeps ==
  ASSUME ResourceInv, NEW k \in CallNumbers, NEW w \in Wrappers, R!Settle(k, w)
  PROVE  ResourceInv'
<1> DEFINE hd == HeldIn(table)
           cl == call
           wr == wrapper
           q == cl[k].own
           L == cl[k].lent
           lender == {l.where : l \in L}
           w2 == [v \in Wrappers |-> IF v = w THEN (IF q = 0 THEN wr[v] ELSE R!Owned(q))
                                     ELSE IF \E l \in L : l.where = v THEN Unlend(wr[v]) ELSE wr[v]]
           lost == \E v \in lender : R!Deferred(wr[v])
           back == [v \in Wrappers |-> IF v \notin lender THEN wr[v]
                     ELSE R!Kept([wr[v] EXCEPT !.lends = @ - 1, !.pending = @ /\ wr[v].lends > 1])]
<1>1. /\ cl[k].at \in {"returned", "failed"} /\ wr[w] = R!NoWrapper
      /\ wrapper' = IF q = 0 THEN back ELSE [back EXCEPT ![w] = R!Owned(q)]
      /\ lost => R!HostDtor((CHOOSE l \in L : TRUE).rep)
      /\ ~lost => rep' = rep /\ dead' = dead
      /\ call' = [call EXCEPT ![k] = R!NoCall] /\ table' = table
  BY DEF R!Settle, R!Free, R!FreeBut, R!Unheld
<1>2. /\ IsTables(table) /\ Deferring /\ Holding(rep, hd, wr, cl, dead, 0)
      /\ wr \in [Wrappers -> WrapperRecords] /\ cl \in [CallNumbers -> CallRecords]
  BY DEF ResourceInv, Stands, Holding, Typed
<1>3. call' = Ended(cl, {k})
  BY <1>1, <1>2 DEF Ended
<1>4. \A v \in Wrappers : wr[v].pending => wr[v].lends > 0
  BY <1>2 DEF Deferring
<1> HIDE DEF hd, cl, wr
<1>5. /\ q \in RepNumbers \cup {0}
      /\ \A l \in L : l.by = Host /\ l.where \in Wrappers /\ Owns(wr[l.where]) /\ wr[l.where].rep = l.rep
      /\ \A l, m \in L : l = m
  <2>1. cl[k].at \in {"returned", "failed"} /\ Holding(rep, hd, wr, cl, dead, 0)
    BY <1>1, <1>2
  <2>2. cl[k].own \in RepNumbers \cup {0}
    BY <2>1, SettlingCall
  <2>3. \A l, m \in cl[k].lent : l = m
    BY <2>1, SettlingCall
  <2>4. \A l \in cl[k].lent : l.by = Host /\ l.where \in Wrappers /\ Owns(wr[l.where]) /\ wr[l.where].rep = l.rep
    BY <2>1, SettlingCall
  <2>. QED  BY <2>2, <2>3, <2>4
<1>6. \A l \in L : wr[l.where].lends \in Nat /\ wr[l.where].lends >= 1
  BY <1>2, <1>5, LendCount
<1>7. \A v \in Wrappers : wr[v].valid => ~wr[v].pending
  BY <1>2 DEF Holding, Wrapping
<1>8. \A v \in Wrappers : v \in lender => /\ Owns(wr[v]) /\ v # w /\ wr[v].lends \in Nat /\ wr[v].lends >= 1
  BY ZenonT(60), <1>1, <1>5, <1>6, WrapperFields
<1>9. w2 \in [Wrappers -> WrapperRecords]
  <2>1. \A v \in Wrappers : Unlend(wr[v]) \in WrapperRecords
    BY <1>2, UnlendFields
  <2>2. q # 0 => R!Owned(q) \in WrapperRecords
    BY <1>5, WrapperFields
  <2>. QED  BY <1>2, <2>1, <2>2
<1>10. Holding(rep, hd, w2, Ended(cl, {k}), dead, 0)
  <2>1. \A v \in Wrappers : w2[v] =
          IF v = w THEN (IF q = 0 THEN wr[v] ELSE R!Owned(q))
          ELSE IF \E l \in L : l.where = v THEN Unlend(wr[v]) ELSE wr[v]
    OBVIOUS
  <2> HIDE DEF w2
  <2>2. Settling(wr, w2, cl, k, w)
    BY <1>1, <1>9, <2>1 DEF Settling
  <2>. QED  BY <1>2, <2>2, Settled
<1>11. \A v \in Wrappers : wrapper'[v] =
         IF v \in lender /\ R!Deferred(wr[v]) THEN R!NoWrapper ELSE w2[v]
  <2> SUFFICES ASSUME NEW v \in Wrappers
               PROVE  wrapper'[v] = IF v \in lender /\ R!Deferred(wr[v]) THEN R!NoWrapper ELSE w2[v]
    OBVIOUS
  <2>1. wrapper'[v] = IF v = w /\ q # 0 THEN R!Owned(q) ELSE back[v]
    BY <1>1
  <2>2. w2[v] = IF v = w THEN (IF q = 0 THEN wr[v] ELSE R!Owned(q)) ELSE IF v \in lender THEN Unlend(wr[v]) ELSE wr[v]
    OBVIOUS
  <2>3. CASE v \in lender
    <3>1. back[v] = R!Kept([wr[v] EXCEPT !.lends = @ - 1, !.pending = @ /\ wr[v].lends > 1])
      BY <2>3
    <3>2. back[v] = IF R!Deferred(wr[v]) THEN R!NoWrapper ELSE Unlend(wr[v])
      BY <1>2, <1>7, <1>8, <2>3, <3>1, KeptLess
    <3> HIDE DEF back, w2, lender
    <3>. QED  BY <1>8, <2>1, <2>2, <2>3, <3>2
  <2>4. CASE v \notin lender
    <3>1. back[v] = wr[v]
      BY <2>4
    <3> HIDE DEF back, w2, lender
    <3>. QED  BY <2>1, <2>2, <2>4, <3>1
  <2>. QED  BY <2>3, <2>4
<1>12. wrapper' = [v \in Wrappers |-> wrapper'[v]]
  BY <1>1
<1>13. \A v \in Wrappers : w2[v] = IF v = w THEN (IF q = 0 THEN wr[v] ELSE R!Owned(q))
                                   ELSE IF v \in lender THEN Unlend(wr[v]) ELSE wr[v]
  OBVIOUS
<1> HIDE DEF w2, back
<1>14. Deferring'
  <2> SUFFICES ASSUME NEW v \in Wrappers, wrapper'[v].pending PROVE wrapper'[v].lends > 0
    BY DEF Deferring
  <2>1. wrapper'[v] = w2[v] /\ ~(v \in lender /\ R!Deferred(wr[v]))
    BY <1>11, WrapperFields
  <2> HIDE DEF lender
  <2>2. CASE v = w
    <3>1. q # 0 => ~R!Owned(q).pending
      BY <1>5, WrapperFields
    <3>. QED  BY <1>1, <1>13, <2>1, <2>2, <3>1, WrapperFields
  <2>3. CASE v # w /\ v \in lender
    <3>1. wrapper'[v] = Unlend(wr[v]) /\ wr[v] \in WrapperRecords
      BY <1>2, <1>13, <2>1, <2>3
    <3>2. wr[v].pending /\ wrapper'[v].lends = wr[v].lends - 1
      BY <3>1, UnlendFields
    <3>3. wr[v].lends # 1 /\ wr[v].lends \in Nat /\ wr[v].lends >= 1
      BY <1>8, <2>1, <2>3, <3>2 DEF R!Deferred
    <3>. QED  BY <3>2, <3>3
  <2>4. CASE v # w /\ v \notin lender
    BY <1>4, <1>13, <2>1, <2>4
  <2>. QED  BY <2>2, <2>3, <2>4
<1>15. Holding(rep', hd, wrapper', Ended(cl, {k}), dead', 0)
  <2>1. CASE lost
    <3>1. PICK v \in lender : R!Deferred(wr[v])
      BY <2>1
    <3>2. PICK l \in L : l.where = v
      BY <3>1
    <3>3. /\ v \in Wrappers /\ Owns(wr[v]) /\ v # w /\ wr[v].rep = l.rep /\ lender = {v}
          /\ (CHOOSE m \in L : TRUE) = l
      <4>1. v \in Wrappers /\ Owns(wr[v]) /\ wr[v].rep = l.rep
        BY <1>5, <3>2
      <4>2. (CHOOSE m \in L : TRUE) = l
        <5>1. (CHOOSE m \in L : TRUE) \in L
          BY <3>2
        <5>. QED  BY <1>5, <3>2, <5>1
      <4>3. lender = {v}
        BY <1>5, <3>2
      <4>. QED  BY <1>8, <3>1, <4>1, <4>2, <4>3
    <3>4. /\ w2[v] = Unlend(wr[v]) /\ wr[v] \in WrapperRecords
      BY <1>2, <1>13, <3>1, <3>3
    <3>5. w2[v].rep = l.rep /\ Owns(w2[v]) /\ w2[v].lends = 0
      <4>1. wr[v].lends = 1
        BY <3>1 DEF R!Deferred
      <4>. QED  BY <3>3, <3>4, <4>1, UnlendFields DEF Owns
    <3>6. wrapper' = [w2 EXCEPT ![v] = R!NoWrapper]
      <4>1. \A u \in Wrappers : wrapper'[u] = IF u = v THEN R!NoWrapper ELSE w2[u]
        BY <1>11, <3>1, <3>3
      <4>. QED  BY <1>9, <1>12, <4>1
    <3> DEFINE c2 == Ended(cl, {k})
    <3>7. Holding(rep, hd, w2, c2, dead, 0)
      BY <1>10
    <3> HIDE DEF c2
    <3>8. Holding(rep, hd, [w2 EXCEPT ![v] = R!NoWrapper], c2, dead, w2[v].rep)
      BY <3>3, <3>5, <3>7, TakeWrapper
    <3>9. l.rep # 0 /\ R!HostDtor(l.rep)
      <4>1. wr[v].rep # 0
        BY <1>2, <3>3 DEF Holding, OwnedLives
      <4>. QED  BY <1>1, <2>1, <3>3, <4>1
    <3> DEFINE w3 == [w2 EXCEPT ![v] = R!NoWrapper]
    <3>10. Holding(rep, hd, w3, c2, dead, l.rep)
      BY <3>5, <3>8
    <3> HIDE DEF w3
    <3>11. Holding(rep', hd, w3, c2, dead', 0)
      BY <3>9, <3>10, DtorHolds
    <3>. QED  BY <3>6, <3>11 DEF w3, c2
  <2>2. CASE ~lost
    <3>1. \A v \in Wrappers : wrapper'[v] = w2[v]
      BY <1>11, <2>2
    <3>2. wrapper' = w2
      BY <1>9, <1>12, <3>1
    <3>. QED  BY <1>1, <1>10, <2>2, <3>2
  <2>. QED  BY <2>1, <2>2
<1>16. Stands(rep', table, wrapper', Ended(cl, {k}), dead', 0)
  BY <1>2, <1>15 DEF Stands, hd
<1>. QED  BY <1>1, <1>3, <1>14, <1>16 DEF ResourceInv

-----------------------------------------------------------------------------
(* The invariant.                                                              *)

\* At first nothing is there.
LEMMA ResourceStarts == R!Init => ResourceInv
<1> SUFFICES ASSUME R!Init PROVE ResourceInv
  OBVIOUS
<1> DEFINE hd == HeldIn(table)
           cl == call
           wr == wrapper
           e == [slots |-> <<>>, free |-> <<>>]
<1>1. /\ rep = [r \in RepNumbers |-> [at |-> "unborn", ran |-> 0]]
      /\ table = [i \in Insts |-> e]
      /\ wr = [w \in Wrappers |-> R!NoWrapper]
      /\ cl = [k \in CallNumbers |-> R!NoCall]
      /\ dead = {}
  BY DEF R!Init
<1>2. R!NoHandle \in Handles /\ IsHandle(R!NoHandle, 0, FALSE, 0)
  BY Records
<1>3. /\ hd \in [Insts -> [Spots -> Handles]]
      /\ \A i \in Insts : \A s \in Spots : hd[i][s] = R!NoHandle
  <2>1. \A i \in Insts : \A s \in Spots : At(table[i], s) = R!NoHandle
    BY <1>1 DEF At
  <2>. QED  BY <1>2, <2>1 DEF HeldIn
<1>4. IsTables(table)
  <2>1. e \in Tabular
    BY DEF Tabular
  <2>2. Orderly(e)
    BY <2>1, ResourceAssumption DEF Orderly
  <2>. QED  BY <1>1, <2>1, <2>2 DEF IsTables
<1>5. /\ cl \in [CallNumbers -> CallRecords]
      /\ \A k \in CallNumbers : cl[k].at = "none" /\ cl[k].own = 0 /\ cl[k].lent = {} /\ cl[k].borrows = 0
  BY <1>1, NoCallFields
<1>6. /\ wr \in [Wrappers -> WrapperRecords]
      /\ \A w \in Wrappers : /\ ~wr[w].valid /\ ~wr[w].pending /\ ~Owns(wr[w]) /\ wr[w].lends = 0 /\ wr[w].scope = 0
  BY <1>1, WrapperFields
<1>7. /\ rep \in [RepNumbers -> [at : {"unborn", "alive", "gone"}, ran : 0..1]]
      /\ \A r \in RepNumbers : rep[r].at = "unborn" /\ rep[r].ran = 0
  BY <1>1
<1> HIDE DEF hd, cl, wr
<1>8. \A i \in Insts : \A s \in Spots : /\ hd[i][s].rep = 0 /\ ~hd[i][s].own /\ hd[i][s].lends = 0 /\ hd[i][s].scope = 0
  BY <1>2, <1>3 DEF IsHandle
<1>9. \A by, where : BorrowersIn(cl, by, where) = {}
  BY <1>5 DEF BorrowersIn
<1>10. Cardinality({}) = 0
  BY FS_EmptySet
<1>11. Typed(rep, hd, wr, cl, dead)
  BY <1>1, <1>3, <1>5, <1>6, <1>7 DEF Typed
<1>12. Kinds2(hd)
  BY <1>8 DEF Kinds2
<1>13. OwnedOnce(hd, wr, cl, 0)
  BY <1>5, <1>6, <1>8 DEF OwnedOnce
<1>14. OwnedLives(rep, hd, wr, cl, 0)
  BY <1>5, <1>6, <1>8 DEF OwnedLives
<1>15. LivesOwned(rep, hd, wr, cl, dead, 0)
  BY <1>7 DEF LivesOwned
<1>16. Born(rep, hd, cl)
  BY <1>5, <1>8 DEF Born
<1>17. Lending(hd, wr, cl, 0)
  BY <1>5 DEF Lending
<1>18. Counted(hd, wr, cl)
  BY <1>6, <1>8, <1>9, <1>10 DEF Counted
<1>19. Wrapping(wr, cl)
  BY <1>6 DEF Wrapping
<1>20. Calling(cl)
  BY <1>5 DEF Calling
<1>21. Borrowing(hd, cl, dead)
  BY <1>5, <1>8 DEF Borrowing
<1>22. Resting(hd, cl)
  BY <1>5 DEF Resting
<1>23. Ordered(cl)
  BY <1>5 DEF Ordered
<1>24. Living(rep, cl, dead)
  BY <1>5 DEF Living
<1>25. Holding(rep, hd, wr, cl, dead, 0)
  BY <1>11, <1>12, <1>13, <1>14, <1>15, <1>16, <1>17, <1>18, <1>19, <1>20, <1>21, <1>22, <1>23, <1>24
       DEF Holding
<1>26. Deferring
  BY <1>6 DEF Deferring, wr
<1>. QED  BY <1>4, <1>25, <1>26 DEF ResourceInv, Stands, hd, cl, wr

\* Every action keeps the invariant.
LEMMA ResourceSteps == ResourceInv /\ R!Next => ResourceInv'
<1> SUFFICES ASSUME ResourceInv, R!Next PROVE ResourceInv'
  OBVIOUS
<1>1. ASSUME NEW k \in CallNumbers, R!Acting(k), R!GuestTrap(k) PROVE ResourceInv'
  BY <1>1, GuestTrapKeeps
<1>2. ASSUME NEW k \in CallNumbers, NEW r \in RepNumbers, R!New(k, r) PROVE ResourceInv'
  BY <1>2, NewKeeps
<1>3. ASSUME NEW k \in CallNumbers, NEW s \in R!Used(call[k].to), R!DropBorrow(k, s) PROVE ResourceInv'
  BY <1>3, DropBorrowKeeps
<1>4. ASSUME NEW k \in CallNumbers, NEW s \in R!Used(call[k].to), R!DropOwn(k, s) PROVE ResourceInv'
  BY <1>4, DropOwnKeeps
<1>5. ASSUME NEW k \in CallNumbers, NEW j, NEW d \in Insts, NEW o, NEW b, R!Enter(k, j, d, o, b)
      PROVE ResourceInv'
  BY <1>5, EnterKeeps
<1>6. ASSUME NEW k \in CallNumbers, NEW o, R!Exit(k, o) PROVE ResourceInv'
  BY <1>6, ExitKeeps
<1>7. ASSUME NEW k \in CallNumbers, NEW o, R!Return(k, o) PROVE ResourceInv'
  BY <1>7, ReturnKeeps
<1>8. ASSUME NEW k \in CallNumbers, NEW j, NEW o, NEW b, NEW v \in Wrappers, NEW w \in Wrappers,
             R!Import(k, j, o, b, v, w)
      PROVE  ResourceInv'
  BY <1>8, ImportKeeps
<1>9. ASSUME NEW k, NEW d, NEW o \in Wrappers \cup {0}, NEW b \in Wrappers \cup {0}, R!HostCall(k, d, o, b)
      PROVE  ResourceInv'
  BY <1>9, HostCallKeeps
<1>10. ASSUME NEW k \in CallNumbers, R!Start(k) PROVE ResourceInv'
  BY <1>10, StartKeeps
<1>11. ASSUME NEW k \in CallNumbers, R!Stalls(k) PROVE ResourceInv'
  BY <1>11, StallsKeeps
<1>12. ASSUME NEW k \in CallNumbers, NEW w \in Wrappers, R!Settle(k, w) PROVE ResourceInv'
  BY <1>12, SettleKeeps
<1>13. ASSUME NEW k \in CallNumbers, NEW w \in Wrappers \cup {0}, R!ImportEnds(k, w) PROVE ResourceInv'
  BY <1>13, ImportEndsKeeps
<1>14. ASSUME NEW k \in CallNumbers, R!ImportFails(k) PROVE ResourceInv'
  BY <1>14, ImportFailsKeeps
<1>15. ASSUME NEW w \in Wrappers, R!HostDrop(w) PROVE ResourceInv'
  BY <1>15, HostDropKeeps
<1>16. CASE \E k \in {j \in CallNumbers : R!Acting(j)} :
              LET held == R!Used(call[k].to)  passed1 == held \cup {0} IN
              \/ R!GuestTrap(k) \/ (\E r \in RepNumbers : R!New(k, r))
              \/ (\E s \in held : R!DropBorrow(k, s)) \/ (\E s \in held : R!DropOwn(k, s))
              \/ (\E j \in R!Unstarted(CallNumbers \ FromHost), d \in Insts, o, b \in passed1 : R!Enter(k, j, d, o, b))
              \/ (\E o \in passed1 : R!Exit(k, o)) \/ (\E o \in passed1 : R!Return(k, o))
              \/ (\E j \in R!Unstarted(CallNumbers \ FromHost), o, b \in passed1, v, w \in Wrappers :
                    R!Import(k, j, o, b, v, w))
  <2>1. PICK k \in CallNumbers : /\ R!Acting(k)
              /\ \/ R!GuestTrap(k) \/ (\E r \in RepNumbers : R!New(k, r))
                 \/ (\E s \in R!Used(call[k].to) : R!DropBorrow(k, s)) \/ (\E s \in R!Used(call[k].to) : R!DropOwn(k, s))
                 \/ (\E j, o, b : \E d \in Insts : R!Enter(k, j, d, o, b))
                 \/ (\E o : R!Exit(k, o)) \/ (\E o : R!Return(k, o))
                 \/ (\E j, o, b : \E v, w \in Wrappers : R!Import(k, j, o, b, v, w))
    BY <1>16, Zenon
  <2>. QED  BY <2>1, <1>1, <1>2, <1>3, <1>4, <1>5, <1>6, <1>7, <1>8, Zenon
<1>17. CASE \E k \in R!Unstarted(FromHost), d \in Insts, o, b \in Wrappers \cup {0} : R!HostCall(k, d, o, b)
  BY <1>9, <1>17, Zenon
<1>18. CASE \E k \in CallNumbers :
              \/ R!Start(k) \/ R!Stalls(k) \/ (\E w \in Wrappers : R!Settle(k, w))
              \/ (\E w \in Wrappers \cup {0} : R!ImportEnds(k, w)) \/ R!ImportFails(k)
  BY <1>10, <1>11, <1>12, <1>13, <1>14, <1>18, Zenon
<1>19. CASE \E w \in Wrappers : R!HostDrop(w)
  BY <1>15, <1>19, Zenon
<1>. QED  BY <1>16, <1>17, <1>18, <1>19 DEF R!Next

\* Nor is it lost where nothing happens.
LEMMA ResourceRests == ResourceInv /\ UNCHANGED rvars => ResourceInv'
<1> SUFFICES ASSUME ResourceInv, UNCHANGED rvars PROVE ResourceInv'
  OBVIOUS
<1>1. rep' = rep /\ table' = table /\ wrapper' = wrapper /\ call' = call /\ dead' = dead
  BY DEF rvars
<1>. QED  BY <1>1 DEF ResourceInv, Deferring

-----------------------------------------------------------------------------
(* What it says of the properties.                                             *)

\* The cardinality of a set of one element at most.
LEMMA AtMostOne ==
  ASSUME NEW S, \A x, y \in S : x = y
  PROVE  /\ S # {} => Cardinality(S) = 1
         /\ S = {} => Cardinality(S) = 0
<1>1. ASSUME S # {} PROVE Cardinality(S) = 1
  <2>1. PICK x : x \in S
    BY <1>1
  <2>2. S = {x}
    BY <2>1
  <2>. QED  BY <2>2, FS_Singleton
<1>. QED  BY <1>1, FS_EmptySet

\* The places in use, as the model of resources sees them.
LEMMA UsedPlaces ==
  ASSUME ResourceInv
  PROVE  /\ \A i \in Insts : \A s \in Spots : HeldIn(table)[i][s].rep # 0 =>
              /\ <<i, s>> \in R!Places /\ s \in R!Used(i) /\ R!Handle(i, s) = HeldIn(table)[i][s]
         /\ \A i \in Insts : \A s \in R!Used(i) :
              /\ s \in Spots /\ s \in DOMAIN table[i].slots
              /\ R!Handle(i, s) = HeldIn(table)[i][s] /\ HeldIn(table)[i][s].rep # 0
<1>1. IsTables(table)
  BY DEF ResourceInv, Stands
<1>2. ASSUME NEW i \in Insts, NEW s \in Spots, HeldIn(table)[i][s].rep # 0
      PROVE  <<i, s>> \in R!Places /\ s \in R!Used(i) /\ R!Handle(i, s) = HeldIn(table)[i][s]
  <2>1. HeldIn(table)[i][s] = At(table[i], s)
    BY <1>1, HeldAt
  <2>2. s \in DOMAIN table[i].slots /\ HeldIn(table)[i][s] = table[i].slots[s]
    BY <1>2, <2>1, Records DEF At, IsHandle
  <2>3. table[i].slots \in Seq(Handles) /\ Len(table[i].slots) <= MaxSlots
    BY <1>1, TabularFields DEF IsTables, Orderly
  <2>4. s \in 1..MaxSlots
    BY <2>2, <2>3, ResourceAssumption
  <2>. QED  BY <1>2, <2>2, <2>4 DEF R!Places, R!Used, R!Handle
<1>3. ASSUME NEW i \in Insts, NEW s \in R!Used(i)
      PROVE  /\ s \in Spots /\ s \in DOMAIN table[i].slots
             /\ R!Handle(i, s) = HeldIn(table)[i][s] /\ HeldIn(table)[i][s].rep # 0
  BY <1>1, UsedAt
<1>. QED  BY <1>2, <1>3

\* A representation has one owner.
LEMMA OwnersCounted == ResourceInv => R!OneOwner
<1> SUFFICES ASSUME ResourceInv PROVE R!OneOwner
  OBVIOUS
<1> DEFINE hd == HeldIn(table)
<1>1. /\ Holding(rep, hd, wrapper, call, dead, 0)
      /\ hd \in [Insts -> [Spots -> Handles]] /\ call \in [CallNumbers -> CallRecords]
      /\ rep \in [RepNumbers -> [at : {"unborn", "alive", "gone"}, ran : 0..1]]
  BY DEF ResourceInv, Stands, Holding, Typed
<1>2. \A S : R!Cardinality(S) = Cardinality(S)
  BY Zenon DEF R!Cardinality, Cardinality
<1>3. SUFFICES ASSUME NEW r \in RepNumbers
               PROVE  /\ rep[r].at = "alive" => R!Owners(r) = 1 \/ (R!Owners(r) = 0 /\ dead # {})
                      /\ rep[r].at # "alive" => R!Owners(r) = 0
  BY DEF R!OneOwner
<1> DEFINE H == R!OwningHandles(r)
           W == {w \in Wrappers : wrapper[w].rep = r /\ wrapper[w].owns /\ (wrapper[w].valid \/ wrapper[w].pending)}
           K == {k \in CallNumbers : call[k].own = r /\ call[k].at \in {"waiting", "returned"}}
<1>4. R!Owners(r) = Cardinality(H) + Cardinality(W) + Cardinality(K)
  BY <1>2 DEF R!Owners
<1>5. r # 0
  BY ResourceAssumption
<1>6. /\ \A p \in H : \E i \in Insts : \E s \in Spots : p = <<i, s>> /\ hd[i][s].own /\ hd[i][s].rep = r
      /\ \A i \in Insts : \A s \in Spots : hd[i][s].own /\ hd[i][s].rep = r => <<i, s>> \in H
  <2>1. ASSUME NEW p \in H
        PROVE  \E i \in Insts : \E s \in Spots : p = <<i, s>> /\ hd[i][s].own /\ hd[i][s].rep = r
    <3>1. /\ p \in Insts \X (1..MaxSlots) /\ p[2] \in R!Used(p[1])
          /\ R!Handle(p[1], p[2]).own /\ R!Handle(p[1], p[2]).rep = r
      BY DEF R!OwningHandles, R!Places
    <3>2. p = <<p[1], p[2]>> /\ p[1] \in Insts
      BY <3>1
    <3>3. p[2] \in Spots /\ R!Handle(p[1], p[2]) = hd[p[1]][p[2]]
      BY <3>1, <3>2, UsedPlaces
    <3>. QED  BY <3>1, <3>2, <3>3
  <2>2. ASSUME NEW i \in Insts, NEW s \in Spots, hd[i][s].own, hd[i][s].rep = r
        PROVE  <<i, s>> \in H
    <3>1. <<i, s>> \in R!Places /\ s \in R!Used(i) /\ R!Handle(i, s) = hd[i][s]
      BY <1>5, <2>2, UsedPlaces
    <3>. QED  BY <2>2, <3>1 DEF R!OwningHandles
  <2>. QED  BY <2>1, <2>2
<1>7. \A w \in Wrappers : w \in W <=> Owns(wrapper[w]) /\ wrapper[w].rep = r
  BY DEF Owns
<1>8. \A k \in CallNumbers : k \in K <=> call[k].own = r
  BY <1>1, <1>5 DEF Holding, Calling
<1>9. W \subseteq Wrappers /\ K \subseteq CallNumbers
  OBVIOUS
<1> HIDE DEF H, W, K, hd
<1>10. OwnedOnce(hd, wrapper, call, 0) /\ OwnedLives(rep, hd, wrapper, call, 0)
  BY <1>1 DEF Holding
<1>11. \A p, q \in H : p = q
  BY <1>6, <1>10 DEF OwnedOnce
<1>12. \A v, w \in W : v = w
  BY <1>7, <1>9, <1>10 DEF OwnedOnce
<1>13. \A j, k \in K : j = k
  BY <1>5, <1>8, <1>9, <1>10 DEF OwnedOnce
<1>14. /\ H # {} => W = {} /\ K = {}
       /\ W # {} => K = {}
  <2>1. H # {} => W = {}
    BY <1>6, <1>7, <1>9, <1>10 DEF OwnedOnce
  <2>2. H # {} => K = {}
    BY <1>6, <1>8, <1>9, <1>10 DEF OwnedOnce
  <2>3. W # {} => K = {}
    BY <1>7, <1>8, <1>9, <1>10 DEF OwnedOnce
  <2>. QED  BY <2>1, <2>2, <2>3
<1>15. /\ (H # {} => Cardinality(H) = 1) /\ (H = {} => Cardinality(H) = 0)
       /\ (W # {} => Cardinality(W) = 1) /\ (W = {} => Cardinality(W) = 0)
       /\ (K # {} => Cardinality(K) = 1) /\ (K = {} => Cardinality(K) = 0)
  BY <1>11, <1>12, <1>13, AtMostOne
<1>16. H \cup W \cup K # {} => R!Owners(r) = 1
  BY <1>4, <1>14, <1>15
<1>17. H \cup W \cup K = {} => R!Owners(r) = 0
  BY <1>4, <1>15
<1>18. rep[r].at = "alive" => H \cup W \cup K # {} \/ dead # {}
  <2>1. H \cup W \cup K = {} => Ownerless(hd, wrapper, call, 0, r)
    BY <1>5, <1>6, <1>7, <1>8 DEF Ownerless
  <2>. QED  BY <1>1, <2>1 DEF Holding, LivesOwned
<1>19. rep[r].at # "alive" => H \cup W \cup K = {}
  BY <1>5, <1>6, <1>7, <1>8, <1>9, <1>10 DEF OwnedLives
<1>. QED  BY <1>16, <1>17, <1>18, <1>19

\* The types of the model of resources.
LEMMA ResourceTypes == ResourceInv => R!TypeOK
<1> SUFFICES ASSUME ResourceInv PROVE R!TypeOK
  OBVIOUS
<1> DEFINE hd == HeldIn(table)
           n == R!Cardinality(CallNumbers)
<1>1. /\ Holding(rep, hd, wrapper, call, dead, 0) /\ IsTables(table)
      /\ hd \in [Insts -> [Spots -> Handles]] /\ call \in [CallNumbers -> CallRecords]
      /\ rep \in [RepNumbers -> [at : {"unborn", "alive", "gone"}, ran : 0..1]]
      /\ wrapper \in [Wrappers -> WrapperRecords] /\ dead \subseteq Insts
  BY DEF ResourceInv, Stands, Holding, Typed
<1>2. n = Cardinality(CallNumbers)
  BY Zenon DEF R!Cardinality, Cardinality
<1>3. \A by, where : Cardinality(BorrowersIn(call, by, where)) \in 0..n
  <2> SUFFICES ASSUME NEW by, NEW where PROVE Cardinality(BorrowersIn(call, by, where)) \in 0..n
    OBVIOUS
  <2>1. BorrowersIn(call, by, where) \subseteq CallNumbers
    BY DEF BorrowersIn
  <2>2. /\ IsFiniteSet(BorrowersIn(call, by, where))
        /\ Cardinality(BorrowersIn(call, by, where)) <= Cardinality(CallNumbers)
    BY <2>1, FS_Subset, ResourceAssumption
  <2>3. Cardinality(BorrowersIn(call, by, where)) \in Nat /\ Cardinality(CallNumbers) \in Nat
    BY <2>2, FS_CardinalityType, ResourceAssumption
  <2>. QED  BY <1>2, <2>2, <2>3
<1>4. /\ \A i \in Insts : \A s \in Spots : hd[i][s].lends \in 0..n
      /\ \A w \in Wrappers : wrapper[w].lends \in 0..n
  BY <1>1, <1>3 DEF Holding, Counted
<1> HIDE DEF n
<1>5. ASSUME NEW i \in Insts
      PROVE  /\ \A s \in DOMAIN table[i].slots : R!Handle(i, s) \in
                  [rep : RepNumbers \cup {0}, own : BOOLEAN, lends : 0..n, scope : CallNumbers \cup {0}]
             /\ R!ToSet(table[i].free) = DOMAIN table[i].slots \ R!Used(i)
             /\ R!IsInjective(table[i].free)
  <2>1. Orderly(table[i])
    BY <1>1 DEF IsTables
  <2>2. ASSUME NEW s \in DOMAIN table[i].slots
        PROVE  R!Handle(i, s) \in [rep : RepNumbers \cup {0}, own : BOOLEAN, lends : 0..n, scope : CallNumbers \cup {0}]
    <3>1. s \in Spots /\ R!Handle(i, s) = hd[i][s]
      BY <1>1, HeldAt DEF R!Handle
    <3>2. hd[i][s] \in Handles /\ hd[i][s].lends \in 0..n
      BY <1>1, <1>4, <3>1
    <3> HIDE DEF hd
    <3>. QED  BY <3>1, <3>2 DEF Handles
  <2>3. R!ToSet(table[i].free) = DOMAIN table[i].slots \ R!Used(i)
    BY <2>1 DEF R!ToSet, R!Used, Orderly
  <2>4. R!IsInjective(table[i].free)
    BY <2>1 DEF R!IsInjective, Orderly
  <2>. QED  BY <2>2, <2>3, <2>4
<1>6. \A w \in Wrappers : wrapper[w].rep \in RepNumbers \cup {0} /\ wrapper[w].lends \in 0..n
  BY <1>1, <1>4 DEF WrapperRecords
<1>7. \A k \in CallNumbers : /\ call[k].at \in {"none", "waiting", "running", "returned", "failed"}
                             /\ call[k].borrows \in 0..1
  BY <1>1 DEF CallRecords
<1>. QED  BY <1>1, <1>5, <1>6, <1>7 DEF R!TypeOK, n

\* Lends and borrows are counted right.
LEMMA LendsCounted == ResourceInv => R!LendsExact
<1> SUFFICES ASSUME ResourceInv PROVE R!LendsExact
  OBVIOUS
<1> DEFINE hd == HeldIn(table)
           Scoped(k) == {p \in R!Places : p[2] \in R!Used(p[1]) /\ R!Handle(p[1], p[2]).scope = k}
<1>1. /\ Holding(rep, hd, wrapper, call, dead, 0)
      /\ hd \in [Insts -> [Spots -> Handles]] /\ call \in [CallNumbers -> CallRecords] /\ Deferring
  BY DEF ResourceInv, Stands, Holding, Typed
<1>2. \A S : R!Cardinality(S) = Cardinality(S)
  BY Zenon DEF R!Cardinality, Cardinality
<1>3. \A by, where : R!Borrowers(by, where) = BorrowersIn(call, by, where)
  BY DEF R!Borrowers, BorrowersIn
<1>4. \A i \in Insts : \A s \in R!Used(i) : R!Handle(i, s).lends = R!Cardinality(R!Borrowers(i, s))
  <2> SUFFICES ASSUME NEW i \in Insts, NEW s \in R!Used(i)
               PROVE  R!Handle(i, s).lends = R!Cardinality(R!Borrowers(i, s))
    OBVIOUS
  <2>1. s \in Spots /\ R!Handle(i, s) = hd[i][s]
    BY UsedPlaces
  <2>2. hd[i][s].lends = Cardinality(BorrowersIn(call, i, s))
    BY <1>1, <2>1 DEF Holding, Counted
  <2> HIDE DEF hd
  <2>. QED  BY <1>2, <1>3, <2>1, <2>2
<1>5. \A w \in Wrappers : wrapper[w].lends = R!Cardinality(R!Borrowers(Host, w))
  BY <1>1, <1>2, <1>3 DEF Holding, Counted
<1>6. ASSUME NEW k \in CallNumbers, call[k].at = "running", call[k].to \notin dead
      PROVE  LET given == R!Cardinality({p \in R!Places : p[2] \in R!Used(p[1]) /\ R!Handle(p[1], p[2]).scope = k})
             IN  call[k].borrows = given \/ (dead # {} /\ call[k].borrows > given)
  <2>1. k # 0
    BY ResourceAssumption
  <2>2. /\ \A p \in Scoped(k) : \E i \in Insts : \E s \in Spots : p = <<i, s>> /\ hd[i][s].scope = k
        /\ \A i \in Insts : \A s \in Spots : hd[i][s].scope = k => <<i, s>> \in Scoped(k)
    <3>1. ASSUME NEW p \in Scoped(k)
          PROVE  \E i \in Insts : \E s \in Spots : p = <<i, s>> /\ hd[i][s].scope = k
      <4>1. /\ p \in Insts \X (1..MaxSlots) /\ p[2] \in R!Used(p[1]) /\ R!Handle(p[1], p[2]).scope = k
        BY DEF R!Places
      <4>2. p = <<p[1], p[2]>> /\ p[1] \in Insts
        BY <4>1
      <4>3. p[2] \in Spots /\ R!Handle(p[1], p[2]) = hd[p[1]][p[2]]
        BY <4>1, <4>2, UsedPlaces
      <4>. QED  BY <4>1, <4>2, <4>3
    <3>2. ASSUME NEW i \in Insts, NEW s \in Spots, hd[i][s].scope = k
          PROVE  <<i, s>> \in Scoped(k)
      <4>1. hd[i][s].rep # 0
        BY <1>1, <2>1, <3>2 DEF Holding, Kinds2
      <4>2. <<i, s>> \in R!Places /\ s \in R!Used(i) /\ R!Handle(i, s) = hd[i][s]
        BY <4>1, UsedPlaces
      <4>. QED  BY <3>2, <4>2
    <3>. QED  BY <3>1, <3>2
  <2> HIDE DEF Scoped, hd
  <2>3. \A p, q \in Scoped(k) : p = q
    BY <1>1, <2>1, <2>2 DEF Holding, Borrowing
  <2>4. (Scoped(k) # {} => Cardinality(Scoped(k)) = 1) /\ (Scoped(k) = {} => Cardinality(Scoped(k)) = 0)
    BY <2>3, AtMostOne
  <2>5. Scoped(k) # {} => call[k].borrows = 1
    BY <1>1, <1>6, <2>1, <2>2 DEF Holding, Borrowing
  <2>6. dead = {} /\ call[k].borrows = 1 => Scoped(k) # {}
    BY <1>1, <1>6, <2>2 DEF Holding, Borrowing
  <2>7. call[k].borrows \in 0..1
    BY <1>1 DEF CallRecords
  <2>8. call[k].borrows = Cardinality(Scoped(k)) \/ (dead # {} /\ call[k].borrows > Cardinality(Scoped(k)))
    BY <2>4, <2>5, <2>6, <2>7
  <2>. QED  BY <1>2, <2>8 DEF Scoped
<1>7. \A w \in Wrappers : wrapper[w].pending => wrapper[w].lends > 0
  BY <1>1 DEF Deferring
<1>. QED  BY <1>4, <1>5, <1>6, <1>7 DEF R!LendsExact

\* What a call goes on with is alive.
LEMMA BorrowsLive == ResourceInv => R!BorrowAlive /\ R!HandlesAlive
<1> SUFFICES ASSUME ResourceInv PROVE R!BorrowAlive /\ R!HandlesAlive
  OBVIOUS
<1> DEFINE hd == HeldIn(table)
<1>1. Holding(rep, hd, wrapper, call, dead, 0)
  BY DEF ResourceInv, Stands
<1>2. \A k : R!Keeps(k) <=> Lasting(call, dead, k)
  BY DEF R!Keeps, R!GoesOn, R!Root, Lasting
<1>3. \A k \in CallNumbers : R!Keeps(k) => \A l \in call[k].lent : rep[l.rep].at = "alive"
  BY <1>1, <1>2 DEF Holding, Living
<1>4. \A w \in Wrappers : wrapper[w].valid /\ (wrapper[w].scope = 0 \/ R!Keeps(wrapper[w].scope))
                          => rep[wrapper[w].rep].at = "alive"
  <2> SUFFICES ASSUME NEW w \in Wrappers, wrapper[w].valid, wrapper[w].scope = 0 \/ R!Keeps(wrapper[w].scope)
               PROVE  rep[wrapper[w].rep].at = "alive"
    OBVIOUS
  <2>1. CASE wrapper[w].scope = 0
    <3>1. Owns(wrapper[w])
      BY <1>1, <2>1 DEF Holding, Wrapping, Owns
    <3>. QED  BY <1>1, <3>1 DEF Holding, OwnedLives
  <2>2. CASE wrapper[w].scope # 0
    <3>1. wrapper[w].scope \in CallNumbers
      BY <1>1, <2>2 DEF Holding, Typed, WrapperRecords
    <3>2. \E l \in call[wrapper[w].scope].lent : l.rep = wrapper[w].rep
      BY <1>1, <2>2 DEF Holding, Wrapping
    <3>. QED  BY <1>3, <2>2, <3>1, <3>2
  <2>. QED  BY <2>1, <2>2
<1>5. \A i \in Insts : \A s \in R!Used(i) :
        R!Handle(i, s).own \/ R!Keeps(R!Handle(i, s).scope) => rep[R!Handle(i, s).rep].at = "alive"
  <2> SUFFICES ASSUME NEW i \in Insts, NEW s \in R!Used(i), R!Handle(i, s).own \/ R!Keeps(R!Handle(i, s).scope)
               PROVE  rep[R!Handle(i, s).rep].at = "alive"
    OBVIOUS
  <2>1. s \in Spots /\ R!Handle(i, s) = hd[i][s] /\ hd[i][s].rep # 0 /\ hd[i][s] \in Handles
    <3>1. s \in Spots /\ R!Handle(i, s) = hd[i][s] /\ hd[i][s].rep # 0
      BY UsedPlaces
    <3>. QED  BY <1>1, <3>1 DEF Holding, Typed
  <2> HIDE DEF hd
  <2>2. CASE hd[i][s].own
    BY <1>1, <2>1, <2>2 DEF Holding, OwnedLives
  <2>3. CASE ~hd[i][s].own
    <3> DEFINE k == hd[i][s].scope
    <3>1. k # 0 /\ k \in CallNumbers
      BY <1>1, <2>1, <2>3 DEF Holding, Kinds2, Handles
    <3>2. R!Keeps(k)
      BY <2>1, <2>3
    <3>3. call[k].at # "none"
      BY <3>2 DEF R!Keeps, R!GoesOn
    <3>4. \E l \in call[k].lent : l.rep = hd[i][s].rep
      BY <1>1, <2>1, <3>1, <3>3 DEF Holding, Borrowing
    <3> HIDE DEF k
    <3>. QED  BY <1>3, <2>1, <3>1, <3>2, <3>4
  <2>. QED  BY <2>2, <2>3
<1>. QED  BY <1>3, <1>4, <1>5 DEF R!BorrowAlive, R!HandlesAlive

\* In every behaviour of the store.
LEMMA ResourcesHold == StoreSpec => []ResourceInv
<1>1. StoreStarted => ResourceInv
  BY ResourceStarts DEF StoreStarted
<1>2. ResourceInv /\ [StoreStep]_<<part, storeVars>> => ResourceInv'
  <2> SUFFICES ASSUME ResourceInv, [StoreStep]_<<part, storeVars>> PROVE ResourceInv'
    OBVIOUS
  <2>1. CASE UNCHANGED <<part, storeVars>>
    BY <2>1, ResourceRests DEF storeVars
  <2>2. CASE StoreStep
    <3>1. R!Next \/ UNCHANGED rvars
      BY <2>2 DEF StoreStep
    <3>. QED  BY <3>1, ResourceSteps, ResourceRests
  <2>. QED  BY <2>1, <2>2
<1>. QED  BY <1>1, <1>2, PTL DEF StoreSpec

-----------------------------------------------------------------------------
(* The registry of the host's own resources.                                   *)

\* What a call was passed, and what a guest holds of the host's own resources.
Objectives == [object : Objects \cup {None}, rep : 0..MaxReps, releases : BOOLEAN]
GuestHandles == [call : Lowerings, rep : 1..MaxReps, own : BOOLEAN, object : Objects]

\* The types.
RegistryTyped ==
  /\ byRep \in [1..MaxReps -> Objects \cup {None}] /\ byInstance \in [Objects -> 0..MaxReps]
  /\ passed \in [Lowerings -> Objectives] /\ handles \in SUBSET GuestHandles
  /\ shared \in SUBSET (1..MaxReps)

\* The weak direction is that of the strong one, and of one object each.
Directed ==
  /\ \A r \in 1..MaxReps : byRep[r] # None => byInstance[byRep[r]] = r
  /\ \A o, p \in Objects : byInstance[o] # 0 /\ byInstance[o] = byInstance[p] => o = p

\* A handle leads to its object or nowhere; a borrow is of a call under way.
Registered ==
  /\ \A h \in handles : byRep[h.rep] \in {h.object, None}
  /\ \A h \in handles : ~h.own => passed[h.call].object = h.object /\ passed[h.call].rep = h.rep

\* What a call will release is a representation of its object.
Releasing == \A k \in Lowerings : passed[k].releases => passed[k].rep # 0 /\ passed[k].object # None

\* Who is to release a representation.
Owner(h, r) == h.own /\ h.rep = r
Ender(k, r) == passed[k].releases /\ passed[k].rep = r

\* One that was lowered as an own once, at most, has one who is to release it.
Sole ==
  \A r \in (1..MaxReps) \ shared :
    /\ \A g, h \in handles : Owner(g, r) /\ Owner(h, r) => g = h
    /\ \A j, k \in Lowerings : Ender(j, r) /\ Ender(k, r) => j = k
    /\ \A h \in handles, k \in Lowerings : ~(Owner(h, r) /\ Ender(k, r))

\* What is registered is to be released, and what one alone is to release is registered.
Kept ==
  /\ \A r \in 1..MaxReps : byRep[r] # None => G!Held(r)
  /\ \A r \in (1..MaxReps) \ shared : G!Held(r) => byRep[r] # None

\* All of it.
RegistryInv == RegistryTyped /\ Directed /\ Registered /\ Releasing /\ Sole /\ Kept

\* A nonempty set of positions has a first one.
LEMMA FirstOf ==
  ASSUME NEW n \in Nat, NEW S \in SUBSET (1..n), S # {}
  PROVE  \E i \in S : \A j \in S : i <= j
<1>1. S \subseteq Nat
  OBVIOUS
<1>2. PICK i \in S : \A j \in S : ~(<<j, i>> \in OpToRel(<, Nat))
  BY <1>1, WFMin, NatLessThanWellFounded
<1>3. \A j \in S : ~(j < i)
  BY <1>1, <1>2 DEF OpToRel
<1> QED BY <1>1, <1>3

\* The two ways to be held.
LEMMA HeldBy ==
  ASSUME NEW r
  PROVE  G!Held(r) <=> (\E h \in handles : Owner(h, r)) \/ (\E k \in Lowerings : Ender(k, r))
BY DEF G!Held, Owner, Ender

\* A registered object is registered with the representation of its weak entry, and no other.
LEMMA OneRep ==
  ASSUME RegistryInv, NEW o \in Objects
  PROVE  /\ G!HasInstance(o) => byInstance[o] \in 1..MaxReps /\ byRep[byInstance[o]] = o
         /\ ~G!HasInstance(o) => \A r \in 1..MaxReps : byRep[r] # o
<1> USE RegistryAssumption
<1>1. ASSUME G!HasInstance(o) PROVE byInstance[o] \in 1..MaxReps /\ byRep[byInstance[o]] = o
  <2>1. byInstance[o] \in 1..MaxReps /\ byRep[byInstance[o]] # None
    BY <1>1 DEF G!HasInstance, RegistryInv, RegistryTyped
  <2>2. byRep[byInstance[o]] \in Objects /\ byInstance[byRep[byInstance[o]]] = byInstance[o]
    BY <2>1 DEF RegistryInv, RegistryTyped, Directed
  <2>. QED  BY <2>1, <2>2 DEF RegistryInv, Directed
<1>2. ASSUME ~G!HasInstance(o), NEW r \in 1..MaxReps, byRep[r] = o PROVE FALSE
  <2>1. byInstance[o] = r /\ r # 0
    BY <1>2 DEF RegistryInv, Directed
  <2>. QED  BY <1>2, <2>1 DEF G!HasInstance
<1>. QED  BY <1>1, <1>2

\* A new representation is one that nothing names.
LEMMA Minted ==
  ASSUME RegistryInv, NEW o \in Objects, ~G!HasInstance(o), G!Unminted # {}
  PROVE  /\ G!RepFor(o) \in 1..MaxReps /\ byRep[G!RepFor(o)] = None
         /\ \A p \in Objects : byInstance[p] # G!RepFor(o)
         /\ \A h \in handles : h.rep # G!RepFor(o)
         /\ \A k \in Lowerings : passed[k].rep # G!RepFor(o)
<1> USE RegistryAssumption
<1>1. G!Unminted \subseteq 1..MaxReps
  BY DEF G!Unminted, G!Reps, RegistryInv, RegistryTyped
<1>2. \E r \in G!Unminted : \A q \in G!Unminted : r <= q
  BY <1>1, FirstOf
<1>3. G!NextRep \in G!Unminted
  BY <1>2 DEF G!NextRep
<1>4. G!RepFor(o) \in G!Unminted
  BY <1>3 DEF G!RepFor
<1>. QED  BY <1>1, <1>4 DEF G!Unminted

\* A call brings the guest a handle of an object that was not registered.
LEMMA MintKeeps ==
  ASSUME RegistryInv, NEW k \in Lowerings, NEW o \in Objects, NEW own \in BOOLEAN, G!Lower(k, o, own),
         ~G!HasInstance(o)
  PROVE  RegistryInv'
<1> USE RegistryAssumption
<1> DEFINE r == G!RepFor(o)
           new == [call |-> k, rep |-> r, own |-> own, object |-> o]
           low == [object |-> o, rep |-> r, releases |-> ~own]
<1>1. /\ r \in 1..MaxReps /\ byRep[r] = None
      /\ \A p \in Objects : byInstance[p] # r
      /\ \A h \in handles : h.rep # r
      /\ \A j \in Lowerings : passed[j].rep # r
      /\ \A q \in 1..MaxReps : byRep[q] # o
  BY Minted, OneRep DEF G!Lower
<1>2. /\ passed[k].object = None /\ \A h \in handles : h.call # k
      /\ passed' = [passed EXCEPT ![k] = low]
      /\ byRep' = [byRep EXCEPT ![r] = o] /\ byInstance' = [byInstance EXCEPT ![o] = r]
      /\ handles' = handles \cup {new} /\ shared' = shared \ {r}
  <2>1. (~own /\ ~G!HasInstance(o)) = ~own
    OBVIOUS
  <2>. QED  BY <2>1 DEF G!Lower
<1> HIDE DEF r
<1>3. RegistryTyped
  BY DEF RegistryInv
<1>4. /\ low \in Objectives /\ low.object = o /\ low.rep = r /\ low.releases = ~own
      /\ new \in GuestHandles /\ new.call = k /\ new.rep = r /\ new.own = own /\ new.object = o
  BY <1>1 DEF Objectives, GuestHandles
<1> HIDE DEF low, new
<1>5. RegistryTyped'
  <2>1. byRep' \in [1..MaxReps -> Objects \cup {None}] /\ byInstance' \in [Objects -> 0..MaxReps]
    BY <1>1, <1>2, <1>3 DEF RegistryTyped
  <2>2. passed' \in [Lowerings -> Objectives]
    BY <1>2, <1>3, <1>4 DEF RegistryTyped
  <2>3. handles' \in SUBSET GuestHandles /\ shared' \in SUBSET (1..MaxReps)
    BY <1>2, <1>3, <1>4 DEF RegistryTyped
  <2>. QED  BY <2>1, <2>2, <2>3 DEF RegistryTyped
<1>6. /\ \A q \in 1..MaxReps : byRep'[q] = IF q = r THEN o ELSE byRep[q]
      /\ \A p \in Objects : byInstance'[p] = IF p = o THEN r ELSE byInstance[p]
      /\ \A j \in Lowerings : passed'[j] = IF j = k THEN low ELSE passed[j]
  BY <1>1, <1>2, <1>3 DEF RegistryTyped
<1>7. Directed'
  BY <1>1, <1>3, <1>6 DEF RegistryInv, Directed, RegistryTyped
<1>8. \A h \in handles : h.rep \in 1..MaxReps /\ h.call \in Lowerings
  BY <1>3 DEF RegistryTyped, GuestHandles
<1>9. Registered'
  <2>1. ASSUME NEW h \in handles'
        PROVE  /\ byRep'[h.rep] \in {h.object, None}
               /\ ~h.own => passed'[h.call].object = h.object /\ passed'[h.call].rep = h.rep
    <3>1. CASE h \in handles
      BY <1>1, <1>2, <1>6, <1>8, <3>1 DEF RegistryInv, Registered
    <3>2. CASE h = new
      BY <1>1, <1>4, <1>6, <3>2
    <3>. QED  BY <1>2, <3>1, <3>2
  <2>. QED  BY <2>1 DEF Registered
<1>10. Releasing'
  BY <1>1, <1>4, <1>6 DEF RegistryInv, Releasing
<1>11. /\ \A h \in handles', q \in 1..MaxReps :
            Owner(h, q) <=> (IF h = new THEN own /\ q = r ELSE h \in handles /\ Owner(h, q))
       /\ \A h \in handles : ~Owner(h, r) /\ h # new
       /\ \A j \in Lowerings : ~Ender(j, r)
       /\ \A j \in Lowerings, q \in 1..MaxReps :
            Ender(j, q)' <=> (IF j = k THEN ~own /\ q = r ELSE Ender(j, q))
       /\ \A q \in 1..MaxReps : ~Ender(k, q)
  <2>1. ~passed[k].releases
    BY <1>2 DEF RegistryInv, Releasing
  <2>2. \A h \in handles : ~Owner(h, r) /\ h # new
    BY <1>1, <1>4 DEF Owner
  <2>3. \A h \in handles' : h = new \/ h \in handles
    BY <1>2
  <2>4. \A q \in 1..MaxReps : Owner(new, q) <=> own /\ q = r
    BY <1>4 DEF Owner
  <2>5. (\A j \in Lowerings : ~Ender(j, r)) /\ \A q \in 1..MaxReps : ~Ender(k, q)
    BY <1>1, <2>1 DEF Ender
  <2>6. \A q \in 1..MaxReps : Ender(k, q)' <=> ~own /\ q = r
    BY <1>4, <1>6 DEF Ender
  <2>7. \A j \in Lowerings, q \in 1..MaxReps : j # k => (Ender(j, q)' <=> Ender(j, q))
    BY <1>6 DEF Ender
  <2>. QED  BY <2>2, <2>3, <2>4, <2>5, <2>6, <2>7
<1>12. Sole'
  <2> SUFFICES ASSUME NEW q \in 1..MaxReps, q \notin shared'
               PROVE  /\ \A g, h \in handles' : Owner(g, q) /\ Owner(h, q) => g = h
                      /\ \A j, m \in Lowerings : Ender(j, q)' /\ Ender(m, q)' => j = m
                      /\ \A h \in handles', j \in Lowerings : ~(Owner(h, q) /\ Ender(j, q)')
    BY DEF Sole, Owner
  <2>1. CASE q = r
    BY <1>11, <2>1
  <2>2. CASE q # r
    <3>1. q \notin shared
      BY <1>2, <2>2
    <3>. QED  BY <1>11, <2>2, <3>1 DEF RegistryInv, Sole
  <2>. QED  BY <2>1, <2>2
<1>13. \A q \in 1..MaxReps : G!Held(q)' <=> (q = r \/ G!Held(q))
  <2> SUFFICES ASSUME NEW q \in 1..MaxReps PROVE G!Held(q)' <=> (q = r \/ G!Held(q))
    OBVIOUS
  <2>1. G!Held(q)' <=> (\E h \in handles' : Owner(h, q)) \/ (\E j \in Lowerings : Ender(j, q)')
    BY DEF G!Held, Owner, Ender
  <2>2. (\E h \in handles' : Owner(h, q)) <=> (own /\ q = r) \/ (\E h \in handles : Owner(h, q))
    BY <1>2, <1>11
  <2>3. (\E j \in Lowerings : Ender(j, q)') <=> (~own /\ q = r) \/ (\E j \in Lowerings : Ender(j, q))
    BY <1>11
  <2>. QED  BY <2>1, <2>2, <2>3, HeldBy
<1>14. Kept'
  <2>1. \A q \in 1..MaxReps : byRep'[q] # None => G!Held(q)'
    BY <1>6, <1>13 DEF RegistryInv, Kept
  <2>2. \A q \in (1..MaxReps) \ shared' : G!Held(q)' => byRep'[q] # None
    BY <1>1, <1>2, <1>6, <1>13 DEF RegistryInv, Kept
  <2>. QED  BY <2>1, <2>2 DEF Kept
<1>. QED  BY <1>5, <1>7, <1>9, <1>10, <1>12, <1>14 DEF RegistryInv

\* A call brings the guest a handle of an object that is registered.
LEMMA ReuseKeeps ==
  ASSUME RegistryInv, NEW k \in Lowerings, NEW o \in Objects, NEW own \in BOOLEAN, G!Lower(k, o, own),
         G!HasInstance(o)
  PROVE  RegistryInv'
<1> USE RegistryAssumption
<1> DEFINE r == byInstance[o]
           new == [call |-> k, rep |-> r, own |-> own, object |-> o]
           low == [object |-> o, rep |-> r, releases |-> FALSE]
<1>1. r \in 1..MaxReps /\ byRep[r] = o /\ RegistryTyped /\ o # None
  BY OneRep DEF RegistryInv
<1>2. /\ passed[k].object = None /\ \A h \in handles : h.call # k
      /\ passed' = [passed EXCEPT ![k] = low]
      /\ byRep' = byRep /\ byInstance' = byInstance
      /\ handles' = handles \cup {new} /\ shared' = IF own THEN shared \cup {r} ELSE shared
  <2>1. (~own /\ ~G!HasInstance(o)) = FALSE /\ G!RepFor(o) = r
    BY DEF G!RepFor
  <2>2. [byRep EXCEPT ![r] = o] = byRep /\ [byInstance EXCEPT ![o] = r] = byInstance
    BY <1>1 DEF RegistryTyped
  <2>. QED  BY <2>1, <2>2 DEF G!Lower
<1> HIDE DEF r
<1>4. /\ low \in Objectives /\ low.object = o /\ low.rep = r /\ low.releases = FALSE
      /\ new \in GuestHandles /\ new.call = k /\ new.rep = r /\ new.own = own /\ new.object = o
  BY <1>1 DEF Objectives, GuestHandles
<1> HIDE DEF low, new
<1>5. RegistryTyped'
  BY <1>1, <1>2, <1>4 DEF RegistryTyped
<1>6. \A j \in Lowerings : passed'[j] = IF j = k THEN low ELSE passed[j]
  BY <1>1, <1>2 DEF RegistryTyped
<1>7. Directed'
  BY <1>2 DEF RegistryInv, Directed
<1>8. \A h \in handles : h.rep \in 1..MaxReps /\ h.call \in Lowerings
  BY <1>1 DEF RegistryTyped, GuestHandles
<1>9. Registered'
  <2>1. ASSUME NEW h \in handles'
        PROVE  /\ byRep'[h.rep] \in {h.object, None}
               /\ ~h.own => passed'[h.call].object = h.object /\ passed'[h.call].rep = h.rep
    <3>1. CASE h \in handles
      BY <1>2, <1>6, <1>8, <3>1 DEF RegistryInv, Registered
    <3>2. CASE h = new
      BY <1>1, <1>2, <1>4, <1>6, <3>2
    <3>. QED  BY <1>2, <3>1, <3>2
  <2>. QED  BY <2>1 DEF Registered
<1>10. Releasing'
  BY <1>4, <1>6 DEF RegistryInv, Releasing
<1>11. /\ \A h \in handles', q \in 1..MaxReps :
            Owner(h, q) <=> (IF h = new THEN own /\ q = r ELSE h \in handles /\ Owner(h, q))
       /\ \A h \in handles : h # new
       /\ \A j \in Lowerings, q \in 1..MaxReps : Ender(j, q)' <=> Ender(j, q)
  <2>1. ~passed[k].releases
    BY <1>2 DEF RegistryInv, Releasing
  <2>. QED  BY <1>2, <1>4, <1>6, <2>1 DEF Owner, Ender
<1>12. Sole'
  <2> SUFFICES ASSUME NEW q \in 1..MaxReps, q \notin shared'
               PROVE  /\ \A g, h \in handles' : Owner(g, q) /\ Owner(h, q) => g = h
                      /\ \A j, m \in Lowerings : Ender(j, q)' /\ Ender(m, q)' => j = m
                      /\ \A h \in handles', j \in Lowerings : ~(Owner(h, q) /\ Ender(j, q)')
    BY DEF Sole, Owner
  <2>1. q \notin shared /\ (own => q # r)
    BY <1>2
  <2>2. \A h \in handles' : Owner(h, q) => h \in handles
    BY <1>11, <2>1
  <2>. QED  BY <1>11, <2>1, <2>2 DEF RegistryInv, Sole
<1>13. \A q \in 1..MaxReps : G!Held(q)' <=> ((own /\ q = r) \/ G!Held(q))
  <2> SUFFICES ASSUME NEW q \in 1..MaxReps PROVE G!Held(q)' <=> ((own /\ q = r) \/ G!Held(q))
    OBVIOUS
  <2>1. G!Held(q)' <=> (\E h \in handles' : Owner(h, q)) \/ (\E j \in Lowerings : Ender(j, q)')
    BY DEF G!Held, Owner, Ender
  <2>2. (\E h \in handles' : Owner(h, q)) <=> (own /\ q = r) \/ (\E h \in handles : Owner(h, q))
    BY <1>2, <1>11
  <2>3. (\E j \in Lowerings : Ender(j, q)') <=> (\E j \in Lowerings : Ender(j, q))
    BY <1>11
  <2>. QED  BY <2>1, <2>2, <2>3, HeldBy
<1>14. Kept'
  <2>1. \A q \in 1..MaxReps : byRep'[q] # None => G!Held(q)'
    BY <1>2, <1>13 DEF RegistryInv, Kept
  <2>2. \A q \in (1..MaxReps) \ shared' : G!Held(q)' => byRep'[q] # None
    BY <1>1, <1>2, <1>13 DEF RegistryInv, Kept
  <2>. QED  BY <2>1, <2>2 DEF Kept
<1>. QED  BY <1>5, <1>7, <1>9, <1>10, <1>12, <1>14 DEF RegistryInv

\* An own leaves the guest, and the registry.
LEMMA OwnLeaves ==
  ASSUME RegistryInv, NEW h \in handles, h.own, handles' = handles \ {h}, byRep' = [byRep EXCEPT ![h.rep] = None],
         byInstance' = byInstance, passed' = passed, shared' = shared
  PROVE  RegistryInv'
<1> USE RegistryAssumption
<1>1. RegistryTyped /\ h.rep \in 1..MaxReps
  BY DEF RegistryInv, RegistryTyped, GuestHandles
<1>2. /\ RegistryTyped' /\ \A q \in 1..MaxReps : byRep'[q] = IF q = h.rep THEN None ELSE byRep[q]
  BY <1>1 DEF RegistryTyped
<1>3. \A g \in handles' : g \in handles /\ g # h /\ g.rep \in 1..MaxReps
  BY <1>1 DEF RegistryTyped, GuestHandles
<1>4. Directed'
  BY <1>2 DEF RegistryInv, Directed
<1>5. Registered' /\ Releasing'
  BY <1>2, <1>3 DEF RegistryInv, Registered, Releasing
<1>6. \A j \in Lowerings, q \in 1..MaxReps : Ender(j, q)' <=> Ender(j, q)
  BY DEF Ender
<1>7. Sole'
  BY <1>3, <1>6 DEF RegistryInv, Sole, Owner
<1>8. ASSUME NEW q \in 1..MaxReps
      PROVE  /\ G!Held(q)' => G!Held(q)
             /\ q # h.rep => (G!Held(q)' <=> G!Held(q))
             /\ q = h.rep /\ q \notin shared => ~G!Held(q)'
  <2>1. G!Held(q)' <=> (\E g \in handles' : Owner(g, q)) \/ (\E j \in Lowerings : Ender(j, q))
    BY DEF G!Held, Owner, Ender
  <2>2. \A g \in handles : g \in handles' \/ g = h
    OBVIOUS
  <2>3. q # h.rep => ~Owner(h, q)
    BY DEF Owner
  <2>4. q = h.rep => Owner(h, q)
    BY DEF Owner
  <2>5. q = h.rep /\ q \notin shared => /\ \A g \in handles' : ~Owner(g, q)
                                       /\ \A j \in Lowerings : ~Ender(j, q)
    BY <1>3, <2>4 DEF RegistryInv, Sole
  <2>. QED  BY <1>3, <2>1, <2>2, <2>3, <2>5, HeldBy
<1>9. Kept'
  <2>1. \A q \in 1..MaxReps : byRep'[q] # None => G!Held(q)'
    BY <1>2, <1>8 DEF RegistryInv, Kept
  <2>2. \A q \in (1..MaxReps) \ shared' : G!Held(q)' => byRep'[q] # None
    BY <1>2, <1>8 DEF RegistryInv, Kept
  <2>. QED  BY <2>1, <2>2 DEF Kept
<1>. QED  BY <1>2, <1>4, <1>5, <1>7, <1>9 DEF RegistryInv

\* The guest drops a borrow.
LEMMA BorrowLeaves ==
  ASSUME RegistryInv, NEW h \in handles, G!DropBorrowed(h)
  PROVE  RegistryInv'
<1>1. ~h.own /\ handles' = handles \ {h} /\ byRep' = byRep /\ byInstance' = byInstance /\ passed' = passed
      /\ shared' = shared
  BY DEF G!DropBorrowed
<1>2. RegistryTyped' /\ Directed' /\ Registered' /\ Releasing'
  BY <1>1 DEF RegistryInv, RegistryTyped, Directed, Registered, Releasing
<1>3. \A r : (\A j \in Lowerings : Ender(j, r)' <=> Ender(j, r)) /\ (\A g \in handles : Owner(g, r) => g \in handles')
  BY <1>1 DEF Owner, Ender
<1>4. Sole'
  BY <1>1, <1>3 DEF RegistryInv, Sole, Owner
<1>5. \A r : G!Held(r)' <=> G!Held(r)
  <2> SUFFICES ASSUME NEW r PROVE G!Held(r)' <=> G!Held(r)
    OBVIOUS
  <2>1. G!Held(r)' <=> (\E g \in handles' : Owner(g, r)) \/ (\E j \in Lowerings : Ender(j, r))
    BY <1>1 DEF G!Held, Owner, Ender
  <2>. QED  BY <1>1, <1>3, <2>1, HeldBy
<1>6. Kept'
  BY <1>1, <1>5 DEF RegistryInv, Kept
<1>. QED  BY <1>2, <1>4, <1>6 DEF RegistryInv

\* The call is over.
LEMMA OverKeeps ==
  ASSUME RegistryInv, NEW k \in Lowerings, G!Over(k)
  PROVE  RegistryInv'
<1> USE RegistryAssumption
<1> DEFINE none == [object |-> None, rep |-> 0, releases |-> FALSE]
           r == passed[k].rep
<1>1. /\ \A h \in handles : h.call = k => h.own
      /\ byRep' = IF passed[k].releases THEN [byRep EXCEPT ![r] = None] ELSE byRep
      /\ passed' = [passed EXCEPT ![k] = none]
      /\ handles' = handles /\ byInstance' = byInstance /\ shared' = shared
  BY DEF G!Over
<1>2. RegistryTyped
  BY DEF RegistryInv
<1>3. none \in Objectives /\ ~none.releases
  BY DEF Objectives
<1> HIDE DEF none
<1>4. passed[k].releases => r \in 1..MaxReps
  <2>1. r \in 0..MaxReps
    BY <1>2 DEF RegistryTyped, Objectives
  <2>. QED  BY <2>1 DEF RegistryInv, Releasing
<1>5. /\ RegistryTyped'
      /\ \A q \in 1..MaxReps : byRep'[q] = IF passed[k].releases /\ q = r THEN None ELSE byRep[q]
      /\ \A j \in Lowerings : passed'[j] = IF j = k THEN none ELSE passed[j]
  <2>1. passed' \in [Lowerings -> Objectives] /\ \A j \in Lowerings : passed'[j] = IF j = k THEN none ELSE passed[j]
    BY <1>1, <1>2, <1>3 DEF RegistryTyped
  <2>2. /\ byRep' \in [1..MaxReps -> Objects \cup {None}]
        /\ \A q \in 1..MaxReps : byRep'[q] = IF passed[k].releases /\ q = r THEN None ELSE byRep[q]
    BY <1>1, <1>2, <1>4 DEF RegistryTyped
  <2>. QED  BY <1>1, <1>2, <2>1, <2>2 DEF RegistryTyped
<1>6. Directed'
  BY <1>1, <1>5 DEF RegistryInv, Directed
<1>7. \A h \in handles : h.rep \in 1..MaxReps /\ h.call \in Lowerings
  BY <1>2 DEF RegistryTyped, GuestHandles
<1>8. Registered'
  <2>1. ASSUME NEW h \in handles
        PROVE  /\ byRep'[h.rep] \in {h.object, None}
               /\ ~h.own => passed'[h.call].object = h.object /\ passed'[h.call].rep = h.rep
    BY <1>1, <1>5, <1>7 DEF RegistryInv, Registered
  <2>. QED  BY <1>1, <2>1 DEF Registered
<1>9. Releasing'
  BY <1>3, <1>5 DEF RegistryInv, Releasing
<1>10. \A j \in Lowerings, q \in 1..MaxReps : Ender(j, q)' <=> (j # k /\ Ender(j, q))
  BY <1>3, <1>5 DEF Ender
<1>11. Sole'
  BY <1>1, <1>10 DEF RegistryInv, Sole, Owner
<1>12. ASSUME NEW q \in 1..MaxReps
       PROVE  /\ G!Held(q)' => G!Held(q)
              /\ ~Ender(k, q) => (G!Held(q)' <=> G!Held(q))
              /\ Ender(k, q) /\ q \notin shared => ~G!Held(q)'
  <2>1. G!Held(q)' <=> (\E g \in handles : Owner(g, q)) \/ (\E j \in Lowerings : Ender(j, q)')
    BY <1>1 DEF G!Held, Owner, Ender
  <2>2. Ender(k, q) /\ q \notin shared => /\ \A g \in handles : ~Owner(g, q)
                                          /\ \A j \in Lowerings : Ender(j, q) => j = k
    BY DEF RegistryInv, Sole
  <2>. QED  BY <1>10, <2>1, <2>2, HeldBy
<1>13. \A q \in 1..MaxReps : Ender(k, q) <=> (passed[k].releases /\ q = r)
  BY DEF Ender
<1>14. Kept'
  <2>1. \A q \in 1..MaxReps : byRep'[q] # None => G!Held(q)'
    BY <1>5, <1>12, <1>13 DEF RegistryInv, Kept
  <2>2. \A q \in (1..MaxReps) \ shared' : G!Held(q)' => byRep'[q] # None
    BY <1>1, <1>5, <1>12, <1>13 DEF RegistryInv, Kept
  <2>. QED  BY <2>1, <2>2 DEF Kept
<1>. QED  BY <1>5, <1>6, <1>8, <1>9, <1>11, <1>14 DEF RegistryInv

\* Nothing in it depends on the collector's work, and a step of another part leaves it.
LEMMA RegistryStays ==
  ASSUME RegistryInv, byRep' = byRep, passed' = passed, handles' = handles, shared' = shared,
         RegistryTyped', Directed'
  PROVE  RegistryInv'
<1>1. Registered' /\ Releasing'
  BY DEF RegistryInv, Registered, Releasing
<1>2. Sole'
  BY DEF RegistryInv, Sole, Owner, Ender
<1>3. Kept'
  BY DEF RegistryInv, Kept, G!Held
<1>. QED  BY <1>1, <1>2, <1>3 DEF RegistryInv

\* Every step keeps the registry.
LEMMA RegistrySteps == RegistryInv /\ G!Next => RegistryInv'
<1> SUFFICES ASSUME RegistryInv, G!Next PROVE RegistryInv'
  OBVIOUS
<1>1. ASSUME NEW k \in Lowerings, G!Over(k) PROVE RegistryInv'
  BY <1>1, OverKeeps
<1>2. ASSUME NEW k \in Lowerings, NEW o \in Objects, NEW own \in BOOLEAN, G!Lower(k, o, own)
      PROVE RegistryInv'
  BY <1>2, MintKeeps, ReuseKeeps
<1>3. ASSUME NEW h \in handles, G!Receive(h) PROVE RegistryInv'
  <2>1. /\ byInstance' = byInstance /\ passed' = passed /\ shared' = shared
        /\ byRep' = IF h.own THEN [byRep EXCEPT ![h.rep] = None] ELSE byRep
        /\ handles' = IF h.own THEN handles \ {h} ELSE handles
    BY <1>3 DEF G!Receive
  <2>2. CASE h.own
    BY <2>1, <2>2, OwnLeaves
  <2>3. CASE ~h.own
    <3>1. byRep' = byRep /\ handles' = handles
      BY <2>1, <2>3
    <3>2. RegistryTyped' /\ Directed'
      BY <2>1, <3>1 DEF RegistryInv, RegistryTyped, Directed
    <3>. QED  BY <2>1, <3>1, <3>2, RegistryStays
  <2>. QED  BY <2>2, <2>3
<1>4. ASSUME NEW h \in handles, G!DropOwned(h) PROVE RegistryInv'
  BY <1>4, OwnLeaves DEF G!DropOwned
<1>5. ASSUME NEW h \in handles, G!DropBorrowed(h) PROVE RegistryInv'
  BY <1>5, BorrowLeaves
<1>6. ASSUME NEW o \in Objects, G!Collect(o) PROVE RegistryInv'
  <2>1. /\ byInstance[o] # 0 /\ ~G!HasInstance(o) /\ byInstance' = [byInstance EXCEPT ![o] = 0]
        /\ byRep' = byRep /\ passed' = passed /\ handles' = handles /\ shared' = shared
    BY <1>6 DEF G!Collect
  <2>2. RegistryTyped'
    BY <2>1, RegistryAssumption DEF RegistryInv, RegistryTyped
  <2>3. \A p \in Objects : byInstance'[p] = IF p = o THEN 0 ELSE byInstance[p]
    BY <2>1 DEF RegistryInv, RegistryTyped
  <2>4. \A r \in 1..MaxReps : byRep[r] # o
    BY <2>1, OneRep
  <2>5. Directed'
    BY <2>1, <2>3, <2>4 DEF RegistryInv, Directed, RegistryTyped
  <2>. QED  BY <2>1, <2>2, <2>5, RegistryStays
<1>. QED  BY <1>1, <1>2, <1>3, <1>4, <1>5, <1>6 DEF G!Next

\* In every behaviour of the store.
LEMMA RegistryHolds == StoreSpec => []RegistryInv
<1>1. StoreStarted => RegistryInv
  <2> SUFFICES ASSUME StoreStarted PROVE RegistryInv
    OBVIOUS
  <2> USE RegistryAssumption
  <2>1. /\ byRep = [r \in 1..MaxReps |-> None] /\ byInstance = [o \in Objects |-> 0]
        /\ passed = [k \in Lowerings |-> [object |-> None, rep |-> 0, releases |-> FALSE]]
        /\ handles = {} /\ shared = {}
    BY DEF StoreStarted, G!Init
  <2>2. RegistryTyped
    BY <2>1 DEF RegistryTyped, Objectives
  <2>3. \A r \in 1..MaxReps : ~G!Held(r) /\ \A k \in Lowerings : ~Ender(k, r)
    BY <2>1 DEF G!Held, Ender
  <2>. QED  BY <2>1, <2>2, <2>3 DEF RegistryInv, Directed, Registered, Releasing, Sole, Kept
<1>2. RegistryInv /\ [StoreStep]_<<part, storeVars>> => RegistryInv'
  <2> SUFFICES ASSUME RegistryInv, [StoreStep]_<<part, storeVars>> PROVE RegistryInv'
    OBVIOUS
  <2>1. G!Next \/ UNCHANGED gvars
    BY DEF StoreStep, storeVars
  <2>2. CASE UNCHANGED gvars
    <3>1. byRep' = byRep /\ byInstance' = byInstance /\ passed' = passed /\ handles' = handles /\ shared' = shared
      BY <2>2 DEF gvars
    <3>2. RegistryTyped' /\ Directed'
      BY <3>1 DEF RegistryInv, RegistryTyped, Directed
    <3>. QED  BY <3>1, <3>2, RegistryStays
  <2>. QED  BY <2>1, <2>2, RegistrySteps
<1>. QED  BY <1>1, <1>2, PTL DEF StoreSpec

\* It is what the property asks of the registry.
LEMMA RegistryMeans == RegistryInv => G!RegistryExact
<1> SUFFICES ASSUME RegistryInv PROVE G!RegistryExact
  OBVIOUS
<1>1. G!Reps = 1..MaxReps
  BY DEF G!Reps, RegistryInv, RegistryTyped
<1>. QED  BY <1>1 DEF G!RegistryExact, RegistryInv, Registered, Kept

-----------------------------------------------------------------------------
(* Results.                                                                    *)

\* The property NothingDangles: no call, handle or wrapper that can still be used stands for a
\* resource whose destructor has run.
THEOREM NothingDanglesEver == StoreSpec => []NothingDangles
<1>1. ResourceInv => NothingDangles
  BY BorrowsLive DEF NothingDangles
<1>. QED  BY <1>1, ResourcesHold, PTL

\* The property OwnersExact: a resource has one owner, lends are counted right, and the registry
\* of the host's own resources has what a guest or a call holds, and nothing else.
THEOREM OwnersAreExact == StoreSpec => []OwnersExact
<1>1. ResourceInv /\ RegistryInv => OwnersExact
  BY ResourceTypes, OwnersCounted, LendsCounted, RegistryMeans DEF OwnersExact
<1>. QED  BY <1>1, ResourcesHold, RegistryHolds, PTL
=============================================================================
