--------------------------- MODULE MCStore_proofs ---------------------------
(* Theorems about what keeps a store: the two caches, the loops that drive it,   *)
(* the registry of the host's own resources and the handle tables.               *)
EXTENDS MCStore, FiniteSetTheorems, TLAPS

-----------------------------------------------------------------------------
(* The compilations that instantiations share.                                 *)

\* Two runs came with the same buffers.
SameBuffers(x, y) == input[x].component = input[y].component /\ input[x].adapter = input[y].adapter

\* How far a compilation is.
Stages == {"none", "pending", "done", "rejected", "failed"}

\* A run that awaits a compilation, or has, came with the buffers it was begun for; the slot
\* says whose compilation it is and what that was begun for.
Shared ==
  /\ compile \in [Runs -> Runs] /\ began \in [Runs -> Stages]
  /\ phase \in [Runs -> {"start", "verified", "refused", "compiling", "instantiated", "failed"}]
  /\ \A x \in Runs : phase[x] \in {"compiling", "instantiated"} => SameBuffers(x, compile[x])
  /\ slot # None =>
       /\ slot.by \in Runs /\ began[slot.by] \in {"pending", "done", "rejected"}
       /\ slot.component = input[slot.by].component /\ slot.adapter = input[slot.by].adapter

\* Every step of the compile cache keeps what it shares: executor.ts, compiledModules.
LEMMA SharedStep == Shared /\ C!Next => Shared'
<1> SUFFICES ASSUME Shared, NEW x \in Runs,
                    C!Verify(x) \/ C!Compile(x) \/ C!Settle(x) \/ C!Forget(x) \/ C!Resume(x)
             PROVE  Shared'
  BY DEF C!Next
<1> USE DEF Shared, SameBuffers, C!Go, Stages
<1>1. CASE C!Verify(x)
  <2>1. phase' \in [Runs -> {"start", "verified", "refused", "compiling", "instantiated", "failed"}]
    BY <1>1 DEF C!Verify
  <2>2. \A y \in Runs : phase'[y] \in {"compiling", "instantiated"} => phase[y] = phase'[y]
    BY <1>1 DEF C!Verify
  <2> QED BY <1>1, <2>1, <2>2 DEF C!Verify
<1>2. CASE C!Compile(x)
  <2>1. CASE C!Hit(x)
    <3>1. /\ compile' = [compile EXCEPT ![x] = slot.by] /\ phase' = [phase EXCEPT ![x] = "compiling"]
          /\ UNCHANGED <<began, slot, input>>
      BY <1>2, <2>1 DEF C!Compile
    <3>2. slot # None /\ slot.by \in Runs /\ SameBuffers(x, slot.by)
      BY <2>1 DEF C!Hit
    <3> QED BY <3>1, <3>2
  <2>2. CASE ~C!Hit(x) /\ input[x].adapter = None
    BY <1>2, <2>2 DEF C!Compile
  <2>3. CASE ~C!Hit(x) /\ input[x].adapter # None
    <3>1. /\ compile' = [compile EXCEPT ![x] = x] /\ phase' = [phase EXCEPT ![x] = "compiling"]
          /\ began' = [began EXCEPT ![x] = "pending"] /\ UNCHANGED input
          /\ slot' = [component |-> input[x].component, adapter |-> input[x].adapter, by |-> x]
      BY <1>2, <2>3 DEF C!Compile
    <3>2. \A y \in Runs : y # x => compile'[y] = compile[y] /\ phase'[y] = phase[y]
      BY <3>1
    <3>3. compile'[x] = x /\ began'[x] = "pending" /\ slot'.by = x
      BY <3>1
    <3> QED BY <3>1, <3>2, <3>3
  <2> QED BY <2>1, <2>2, <2>3
<1>3. CASE C!Settle(x)
  <2>1. PICK how \in {"done", "rejected"} : began' = [began EXCEPT ![x] = how]
    BY <1>3 DEF C!Settle
  <2>2. UNCHANGED <<input, phase, compile, slot>>
    BY <1>3 DEF C!Settle
  <2> QED BY <2>1, <2>2
<1>5. CASE C!Forget(x)
  <2>1. /\ began' = [began EXCEPT ![x] = "failed"] /\ UNCHANGED <<input, phase, compile>>
        /\ slot' # None => slot' = slot /\ slot.by # x
    BY <1>5 DEF C!Forget
  <2>2. slot' # None => began'[slot.by] \in {"pending", "done", "rejected"}
    BY <2>1
  <2> QED BY <2>1, <2>2
<1>4. CASE C!Resume(x)
  <2>1. phase' \in [Runs -> {"start", "verified", "refused", "compiling", "instantiated", "failed"}]
    BY <1>4 DEF C!Resume
  <2>2. \A y \in Runs :
          phase'[y] \in {"compiling", "instantiated"} => phase[y] \in {"compiling", "instantiated"}
    BY <1>4 DEF C!Resume
  <2> QED BY <1>4, <2>1, <2>2 DEF C!Resume
<1> QED BY <1>1, <1>2, <1>3, <1>4, <1>5

\* What holds of the compile cache in every behaviour of the store.
LEMMA SharedHolds == StoreSpec => []Shared
<1>1. StoreStarted => Shared
  BY DEF StoreStarted, C!Init, Shared, SameBuffers, Stages
<1>2. Shared /\ [StoreStep]_<<part, storeVars>> => Shared'
  <2> SUFFICES ASSUME Shared, [StoreStep]_<<part, storeVars>> PROVE Shared'
    OBVIOUS
  <2>1. CASE UNCHANGED cvars
    BY <2>1 DEF cvars, Shared, SameBuffers
  <2>2. CASE C!Next
    BY <2>2, SharedStep
  <2> QED BY <2>1, <2>2 DEF StoreStep, storeVars
<1> QED BY <1>1, <1>2, PTL DEF StoreSpec

\* An instantiation runs what was compiled from its own buffers and no failure stays in the
\* slot once it was seen to, however many instantiate at once and whichever compilation fails.
THEOREM ModulesOwn == StoreSpec => [](C!OwnModules)
<1>1. Shared => C!OwnModules
  BY DEF Shared, SameBuffers, C!OwnModules
<1> QED BY <1>1, SharedHolds, PTL

-----------------------------------------------------------------------------
(* The artifact cache.                                                         *)

AllWhole(S) == [f \in S |-> "whole"]
OldLayout == [f \in A!Files |-> "old"]

Reading == {"start", "read meta", "read plan", "read adapters"}
Through == {"hit", "clean", "stored", "over"}
Putting == {"write", "clear", "rename"}
CachePlaces == Reading \cup Through \cup Putting \cup {"evict", "translate"}

\* The directories there can be: some of the files, each whole, torn or of an older layout.
Directories == UNION {[S -> {"whole", "torn", "old"}] : S \in SUBSET A!Files}
Saved == Directories \cup {None}

CacheTypes ==
  /\ backend \in {"dir", "web"} /\ writable \in BOOLEAN /\ failures \in Nat
  /\ stage \in [Callers -> CachePlaces] /\ left \in [Callers -> SUBSET A!Files]
  /\ entry \in Saved /\ scratch \in [Callers -> Saved] /\ taken \in [Callers -> Directories]
  /\ result \in [Callers -> Saved]
  /\ \A c \in Callers : stage[c] = "write" => scratch[c] \in Directories

\* What a caller has read is whole, all of it where it needs all; what it has written is
\* whole but for what it is about to write.
ReadWhole(c) ==
  /\ stage[c] = "read meta" => taken[c] = AllWhole({})
  /\ stage[c] = "read plan" => taken[c] = AllWhole({"meta"})
  /\ stage[c] = "read adapters" =>
       /\ taken[c] = AllWhole(DOMAIN taken[c])
       /\ DOMAIN taken[c] \subseteq A!Files /\ A!Files \ left[c] \subseteq DOMAIN taken[c]
  /\ stage[c] = "hit" => taken[c] = A!Whole
  /\ stage[c] = "over" => result[c] = A!Whole

WrittenWhole(c) ==
  /\ stage[c] = "write" =>
       /\ scratch[c] = [f \in DOMAIN scratch[c] |-> IF f \in left[c] THEN "torn" ELSE "whole"]
       /\ DOMAIN scratch[c] \subseteq A!Files /\ A!Files \ left[c] \subseteq DOMAIN scratch[c]
  /\ stage[c] \in {"clear", "rename"} => scratch[c] = A!Whole
  /\ failures = 0 /\ stage[c] \notin Putting \cup {"clean"} => scratch[c] = None

\* The directory holds files that were written to their end; the Cache API holds an entry
\* as one value.
EntryWhole ==
  /\ entry # None => \A f \in DOMAIN entry : entry[f] # "torn"
  /\ backend = "web" => /\ entry \in {None, A!Whole, OldLayout}
                        /\ \A c \in Callers :
                              stage[c] \in {"start", "translate", "evict"} \cup (Through \ {"clean"})

CacheInv == CacheTypes /\ EntryWhole /\ \A c \in Callers : ReadWhole(c) /\ WrittenWhole(c)

\* As long as nobody is through, either the entry was whole from the start, or only what is
\* old is removed; then it is whole, unless another caller goes on to replace it.
Unmoved ==
  \/ entry = A!Whole /\ \A c \in Callers : stage[c] \in Reading
  \/ /\ \A f \in A!Held : entry[f] = "old"
     /\ \A c \in Callers :
          /\ stage[c] \notin {"read plan", "read adapters"}
          /\ stage[c] = "evict" => A!Held \subseteq left[c]
          /\ stage[c] \in Putting \cup {"translate"} => A!Held = {}
          /\ stage[c] = "clear" => left[c] = {}

Replacing(c) ==
  /\ stage[c] \in Reading \cup Through => entry = A!Whole
  /\ stage[c] = "clear" => A!Held \subseteq left[c] \/ (left[c] = {} /\ entry = A!Whole)
  /\ stage[c] = "rename" => A!Held = {} \/ entry = A!Whole

DirWarm ==
  /\ (\A c \in Callers : stage[c] \notin Through) => Unmoved
  /\ \A d \in Callers : stage[d] \in Through => \A c \in Callers \ {d} : Replacing(c)
  /\ (\A c \in Callers : stage[c] \in Through) => entry = A!Whole

WebWarm ==
  (\E c \in Callers : stage[c] \in Through) => entry = A!Whole \/ \E c \in Callers : stage[c] = "translate"

WarmInv ==
  failures = 0 /\ writable =>
    /\ backend = "dir" /\ Cardinality(Callers) \in 1..2 => DirWarm
    /\ backend = "web" => WebWarm

\* A step of one caller: what it leaves alone of the others.
OnlyOf(c) ==
  /\ \A d \in Callers \ {c} :
       /\ stage'[d] = stage[d] /\ left'[d] = left[d] /\ scratch'[d] = scratch[d]
       /\ taken'[d] = taken[d] /\ result'[d] = result[d]
  /\ UNCHANGED <<backend, writable>> /\ (failures' = failures \/ failures' = failures + 1)

\* What a directory is, and becomes.
LEMMA DirectoryIs ==
  ASSUME NEW d \in Directories
  PROVE  /\ d = [f \in DOMAIN d |-> d[f]] /\ DOMAIN d \in SUBSET A!Files
         /\ \A f \in DOMAIN d : d[f] \in {"whole", "torn", "old"}
<1>1. PICK S \in SUBSET A!Files : d \in [S -> {"whole", "torn", "old"}]
  BY DEF Directories
<1> QED BY <1>1

\* Every function of files to contents is a directory.
LEMMA IsDirectory ==
  ASSUME NEW S \in SUBSET A!Files, NEW d \in [S -> {"whole", "torn", "old"}]
  PROVE  d \in Directories
BY DEF Directories

\* A directory with one file more.
LEMMA WithFile ==
  ASSUME NEW d \in Directories, NEW f \in A!Files, NEW x \in {"whole", "torn", "old"}
  PROVE  /\ A!With(d, f, x) \in Directories /\ DOMAIN A!With(d, f, x) = DOMAIN d \cup {f}
         /\ \A g \in DOMAIN d \cup {f} : A!With(d, f, x)[g] = IF g = f THEN x ELSE d[g]
<1>1. DOMAIN d \cup {f} \in SUBSET A!Files /\ \A g \in DOMAIN d : d[g] \in {"whole", "torn", "old"}
  BY DirectoryIs
<1>2. A!With(d, f, x) \in [DOMAIN d \cup {f} -> {"whole", "torn", "old"}]
  BY <1>1 DEF A!With
<1> QED BY <1>1, <1>2, IsDirectory DEF A!With

\* A directory with one file less.
LEMMA WithoutFile ==
  ASSUME NEW d \in Directories, NEW f
  PROVE  /\ A!Without(d, f) \in Directories /\ DOMAIN A!Without(d, f) = DOMAIN d \ {f}
         /\ \A g \in DOMAIN d \ {f} : A!Without(d, f)[g] = d[g]
<1>1. DOMAIN d \ {f} \in SUBSET A!Files /\ \A g \in DOMAIN d : d[g] \in {"whole", "torn", "old"}
  BY DirectoryIs
<1>2. A!Without(d, f) \in [DOMAIN d \ {f} -> {"whole", "torn", "old"}]
  BY <1>1 DEF A!Without
<1> QED BY <1>1, <1>2, IsDirectory DEF A!Without

\* A file written to its end.
LEMMA FileWhole ==
  ASSUME NEW d \in Directories, NEW f \in DOMAIN d
  PROVE  [d EXCEPT ![f] = "whole"] \in Directories
<1>1. DOMAIN d \in SUBSET A!Files /\ d \in [DOMAIN d -> {"whole", "torn", "old"}]
  BY DirectoryIs
<1>2. [d EXCEPT ![f] = "whole"] \in [DOMAIN d -> {"whole", "torn", "old"}]
  BY <1>1
<1> QED BY <1>1, <1>2, IsDirectory

\* The whole translation, nothing, and what an earlier layout left.
LEMMA SomeDirectories == A!Whole \in Directories /\ A!NoFiles \in Directories /\ OldLayout \in Directories
<1>1. A!Whole \in [A!Files -> {"whole", "torn", "old"}] /\ OldLayout \in [A!Files -> {"whole", "torn", "old"}]
  BY DEF A!Whole, OldLayout
<1>2. A!NoFiles \in [{} -> {"whole", "torn", "old"}] /\ {} \in SUBSET A!Files
  BY DEF A!NoFiles
<1> QED BY <1>1, <1>2, IsDirectory

\* What is under the key is a directory.
LEMMA HeldIsDirectory ==
  ASSUME CacheTypes
  PROVE  /\ A!Held \in SUBSET A!Files
         /\ \A f \in A!Held : entry \in Directories /\ f \in DOMAIN entry /\ entry # None
BY DirectoryIs DEF CacheTypes, Saved, A!Held

\* Every action of a caller: its types, and what it leaves alone.
LEMMA CallerMoves ==
  ASSUME NEW c \in Callers, CacheTypes, EntryWhole, A!Step(c) \/ A!Crash(c)
  PROVE  CacheTypes' /\ OnlyOf(c)
<1> DEFINE Moved == /\ stage' \in [Callers -> CachePlaces] /\ left' \in [Callers -> SUBSET A!Files]
                    /\ \A d \in Callers \ {c} : stage'[d] = stage[d] /\ left'[d] = left[d]
           Kept == UNCHANGED <<backend, writable>> /\ (failures' = failures \/ failures' = failures + 1)
           Sole(x, S) == x' \in [Callers -> S] /\ \A d \in Callers \ {c} : x'[d] = x[d]
           Rest == /\ Kept /\ entry' \in Saved /\ Sole(scratch, Saved) /\ Sole(taken, Directories)
                        /\ Sole(result, Saved)
                   /\ stage'[c] = "write" => scratch'[c] \in Directories
<1>p. \A w \in {"start", "read meta", "read plan", "read adapters", "hit", "clean", "stored", "over",
                 "write", "clear", "rename", "evict", "translate"} : w \in CachePlaces
  BY DEF CachePlaces, Reading, Through, Putting
<1>t. /\ stage \in [Callers -> CachePlaces] /\ left \in [Callers -> SUBSET A!Files] /\ entry \in Saved
      /\ scratch \in [Callers -> Saved] /\ taken \in [Callers -> Directories] /\ result \in [Callers -> Saved]
      /\ \A d \in Callers : stage[d] = "write" => scratch[d] \in Directories
      /\ Directories \subseteq Saved /\ None \in Saved
  BY Zenon DEF CacheTypes, Saved
<1>a. ASSUME NEW w \in CachePlaces, NEW F \in SUBSET A!Files, A!Go(c, w, F)
      PROVE  Moved /\ stage'[c] = w
  BY <1>a, <1>t DEF A!Go
<1>b. ASSUME NEW f, left' = [left EXCEPT ![c] = @ \ {f}], UNCHANGED stage
      PROVE  Moved
  BY <1>b, <1>t
<1>s. ASSUME Moved, Rest PROVE CacheTypes' /\ OnlyOf(c)
  <2>1. failures' \in Nat
    BY <1>s DEF CacheTypes
  <2>2. backend' \in {"dir", "web"} /\ writable' \in BOOLEAN
    BY <1>s, Zenon DEF CacheTypes
  <2>3. \A d \in Callers : stage'[d] = "write" => scratch'[d] \in Directories
    BY <1>s, <1>t
  <2>4. CacheTypes'
    BY <1>s, <2>1, <2>2, <2>3, Zenon DEF CacheTypes
  <2> QED BY <1>s, <2>4 DEF OnlyOf
<1>h. A!Held \in SUBSET A!Files
  BY HeldIsDirectory
<1>f. /\ "meta" \in A!Files /\ "plan" \in A!Files /\ Adapters \in SUBSET A!Files /\ left[c] \in SUBSET A!Files
      /\ {} \in SUBSET A!Files /\ A!Files \in SUBSET A!Files
  BY <1>t DEF A!Files
<1>d. ASSUME NEW w \in CachePlaces \ {"write"}, NEW u \in CachePlaces \ {"write"}, A!Gone(c, w, u),
               stage[c] # "write"
      PROVE  Moved /\ (failures' = failures \/ failures' = failures + 1) /\ entry' \in Saved
        /\ stage'[c] # "write"
  <2>1. CASE A!Go(c, w, {}) /\ entry' = None /\ UNCHANGED failures
    BY <2>1, <1>a, <1>f, <1>t
  <2>2. CASE A!Go(c, u, {}) /\ UNCHANGED entry /\ (failures' = failures \/ failures' = failures + 1)
    BY <2>2, <1>a, <1>f, <1>t
  <2>3. ASSUME NEW f \in left[c], entry' = IF A!There(f) THEN A!Without(entry, f) ELSE entry,
               left' = [left EXCEPT ![c] = @ \ {f}], UNCHANGED <<stage, failures>>
        PROVE  Moved /\ (failures' = failures \/ failures' = failures + 1) /\ entry' \in Saved
          /\ stage'[c] # "write"
    <3>1. entry' \in Saved
      BY <2>3, <1>t, HeldIsDirectory, WithoutFile DEF A!There
    <3> QED BY <1>d, <2>3, <3>1, <1>b
  <2> QED BY <1>d, <2>1, <2>2, <2>3 DEF A!Gone, A!Fail
<1>e. ASSUME NEW f \in A!Files, NEW w \in CachePlaces \ {"write"}, NEW F \in SUBSET A!Files,
               A!ReadFile(c, f, w, F)
      PROVE  Moved /\ Rest
  <2>1. taken[c] \in Directories
    BY <1>t
  <2>2. /\ UNCHANGED <<backend, writable, entry, scratch, result>>
        /\ failures' = failures \/ failures' = failures + 1
    BY <1>e DEF A!ReadFile, A!Fail
  <2>3. A!Go(c, w, F) \/ A!Go(c, "evict", A!Held)
    BY <1>e DEF A!ReadFile, A!Evicting
  <2>4. Moved /\ stage'[c] # "write"
    BY <2>3, <1>a, <1>h, <1>p
  <2>5. CASE A!There(f) /\ taken' = [taken EXCEPT ![c] = A!With(@, f, entry[f])]
    <3>1. entry[f] \in {"whole", "torn", "old"}
      BY <2>5, HeldIsDirectory, DirectoryIs DEF A!There
    <3>2. A!With(taken[c], f, entry[f]) \in Directories
      BY <2>1, <3>1, WithFile
    <3>3. Sole(taken, Directories)
      BY <2>5, <3>2, <1>t
    <3> QED BY <2>2, <2>4, <3>3, <1>t
  <2>6. CASE UNCHANGED taken
    BY <2>2, <2>4, <2>6, <1>t
  <2> QED BY <1>e, <2>5, <2>6 DEF A!ReadFile
<1>1. ASSUME A!DirGet(c) PROVE Moved /\ Rest
  BY <1>1, <1>a, <1>f, <1>p, <1>t, SomeDirectories DEF A!DirGet, A!Miss
<1>2. ASSUME A!WebGet(c) PROVE Moved /\ Rest
  <2>1. UNCHANGED <<backend, writable, entry, scratch, result, failures>>
    BY <1>2 DEF A!WebGet
  <2>2. A!Go(c, "translate", {}) \/ A!Go(c, "hit", {}) \/ A!Go(c, "evict", A!Held)
    BY <1>2 DEF A!WebGet, A!Miss, A!Evicting
  <2>3. Moved /\ stage'[c] # "write"
    BY <2>2, <1>a, <1>f, <1>h, <1>p
  <2>4. taken' = taken \/ (entry # None /\ taken' = [taken EXCEPT ![c] = entry])
    BY <1>2 DEF A!WebGet
  <2>5. Sole(taken, Directories)
    BY <2>4, <1>t DEF Saved
  <2> QED BY <2>1, <2>3, <2>5, <1>t
<1>3. ASSUME A!Read(c) PROVE Moved /\ Rest
  <2>1. CASE A!ReadFile(c, "meta", "read plan", {})
    BY <2>1, <1>e, <1>f, <1>p
  <2>2. CASE A!ReadFile(c, "plan", IF Adapters = {} THEN "hit" ELSE "read adapters", Adapters)
    BY <2>2, <1>e, <1>f, <1>p
  <2>3. ASSUME NEW f \in left[c],
               A!ReadFile(c, f, IF left[c] = {f} THEN "hit" ELSE "read adapters", left[c] \ {f})
        PROVE  Moved /\ Rest
    <3>1. f \in A!Files /\ left[c] \ {f} \in SUBSET A!Files
      BY <2>3, <1>f
    <3> QED BY <2>3, <3>1, <1>e, <1>p
  <2> QED BY <1>3, <2>1, <2>2, <2>3 DEF A!Read
<1>4. ASSUME A!Hit(c) PROVE Moved /\ Rest
  BY <1>4, <1>a, <1>f, <1>p, <1>t DEF A!Hit
<1>5. ASSUME A!DirEvict(c) PROVE Moved /\ Rest
  BY <1>5, <1>d, <1>p, <1>t DEF A!DirEvict
<1>6. ASSUME A!WebEvict(c) PROVE Moved /\ Rest
  BY <1>6, <1>a, <1>f, <1>p, <1>t DEF A!WebEvict, A!Miss
<1>7. ASSUME A!WebPut(c) PROVE Moved /\ Rest
  BY <1>7, <1>a, <1>f, <1>p, <1>t, SomeDirectories DEF A!WebPut
<1>8. ASSUME A!MakeScratch(c) PROVE Moved /\ Rest
  BY <1>8, <1>a, <1>f, <1>p, <1>t, SomeDirectories DEF A!MakeScratch, A!Fail
<1>9. ASSUME A!Write(c) PROVE Moved /\ Rest
  <2>1. scratch[c] \in Directories
    BY <1>9, <1>t DEF A!Write
  <2>2. ASSUME NEW f \in left[c], f \in DOMAIN scratch[c], scratch' = [scratch EXCEPT ![c][f] = "whole"],
               left' = [left EXCEPT ![c] = @ \ {f}], UNCHANGED <<stage, failures>>
        PROVE  Moved /\ Rest
    <3>1. [scratch[c] EXCEPT ![f] = "whole"] \in Directories
      BY <2>1, <2>2, FileWhole
    <3> QED BY <1>9, <2>2, <3>1, <1>b, <1>t DEF A!Write
  <2>3. ASSUME NEW f \in left[c], scratch' = [scratch EXCEPT ![c] = A!With(@, f, "torn")],
                 UNCHANGED <<stage, left, failures>>
        PROVE  Moved /\ Rest
    <3>1. A!With(scratch[c], f, "torn") \in Directories
      BY <2>1, <2>3, <1>f, WithFile
    <3> QED BY <1>9, <2>3, <3>1, <1>t DEF A!Write
  <2>4. CASE A!Go(c, "clear", A!Held) /\ UNCHANGED <<scratch, failures>>
    BY <1>9, <2>4, <1>a, <1>h, <1>p, <1>t DEF A!Write
  <2>5. CASE A!Fail /\ A!Go(c, "clean", {}) /\ UNCHANGED scratch
    BY <1>9, <2>5, <1>a, <1>f, <1>p, <1>t DEF A!Write, A!Fail
  <2> QED BY <1>9, <2>2, <2>3, <2>4, <2>5 DEF A!Write
<1>10. ASSUME A!Clear(c) PROVE Moved /\ Rest
  BY <1>10, <1>d, <1>p, <1>t DEF A!Clear
<1>11. ASSUME A!Rename(c) PROVE Moved /\ Rest
  <2>1. UNCHANGED <<backend, writable, taken, result, failures>>
    BY <1>11 DEF A!Rename
  <2>2. CASE A!MayRename(c)
    <3>1. entry' = scratch[c] /\ scratch' = [scratch EXCEPT ![c] = None] /\ A!Go(c, "stored", {})
      BY <1>11, <2>2 DEF A!Rename
    <3>2. Moved /\ stage'[c] # "write"
      BY <3>1, <1>a, <1>f, <1>p
    <3>3. Sole(scratch, Saved) /\ entry' \in Saved
      BY <3>1, <1>t
    <3> QED BY <2>1, <3>2, <3>3, <1>t
  <2>3. CASE ~A!MayRename(c)
    <3>1. A!Go(c, "clean", {}) /\ UNCHANGED <<entry, scratch>>
      BY <1>11, <2>3 DEF A!Rename
    <3> QED BY <2>1, <3>1, <1>a, <1>f, <1>p, <1>t
  <2> QED BY <2>2, <2>3
<1>12. ASSUME A!Clean(c) PROVE Moved /\ Rest
  BY ZenonT(60), <1>12, <1>a, <1>f, <1>p, <1>t DEF A!Clean, A!Fail
<1>13. ASSUME A!Stored(c) PROVE Moved /\ Rest
  BY <1>13, <1>a, <1>f, <1>p, <1>t, SomeDirectories DEF A!Stored
<1>14. ASSUME A!Crash(c) PROVE Moved /\ Rest
  <2>1. /\ A!Go(c, "start", {}) /\ taken' = [taken EXCEPT ![c] = A!NoFiles]
        /\ scratch' = [scratch EXCEPT ![c] = None] /\ failures' = failures + 1
        /\ UNCHANGED <<backend, writable, entry, result>>
    BY <1>14 DEF A!Crash, A!Fail
  <2>2. Moved /\ stage'[c] # "write"
    BY <2>1, <1>a, <1>f, <1>p
  <2>3. Sole(taken, Directories)
    BY <2>1, <1>t, SomeDirectories
  <2>4. Sole(scratch, Saved)
    BY <2>1, <1>t
  <2> QED BY <2>1, <2>2, <2>3, <2>4, <1>t
<1> QED BY <1>1, <1>2, <1>3, <1>4, <1>5, <1>6, <1>7, <1>8, <1>9, <1>10, <1>11, <1>12, <1>13, <1>14, <1>s
      DEF A!Step

\* A step of one caller leaves the others what they had read and written.
LEMMA OthersWhole ==
  ASSUME NEW c \in Callers, CacheTypes, OnlyOf(c), \A d \in Callers : ReadWhole(d) /\ WrittenWhole(d)
  PROVE  \A d \in Callers \ {c} : ReadWhole(d)' /\ WrittenWhole(d)'
<1> SUFFICES ASSUME NEW d \in Callers \ {c} PROVE ReadWhole(d)' /\ WrittenWhole(d)'
  OBVIOUS
<1>1. stage'[d] = stage[d] /\ left'[d] = left[d] /\ scratch'[d] = scratch[d] /\ taken'[d] = taken[d]
        /\ result'[d] = result[d]
  BY DEF OnlyOf
<1>2. failures' = 0 => failures = 0
  BY DEF OnlyOf, CacheTypes
<1>3. ReadWhole(d)'
  BY <1>1 DEF ReadWhole
<1> QED BY <1>1, <1>2, <1>3 DEF WrittenWhole

\* A file that is read is whole.
LEMMA FileRead ==
  ASSUME NEW c \in Callers, NEW f, NEW w, NEW F, CacheTypes, EntryWhole, A!ReadFile(c, f, w, F)
  PROVE  /\ UNCHANGED <<entry, scratch, result>>
         /\ \/ f \in A!Files /\ A!Go(c, w, F) /\ taken' = [taken EXCEPT ![c] = A!With(@, f, "whole")]
               /\ UNCHANGED failures /\ entry[f] = "whole" /\ f \in A!Held
            \/ A!Go(c, "evict", A!Held) /\ UNCHANGED taken
                 /\ (failures' = 0 => f \notin A!Held \/ entry[f] # "whole")
<1>1. f \in A!Held => f \in A!Files /\ entry[f] \in {"whole", "old"}
  BY HeldIsDirectory, DirectoryIs DEF EntryWhole
<1>2. failures' = failures + 1 => failures' # 0
  BY DEF CacheTypes
<1> QED BY <1>1, <1>2 DEF A!ReadFile, A!There, A!Parses, A!Evicting, A!Fail

\* One more whole file.
LEMMA AllWholeWith ==
  ASSUME NEW S \in SUBSET A!Files, NEW f \in A!Files
  PROVE  /\ A!With(AllWhole(S), f, "whole") = AllWhole(S \cup {f})
         /\ DOMAIN AllWhole(S) = S /\ AllWhole(A!Files) = A!Whole /\ AllWhole({}) = A!NoFiles
BY DEF A!With, AllWhole, A!Whole, A!NoFiles

\* What a caller has read stays whole.
LEMMA ReadStays ==
  ASSUME NEW c \in Callers, CacheInv, A!Step(c) \/ A!Crash(c)
  PROVE  ReadWhole(c)'
<1>1. CacheTypes /\ EntryWhole /\ ReadWhole(c) /\ WrittenWhole(c)
  BY DEF CacheInv
<1>t. /\ stage \in [Callers -> CachePlaces] /\ left \in [Callers -> SUBSET A!Files]
      /\ taken \in [Callers -> Directories] /\ result \in [Callers -> Saved]
  BY <1>1, Zenon DEF CacheTypes
<1>a. ASSUME NEW w, NEW F, A!Go(c, w, F) PROVE stage'[c] = w /\ left'[c] = F
  BY <1>a, <1>t DEF A!Go
<1>q. ASSUME stage'[c] \notin {"read meta", "read plan", "read adapters", "hit", "over"} PROVE ReadWhole(c)'
  BY <1>q DEF ReadWhole
<1>r. ASSUME stage'[c] = "hit", taken'[c] = A!Whole PROVE ReadWhole(c)'
  BY <1>r DEF ReadWhole
<1>m. ASSUME stage'[c] = "read plan", taken'[c] = AllWhole({"meta"}) PROVE ReadWhole(c)'
  BY <1>m DEF ReadWhole
<1>2. CASE A!DirGet(c)
  <2>1. stage'[c] = "translate" \/ (stage'[c] = "read meta" /\ taken' = [taken EXCEPT ![c] = A!NoFiles])
    BY <1>2, <1>a DEF A!DirGet, A!Miss
  <2>2. taken'[c] = AllWhole({}) \/ stage'[c] = "translate"
    BY <2>1, <1>t, AllWholeWith DEF AllWhole, A!NoFiles
  <2> QED BY <2>1, <2>2 DEF ReadWhole
<1>3. CASE A!WebGet(c)
  <2>1. CASE A!Go(c, "hit", {}) /\ taken' = [taken EXCEPT ![c] = entry] /\ entry # None
               /\ entry["meta"] = "whole"
    <3>1. entry # OldLayout
      BY <2>1 DEF OldLayout, A!Files
    <3>2. entry = A!Whole
      BY <1>1, <1>3, <2>1, <3>1 DEF EntryWhole, A!WebGet
    <3>3. stage'[c] = "hit"
      BY <1>a, <2>1
    <3>4. taken'[c] = entry
      BY <1>t, <2>1
    <3> QED BY <3>2, <3>3, <3>4, <1>r
  <2>2. CASE A!Go(c, "translate", {}) \/ A!Go(c, "evict", A!Held)
    <3>1. stage'[c] \in {"translate", "evict"}
      BY <2>2, <1>a
    <3> QED BY <3>1, <1>q
  <2> QED BY <1>3, <2>1, <2>2 DEF A!WebGet, A!Miss, A!Evicting
<1>4. CASE A!Read(c)
  <2>1. CASE stage[c] = "read meta" /\ A!ReadFile(c, "meta", "read plan", {})
    <3>1. CASE stage'[c] = "evict"
      BY <3>1 DEF ReadWhole
    <3>2. CASE A!Go(c, "read plan", {}) /\ taken' = [taken EXCEPT ![c] = A!With(@, "meta", "whole")]
      <4>1. taken'[c] = A!With(AllWhole({}), "meta", "whole")
        BY <1>1, <1>t, <2>1, <3>2 DEF ReadWhole
      <4>2. taken'[c] = AllWhole({"meta"})
        <5>1. {} \in SUBSET A!Files /\ "meta" \in A!Files
          BY DEF A!Files
        <5> QED BY <4>1, <5>1, AllWholeWith
      <4>3. stage'[c] = "read plan"
        BY <1>a, <3>2
      <4> QED BY <4>2, <4>3, <1>m
    <3> QED BY <1>1, <1>a, <2>1, <3>1, <3>2, FileRead
  <2>2. CASE stage[c] = "read plan"
             /\ A!ReadFile(c, "plan", IF Adapters = {} THEN "hit" ELSE "read adapters", Adapters)
    <3>1. CASE stage'[c] = "evict"
      BY <3>1 DEF ReadWhole
    <3>2. CASE A!Go(c, IF Adapters = {} THEN "hit" ELSE "read adapters", Adapters)
               /\ taken' = [taken EXCEPT ![c] = A!With(@, "plan", "whole")]
      <4>1. taken'[c] = A!With(AllWhole({"meta"}), "plan", "whole")
        BY <1>1, <1>t, <2>2, <3>2 DEF ReadWhole
      <4>2. taken'[c] = AllWhole({"meta", "plan"}) /\ DOMAIN AllWhole({"meta", "plan"}) = {"meta", "plan"}
        <5>1. {"meta"} \in SUBSET A!Files /\ "plan" \in A!Files /\ {"meta", "plan"} \in SUBSET A!Files
          BY DEF A!Files
        <5>2. {"meta"} \cup {"plan"} = {"meta", "plan"}
          OBVIOUS
        <5> QED BY <4>1, <5>1, <5>2, AllWholeWith
      <4>3. CASE Adapters = {}
        <5>1. A!Files = {"meta", "plan"}
          BY <4>3 DEF A!Files
        <5>2. taken'[c] = A!Whole
          BY <4>2, <5>1 DEF AllWhole, A!Whole
        <5>3. stage'[c] = "hit"
          BY <1>a, <3>2, <4>3
        <5> QED BY <5>2, <5>3, <1>r
      <4>4. CASE Adapters # {}
        <5>1. stage'[c] = "read adapters" /\ left'[c] = Adapters
          BY <1>a, <3>2, <4>4
        <5>2. {"meta", "plan"} \subseteq A!Files /\ A!Files \ Adapters \subseteq {"meta", "plan"}
          BY DEF A!Files
        <5> QED BY <4>2, <5>1, <5>2 DEF ReadWhole
      <4> QED BY <4>3, <4>4
    <3> QED BY <1>1, <1>a, <2>2, <3>1, <3>2, FileRead
  <2>3. ASSUME NEW f \in left[c], stage[c] = "read adapters",
               A!ReadFile(c, f, IF left[c] = {f} THEN "hit" ELSE "read adapters", left[c] \ {f})
        PROVE  ReadWhole(c)'
    <3>1. CASE stage'[c] = "evict"
      BY <3>1 DEF ReadWhole
    <3>2. CASE A!Go(c, IF left[c] = {f} THEN "hit" ELSE "read adapters", left[c] \ {f})
               /\ taken' = [taken EXCEPT ![c] = A!With(@, f, "whole")]
      <4> DEFINE S == DOMAIN taken[c]
      <4>0. f \in A!Files
        BY <1>t, <2>3
      <4>1. taken[c] = AllWhole(S) /\ S \in SUBSET A!Files /\ A!Files \ left[c] \subseteq S
        BY <1>1, <2>3 DEF ReadWhole
      <4>2. taken'[c] = A!With(taken[c], f, "whole")
        BY <1>t, <3>2
      <4> HIDE DEF S
      <4>3. taken'[c] = AllWhole(S \cup {f})
        BY <4>0, <4>1, <4>2, AllWholeWith
      <4>4. S \cup {f} \in SUBSET A!Files /\ DOMAIN AllWhole(S \cup {f}) = S \cup {f}
        BY <4>0, <4>1, AllWholeWith
      <4>5. CASE left[c] = {f}
        <5>1. S \cup {f} = A!Files
          BY <4>0, <4>1, <4>5
        <5>2. taken'[c] = A!Whole
          BY <4>3, <5>1 DEF AllWhole, A!Whole
        <5>3. stage'[c] = "hit"
          BY <1>a, <3>2, <4>5
        <5> QED BY <5>2, <5>3, <1>r
      <4>6. CASE left[c] # {f}
        <5>1. stage'[c] = "read adapters" /\ left'[c] = left[c] \ {f}
          BY <1>a, <3>2, <4>6
        <5>2. A!Files \ left'[c] \subseteq S \cup {f}
          BY <4>1, <5>1
        <5> QED BY <4>3, <4>4, <5>1, <5>2 DEF ReadWhole
      <4> QED BY <4>5, <4>6
    <3>3. A!Go(c, "evict", A!Held) => stage'[c] = "evict"
      BY <1>a
    <3> QED BY <1>1, <2>3, <3>1, <3>2, <3>3, FileRead
  <2> QED BY <1>4, <2>1, <2>2, <2>3 DEF A!Read
<1>5. CASE A!Hit(c)
  <2>1. stage'[c] = "over" /\ result'[c] = taken[c] /\ taken[c] = A!Whole
    BY <1>1, <1>5, <1>a, <1>t DEF A!Hit, ReadWhole
  <2> QED BY <2>1 DEF ReadWhole
<1>6. CASE A!Stored(c)
  <2>1. stage'[c] = "over" /\ result'[c] = A!Whole
    BY <1>6, <1>a, <1>t DEF A!Stored
  <2> QED BY <2>1 DEF ReadWhole
<1>7. CASE A!DirEvict(c) \/ A!Clear(c)
  <2>1. stage[c] \in {"evict", "clear"}
    BY <1>7 DEF A!DirEvict, A!Clear
  <2>2. UNCHANGED stage \/ A!Go(c, "translate", {}) \/ A!Go(c, "rename", {}) \/ A!Go(c, "clean", {})
    BY <1>7 DEF A!DirEvict, A!Clear, A!Gone
  <2>3. stage'[c] \in {"evict", "clear", "translate", "rename", "clean"}
    BY <1>a, <2>1, <2>2
  <2> QED BY <2>3, <1>q
<1>8. CASE A!WebEvict(c) \/ A!WebPut(c) \/ A!MakeScratch(c) \/ A!Rename(c) \/ A!Clean(c) \/ A!Crash(c)
  <2>1. \E w \in {"translate", "stored", "write", "clean", "start"} : \E F : A!Go(c, w, F)
    BY <1>8, Zenon DEF A!WebEvict, A!WebPut, A!MakeScratch, A!Rename, A!Clean, A!Crash, A!Miss
  <2>2. stage'[c] \in {"translate", "stored", "write", "clean", "start"}
    BY <1>a, <2>1
  <2> QED BY <2>2, <1>q
<1>9. CASE A!Write(c)
  <2>1. UNCHANGED stage \/ A!Go(c, "clear", A!Held) \/ A!Go(c, "clean", {})
    BY <1>9 DEF A!Write
  <2>2. stage'[c] \in {"write", "clear", "clean"}
    BY <1>9, <1>a, <2>1 DEF A!Write
  <2> QED BY <2>2, <1>q
<1> QED BY <1>2, <1>3, <1>4, <1>5, <1>6, <1>7, <1>8, <1>9 DEF A!Step

\* What a caller has written stays whole but for what it is about to write, and its scratch
\* directory is gone when it is through.
LEMMA WrittenStays ==
  ASSUME NEW c \in Callers, CacheInv, A!Step(c) \/ A!Crash(c)
  PROVE  WrittenWhole(c)'
<1>1. CacheTypes /\ EntryWhole /\ ReadWhole(c) /\ WrittenWhole(c)
  BY DEF CacheInv
<1>t. /\ stage \in [Callers -> CachePlaces] /\ left \in [Callers -> SUBSET A!Files]
      /\ scratch \in [Callers -> Saved] /\ failures \in Nat
  BY <1>1, Zenon DEF CacheTypes
<1>a. ASSUME NEW w, NEW F, A!Go(c, w, F) PROVE stage'[c] = w /\ left'[c] = F
  BY <1>a, <1>t DEF A!Go
<1>f. failures' = 0 => failures = 0
  BY <1>1, CallerMoves, <1>t DEF OnlyOf
\* Before it writes, and after, there is no scratch directory.
<1>q. ASSUME stage'[c] \notin Putting, failures' = 0 /\ stage'[c] # "clean" => scratch'[c] = None
     PROVE WrittenWhole(c)'
  BY <1>q DEF WrittenWhole, Putting
<1>u. ASSUME stage[c] \notin Putting \cup {"clean"}, UNCHANGED scratch, stage'[c] \notin Putting
     PROVE WrittenWhole(c)'
  BY <1>1, <1>f, <1>q, <1>u DEF WrittenWhole
<1>2. CASE A!DirGet(c) \/ A!WebGet(c) \/ A!Hit(c) \/ A!WebEvict(c) \/ A!WebPut(c) \/ A!Stored(c)
  <2>1. UNCHANGED scratch /\ stage[c] \in {"start", "hit", "evict", "translate", "stored"}
    BY <1>2 DEF A!DirGet, A!WebGet, A!Hit, A!WebEvict, A!WebPut, A!Stored
  <2>2. \E w \in {"translate", "read meta", "hit", "evict", "over", "stored"} : \E F : A!Go(c, w, F)
    BY <1>2, Zenon DEF A!DirGet, A!WebGet, A!Hit, A!WebEvict, A!WebPut, A!Stored, A!Miss, A!Evicting
  <2>3. stage'[c] \in {"translate", "read meta", "hit", "evict", "over", "stored"}
    BY <1>a, <2>2
  <2> QED BY <2>1, <2>3, <1>u DEF Putting
<1>3. CASE A!Read(c)
  <2>1. stage[c] \in {"read meta", "read plan", "read adapters"}
    BY <1>3 DEF A!Read
  <2>3. ASSUME NEW f, NEW w \in {"read plan", "read adapters", "hit"}, NEW F, A!ReadFile(c, f, w, F)
        PROVE  stage'[c] \in {"read plan", "read adapters", "hit", "evict"} /\ UNCHANGED scratch
    BY <1>a, <2>3 DEF A!ReadFile, A!Evicting
  <2>2. stage'[c] \in {"read plan", "read adapters", "hit", "evict"} /\ UNCHANGED scratch
    <3>1. ASSUME NEW f \in left[c],
               A!ReadFile(c, f, IF left[c] = {f} THEN "hit" ELSE "read adapters", left[c] \ {f})
          PROVE  stage'[c] \in {"read plan", "read adapters", "hit", "evict"} /\ UNCHANGED scratch
      BY <2>3, <3>1
    <3>2. CASE A!ReadFile(c, "plan", IF Adapters = {} THEN "hit" ELSE "read adapters", Adapters)
      BY <2>3, <3>2
    <3> QED BY <1>3, <2>3, <3>1, <3>2 DEF A!Read
  <2> QED BY <2>1, <2>2, <1>u DEF Putting
<1>4. CASE A!DirEvict(c)
  <2>1. stage[c] = "evict" /\ UNCHANGED scratch /\ (UNCHANGED stage \/ A!Go(c, "translate", {}))
    BY <1>4 DEF A!DirEvict, A!Gone
  <2>2. stage'[c] \in {"evict", "translate"}
    BY <2>1, <1>a
  <2> QED BY <2>1, <2>2, <1>u DEF Putting
<1>5. CASE A!MakeScratch(c)
  <2>1. CASE A!Go(c, "write", A!Files) /\ scratch' = [scratch EXCEPT ![c] = A!NoFiles]
    <3>1. stage'[c] = "write" /\ left'[c] = A!Files /\ scratch'[c] = A!NoFiles
      BY <2>1, <1>a, <1>t
    <3>2. A!NoFiles = [f \in DOMAIN A!NoFiles |-> IF f \in A!Files THEN "torn" ELSE "whole"]
          /\ DOMAIN A!NoFiles = {}
      BY DEF A!NoFiles
    <3> QED BY <3>1, <3>2 DEF WrittenWhole, Putting
  <2>2. CASE A!Go(c, "stored", {}) /\ UNCHANGED scratch
    <3>1. stage'[c] = "stored" /\ stage[c] = "translate"
      BY <1>5, <2>2, <1>a DEF A!MakeScratch
    <3> QED BY <2>2, <3>1, <1>u DEF Putting
  <2> QED BY <1>5, <2>1, <2>2 DEF A!MakeScratch
<1>6. CASE A!Write(c)
  <2> DEFINE S == DOMAIN scratch[c]
  <2>1. /\ stage[c] = "write" /\ scratch[c] = [f \in S |-> IF f \in left[c] THEN "torn" ELSE "whole"]
        /\ S \subseteq A!Files /\ A!Files \ left[c] \subseteq S
    BY <1>1, <1>6 DEF WrittenWhole, A!Write
  <2>2. ASSUME NEW f \in left[c], f \in S, scratch' = [scratch EXCEPT ![c][f] = "whole"],
               left' = [left EXCEPT ![c] = @ \ {f}], UNCHANGED stage
        PROVE  WrittenWhole(c)'
    <3>1. scratch'[c] = [scratch[c] EXCEPT ![f] = "whole"] /\ left'[c] = left[c] \ {f} /\ stage'[c] = "write"
      BY <1>t, <2>1, <2>2
    <3>2. DOMAIN scratch'[c] = S
      BY <3>1
    <3>3. scratch'[c] = [g \in S |-> IF g \in left'[c] THEN "torn" ELSE "whole"]
      BY <2>1, <2>2, <3>1
    <3>4. A!Files \ left'[c] \subseteq S
      BY <2>1, <2>2, <3>1
    <3> QED BY <2>1, <3>1, <3>2, <3>3, <3>4 DEF WrittenWhole, Putting
  <2>3. ASSUME NEW f \in left[c], f \notin S, scratch' = [scratch EXCEPT ![c] = A!With(@, f, "torn")],
               UNCHANGED <<stage, left>>
        PROVE  WrittenWhole(c)'
    <3>1. scratch'[c] = A!With(scratch[c], f, "torn") /\ left'[c] = left[c] /\ stage'[c] = "write"
      BY <1>t, <2>1, <2>3
    <3>2. scratch[c] \in Directories /\ f \in A!Files
      BY <1>1, <1>t, <2>1, <2>3 DEF CacheTypes
    <3>4. scratch'[c] = [g \in S \cup {f} |-> IF g = f THEN "torn" ELSE scratch[c][g]]
      BY <3>1 DEF A!With
    <3>3. DOMAIN scratch'[c] = S \cup {f}
      <4> HIDE DEF S
      <4> QED BY <3>4
    <3>5. scratch'[c] = [g \in S \cup {f} |-> IF g \in left'[c] THEN "torn" ELSE "whole"]
      <4> HIDE DEF S
      <4>1. \A g \in S : scratch[c][g] = IF g \in left[c] THEN "torn" ELSE "whole"
        BY <2>1
      <4> QED BY <2>3, <3>1, <3>4, <4>1
    <3> QED BY <2>1, <3>1, <3>2, <3>3, <3>5 DEF WrittenWhole, Putting
  <2>4. CASE A!Written(c) /\ A!Go(c, "clear", A!Held) /\ UNCHANGED scratch
    <3>1. S = A!Files /\ left[c] = {}
      BY <2>1, <2>4 DEF A!Written
    <3>2. scratch'[c] = A!Whole
      BY <2>1, <2>4, <3>1 DEF A!Whole
    <3>3. stage'[c] = "clear"
      BY <2>4, <1>a
    <3> QED BY <3>2, <3>3 DEF WrittenWhole, Putting
  <2>5. CASE A!Go(c, "clean", {})
    <3>1. stage'[c] = "clean"
      BY <2>5, <1>a
    <3> QED BY <3>1, <1>q DEF Putting
  <2> QED BY <1>6, <2>2, <2>3, <2>4, <2>5 DEF A!Write
<1>7. CASE A!Clear(c)
  <2>1. scratch[c] = A!Whole /\ UNCHANGED scratch /\ stage[c] = "clear"
    BY <1>1, <1>7 DEF A!Clear, WrittenWhole
  <2>2. UNCHANGED stage \/ A!Go(c, "rename", {}) \/ A!Go(c, "clean", {})
    BY <1>7 DEF A!Clear, A!Gone
  <2>3. stage'[c] \in {"clear", "rename", "clean"}
    BY <1>a, <2>1, <2>2
  <2> QED BY <2>1, <2>3 DEF WrittenWhole, Putting
<1>8. CASE A!Rename(c)
  <2>1. CASE scratch' = [scratch EXCEPT ![c] = None] /\ A!Go(c, "stored", {})
    <3>1. scratch'[c] = None /\ stage'[c] = "stored"
      BY <2>1, <1>a, <1>t
    <3> QED BY <3>1, <1>q DEF Putting
  <2>2. CASE A!Go(c, "clean", {})
    <3>1. stage'[c] = "clean"
      BY <2>2, <1>a
    <3> QED BY <3>1, <1>q DEF Putting
  <2> QED BY <1>8, <2>1, <2>2 DEF A!Rename
<1>9. CASE A!Clean(c)
  <2>1. A!Go(c, "stored", {}) /\ (scratch' = [scratch EXCEPT ![c] = None] \/ failures' = failures + 1)
    BY <1>9 DEF A!Clean, A!Fail
  <2>2. stage'[c] = "stored" /\ (scratch'[c] = None \/ failures' # 0)
    BY <2>1, <1>a, <1>t
  <2> QED BY <2>2, <1>q DEF Putting
<1>10. CASE A!Crash(c)
  <2>1. A!Go(c, "start", {}) /\ scratch' = [scratch EXCEPT ![c] = None]
    BY <1>10 DEF A!Crash
  <2>2. stage'[c] = "start" /\ scratch'[c] = None
    BY <2>1, <1>a, <1>t
  <2> QED BY <2>2, <1>q DEF Putting
<1> QED BY <1>2, <1>3, <1>4, <1>5, <1>6, <1>7, <1>8, <1>9, <1>10 DEF A!Step

\* What is under the key stays whole, and of the places the Cache API knows only its own are
\* reached.
LEMMA EntryStays ==
  ASSUME NEW c \in Callers, CacheInv, A!Step(c) \/ A!Crash(c)
  PROVE  EntryWhole'
<1>1. CacheTypes /\ EntryWhole /\ WrittenWhole(c) /\ OnlyOf(c)
  BY CallerMoves DEF CacheInv
<1>t. stage \in [Callers -> CachePlaces] /\ UNCHANGED backend /\ entry \in Saved
  BY <1>1, Zenon DEF CacheTypes, OnlyOf
<1>a. ASSUME NEW w, NEW F, A!Go(c, w, F) PROVE stage'[c] = w
  BY <1>a, <1>t DEF A!Go
<1> DEFINE WebPlaces == {"start", "translate", "evict"} \cup (Through \ {"clean"})
<1>k. ASSUME entry' = entry \/ entry' = A!Whole \/ entry' = None, backend = "web" => stage'[c] \in WebPlaces
      PROVE  EntryWhole'
  <2>1. \A d \in Callers \ {c} : stage'[d] = stage[d]
    BY <1>1 DEF OnlyOf
  <2>2. backend = "web" => \A d \in Callers : stage'[d] \in WebPlaces
    BY <1>1, <1>k, <2>1 DEF EntryWhole
  <2>3. backend = "web" => entry' \in {None, A!Whole, OldLayout}
    BY <1>1, <1>k DEF EntryWhole
  <2>4. entry' # None => \A f \in DOMAIN entry' : entry'[f] # "torn"
    BY <1>1, <1>k DEF EntryWhole, A!Whole
  <2> QED BY <1>t, <2>2, <2>3, <2>4 DEF EntryWhole
<1>2. CASE A!WebGet(c) \/ A!WebEvict(c) \/ A!WebPut(c) \/ A!Hit(c) \/ A!Stored(c) \/ A!Crash(c)
  <2>1. entry' = entry \/ entry' = A!Whole \/ entry' = None
    BY <1>2 DEF A!WebGet, A!WebEvict, A!WebPut, A!Hit, A!Stored, A!Crash
  <2>2. \E w \in {"translate", "hit", "evict", "over", "stored", "start"} : \E F : A!Go(c, w, F)
    BY <1>2, Zenon DEF A!WebGet, A!WebEvict, A!WebPut, A!Hit, A!Stored, A!Crash, A!Miss, A!Evicting
  <2>3. stage'[c] \in WebPlaces
    BY <1>a, <2>2 DEF Through
  <2> QED BY <1>k, <2>1, <2>3
<1>3. CASE A!DirGet(c) \/ A!MakeScratch(c)
  <2>1. backend = "dir" /\ UNCHANGED entry
    BY <1>3 DEF A!DirGet, A!MakeScratch
  <2> QED BY <1>k, <2>1
<1>4. CASE A!Read(c) \/ A!Write(c) \/ A!Clean(c)
  <2>1. stage[c] \in {"read meta", "read plan", "read adapters", "write", "clean"} /\ UNCHANGED entry
    BY <1>4 DEF A!Read, A!ReadFile, A!Write, A!Clean
  <2>2. backend # "web"
    BY <1>1, <2>1 DEF EntryWhole, Through
  <2> QED BY <1>k, <2>1, <2>2
<1>5. CASE A!Rename(c)
  <2>1. scratch[c] = A!Whole /\ stage[c] = "rename"
    BY <1>1, <1>5 DEF A!Rename, WrittenWhole
  <2>2. backend # "web"
    BY <1>1, <2>1 DEF EntryWhole, Through
  <2> QED BY <1>k, <1>5, <2>1, <2>2 DEF A!Rename
<1>6. CASE A!DirEvict(c) \/ A!Clear(c)
  <2>1. backend # "web"
    <3>1. CASE A!DirEvict(c)
      BY <3>1 DEF A!DirEvict
    <3>2. CASE A!Clear(c)
      BY <1>1, <3>2 DEF A!Clear, EntryWhole, Through
    <3> QED BY <1>6, <3>1, <3>2
  <2>2. ASSUME NEW f, entry' = IF A!There(f) THEN A!Without(entry, f) ELSE entry
        PROVE  EntryWhole'
    <3>1. CASE A!There(f)
      <4>1. entry \in Directories /\ entry # None
        BY <1>1, <3>1, HeldIsDirectory DEF A!There
      <4>2. \A g \in DOMAIN entry' : g \in DOMAIN entry /\ entry'[g] = entry[g]
        <5>1. entry' = A!Without(entry, f)
          BY <2>2, <3>1
        <5>2. DOMAIN A!Without(entry, f) = DOMAIN entry \ {f}
          BY <4>1, WithoutFile
        <5>3. \A g \in DOMAIN entry \ {f} : A!Without(entry, f)[g] = entry[g]
          BY <4>1, WithoutFile
        <5> QED BY <5>1, <5>2, <5>3
      <4>3. \A g \in DOMAIN entry' : entry'[g] # "torn"
        BY <1>1, <4>1, <4>2 DEF EntryWhole
      <4> QED BY <1>t, <2>1, <4>3 DEF EntryWhole
    <3>2. CASE ~A!There(f)
      BY <1>k, <2>1, <2>2, <3>2
    <3> QED BY <3>1, <3>2
  <2>3. CASE entry' = entry \/ entry' = None
    BY <1>k, <2>1, <2>3
  <2>4. entry' = entry \/ entry' = None \/ \E f : entry' = IF A!There(f) THEN A!Without(entry, f) ELSE entry
    BY <1>6 DEF A!DirEvict, A!Clear, A!Gone
  <2> QED BY <2>2, <2>3, <2>4
<1> QED BY <1>2, <1>3, <1>4, <1>5, <1>6 DEF A!Step

\* Every step of the artifact cache keeps all of it.
LEMMA CacheStep ==
  ASSUME CacheInv, NEW c \in Callers, A!Step(c) \/ A!Crash(c)
  PROVE  CacheInv'
<1>1. CacheTypes' /\ OnlyOf(c)
  BY CallerMoves DEF CacheInv
<1>2. \A d \in Callers \ {c} : ReadWhole(d)' /\ WrittenWhole(d)'
  BY <1>1, OthersWhole DEF CacheInv
<1>3. ReadWhole(c)' /\ WrittenWhole(c)' /\ EntryWhole'
  BY ReadStays, WrittenStays, EntryStays
<1> QED BY <1>1, <1>2, <1>3 DEF CacheInv

-----------------------------------------------------------------------------
(* That the cache is warm in the end.                                          *)

\* Of at most two callers there is this one and one other at most.
LEMMA TwoCallers ==
  ASSUME NEW c \in Callers, Cardinality(Callers) \in 1..2
  PROVE  \E d \in Callers : Callers = {c, d}
<1>1. IsFiniteSet(Callers \ {c}) /\ Cardinality(Callers \ {c}) = Cardinality(Callers) - 1
  BY StoreAssumption, FS_RemoveElement
<1>2. CASE Cardinality(Callers \ {c}) = 0
  <2>1. Callers \ {c} = {}
    BY <1>1, <1>2, FS_EmptySet
  <2> QED BY <2>1
<1>3. CASE Cardinality(Callers \ {c}) = 1
  <2>1. PICK d : Callers \ {c} = {d}
    BY <1>1, <1>3, FS_Singleton
  <2> QED BY <2>1
<1>4. Cardinality(Callers) \in {1, 2}
  OBVIOUS
<1> QED BY <1>1, <1>2, <1>3, <1>4

\* What may be read of a whole entry.
LEMMA WholeHolds ==
  entry = A!Whole => entry # None /\ A!Held = A!Files /\ \A f \in A!Files : entry[f] = "whole"
<1>1. A!Whole \in [{"meta", "plan"} \cup Adapters -> {"whole"}]
  BY DEF A!Whole, A!Files
<1> QED BY <1>1, StoreAssumption DEF A!Whole, A!Held

\* Under the Cache API whoever removes an entry puts one.
LEMMA WebWarmStays ==
  ASSUME CacheInv, WebWarm, backend = "web", NEW c \in Callers, A!Step(c) \/ A!Crash(c), failures' = 0
  PROVE  WebWarm'
<1>1. /\ CacheTypes /\ EntryWhole /\ OnlyOf(c)
      /\ stage[c] \in {"start", "translate", "evict"} \cup (Through \ {"clean"})
  BY CallerMoves DEF CacheInv, EntryWhole
<1>t. stage \in [Callers -> CachePlaces] /\ stage' \in [Callers -> CachePlaces] /\ failures \in Nat
      /\ \A d \in Callers \ {c} : stage'[d] = stage[d]
  BY <1>1, CallerMoves, Zenon DEF CacheTypes, OnlyOf
<1>a. ASSUME NEW w, NEW F, A!Go(c, w, F) PROVE stage'[c] = w
  BY <1>a, <1>t DEF A!Go
<1>2. CASE A!WebGet(c)
  <2>0. stage[c] = "start" /\ UNCHANGED entry
    BY <1>2 DEF A!WebGet
  <2>1. CASE A!Go(c, "translate", {})
    BY <1>a, <2>1 DEF WebWarm
  <2>2. CASE A!Go(c, "hit", {}) /\ entry # None /\ entry["meta"] = "whole"
    <3>1. entry = A!Whole
      BY <1>1, <2>2, backend = "web" DEF EntryWhole, OldLayout, A!Files
    <3> QED BY <2>0, <3>1 DEF WebWarm
  <2>3. CASE A!Go(c, "evict", A!Held)
    <3>1. stage'[c] = "evict"
      BY <1>a, <2>3
    <3> QED BY <1>t, <2>0, <3>1 DEF WebWarm, Through
  <2> QED BY <1>2, <2>1, <2>2, <2>3 DEF A!WebGet, A!Miss, A!Evicting
<1>3. CASE A!Hit(c) \/ A!Stored(c)
  <2>1. stage[c] \in {"hit", "stored"} /\ UNCHANGED entry /\ A!Go(c, "over", {})
    BY <1>3 DEF A!Hit, A!Stored
  <2> QED BY <1>t, <2>1 DEF WebWarm, Through
<1>4. CASE A!WebEvict(c)
  <2>1. stage'[c] = "translate"
    BY <1>4, <1>a DEF A!WebEvict, A!Miss
  <2> QED BY <2>1 DEF WebWarm
<1>5. CASE A!WebPut(c)
  BY <1>5 DEF A!WebPut, WebWarm
<1>6. CASE A!Crash(c)
  BY <1>6, <1>t DEF A!Crash, A!Fail
<1>7. CASE A!DirGet(c) \/ A!DirEvict(c) \/ A!MakeScratch(c)
  BY <1>7 DEF A!DirGet, A!DirEvict, A!MakeScratch
<1>8. CASE A!Read(c) \/ A!Write(c) \/ A!Clear(c) \/ A!Rename(c) \/ A!Clean(c)
  BY <1>1, <1>8 DEF A!Read, A!Write, A!Clear, A!Rename, A!Clean, Through
<1> QED BY <1>2, <1>3, <1>4, <1>5, <1>6, <1>7, <1>8 DEF A!Step

\* How a directory is removed when nothing fails: file by file, then itself; or another one
\* has come to its place.
LEMMA Removal ==
  ASSUME NEW c \in Callers, NEW done, NEW failed, CacheTypes, A!Gone(c, done, failed), writable, failures' = 0
  PROVE  \/ /\ UNCHANGED stage /\ A!Held' \subseteq A!Held
            /\ \A f \in A!Held' : entry'[f] = entry[f]
            /\ left[c] # {} /\ \A f \in A!Held' : f \in left[c] => f \in left'[c]
         \/ A!Go(c, done, {}) /\ left[c] = {} /\ A!Held = {} /\ A!Held' = {}
         \/ A!Go(c, failed, {}) /\ left[c] = {} /\ A!Held # {} /\ UNCHANGED entry
<1>t. failures \in Nat /\ left \in [Callers -> SUBSET A!Files]
  BY Zenon DEF CacheTypes
<1>1. ASSUME NEW f \in left[c], entry' = IF A!There(f) THEN A!Without(entry, f) ELSE entry,
             left' = [left EXCEPT ![c] = @ \ {f}], UNCHANGED stage
      PROVE  /\ A!Held' \subseteq A!Held /\ \A g \in A!Held' : entry'[g] = entry[g]
             /\ \A g \in A!Held' : g \in left[c] => g \in left'[c]
  <2>0. left'[c] = left[c] \ {f}
    BY <1>1, <1>t
  <2>1. CASE A!There(f)
    <3>1. entry \in Directories /\ entry # None /\ A!Held = DOMAIN entry
      BY <2>1, HeldIsDirectory DEF A!There, A!Held
    <3>2. entry' = A!Without(entry, f)
      BY <1>1, <2>1
    <3>3. \A g \in DOMAIN entry' : g \in DOMAIN entry /\ g # f /\ entry'[g] = entry[g]
      BY <3>1, <3>2, WithoutFile
    <3> QED BY <2>0, <3>1, <3>3 DEF A!Held
  <2>2. CASE ~A!There(f)
    <3>1. entry' = entry /\ f \notin A!Held
      BY <1>1, <2>2 DEF A!There
    <3> QED BY <2>0, <3>1 DEF A!Held
  <2> QED BY <2>1, <2>2
<1>2. CASE left[c] # {} /\ UNCHANGED stage
           /\ \E f \in left[c] : /\ entry' = IF A!There(f) THEN A!Without(entry, f) ELSE entry
                                /\ left' = [left EXCEPT ![c] = @ \ {f}]
  BY <1>1, <1>2
<1>3. CASE left[c] = {} /\ A!Held = {} /\ entry' = None /\ A!Go(c, done, {})
  BY <1>3 DEF A!Held
<1>4. CASE (IF ~writable \/ (left[c] = {} /\ A!Held # {}) THEN UNCHANGED failures ELSE A!Fail)
             /\ A!Go(c, failed, {}) /\ UNCHANGED entry
  BY <1>4, <1>t DEF A!Fail
<1> QED BY <1>2, <1>3, <1>4 DEF A!Gone

\* In a directory with at most two callers, no step of one spoils what the other goes on to.
LEMMA DirWarmStays ==
  ASSUME CacheInv, DirWarm, backend = "dir", writable, Cardinality(Callers) \in 1..2,
         NEW c \in Callers, A!Step(c) \/ A!Crash(c), failures' = 0
  PROVE  DirWarm'
<1>1. CacheTypes /\ EntryWhole /\ OnlyOf(c) /\ WrittenWhole(c)
  BY CallerMoves DEF CacheInv
<1>t. /\ stage \in [Callers -> CachePlaces] /\ left \in [Callers -> SUBSET A!Files]
      /\ \A d \in Callers \ {c} : stage'[d] = stage[d] /\ left'[d] = left[d]
  BY <1>1, Zenon DEF CacheTypes, OnlyOf
<1>a. ASSUME NEW w, NEW F, A!Go(c, w, F) PROVE stage'[c] = w /\ left'[c] = F
  BY <1>a, <1>t DEF A!Go
<1>2. PICK d \in Callers : Callers = {c, d}
  BY TwoCallers
\* Either the other one is through, or nobody is, or this one.
<1> DEFINE Beside == d # c /\ stage[d] \in Through
           Alone == stage[c] \notin Through /\ stage[d] \notin Through /\ Unmoved
<1>3. Beside => Replacing(c)
  BY <1>2 DEF DirWarm
<1>4. stage[c] \in Through \/ Beside \/ Alone
  BY <1>2 DEF DirWarm
<1>5. ASSUME Beside, Replacing(c)' PROVE DirWarm'
  <2>1. stage'[d] \in Through
    BY <1>5, <1>t
  <2>2. stage'[c] \in Through => entry' = A!Whole
    BY <1>5 DEF Replacing
  <2>3. stage'[c] \in Through => Replacing(d)'
    BY <1>5, <2>1, <2>2 DEF Replacing, Through
  <2> QED BY <1>2, <1>5, <2>1, <2>2, <2>3 DEF DirWarm
<1>6. ASSUME Alone, stage'[c] \notin Through, Unmoved' PROVE DirWarm'
  <2>1. stage'[d] \notin Through
    BY <1>6, <1>t
  <2> QED BY <1>2, <1>6, <2>1 DEF DirWarm
<1>7. ASSUME Alone, stage'[c] \in Through, entry' = A!Whole, d # c => Replacing(d)' PROVE DirWarm'
  <2>1. d # c => stage'[d] \notin Through
    BY <1>7, <1>t
  <2> QED BY <1>2, <1>7, <2>1 DEF DirWarm
<1>8. CASE A!DirGet(c)
  <2>0. stage[c] = "start" /\ UNCHANGED entry /\ stage[c] \notin Through
    BY <1>8 DEF A!DirGet, Through
  <2>1. stage'[c] = IF entry = None THEN "translate" ELSE "read meta"
    BY <1>8, <1>a DEF A!DirGet, A!Miss
  <2>2. CASE Beside
    <3>1. entry = A!Whole
      BY <1>3, <2>0, <2>2 DEF Replacing, Reading
    <3> QED BY <1>5, <2>0, <2>1, <2>2, <3>1, WholeHolds DEF Replacing
  <2>3. CASE Alone
    <3>1. A!Held' = A!Held /\ (entry = None => A!Held = {})
      BY <2>0 DEF A!Held
    <3>2. CASE entry = A!Whole /\ \A e \in Callers : stage[e] \in Reading
      <4>1. stage'[c] \in Reading /\ stage'[c] \notin Through
        BY <2>1, <3>2, WholeHolds DEF Reading, Through
      <4> QED BY <1>2, <1>6, <1>t, <2>0, <2>3, <3>2, <4>1 DEF Unmoved
    <3>3. CASE ~(entry = A!Whole /\ \A e \in Callers : stage[e] \in Reading)
      <4>1. Unmoved'
        BY <1>2, <1>t, <2>0, <2>1, <2>3, <3>1, <3>3 DEF Unmoved, Putting
      <4> QED BY <1>6, <2>1, <2>3, <4>1 DEF Through
    <3> QED BY <3>2, <3>3
  <2> QED BY <1>4, <2>0, <2>2, <2>3
<1>9. ASSUME NEW f \in A!Files, NEW w \in {"read plan", "read adapters", "hit"}, NEW F,
               A!ReadFile(c, f, w, F),
             stage[c] \in {"read meta", "read plan", "read adapters"}
      PROVE  DirWarm'
  <2>0. UNCHANGED entry /\ stage[c] \in Reading /\ stage[c] \notin Through /\ A!Held' = A!Held
    BY <1>1, <1>9, FileRead DEF Reading, Through, A!Held
  <2>1. \/ stage'[c] = w /\ f \in A!Held /\ entry[f] = "whole"
        \/ stage'[c] = "evict" /\ left'[c] = A!Held /\ entry # A!Whole
    BY <1>1, <1>9, <1>a, FileRead, WholeHolds
  <2>2. CASE Beside
    <3>1. entry = A!Whole
      BY <1>3, <2>0, <2>2 DEF Replacing
    <3> QED BY <1>5, <1>9, <2>0, <2>1, <2>2, <3>1 DEF Replacing
  <2>3. CASE Alone
    <3>1. CASE entry = A!Whole /\ \A e \in Callers : stage[e] \in Reading
      <4>1. stage'[c] = w
        BY <2>1, <3>1
      <4>2. CASE w = "hit"
        BY <1>7, <1>t, <2>0, <2>3, <3>1, <4>1, <4>2 DEF Replacing, Through, Reading
      <4>3. CASE w # "hit"
        BY <1>2, <1>6, <1>9, <1>t, <2>0, <2>3, <3>1, <4>1, <4>3 DEF Unmoved, Through, Reading
      <4> QED BY <4>2, <4>3
    <3>2. CASE ~(entry = A!Whole /\ \A e \in Callers : stage[e] \in Reading)
      <4>1. stage'[c] = "evict" /\ left'[c] = A!Held
        BY <2>1, <2>3, <3>2 DEF Unmoved
      <4>2. Unmoved'
        BY <1>2, <1>t, <2>0, <2>3, <3>2, <4>1 DEF Unmoved, Putting
      <4> QED BY <1>6, <2>3, <4>1, <4>2 DEF Through
    <3> QED BY <3>1, <3>2
  <2> QED BY <1>4, <2>0, <2>2, <2>3
<1>10. CASE A!Read(c)
  <2>1. "meta" \in A!Files /\ "plan" \in A!Files /\ left[c] \subseteq A!Files
    BY <1>t DEF A!Files
  <2>2. CASE stage[c] = "read meta" /\ A!ReadFile(c, "meta", "read plan", {})
    BY <1>9, <2>1, <2>2
  <2>3. CASE stage[c] = "read plan"
             /\ A!ReadFile(c, "plan", IF Adapters = {} THEN "hit" ELSE "read adapters", Adapters)
    BY <1>9, <2>1, <2>3
  <2>4. ASSUME NEW f \in left[c], stage[c] = "read adapters",
               A!ReadFile(c, f, IF left[c] = {f} THEN "hit" ELSE "read adapters", left[c] \ {f})
        PROVE  DirWarm'
    BY <1>9, <2>1, <2>4
  <2> QED BY <1>10, <2>2, <2>3, <2>4 DEF A!Read
<1>11. CASE A!Hit(c) \/ A!Clean(c) \/ A!Stored(c)
  <2>1. stage[c] \in Through /\ UNCHANGED entry /\ (A!Go(c, "over", {}) \/ A!Go(c, "stored", {}))
    BY <1>11 DEF A!Hit, A!Clean, A!Stored, Through
  <2>2. stage'[c] \in Through
    BY <1>a, <2>1 DEF Through
  <2>3. d # c => Replacing(d) /\ Replacing(d)'
    BY <1>2, <1>t, <2>1 DEF DirWarm, Replacing, A!Held
  <2>4. d # c /\ stage[d] \in Through => entry = A!Whole
    BY <2>3 DEF Replacing
  <2>5. (\A e \in Callers : stage'[e] \in Through) => entry' = A!Whole
    BY <1>2, <1>t, <2>1, <2>4 DEF DirWarm
  <2>6. d # c /\ stage'[d] \in Through => Replacing(c)'
    BY <1>t, <2>1, <2>2, <2>4 DEF Replacing, Through
  <2> QED BY <1>2, <2>2, <2>3, <2>5, <2>6 DEF DirWarm
<1>12. CASE A!DirEvict(c)
  <2>0. stage[c] = "evict" /\ stage[c] \notin Through /\ A!Gone(c, "translate", "translate")
    BY <1>12 DEF A!DirEvict, Through
  <2>1. stage'[c] \in {"evict", "translate"}
    BY <1>1, <1>a, <2>0, Removal
  <2>2. CASE Beside
    BY <1>5, <2>1, <2>2 DEF Replacing, Reading, Through
  <2>3. CASE Alone
    <3>1. A!Held \subseteq left[c] /\ stage[d] \notin {"read plan", "read adapters"}
          /\ (\A f \in A!Held : entry[f] = "old") /\ (stage[d] = "evict" => A!Held \subseteq left[d])
          /\ (stage[d] \in Putting \cup {"translate"} => A!Held = {}) /\ (stage[d] = "clear" => left[d] = {})
      BY <2>0, <2>3 DEF Unmoved, Reading
    <3>2. CASE UNCHANGED stage /\ A!Held' \subseteq A!Held /\ (\A f \in A!Held' : entry'[f] = entry[f])
               /\ (\A f \in A!Held' : f \in left[c] => f \in left'[c])
      <4>1. Unmoved'
        BY <1>2, <1>t, <2>0, <3>1, <3>2 DEF Unmoved, Putting
      <4> QED BY <1>6, <2>0, <2>3, <3>2, <4>1
    <3>3. CASE A!Go(c, "translate", {}) /\ A!Held' = {}
      <4>1. stage'[c] = "translate"
        BY <1>a, <3>3
      <4>2. Unmoved'
        BY <1>2, <1>t, <3>1, <3>3, <4>1 DEF Unmoved, Putting
      <4> QED BY <1>6, <2>3, <4>1, <4>2 DEF Through
    <3> QED BY <1>1, <2>0, <3>1, <3>2, <3>3, Removal
  <2> QED BY <1>4, <2>0, <2>2, <2>3
<1>13. CASE A!MakeScratch(c)
  <2>1. stage[c] = "translate" /\ stage[c] \notin Through /\ UNCHANGED entry /\ A!Held' = A!Held
    BY <1>13 DEF A!MakeScratch, Through, A!Held
  <2>2. failures' # failures + 1
    BY <1>1 DEF CacheTypes
  <2>3. stage'[c] = "write"
    BY <1>13, <1>a, <2>2 DEF A!MakeScratch, A!Fail
  <2>4. CASE Beside
    BY <1>5, <2>3, <2>4 DEF Replacing, Reading, Through
  <2>5. CASE Alone
    <3>1. Unmoved'
      BY <1>2, <1>t, <2>1, <2>3, <2>5 DEF Unmoved, Putting, Reading
    <3> QED BY <1>6, <2>3, <2>5, <3>1 DEF Through
  <2> QED BY <1>4, <2>1, <2>4, <2>5
<1>14. CASE A!Write(c)
  <2>1. stage[c] = "write" /\ stage[c] \notin Through /\ UNCHANGED entry /\ A!Held' = A!Held
    BY <1>14 DEF A!Write, Through, A!Held
  <2>2. failures' # failures + 1
    BY <1>1 DEF CacheTypes
  <2>3. stage'[c] = "write" \/ (stage'[c] = "clear" /\ left'[c] = A!Held)
    BY <1>14, <1>a, <2>1, <2>2 DEF A!Write, A!Fail
  <2>4. CASE Beside
    BY <1>5, <2>1, <2>3, <2>4 DEF Replacing, Reading, Through
  <2>5. CASE Alone
    <3>1. Unmoved'
      BY <1>2, <1>t, <2>1, <2>3, <2>5 DEF Unmoved, Putting, Reading
    <3> QED BY <1>6, <2>3, <2>5, <3>1 DEF Through
  <2> QED BY <1>4, <2>1, <2>4, <2>5
<1>15. CASE A!Clear(c)
  <2>0. stage[c] = "clear" /\ stage[c] \notin Through /\ A!Gone(c, "rename", "clean")
    BY <1>15 DEF A!Clear, Through
  <2>1. CASE UNCHANGED stage /\ A!Held' \subseteq A!Held /\ left[c] # {}
             /\ (\A f \in A!Held' : f \in left[c] => f \in left'[c])
    <3>1. ~Alone
      BY <2>0, <2>1 DEF Unmoved, Reading
    <3>2. Beside /\ A!Held \subseteq left[c]
      BY <1>3, <1>4, <2>0, <2>1, <3>1 DEF Replacing
    <3> QED BY <1>5, <2>0, <2>1, <3>2 DEF Replacing, Reading, Through
  <2>2. CASE A!Go(c, "rename", {}) /\ A!Held' = {}
    <3>1. stage'[c] = "rename"
      BY <1>a, <2>2
    <3>2. CASE Beside
      BY <1>5, <2>2, <3>1, <3>2 DEF Replacing, Reading, Through
    <3>3. CASE Alone
      <4>1. Unmoved'
        BY <1>2, <1>t, <2>0, <2>2, <3>1, <3>3 DEF Unmoved, Putting, Reading
      <4> QED BY <1>6, <3>1, <3>3, <4>1 DEF Through
    <3> QED BY <1>4, <2>0, <3>2, <3>3
  <2>3. CASE A!Go(c, "clean", {}) /\ left[c] = {} /\ A!Held # {} /\ UNCHANGED entry
    <3>1. ~Alone
      BY <2>0, <2>3 DEF Unmoved, Reading, Putting
    <3>2. Beside /\ entry = A!Whole
      BY <1>3, <1>4, <2>0, <2>3, <3>1 DEF Replacing
    <3>3. stage'[c] = "clean"
      BY <1>a, <2>3
    <3> QED BY <1>5, <2>3, <3>2, <3>3 DEF Replacing
  <2> QED BY <1>1, <2>0, <2>1, <2>2, <2>3, Removal
<1>16. CASE A!Rename(c)
  <2>0. stage[c] = "rename" /\ stage[c] \notin Through /\ scratch[c] = A!Whole
    BY <1>1, <1>16 DEF A!Rename, WrittenWhole, Through
  <2>1. CASE A!Held = {}
    <3>1. entry' = A!Whole /\ stage'[c] = "stored"
      BY <1>16, <1>a, <2>0, <2>1 DEF A!Rename, A!MayRename
    <3>2. CASE Beside
      BY <1>5, <3>1, <3>2 DEF Replacing
    <3>3. CASE Alone
      <4>1. d # c => (stage'[d] = "clear" => left'[d] = {})
        BY <1>t, <2>0, <3>3 DEF Unmoved, Reading
      <4> QED BY <1>7, <3>1, <3>3, <4>1 DEF Replacing, Through
    <3> QED BY <1>4, <2>0, <3>2, <3>3
  <2>2. CASE A!Held # {}
    <3>1. UNCHANGED entry /\ stage'[c] = "clean"
      BY <1>16, <1>a, <2>2 DEF A!Rename, A!MayRename
    <3>2. ~Alone
      BY <2>0, <2>2 DEF Unmoved, Reading, Putting
    <3>3. Beside /\ entry = A!Whole
      BY <1>3, <1>4, <2>0, <2>2, <3>2 DEF Replacing
    <3> QED BY <1>5, <3>1, <3>3 DEF Replacing
  <2> QED BY <2>1, <2>2
<1>17. CASE A!WebGet(c) \/ A!WebEvict(c) \/ A!WebPut(c)
  BY <1>17 DEF A!WebGet, A!WebEvict, A!WebPut
<1>18. CASE A!Crash(c)
  BY <1>1, <1>18 DEF A!Crash, A!Fail, CacheTypes
<1> QED BY <1>8, <1>10, <1>11, <1>12, <1>13, <1>14, <1>15, <1>16, <1>17, <1>18 DEF A!Step

\* All that holds of the artifact cache, in every behaviour of the store.
LEMMA CacheHolds == StoreSpec => [](CacheInv /\ WarmInv)
<1>1. StoreStarted => CacheInv /\ WarmInv
  <2> SUFFICES ASSUME A!Init PROVE CacheInv /\ WarmInv
    BY DEF StoreStarted
  <2>1. /\ backend \in {"dir", "web"} /\ writable \in BOOLEAN /\ failures = 0
        /\ entry \in {None, A!Whole, OldLayout}
        /\ scratch = [c \in Callers |-> None] /\ stage = [c \in Callers |-> "start"]
        /\ left = [c \in Callers |-> {}] /\ taken = [c \in Callers |-> A!NoFiles]
        /\ result = [c \in Callers |-> None]
    BY Zenon DEF A!Init, OldLayout
  <2>2. CacheTypes
    <3>1. entry \in Saved /\ A!NoFiles \in Directories /\ None \in Saved
      BY <2>1, SomeDirectories DEF Saved
    <3>2. writable \in BOOLEAN /\ backend \in {"dir", "web"}
      BY <2>1, Zenon
    <3>3. failures \in Nat
      BY <2>1
    <3>4. stage \in [Callers -> CachePlaces] /\ left \in [Callers -> SUBSET A!Files]
      BY <2>1 DEF CachePlaces, Reading
    <3>5. scratch \in [Callers -> Saved] /\ taken \in [Callers -> Directories]
            /\ result \in [Callers -> Saved]
      BY <2>1, <3>1
    <3>6. \A c \in Callers : stage[c] # "write"
      BY <2>1
    <3> QED BY <3>1, <3>2, <3>3, <3>4, <3>5, <3>6, Zenon DEF CacheTypes
  <2>3. EntryWhole
    BY <2>1 DEF EntryWhole, A!Whole, OldLayout, A!Files
  <2>4. \A c \in Callers : ReadWhole(c) /\ WrittenWhole(c)
    BY <2>1 DEF ReadWhole, WrittenWhole, Putting
  <2>5. WarmInv
    <3>1. \A c \in Callers : stage[c] = "start"
      BY <2>1
    <3>2. \A c \in Callers : stage[c] \notin Through
      BY <3>1 DEF Through
    <3>3. WebWarm
      BY <3>2 DEF WebWarm
    <3>4. Cardinality(Callers) \in 1..2 => DirWarm
      <4> SUFFICES ASSUME Cardinality(Callers) \in 1..2 PROVE DirWarm
        OBVIOUS
      <4>1. PICK c : c \in Callers
        BY FS_EmptySet, StoreAssumption
      <4>2. entry # A!Whole => \A f \in A!Held : entry[f] = "old"
        BY <2>1 DEF A!Held, OldLayout
      <4>3. Unmoved
        BY <3>1, <4>2 DEF Unmoved, Reading, Putting
      <4> QED BY <3>2, <4>1, <4>3 DEF DirWarm
    <3> QED BY <3>3, <3>4 DEF WarmInv
  <2> QED BY <2>2, <2>3, <2>4, <2>5 DEF CacheInv
<1>2. CacheInv /\ WarmInv /\ [StoreStep]_<<part, storeVars>> => (CacheInv /\ WarmInv)'
  <2> SUFFICES ASSUME CacheInv, WarmInv, [StoreStep]_<<part, storeVars>> PROVE CacheInv' /\ WarmInv'
    OBVIOUS
  <2>1. CASE UNCHANGED avars
    <3>1. CacheInv'
      <4>1. CacheTypes'
        BY <2>1, Zenon DEF avars, CacheInv, CacheTypes
      <4>2. EntryWhole'
        BY <2>1, Zenon DEF avars, CacheInv, EntryWhole
      <4>3. \A c \in Callers : ReadWhole(c)'
        BY <2>1 DEF avars, CacheInv, ReadWhole
      <4>4. \A c \in Callers : WrittenWhole(c)'
        BY <2>1 DEF avars, CacheInv, WrittenWhole
      <4> QED BY <4>1, <4>2, <4>3, <4>4 DEF CacheInv
    <3>2. WarmInv'
      BY <2>1, Zenon DEF avars, WarmInv, WebWarm, DirWarm, Unmoved, Replacing, A!Held
    <3> QED BY <3>1, <3>2
  <2>2. CASE A!Next
    <3>1. PICK c \in Callers : A!Step(c) \/ A!Crash(c)
      BY <2>2 DEF A!Next
    <3>2. CacheInv'
      BY <3>1, CacheStep
    <3>3. CASE failures' = 0 /\ writable'
      <4>0. UNCHANGED <<backend, writable>> /\ failures' \in {failures, failures + 1} /\ failures \in Nat
        BY <3>1, CallerMoves, Zenon DEF OnlyOf, CacheInv, CacheTypes
      <4>4. failures = 0
        <5>1. failures' = 0
          BY <3>3
        <5> HIDE <3>3
        <5> QED BY <4>0, <5>1
      <4>1. UNCHANGED <<backend, writable>> /\ failures = 0 /\ writable
        BY <3>3, <4>0, <4>4, Zenon
      <4>2. backend = "dir" /\ Cardinality(Callers) \in 1..2 => DirWarm'
        BY <3>1, <3>3, <4>1, DirWarmStays DEF WarmInv
      <4>3. backend = "web" => WebWarm'
        BY <3>1, <3>3, <4>1, WebWarmStays DEF WarmInv
      <4> QED BY <3>2, <4>1, <4>2, <4>3 DEF WarmInv
    <3>4. CASE ~(failures' = 0 /\ writable')
      BY <3>2, <3>4 DEF WarmInv
    <3> QED BY <3>3, <3>4
  <2> QED BY <2>1, <2>2 DEF StoreStep, storeVars
<1> QED BY <1>1, <1>2, PTL DEF StoreSpec

\* What comes out of either cache is whole and was made from what was asked for, for any
\* number of callers, files and failures; the directory is warm in the end where at most
\* two callers replace the entry, the Cache API always: cache/core.ts, dir.ts, web.ts,
\* executor.ts.
THEOREM CachesAreWhole == StoreSpec => []CachesWhole
<1>1. CacheInv => A!ResultWhole
  BY DEF CacheInv, ReadWhole, A!ResultWhole
<1>2. CacheInv => A!NeverTorn
  BY DEF CacheInv, EntryWhole, A!NeverTorn, A!Held
<1>3. CacheInv /\ WarmInv => A!Warm
  <2> SUFFICES ASSUME CacheInv, WarmInv PROVE A!Warm
    OBVIOUS
  <2> DEFINE Rest == failures = 0 /\ writable /\ \A c \in Callers : stage[c] = "over"
             Few == Cardinality(Callers) \in 1..(IF backend = "dir" THEN 2 ELSE Cardinality(Callers))
  <2>1. Rest => \A c \in Callers : scratch[c] = None
    BY DEF CacheInv, WrittenWhole, Putting
  <2>2. Rest /\ Few /\ backend = "dir" => entry = A!Whole
    BY DEF WarmInv, DirWarm, Through
  <2>3. Rest /\ Few /\ backend # "dir" => entry = A!Whole
    <3> SUFFICES ASSUME Rest, Few, backend # "dir" PROVE entry = A!Whole
      OBVIOUS
    <3>1. backend = "web"
      BY Zenon DEF CacheInv, CacheTypes
    <3>2. PICK c : c \in Callers
      BY FS_EmptySet, StoreAssumption
    <3> QED BY <3>1, <3>2 DEF WarmInv, WebWarm, Through
  <2>4. Rest => (\A c \in Callers : scratch[c] = None) /\ (Few => entry = A!Whole)
    <3> HIDE DEF Rest, Few
    <3> QED BY <2>1, <2>2, <2>3
  <2>5. A!Warm <=> (Rest => (\A c \in Callers : scratch[c] = None) /\ (Few => entry = A!Whole))
    BY Zenon DEF A!Warm, A!Cardinality, Cardinality
  <2> QED BY <2>4, <2>5
<1>4. CacheInv /\ WarmInv /\ C!OwnModules => CachesWhole
  BY <1>1, <1>2, <1>3 DEF CachesWhole
<1> QED BY <1>4, CacheHolds, ModulesOwn, PTL

-----------------------------------------------------------------------------
(* The loops that drive a store.                                               *)

\* What activations, host calls and promises are.
GuestTypes ==
  /\ mode \in {"plain", "jspi"}
  /\ act \in [Callers -> D!Acts] /\ on \in [Callers -> SlowCalls \cup {Arm, None}] /\ gen \in [Callers -> Nat]
  /\ resolved \subseteq Callers /\ pending \subseteq Callers /\ settled \subseteq Callers \X Nat
  /\ out \subseteq SlowCalls /\ heard \subseteq SlowCalls \cup {Arm} /\ rejected \subseteq SlowCalls
  /\ out \cap heard = {} /\ (out \cup heard) \cap rejected = {}

\* Without JSPI no activation is ever parked on a promise.
NoPromises ==
  mode = "plain" => settled = {} /\ pending = {} /\ \A t \in Callers : act[t] \in {"idle", "wait", "done"}

\* A queued settlement is the last promise of its thread, which is the tail of that promise
\* or past it; and every tail has its settlement in the queue.
Tails ==
  /\ \A e \in settled : act[e[1]] \in {"tail", "wait", "done"} /\ e[2] = gen[e[1]]
  /\ \A t \in Callers : act[t] = "tail" => <<t, gen[t]>> \in settled

GuestInv == GuestTypes /\ NoPromises /\ Tails

\* What a segment of wasm leaves: where the activation is, and what it waits for.
LEMMA SegmentMoves ==
  ASSUME GuestTypes, NEW t \in Callers, NEW g, D!Segment(t, g)
  PROVE  \E a \in {"hop", "susp", "settling", "wait", "done"}, x \in SlowCalls \cup {Arm, None} :
           /\ act' = [act EXCEPT ![t] = a] /\ on' = [on EXCEPT ![t] = x] /\ gen' = [gen EXCEPT ![t] = g]
           /\ x \notin heard \cup rejected /\ out' = out \cup ({x} \ {Arm, None})
           /\ mode = "plain" => a \in {"wait", "done"} /\ pending' = pending
           /\ mode = "jspi" => a \in {"hop", "susp", "settling"}
           /\ resolved' \subseteq Callers /\ pending' \subseteq pending
<1> USE StoreAssumption DEF GuestTypes
<1>0. None \notin heard \cup rejected /\ None # Arm
  OBVIOUS
<1>1. CASE /\ mode = "jspi" /\ act' = [act EXCEPT ![t] = "hop"] /\ on' = [on EXCEPT ![t] = None]
           /\ UNCHANGED <<resolved, out, pending>>
  <2>1. gen' = [gen EXCEPT ![t] = g]
    BY DEF D!Segment
  <2> WITNESS "hop" \in {"hop", "susp", "settling", "wait", "done"}, None \in SlowCalls \cup {Arm, None}
  <2> QED BY <1>0, <1>1, <2>1
<1>2. CASE \E x \in D!Awaitable :
             /\ mode = "jspi" /\ act' = [act EXCEPT ![t] = "susp"] /\ on' = [on EXCEPT ![t] = x]
             /\ out' = out \cup ({x} \ {Arm}) /\ pending' = pending \ {t}
             /\ resolved' \in {resolved, resolved \cup {t}}
  <2>1. gen' = [gen EXCEPT ![t] = g]
    BY DEF D!Segment
  <2>2. PICK y \in D!Awaitable :
             /\ mode = "jspi" /\ act' = [act EXCEPT ![t] = "susp"] /\ on' = [on EXCEPT ![t] = y]
             /\ out' = out \cup ({y} \ {Arm}) /\ pending' = pending \ {t}
             /\ resolved' \in {resolved, resolved \cup {t}}
    BY <1>2
  <2>3. y \in SlowCalls \cup {Arm, None} /\ y \notin heard \cup rejected /\ y # None
    BY <1>0 DEF D!Awaitable
  <2>4. out' = out \cup ({y} \ {Arm, None})
    BY <2>2, <2>3
  <2> QED BY <2>1, <2>2, <2>3, <2>4
<1>3. CASE \E x \in D!Awaitable \cup {None} :
          /\ act' = [act EXCEPT ![t] =
                     IF mode = "jspi" THEN "settling" ELSE IF x = None THEN "done" ELSE "wait"]
          /\ on' = [on EXCEPT ![t] = x]
          /\ out' = out \cup ({x} \ {Arm, None})
          /\ resolved' \in {IF x = None THEN resolved \cup {t} ELSE resolved, resolved \cup {t}}
          /\ UNCHANGED pending
  <2>1. gen' = [gen EXCEPT ![t] = g]
    BY DEF D!Segment
  <2>2. PICK y \in D!Awaitable \cup {None} :
          /\ act' = [act EXCEPT ![t] =
                     IF mode = "jspi" THEN "settling" ELSE IF y = None THEN "done" ELSE "wait"]
          /\ on' = [on EXCEPT ![t] = y]
          /\ out' = out \cup ({y} \ {Arm, None})
          /\ resolved' \in {IF y = None THEN resolved \cup {t} ELSE resolved, resolved \cup {t}}
          /\ UNCHANGED pending
    BY <1>3
  <2>3. y \in SlowCalls \cup {Arm, None} /\ y \notin heard \cup rejected
    BY <1>0 DEF D!Awaitable
  <2> DEFINE b == IF mode = "jspi" THEN "settling" ELSE IF y = None THEN "done" ELSE "wait"
  <2>4. b \in {"hop", "susp", "settling", "wait", "done"}
    OBVIOUS
  <2>5. (mode = "plain" => b \in {"wait", "done"}) /\ (mode = "jspi" => b = "settling")
    OBVIOUS
  <2> HIDE DEF b
  <2>6. act' = [act EXCEPT ![t] = b]
    BY <2>2 DEF b
  <2> QED BY <2>1, <2>2, <2>3, <2>4, <2>5, <2>6
<1> QED BY <1>1, <1>2, <1>3, Zenon DEF D!Segment

\* A thread that is ready is resumed, or runs on to its next promise.
LEMMA TickMoves ==
  ASSUME GuestInv, D!TickOne
  PROVE  /\ settled = {} /\ settled' = {} /\ stale' = stale /\ pending = {}
         /\ \E t \in Callers :
              \/ /\ mode = "jspi" /\ act[t] = "susp"
                 /\ act' = [act EXCEPT ![t] = "resumed"] /\ pending' = pending \cup {t}
                 /\ UNCHANGED <<on, gen, resolved, out>>
              \/ act[t] = "wait" /\ D!Segment(t, gen[t] + 1)
<1>1. /\ settled = {} /\ settled' = {} /\ stale' = stale /\ pending = {}
  BY DEF D!TickOne, D!CanTick, D!Unserviced
<1>2. PICK t \in D!Ready :
       IF act[t] = "susp"
         THEN /\ act' = [act EXCEPT ![t] = "resumed"] /\ pending' = pending \cup {t}
              /\ UNCHANGED <<on, gen, resolved, out>>
         ELSE D!Segment(t, gen[t] + 1)
  BY DEF D!TickOne
<1>3. t \in Callers /\ act[t] \in {"susp", "wait"}
  BY DEF D!Ready
<1>4. CASE act[t] = "susp"
  <2>1. mode = "jspi"
    BY <1>3, <1>4 DEF GuestInv, GuestTypes, NoPromises
  <2> QED BY <1>1, <1>2, <1>3, <1>4, <2>1
<1>5. CASE act[t] = "wait"
  BY <1>1, <1>2, <1>3, <1>5
<1> QED BY <1>3, <1>4, <1>5

\* The segment of a thread whose settlement is not in the queue keeps the invariant.
LEMMA SegmentKeeps ==
  ASSUME GuestInv, NEW t \in Callers, NEW g \in Nat, D!Segment(t, g), act[t] \notin {"tail", "done"},
         act[t] = "wait" => settled = {}, g = gen[t] \/ settled = {} \/ act[t] = "idle",
         UNCHANGED <<mode, settled, heard, rejected>>
  PROVE  GuestInv'
<1>1. PICK a \in {"hop", "susp", "settling", "wait", "done"}, x \in SlowCalls \cup {Arm, None} :
           /\ act' = [act EXCEPT ![t] = a] /\ on' = [on EXCEPT ![t] = x] /\ gen' = [gen EXCEPT ![t] = g]
           /\ x \notin heard \cup rejected /\ out' = out \cup ({x} \ {Arm, None})
           /\ mode = "plain" => a \in {"wait", "done"} /\ pending' = pending
           /\ mode = "jspi" => a \in {"hop", "susp", "settling"}
           /\ resolved' \subseteq Callers /\ pending' \subseteq pending
  BY SegmentMoves DEF GuestInv
<1>t. /\ act \in [Callers -> D!Acts] /\ on \in [Callers -> SlowCalls \cup {Arm, None}]
      /\ gen \in [Callers -> Nat] /\ settled \subseteq Callers \X Nat
  BY DEF GuestInv, GuestTypes
<1>2. GuestTypes'
  <2>1. act' \in [Callers -> D!Acts] /\ on' \in [Callers -> SlowCalls \cup {Arm, None}]
          /\ gen' \in [Callers -> Nat]
    BY <1>1, <1>t DEF D!Acts
  <2>2. /\ out' \subseteq SlowCalls /\ out' \cap heard = {} /\ out' \cap rejected = {}
    BY <1>1 DEF GuestInv, GuestTypes
  <2>3. resolved' \subseteq Callers /\ pending' \subseteq Callers
    BY <1>1 DEF GuestInv, GuestTypes
  <2> QED BY <2>1, <2>2, <2>3 DEF GuestInv, GuestTypes
<1>3. NoPromises'
  BY <1>1, <1>t DEF GuestInv, NoPromises
<1>4. \A e \in settled : e[1] # t
  BY <1>t DEF GuestInv, Tails
<1>5. \A d \in Callers : d # t => act'[d] = act[d] /\ gen'[d] = gen[d]
  BY <1>1, <1>t
<1>6. act'[t] # "tail"
  BY <1>1, <1>t
<1>7. Tails'
  BY <1>t, <1>4, <1>5, <1>6 DEF GuestInv, Tails
<1> QED BY <1>2, <1>3, <1>7 DEF GuestInv

\* A resumption of a tail, with or without its settlement leaving the queue, keeps it.
LEMMA ResumeKeeps ==
  ASSUME GuestInv, NEW t \in Callers, act[t] = "tail", NEW g, g = gen[t], D!ResumeWith(t, g),
         settled' \in {settled, settled \ {<<t, g>>}}, pending' \subseteq pending,
         UNCHANGED <<mode, on, gen, resolved, out, heard, rejected>>
  PROVE  GuestInv' /\ (stale \in BOOLEAN => stale' = stale)
<1>t. /\ act \in [Callers -> D!Acts] /\ gen \in [Callers -> Nat] /\ settled \subseteq Callers \X Nat
  BY DEF GuestInv, GuestTypes
<1>1. PICK a \in {"done", "wait"} : act' = [act EXCEPT ![t] = a]
  BY Zenon DEF D!ResumeWith
<1>2. stale \in BOOLEAN => stale' = stale
  BY Zenon DEF D!ResumeWith
<1>3. act' \in [Callers -> D!Acts] /\ act'[t] \in {"done", "wait"}
  BY <1>1, <1>t DEF D!Acts
<1>4. \A d \in Callers : d # t => act'[d] = act[d]
  BY <1>1, <1>t
<1>5. mode = "jspi"
  BY DEF GuestInv, GuestTypes, NoPromises
<1>6. GuestTypes'
  BY <1>3 DEF GuestInv, GuestTypes
<1>7. \A e \in settled' : e \in settled /\ e[1] \in Callers
  BY <1>t
<1>8. Tails'
  <2>1. \A e \in settled' : act'[e[1]] \in {"tail", "wait", "done"} /\ e[2] = gen'[e[1]]
    BY <1>3, <1>4, <1>7 DEF GuestInv, Tails
  <2>2. ASSUME NEW d \in Callers, act'[d] = "tail" PROVE <<d, gen'[d]>> \in settled'
    <3>1. d # t /\ act[d] = "tail"
      BY <1>3, <1>4, <2>2
    <3>2. <<d, gen[d]>> \in settled
      BY <3>1 DEF GuestInv, Tails
    <3> QED BY <3>1, <3>2
  <2> QED BY <2>1, <2>2 DEF Tails
<1> QED BY <1>2, <1>5, <1>6, <1>8 DEF GuestInv, NoPromises

\* serviceSettled resumes a tail on its promise or drops an entry.
LEMMA ServiceKeeps ==
  ASSUME GuestInv, D!ServiceOne, UNCHANGED <<mode, heard, rejected>>
  PROVE  GuestInv' /\ (stale \in BOOLEAN => stale' = stale)
<1>1. PICK e \in settled :
    /\ settled' = settled \ {e}
    /\ IF e[1] \in D!Awaiting THEN D!ResumeWith(e[1], e[2]) ELSE UNCHANGED <<act, stale>>
    /\ UNCHANGED <<on, gen, resolved, out, pending>>
  BY DEF D!ServiceOne
<1>t. /\ act \in [Callers -> D!Acts] /\ gen \in [Callers -> Nat] /\ settled \subseteq Callers \X Nat
  BY DEF GuestInv, GuestTypes
<1>2. e[1] \in Callers /\ e = <<e[1], e[2]>> /\ e[2] = gen[e[1]] /\ act[e[1]] \in {"tail", "wait", "done"}
  BY <1>t DEF GuestInv, Tails
<1>3. CASE e[1] \in D!Awaiting
  <2>1. act[e[1]] = "tail"
    BY <1>2, <1>3 DEF D!Awaiting
  <2> QED BY <1>1, <1>2, <1>3, <2>1, ResumeKeeps
<1>4. CASE e[1] \notin D!Awaiting
  <2>1. act[e[1]] # "tail"
    <3>1. mode = "jspi"
      BY <1>1 DEF GuestInv, GuestTypes, NoPromises
    <3> QED BY <1>2, <1>4, <3>1 DEF D!Awaiting
  <2>2. UNCHANGED <<act, stale>>
    BY <1>1, <1>4
  <2>3. \A t \in Callers : act[t] = "tail" => <<t, gen[t]>> \in settled'
    BY <1>1, <1>2, <2>1 DEF GuestInv, Tails
  <2>4. GuestTypes'
    BY <1>1, <2>2 DEF GuestInv, GuestTypes
  <2>5. Tails' /\ NoPromises'
    BY <1>1, <2>2, <2>3 DEF GuestInv, Tails, NoPromises
  <2> QED BY <2>2, <2>4, <2>5 DEF GuestInv
<1> QED BY <1>3, <1>4
\* What leaves the activations, the host calls and the queue of settlements alone.
LEMMA GuestSame ==
  ASSUME GuestInv, UNCHANGED <<mode, act, on, gen, resolved, out, heard, rejected, settled>>,
         pending' \subseteq pending \/ (\E c \in D!Parked : pending' = pending \cup {c})
  PROVE  GuestInv'
<1>1. pending' \subseteq Callers /\ (mode = "plain" => pending' = {})
  <2>1. CASE pending' \subseteq pending
    BY <2>1 DEF GuestInv, GuestTypes, NoPromises
  <2>2. CASE \E c \in D!Parked : pending' = pending \cup {c}
    BY <2>2 DEF GuestInv, GuestTypes, D!Parked, D!Awaiting
  <2> QED BY <2>1, <2>2
<1>2. GuestTypes'
  BY <1>1 DEF GuestInv, GuestTypes
<1>3. NoPromises' /\ Tails'
  BY <1>1 DEF GuestInv, NoPromises, Tails
<1> QED BY <1>2, <1>3 DEF GuestInv

\* A tick keeps it.
LEMMA TickKeeps ==
  ASSUME GuestInv, D!TickOne, UNCHANGED <<mode, heard, rejected>>
  PROVE  GuestInv' /\ stale' = stale
<1>1. settled = {} /\ settled' = {} /\ stale' = stale /\ pending = {}
  BY TickMoves
<1>2. PICK t \in Callers :
              \/ /\ mode = "jspi" /\ act[t] = "susp"
                 /\ act' = [act EXCEPT ![t] = "resumed"] /\ pending' = pending \cup {t}
                 /\ UNCHANGED <<on, gen, resolved, out>>
              \/ act[t] = "wait" /\ D!Segment(t, gen[t] + 1)
  BY TickMoves
<1>3. CASE act[t] = "wait" /\ D!Segment(t, gen[t] + 1)
  <2>1. gen[t] + 1 \in Nat
    BY DEF GuestInv, GuestTypes
  <2>2. settled' = settled
    BY <1>1
  <2> QED BY <1>1, <1>3, <2>1, <2>2, SegmentKeeps
<1>4. CASE /\ mode = "jspi" /\ act[t] = "susp"
           /\ act' = [act EXCEPT ![t] = "resumed"] /\ pending' = pending \cup {t}
           /\ UNCHANGED <<on, gen, resolved, out>>
  <2>1. GuestTypes'
    BY <1>1, <1>4 DEF GuestInv, GuestTypes, D!Acts
  <2>2. act \in [Callers -> D!Acts]
    BY DEF GuestInv, GuestTypes
  <2>3. \A d \in Callers : act'[d] = "tail" => act[d] = "tail"
    BY <1>4, <2>2
  <2>4. Tails'
    BY <1>1, <1>4, <2>3 DEF GuestInv, Tails
  <2> QED BY <1>1, <1>4, <2>1, <2>4 DEF GuestInv, NoPromises
<1> QED BY <1>2, <1>3, <1>4

\* Whatever the loops, the engine, the host and the embedder do, in whatever order, the
\* activations keep it, and none is resumed with the value of an earlier promise.
LEMMA GuestKeeps ==
  ASSUME GuestInv, stale \in BOOLEAN, D!Next
  PROVE  GuestInv' /\ stale' = stale
<1> USE DEF D!guest, D!store
<1>1. ASSUME NEW t \in Callers, D!EngineRuns(t) PROVE GuestInv' /\ stale' = stale
  <2>1. D!Segment(t, gen[t]) /\ act[t] \in {"hop", "resumed"}
    BY <1>1 DEF D!EngineRuns
  <2>2. UNCHANGED <<mode, settled, heard, rejected, stale>>
    BY <1>1 DEF D!EngineRuns
  <2>3. gen[t] \in Nat
    BY DEF GuestInv, GuestTypes
  <2> QED BY <2>1, <2>2, <2>3, SegmentKeeps
<1>2. ASSUME NEW t \in Callers, D!Settles(t) PROVE GuestInv' /\ stale' = stale
  <2>1. /\ act[t] = "settling" /\ act' = [act EXCEPT ![t] = "tail"]
        /\ settled' = settled \cup {<<t, gen[t]>>} /\ pending' = pending \ {t}
        /\ UNCHANGED <<mode, on, gen, resolved, out, heard, rejected, stale>>
    BY <1>2 DEF D!Settles
  <2>t. act \in [Callers -> D!Acts] /\ gen \in [Callers -> Nat] /\ settled \subseteq Callers \X Nat
    BY DEF GuestInv, GuestTypes
  <2>2. act'[t] = "tail" /\ \A d \in Callers : d # t => act'[d] = act[d]
    BY <2>1, <2>t
  <2>3. mode # "plain"
    BY <2>1 DEF GuestInv, NoPromises
  <2>4. GuestTypes'
    BY <2>1, <2>t DEF GuestInv, GuestTypes, D!Acts
  <2>5. \A e \in settled : e[1] # t /\ e[1] \in Callers
    BY <2>1, <2>t DEF GuestInv, Tails
  <2>6. Tails'
    BY <2>1, <2>2, <2>5, <2>t DEF GuestInv, Tails
  <2> QED BY <2>1, <2>3, <2>4, <2>6 DEF GuestInv, NoPromises
<1>3. ASSUME NEW t \in Callers, D!CallExport(t) PROVE GuestInv' /\ stale' = stale
  BY <1>3, SegmentKeeps DEF D!CallExport
<1>4. ASSUME NEW t \in Callers, D!Drive(t) PROVE GuestInv' /\ stale' = stale
  <2>1. UNCHANGED <<mode, heard, rejected>>
    BY <1>4 DEF D!Drive, D!Loop
  <2>2. D!TickOne \/ UNCHANGED <<act, on, gen, resolved, out, pending, settled, stale>>
    BY <1>4 DEF D!Drive
  <2> QED BY <2>1, <2>2, TickKeeps, GuestSame
<1>5. ASSUME NEW h \in SlowCalls, D!HostSettles(h) PROVE GuestInv' /\ stale' = stale
  <2>1. /\ h \in out /\ out' = out \ {h}
        /\ \/ heard' = heard \cup {h} /\ rejected' = rejected
           \/ rejected' = rejected \cup {h} /\ heard' = heard
        /\ UNCHANGED <<mode, act, on, gen, resolved, pending, settled, stale>>
    BY <1>5 DEF D!HostSettles
  <2>2. GuestTypes'
    BY <2>1 DEF GuestInv, GuestTypes
  <2> QED BY <2>1, <2>2 DEF GuestInv, NoPromises, Tails
<1>6. ASSUME NEW d \in D!Drivers, D!Service(d) PROVE GuestInv' /\ stale' = stale
  <2>1. UNCHANGED <<mode, heard, rejected>>
    BY <1>6 DEF D!Service, D!Loop
  <2>2. D!ServiceOne \/ UNCHANGED <<act, on, gen, resolved, out, pending, settled, stale>>
    BY <1>6 DEF D!Service
  <2> QED BY <2>1, <2>2, ServiceKeeps, GuestSame
<1>7. ASSUME NEW d \in D!Drivers, D!Tick(d) PROVE GuestInv' /\ stale' = stale
  <2>1. UNCHANGED <<mode, heard, rejected>>
    BY <1>7 DEF D!Tick, D!Loop
  <2>2. D!TickOne \/ UNCHANGED <<act, on, gen, resolved, out, pending, settled, stale>>
    BY <1>7 DEF D!Tick
  <2> QED BY <2>1, <2>2, TickKeeps, GuestSame
<1>8. ASSUME NEW d \in D!Drivers, D!Decide(d) \/ D!ProbeWon(d) PROVE GuestInv' /\ stale' = stale
  <2>1. UNCHANGED <<mode, act, on, gen, resolved, out, heard, rejected, settled, stale>>
    BY <1>8 DEF D!Decide, D!ProbeWon, D!Loop
  <2>2. pending' = pending \/ D!RaceAll(d, "race") \/ D!RaceAll(d, "again")
    BY <1>8 DEF D!Decide, D!ProbeWon
  <2>3. \A at : D!RaceAll(d, at) => \E c \in D!Parked : pending' = pending \cup {c}
    BY Zenon DEF D!RaceAll
  <2> QED BY <2>1, <2>2, <2>3, GuestSame
<1>9. ASSUME NEW d \in D!Drivers, D!RaceWon(d) PROVE GuestInv' /\ stale' = stale
  <2>1. /\ pending' = pending \ {snap[d].chosen}
        /\ UNCHANGED <<mode, on, gen, resolved, out, heard, rejected, settled>>
    BY <1>9 DEF D!RaceWon
  <2>2. UNCHANGED <<act, stale>>
       \/ \E tag \in D!Winners(d) : D!SamePromise(tag) /\ D!ResumeWith(tag[1], tag[2])
    BY <1>9 DEF D!RaceWon
  <2>3. ASSUME NEW tag \in D!Winners(d), D!SamePromise(tag), D!ResumeWith(tag[1], tag[2])
        PROVE  GuestInv' /\ stale' = stale
    <3>1. tag[1] \in Callers /\ gen[tag[1]] = tag[2] /\ tag[1] \in D!Awaiting /\ tag[2] \in Nat
      BY <2>3 DEF D!SamePromise, D!Awaiting, GuestInv, GuestTypes
    <3>2. tag[2] < gen[tag[1]] \/ act[tag[1]] \in {"tail", "wait", "done"}
      BY DEF D!Winners, D!TagSettled
    <3>3. act[tag[1]] = "tail"
      BY <3>1, <3>2 DEF D!Awaiting
    <3> QED BY <2>1, <2>3, <3>1, <3>3, ResumeKeeps
  <2>4. CASE UNCHANGED <<act, stale>>
    <3>1. pending' \subseteq pending
      BY <2>1
    <3> QED BY <2>1, <2>4, <3>1, GuestSame
  <2> QED BY <2>2, <2>3, <2>4
<1>10. ASSUME NEW d \in D!Drivers,
              D!Yielded(d) \/ D!Hopped(d) \/ D!CallsWon(d) \/ D!ProbeTimeout(d) \/ D!GivesUp(d)
       PROVE  GuestInv' /\ stale' = stale
  <2>1. UNCHANGED <<mode, act, on, gen, resolved, out, heard, rejected, settled, stale, pending>>
    BY <1>10 DEF D!Yielded, D!Hopped, D!CallsWon, D!ProbeTimeout, D!GivesUp
  <2> QED BY <2>1, GuestSame
<1>11. CASE D!SettlementLoop \/ D!SettlementWakes \/ D!ActivityLoop
  <2>1. UNCHANGED <<mode, act, on, gen, resolved, out, heard, rejected, settled, stale, pending>>
    BY <1>11 DEF D!SettlementLoop, D!SettlementWakes, D!ActivityLoop
  <2> QED BY <2>1, GuestSame
<1>12. CASE D!EmbedderActs
  <2>1. /\ heard' = heard \cup {Arm}
        /\ UNCHANGED <<mode, act, on, gen, resolved, out, rejected, settled, stale, pending>>
    BY <1>12 DEF D!EmbedderActs
  <2>2. GuestTypes'
    BY <2>1, StoreAssumption DEF GuestInv, GuestTypes
  <2> QED BY <2>1, <2>2 DEF GuestInv, NoPromises, Tails
<1>13. CASE D!Pump
  <2>1. UNCHANGED <<mode, heard, rejected>>
    BY <1>13 DEF D!Pump, D!Loop
  <2>2. D!ServiceOne \/ D!TickOne \/ UNCHANGED <<act, on, gen, resolved, out, pending, settled, stale>>
    BY <1>13 DEF D!Pump
  <2> QED BY <2>1, <2>2, TickKeeps, ServiceKeeps, GuestSame
<1> QED BY <1>1, <1>2, <1>3, <1>4, <1>5, <1>6, <1>7, <1>8, <1>9, <1>10, <1>11, <1>12, <1>13 DEF D!Next
-----------------------------------------------------------------------------

\* Where a loop may stand: a pump never gives a verdict, nor waits for one.
Spots == D!InLoop \cup {"off", "drive", "stand", "park", "outer", "pump", "trapped", "failed"}
SpotsOf(d) ==
  IF d \in Callers THEN D!InLoop \cup {"off", "drive", "failed", "trapped"}
  ELSE IF d = Settlement THEN (D!InLoop \ {"probe"}) \cup {"off", "stand", "park", "outer"}
  ELSE (D!InLoop \ {"probe"}) \cup {"off", "stand", "outer", "pump", "failed"}

LoopTypes ==
  /\ armed \in BOOLEAN /\ failure \in BOOLEAN /\ nudged \in BOOLEAN
  /\ dpc \in [D!Drivers -> Spots] /\ snap \in [D!Drivers -> D!Snaps]
  /\ woken \subseteq D!Drivers /\ running \in D!Drivers \cup {None}

\* What only the loop on the JavaScript stack does; it decides when nothing is ready, and
\* the first drive of a promising activation begins with that activation parked.
Onstage ==
  /\ \A d \in D!Drivers : dpc[d] \in SpotsOf(d)
  /\ \A d \in D!Drivers : dpc[d] \in {"drive", "pump", "tick", "decide"} => running = d
  /\ \A t \in Callers : mode = "jspi" /\ dpc[t] = "drive" => act[t] \in {"hop", "susp", "settling"}
  /\ \A d \in D!Drivers : dpc[d] = "decide" => D!Unserviced \/ D!Ready = {} \/ pending # {}

\* Without JSPI no loop awaits a promise, and what fails is a host call.
PlainLoops ==
  mode = "plain" => /\ \A d \in D!Drivers : dpc[d] \notin {"yield", "hop", "probe", "race", "again"}
                    /\ failure => rejected # {}

LoopInv == LoopTypes /\ Onstage /\ PlainLoops

\* One loop moves, beside the settlement pump when that is armed.
LEMMA LoopMoves ==
  ASSUME LoopInv, NEW d \in D!Drivers, running \in {None, d}, running' \in {None, d},
         dpc' \in [D!Drivers -> Spots], dpc'[d] \in SpotsOf(d),
         \A e \in D!Drivers \ {d} : dpc'[e] = dpc[e] \/ (e = Settlement /\ dpc'[e] \in {"stand", "park"}),
         dpc'[d] \in {"drive", "pump", "tick", "decide"} => running' = d,
         mode = "jspi" /\ dpc'[d] = "drive" => act'[d] \in {"hop", "susp", "settling"},
         dpc'[d] = "decide" => (D!Unserviced \/ D!Ready = {} \/ pending # {})',
         mode = "plain" => /\ dpc'[d] \notin {"yield", "hop", "probe", "race", "again"}
                           /\ failure' => rejected' # {},
         snap' \in [D!Drivers -> D!Snaps], woken' \subseteq D!Drivers,
         nudged' \in BOOLEAN, failure' \in BOOLEAN, UNCHANGED <<mode, armed>>
  PROVE  LoopInv'
<1> USE StoreAssumption DEF LoopInv
<1>d. None \notin D!Drivers
  BY DEF D!Drivers, D!Pumps
<1>1. LoopTypes'
  BY Zenon DEF LoopTypes
<1>2. \A e \in D!Drivers \ {d} : dpc[e] \notin {"drive", "pump", "tick", "decide"}
  BY <1>d DEF Onstage
<1>3. \A e \in D!Drivers \ {d} : dpc'[e] \notin {"drive", "pump", "tick", "decide"}
  BY <1>2
<1>4. \A e \in D!Drivers : dpc'[e] \in SpotsOf(e)
  <2>1. Settlement \notin Callers
    OBVIOUS
  <2> QED BY <2>1 DEF Onstage, SpotsOf
<1>5. \A t \in Callers : t \in D!Drivers
  BY DEF D!Drivers
<1>6. Onstage'
  BY <1>3, <1>4, <1>5 DEF Onstage
<1>7. PlainLoops'
  BY Zenon DEF PlainLoops
<1> QED BY <1>1, <1>6, <1>7

\* The ways a loop moves.
LEMMA GoesMoves ==
  ASSUME LoopTypes, NEW d \in D!Drivers, NEW to \in Spots, D!Goes(d, to)
  PROVE  /\ dpc' = [dpc EXCEPT ![d] = to] /\ dpc' \in [D!Drivers -> Spots] /\ dpc'[d] = to
         /\ \A e \in D!Drivers \ {d} : dpc'[e] = dpc[e] /\ snap'[e] = snap[e]
         /\ snap' \in [D!Drivers -> D!Snaps] /\ nudged' = nudged
<1>1. D!NoSnap \in D!Snaps
  BY DEF D!NoSnap, D!Snaps
<1>2. /\ dpc' = [dpc EXCEPT ![d] = to] /\ snap' = [snap EXCEPT ![d] = D!NoSnap] /\ nudged' = nudged
  BY DEF D!Goes
<1> QED BY <1>1, <1>2 DEF LoopTypes

\* What a loop races.
LEMMA SleepsMoves ==
  ASSUME LoopTypes, GuestTypes, NEW d \in D!Drivers, NEW at \in Spots, NEW tags \in SUBSET (Callers \X Nat),
         NEW calls \in SUBSET (SlowCalls \cup {Arm}), NEW chosen \in Callers \cup {None},
         D!Sleeps(d, at, tags, calls, chosen)
  PROVE  /\ dpc' = [dpc EXCEPT ![d] = at] /\ dpc' \in [D!Drivers -> Spots] /\ dpc'[d] = at
         /\ \A e \in D!Drivers \ {d} : dpc'[e] = dpc[e] /\ snap'[e] = snap[e]
         /\ snap' \in [D!Drivers -> D!Snaps] /\ nudged' = nudged /\ running' = None
<1> DEFINE new == [tags |-> tags, calls |-> calls, chosen |-> chosen]
<1>1. new \in D!Snaps
  BY DEF D!Snaps
<1>2. /\ dpc' = [dpc EXCEPT ![d] = at] /\ snap' = [snap EXCEPT ![d] = new]
      /\ nudged' = nudged /\ running' = None
  BY DEF D!Sleeps
<1> HIDE DEF new
<1> QED BY <1>1, <1>2 DEF LoopTypes

\* The promises and the host calls that are raced are those there are.
LEMMA Raced ==
  ASSUME GuestTypes
  PROVE  /\ D!Parked \subseteq Callers /\ D!TagsOf(D!Parked) \in SUBSET (Callers \X Nat)
         /\ D!HostCalls \in SUBSET (SlowCalls \cup {Arm})
<1>1. D!Parked \subseteq Callers
  BY DEF D!Parked, D!Awaiting
<1>2. D!TagsOf(D!Parked) \in SUBSET (Callers \X Nat)
  BY <1>1 DEF D!TagsOf, GuestTypes
<1>3. D!HostCalls \in SUBSET (SlowCalls \cup {Arm})
  BY DEF D!HostCalls, GuestTypes
<1> QED BY <1>1, <1>2, <1>3

\* The settlement pump is armed when a loop ends, or the fact that it is not needed.
LEMMA ArmedMoves ==
  ASSUME LoopTypes, NEW pcs \in [D!Drivers -> Spots], NEW live, D!Armed(pcs, live), out' \subseteq SlowCalls
  PROVE  /\ dpc' \in [D!Drivers -> Spots] /\ snap' \in [D!Drivers -> D!Snaps] /\ nudged' \in BOOLEAN
         /\ \A e \in D!Drivers \ {Settlement} : dpc'[e] = pcs[e] /\ snap'[e] = snap[e]
         /\ dpc'[Settlement] = pcs[Settlement] \/ dpc'[Settlement] \in {"stand", "park"}
         /\ pcs[Settlement] # "off" => dpc' = pcs /\ snap' = snap /\ (pcs[Settlement] = "park" => nudged')
         /\ pcs[Settlement] = "off" /\ out' # {} =>
              failure' \/ (snap'[Settlement].calls = out' /\ dpc'[Settlement] # "off")
<1>s. Settlement \in D!Drivers
  BY DEF D!Drivers, D!Pumps
<1> DEFINE new == [D!NoSnap EXCEPT !.calls = out']
<1>n. new \in D!Snaps /\ new.calls = out'
  BY DEF D!NoSnap, D!Snaps
<1>1. CASE pcs[Settlement] # "off"
  <2>1. dpc' = pcs /\ snap' = snap /\ nudged' = (nudged \/ pcs[Settlement] = "park")
    BY <1>1, Zenon DEF D!Armed
  <2>2. nudged' \in BOOLEAN /\ (pcs[Settlement] = "park" => nudged')
    BY <2>1, Zenon
  <2> QED BY <1>1, <2>1, <2>2 DEF LoopTypes
<1>2. CASE pcs[Settlement] = "off" /\ (failure' \/ out' = {})
  <2>1. dpc' = pcs /\ snap' = snap /\ nudged' = nudged
    BY <1>2, Zenon DEF D!Armed
  <2> QED BY <1>2, <2>1 DEF LoopTypes
<1>3. CASE pcs[Settlement] = "off" /\ ~(failure' \/ out' = {})
  <2>1. /\ dpc' = [pcs EXCEPT ![Settlement] = IF live > 0 THEN "stand" ELSE "park"]
        /\ snap' = [snap EXCEPT ![Settlement] = new] /\ nudged' = FALSE
    BY <1>3, Zenon DEF D!Armed
  <2> HIDE DEF new
  <2>2. PICK x \in {"stand", "park"} : dpc' = [pcs EXCEPT ![Settlement] = x]
    BY <2>1
  <2>3. nudged' \in BOOLEAN
    BY <2>1
  <2> QED BY <1>3, <1>n, <1>s, <2>1, <2>2, <2>3 DEF LoopTypes, Spots
<1> QED BY <1>1, <1>2, <1>3, Zenon
\* A loop ends.
After(d, how) ==
  IF how = "off" /\ d \in D!Pumps THEN "outer" ELSE IF how = "failed" /\ d = Settlement THEN "off" ELSE how

\* Where the loop that ends goes, and the settlement pump it may arm.
LEMMA LeavesMoves ==
  ASSUME LoopTypes, NEW d \in D!Drivers, NEW how \in {"off", "failed", "trapped"}, D!Leaves(d, how),
         out' \subseteq SlowCalls
  PROVE  /\ dpc' \in [D!Drivers -> Spots] /\ snap' \in [D!Drivers -> D!Snaps] /\ nudged' \in BOOLEAN
         /\ running' = None
         /\ \A e \in D!Drivers \ {d} : dpc'[e] = dpc[e] \/ (e = Settlement /\ dpc'[e] \in {"stand", "park"})
         /\ dpc'[d] = After(d, how) \/ (d = Settlement /\ dpc'[d] \in {"stand", "park"})
<1> DEFINE pcs == [dpc EXCEPT ![d] = After(d, how)]
<1>1. /\ IF D!Depth = 1 THEN D!Armed(pcs, 0) ELSE dpc' = pcs /\ UNCHANGED <<snap, nudged>>
      /\ running' = None
  BY Zenon DEF D!Leaves, After
<1>2. After(d, how) \in Spots
  BY DEF After, Spots
<1>3. pcs \in [D!Drivers -> Spots] /\ pcs[d] = After(d, how) /\ \A e \in D!Drivers \ {d} : pcs[e] = dpc[e]
  BY <1>2 DEF LoopTypes
<1> HIDE DEF pcs
<1>4. CASE D!Depth = 1
  <2>1. D!Armed(pcs, 0)
    BY <1>1, <1>4
  <2>2. /\ dpc' \in [D!Drivers -> Spots] /\ snap' \in [D!Drivers -> D!Snaps] /\ nudged' \in BOOLEAN
        /\ \A e \in D!Drivers \ {Settlement} : dpc'[e] = pcs[e]
        /\ dpc'[Settlement] = pcs[Settlement] \/ dpc'[Settlement] \in {"stand", "park"}
    BY <1>3, <2>1, ArmedMoves
  <2> QED BY <1>1, <1>3, <2>2
<1>5. CASE D!Depth # 1
  <2>1. dpc' = pcs /\ UNCHANGED <<snap, nudged>>
    BY <1>1, <1>5
  <2> QED BY <1>1, <1>3, <2>1 DEF LoopTypes
<1> QED BY <1>4, <1>5

\* A loop that ends in one of the ways that are open to it keeps the invariant.
LEMMA LeavesKeeps ==
  ASSUME LoopInv, GuestInv', NEW d \in D!Drivers, running \in {None, d},
    NEW how \in {"off", "failed", "trapped"},
         D!Leaves(d, how), how = "trapped" => d \in Callers, mode = "plain" /\ failure' => rejected' # {},
         failure' \in BOOLEAN, woken' \subseteq D!Drivers, UNCHANGED <<mode, armed>>
  PROVE  LoopInv'
<1>1. out' \subseteq SlowCalls
  BY DEF GuestInv, GuestTypes
<1>2. /\ dpc' \in [D!Drivers -> Spots] /\ snap' \in [D!Drivers -> D!Snaps] /\ nudged' \in BOOLEAN
      /\ running' = None
      /\ \A e \in D!Drivers \ {d} : dpc'[e] = dpc[e] \/ (e = Settlement /\ dpc'[e] \in {"stand", "park"})
      /\ dpc'[d] = After(d, how) \/ (d = Settlement /\ dpc'[d] \in {"stand", "park"})
  BY <1>1, LeavesMoves DEF LoopInv
<1>3. After(d, how) \in SpotsOf(d) /\ After(d, how) \in {"off", "outer", "failed", "trapped"}
  <2>1. d \in Callers \/ d \in D!Pumps
    BY DEF D!Drivers
  <2> QED BY <2>1, StoreAssumption DEF After, SpotsOf, D!Pumps
<1>4. dpc'[d] \in SpotsOf(d) /\ dpc'[d] \in {"off", "outer", "failed", "trapped", "stand", "park"}
  BY <1>2, <1>3, StoreAssumption DEF SpotsOf
<1> QED BY <1>2, <1>4, LoopMoves

\* A loop that goes on, or pauses.
LEMMA GoesKeeps ==
  ASSUME LoopInv, NEW d \in D!Drivers, running \in {None, d}, running' \in {None, d},
         NEW to \in SpotsOf(d), D!Goes(d, to), to \notin {"drive", "decide"},
         to \in {"pump", "tick"} => running' = d,
         mode = "plain" => to \notin {"yield", "hop", "probe", "race", "again"},
         mode = "plain" /\ failure' => rejected' # {}, failure' \in BOOLEAN, woken' \subseteq D!Drivers,
         UNCHANGED <<mode, armed>>
  PROVE  LoopInv'
<1>1. to \in Spots
  BY DEF Spots, SpotsOf
<1>2. /\ dpc' \in [D!Drivers -> Spots] /\ dpc'[d] = to /\ snap' \in [D!Drivers -> D!Snaps] /\ nudged' = nudged
      /\ \A e \in D!Drivers \ {d} : dpc'[e] = dpc[e]
  BY <1>1, GoesMoves DEF LoopInv
<1>3. nudged' \in BOOLEAN
  BY <1>2 DEF LoopInv, LoopTypes
<1> QED BY <1>2, <1>3, LoopMoves

\* A loop that goes to sleep over promises, host calls, or both.
LEMMA SleepsKeeps ==
  ASSUME LoopInv, GuestInv, NEW d \in D!Drivers, running \in {None, d},
         NEW at \in SpotsOf(d) \cap {"probe", "race", "again", "calls"}, NEW tags \in SUBSET (Callers \X Nat),
         NEW calls \in SUBSET (SlowCalls \cup {Arm}), NEW chosen \in Callers \cup {None},
         D!Sleeps(d, at, tags, calls, chosen), mode = "plain" => at = "calls",
         woken' \subseteq D!Drivers, UNCHANGED <<mode, armed, failure, rejected>>
  PROVE  LoopInv'
<1>1. at \in Spots
  BY DEF Spots, SpotsOf
<1>2. /\ dpc' \in [D!Drivers -> Spots] /\ dpc'[d] = at /\ snap' \in [D!Drivers -> D!Snaps] /\ nudged' = nudged
      /\ running' = None /\ \A e \in D!Drivers \ {d} : dpc'[e] = dpc[e]
  BY <1>1, SleepsMoves DEF LoopInv, GuestInv
<1>3. nudged' \in BOOLEAN /\ failure' \in BOOLEAN
  BY <1>2 DEF LoopInv, LoopTypes
<1>4. mode = "plain" => (failure' => rejected' # {})
  BY Zenon DEF LoopInv, PlainLoops
<1> QED BY <1>2, <1>3, <1>4, LoopMoves

\* The loops stay where they are.
LEMMA LoopsSame ==
  ASSUME LoopInv, running = None, UNCHANGED <<mode, armed, dpc, snap, nudged, running>>,
         mode = "plain" /\ failure' => rejected' # {}, failure' \in BOOLEAN, woken' \subseteq D!Drivers
  PROVE  LoopInv'
<1>1. None \notin D!Drivers
  BY StoreAssumption DEF D!Drivers, D!Pumps
<1>2. \A d \in D!Drivers : dpc[d] \notin {"drive", "pump", "tick", "decide"}
  BY <1>1 DEF LoopInv, Onstage
<1>3. LoopTypes' /\ PlainLoops'
  BY Zenon DEF LoopInv, LoopTypes, PlainLoops
<1>4. \A t \in Callers : t \in D!Drivers
  BY DEF D!Drivers
<1>5. Onstage'
  BY <1>2, <1>4 DEF LoopInv, Onstage
<1> QED BY <1>3, <1>5 DEF LoopInv
\* An exception ends a loop.
LEMMA ThrowsKeeps ==
  ASSUME LoopInv, GuestInv', NEW d \in D!Drivers, running \in {None, d}, NEW how \in {"failed", "trapped"},
         D!Throws(d, how), how = "trapped" => d \in Callers, mode = "plain" /\ how = "failed" => failure,
         woken' \subseteq D!Drivers, UNCHANGED <<mode, armed, rejected>>
  PROVE  LoopInv'
<1>1. /\ failure' = (IF d \in D!Pumps THEN TRUE ELSE IF how = "failed" THEN FALSE ELSE failure)
      /\ D!Leaves(d, how)
  BY Zenon DEF D!Throws
<1>2. failure' \in BOOLEAN
  BY <1>1, Zenon DEF LoopInv, LoopTypes
<1>3. ASSUME mode = "plain", failure' PROVE rejected # {}
  <2>1. failure => rejected # {}
    BY <1>3, Zenon DEF LoopInv, PlainLoops
  <2>2. CASE d \in D!Pumps
    <3>1. d \notin Callers
      BY <2>2, StoreAssumption DEF D!Pumps
    <3> QED BY <1>3, <2>1, <3>1
  <2>3. CASE d \notin D!Pumps
    <3>1. how # "failed" => failure
      BY <1>1, <1>3, <2>3, Zenon
    <3> QED BY <1>3, <2>1, <3>1
  <2> QED BY <2>2, <2>3
<1> QED BY <1>1, <1>2, <1>3, LeavesKeeps

\* The synchronous half of a call: what it does without JSPI, it does without a promise.
LEMMA DriveKeeps ==
  ASSUME LoopInv, GuestInv, GuestInv', NEW t \in Callers, D!Drive(t)
  PROVE  LoopInv'
<1>0. /\ running = t /\ dpc[t] = "drive" /\ UNCHANGED <<mode, armed, heard, rejected>> /\ woken' = woken
      /\ t \in D!Drivers
  BY DEF D!Drive, D!Loop, D!Drivers
<1>w. woken' \subseteq D!Drivers /\ failure \in BOOLEAN
  BY <1>0 DEF LoopInv, LoopTypes
<1>f. mode = "plain" /\ failure => rejected # {}
  BY Zenon DEF LoopInv, PlainLoops
<1>s. {"failed", "trapped", "service"} \subseteq SpotsOf(t)
  BY DEF SpotsOf, D!InLoop
<1>1. ASSUME NEW to \in {"failed", "trapped", "service"}, D!Goes(t, to), running' \in {None, t},
             failure' = FALSE \/ failure' = failure
      PROVE  LoopInv'
  <2>1. failure' \in BOOLEAN /\ (mode = "plain" /\ failure' => rejected # {})
    <3>1. CASE failure' = FALSE
      BY <3>1
    <3>2. CASE failure' = failure
      BY <3>2, <1>w, <1>f
    <3> QED BY <1>1, <3>1, <3>2
  <2>2. to \in SpotsOf(t)
    BY <1>s
  <2> QED BY <1>0, <1>1, <1>w, <2>1, <2>2, GoesKeeps
<1>2. CASE /\ D!Awaiting = {} /\ D!TickOne /\ UNCHANGED <<failure, dpc, snap, nudged, running>>
  <2>1. mode # "jspi"
    BY <1>0, <1>2 DEF LoopInv, Onstage, D!Awaiting
  <2>2. /\ dpc' \in [D!Drivers -> Spots] /\ dpc'[t] = "drive" /\ dpc'[t] \in SpotsOf(t)
        /\ snap' \in [D!Drivers -> D!Snaps] /\ nudged' \in BOOLEAN
    BY <1>0, <1>2 DEF LoopInv, LoopTypes, Onstage
  <2>3. failure' = failure /\ running' = t /\ dpc' = dpc
    BY <1>0, <1>2
  <2> QED BY <1>0, <1>w, <1>f, <2>1, <2>2, <2>3, LoopMoves
<1>3. CASE /\ failure' = FALSE /\ D!Armed([dpc EXCEPT ![t] = "off"], D!Depth) /\ running' = None
  <2>1. out' \subseteq SlowCalls
    BY DEF GuestInv, GuestTypes
  <2> DEFINE pcs == [dpc EXCEPT ![t] = "off"]
  <2>2. pcs \in [D!Drivers -> Spots] /\ pcs[t] = "off" /\ \A e \in D!Drivers \ {t} : pcs[e] = dpc[e]
    BY <1>0 DEF LoopInv, LoopTypes, Spots
  <2>3. t # Settlement
    BY StoreAssumption
  <2> HIDE DEF pcs
  <2>4. /\ dpc' \in [D!Drivers -> Spots] /\ snap' \in [D!Drivers -> D!Snaps] /\ nudged' \in BOOLEAN
        /\ \A e \in D!Drivers \ {Settlement} : dpc'[e] = pcs[e]
        /\ dpc'[Settlement] = pcs[Settlement] \/ dpc'[Settlement] \in {"stand", "park"}
    BY <1>3, <2>1, <2>2, ArmedMoves DEF LoopInv, pcs
  <2>5. dpc'[t] = "off" /\ dpc'[t] \in SpotsOf(t)
    BY <1>0, <2>2, <2>3, <2>4 DEF SpotsOf
  <2> QED BY <1>0, <1>3, <1>w, <2>2, <2>3, <2>4, <2>5, LoopMoves
<1>4. \/ D!Awaiting = {} /\ D!TickOne /\ UNCHANGED <<failure, dpc, snap, nudged, running>>
      \/ failure' = FALSE /\ D!Armed([dpc EXCEPT ![t] = "off"], D!Depth) /\ running' = None
      \/ \E to \in {"failed", "trapped", "service"} :
           /\ D!Goes(t, to)
           /\ running' = None \/ running' = running
           /\ failure' = FALSE \/ failure' = failure
  BY <1>w, Zenon DEF D!Drive
<1> QED BY <1>0, <1>1, <1>2, <1>3, <1>4
\* A loop that services a settlement, yields or goes on to its ticks.
LEMMA ServiceLoopKeeps ==
  ASSUME LoopInv, GuestInv, GuestInv', NEW d \in D!Drivers, D!Service(d)
  PROVE  LoopInv'
<1>0. running = d /\ dpc[d] = "service" /\ UNCHANGED <<mode, armed, heard, rejected>>
  BY DEF D!Service, D!Loop
<1>w. woken \subseteq D!Drivers /\ failure \in BOOLEAN
  BY DEF LoopInv, LoopTypes
<1>f. mode = "plain" /\ failure => rejected # {}
  BY Zenon DEF LoopInv, PlainLoops
<1>1. CASE UNCHANGED <<failure, dpc, snap, woken, nudged, running>>
  <2>1. /\ dpc' \in [D!Drivers -> Spots] /\ dpc'[d] = "service" /\ dpc'[d] \in SpotsOf(d)
        /\ snap' \in [D!Drivers -> D!Snaps] /\ nudged' \in BOOLEAN /\ dpc' = dpc /\ running' = d
    BY <1>0, <1>1 DEF LoopInv, LoopTypes, Onstage
  <2>2. woken' \subseteq D!Drivers /\ failure' \in BOOLEAN /\ (mode = "plain" /\ failure' => rejected' # {})
    BY <1>0, <1>1, <1>w, <1>f
  <2> QED BY <1>0, <2>1, <2>2, LoopMoves
<1>2. CASE failure /\ UNCHANGED woken /\ D!Throws(d, "failed")
  BY <1>0, <1>2, <1>w, ThrowsKeeps
<1>3. CASE UNCHANGED <<failure, woken>> /\ pending # {} /\ D!Goes(d, "yield") /\ running' = None
  <2>1. "yield" \in SpotsOf(d) /\ mode # "plain"
    BY <1>3 DEF SpotsOf, D!InLoop, GuestInv, NoPromises
  <2> QED BY <1>0, <1>3, <1>w, <2>1, GoesKeeps
<1>4. CASE UNCHANGED <<failure, woken>> /\ D!Goes(d, "tick") /\ UNCHANGED running
  <2>1. "tick" \in SpotsOf(d)
    BY DEF SpotsOf, D!InLoop
  <2>2. mode = "plain" /\ failure' => rejected' # {}
    BY <1>0, <1>4, <1>f
  <2> QED BY <1>0, <1>4, <1>w, <2>1, <2>2, GoesKeeps
<1> QED BY <1>1, <1>2, <1>3, <1>4, Zenon DEF D!Service, D!loops

\* A loop that resumes what is ready, and decides when nothing is.
LEMMA TickLoopKeeps ==
  ASSUME LoopInv, GuestInv, GuestInv', NEW d \in D!Drivers, D!Tick(d)
  PROVE  LoopInv'
<1>0. running = d /\ dpc[d] = "tick" /\ UNCHANGED <<mode, armed, heard, rejected>>
  BY DEF D!Tick, D!Loop
<1>w. woken \subseteq D!Drivers /\ failure \in BOOLEAN
  BY DEF LoopInv, LoopTypes
<1>f. mode = "plain" /\ failure => rejected # {}
  BY Zenon DEF LoopInv, PlainLoops
<1>1. CASE failure /\ UNCHANGED woken /\ D!Throws(d, "failed")
  BY <1>0, <1>1, <1>w, ThrowsKeeps
<1>2. CASE UNCHANGED <<failure, woken>> /\ D!Awaiting' # {} /\ D!Goes(d, "hop") /\ running' = None
  <2>1. "hop" \in SpotsOf(d)
    BY DEF SpotsOf, D!InLoop
  <2>2. mode # "plain"
    BY <1>0, <1>2 DEF D!Awaiting
  <2> QED BY <1>0, <1>2, <1>w, <2>1, <2>2, GoesKeeps
<1>3. CASE UNCHANGED <<failure, dpc, snap, woken, nudged, running>>
  <2>1. /\ dpc' \in [D!Drivers -> Spots] /\ dpc'[d] = "tick" /\ dpc'[d] \in SpotsOf(d)
        /\ snap' \in [D!Drivers -> D!Snaps] /\ nudged' \in BOOLEAN /\ dpc' = dpc /\ running' = d
    BY <1>0, <1>3 DEF LoopInv, LoopTypes, Onstage
  <2>2. woken' \subseteq D!Drivers /\ failure' \in BOOLEAN /\ (mode = "plain" /\ failure' => rejected' # {})
    BY <1>0, <1>3, <1>w, <1>f
  <2> QED BY <1>0, <2>1, <2>2, LoopMoves
<1>4. CASE /\ ~D!CanTick /\ D!Goes(d, "decide")
           /\ UNCHANGED <<act, on, gen, resolved, out, failure, pending, settled, woken, running>>
  <2>1. "decide" \in SpotsOf(d) /\ "decide" \in Spots
    BY DEF SpotsOf, D!InLoop, Spots
  <2>2. /\ dpc' \in [D!Drivers -> Spots] /\ dpc'[d] = "decide" /\ snap' \in [D!Drivers -> D!Snaps]
        /\ nudged' = nudged /\ \A e \in D!Drivers \ {d} : dpc'[e] = dpc[e]
    BY <1>4, <2>1, GoesMoves DEF LoopInv
  <2>3. (D!Unserviced \/ D!Ready = {} \/ pending # {})'
    BY <1>0, <1>4 DEF D!CanTick, D!Unserviced, D!Ready
  <2>4. /\ woken' \subseteq D!Drivers /\ failure' \in BOOLEAN
          /\ (mode = "plain" /\ failure' => rejected' # {})
        /\ running' = d
    BY <1>0, <1>4, <1>w, <1>f
  <2>5. nudged' \in BOOLEAN
    BY <2>2 DEF LoopInv, LoopTypes
  <2> QED BY <1>0, <2>1, <2>2, <2>3, <2>4, <2>5, LoopMoves
<1> QED BY <1>1, <1>2, <1>3, <1>4, Zenon DEF D!Tick, D!guest

\* A loop that races promises and host calls: only with JSPI.
LEMMA RaceKeeps ==
  ASSUME LoopInv, GuestInv, NEW d \in D!Drivers, running \in {None, d}, NEW at \in {"race", "again"},
         D!RaceAll(d, at), UNCHANGED <<mode, armed, failure, rejected>>
  PROVE  LoopInv'
<1>1. PICK chosen \in D!Parked : D!Sleeps(d, at, D!TagsOf(D!Parked), D!HostCalls, chosen)
  BY Zenon DEF D!RaceAll
<1>2. woken' = woken \ {d}
  BY Zenon DEF D!RaceAll
<1>3. mode # "plain" /\ woken' \subseteq D!Drivers /\ chosen \in Callers \cup {None}
  BY <1>2, Raced DEF LoopInv, LoopTypes, D!Parked, D!Awaiting, GuestInv
<1>4. at \in SpotsOf(d) \cap {"probe", "race", "again", "calls"}
  BY DEF SpotsOf, D!InLoop
<1> QED BY <1>1, <1>3, <1>4, Raced, SleepsKeeps DEF GuestInv

\* A loop that decides: to end, to go on, to wait, or that there is nothing to wait for.
LEMMA DecideKeeps ==
  ASSUME LoopInv, GuestInv, GuestInv', NEW d \in D!Drivers, D!Decide(d)
  PROVE  LoopInv'
<1>0. running = d /\ dpc[d] = "decide" /\ UNCHANGED <<mode, armed, heard, rejected>>
  BY DEF D!Decide, D!Loop
<1>w. woken \subseteq D!Drivers /\ failure \in BOOLEAN
  BY DEF LoopInv, LoopTypes
<1>f. mode = "plain" /\ failure => rejected # {}
  BY Zenon DEF LoopInv, PlainLoops
<1>g. failure' = failure => (failure' \in BOOLEAN /\ (mode = "plain" /\ failure' => rejected' # {}))
  BY <1>0, <1>w, <1>f
<1>1. CASE failure /\ D!Throws(d, "failed") /\ UNCHANGED woken
  BY <1>0, <1>1, <1>w, ThrowsKeeps
<1>2. CASE UNCHANGED <<failure, woken>> /\ D!Leaves(d, "off")
  BY <1>0, <1>2, <1>w, <1>g, LeavesKeeps
<1>3. CASE UNCHANGED <<failure, woken, running>> /\ D!Goes(d, "service")
  <2>1. "service" \in SpotsOf(d)
    BY DEF SpotsOf, D!InLoop
  <2> QED BY <1>0, <1>3, <1>w, <1>g, <2>1, GoesKeeps
<1>4. CASE /\ ~D!Done(d) /\ D!HostCalls = {} /\ D!Awaiting # {}
           /\ D!Sleeps(d, "probe", D!TagsOf(D!Parked), {}, None) /\ UNCHANGED <<failure, woken>>
  <2>1. d \notin D!Pumps /\ mode # "plain"
    BY <1>4 DEF D!Done, D!Awaiting
  <2>2. d \in Callers
    BY <2>1 DEF D!Drivers
  <2>3. "probe" \in SpotsOf(d) \cap {"probe", "race", "again", "calls"}
    BY <2>2 DEF SpotsOf, D!InLoop
  <2>4. {} \in SUBSET (SlowCalls \cup {Arm}) /\ None \in Callers \cup {None}
    OBVIOUS
  <2> QED BY <1>0, <1>4, <1>w, <2>1, <2>3, <2>4, Raced, SleepsKeeps DEF GuestInv
<1>5. CASE D!RaceAll(d, "race") /\ UNCHANGED failure
  BY <1>0, <1>5, RaceKeeps
<1>6. CASE D!Sleeps(d, "calls", {}, D!HostCalls, None) /\ woken' = woken \ {d} /\ UNCHANGED failure
  <2>1. "calls" \in SpotsOf(d) \cap {"probe", "race", "again", "calls"}
    BY DEF SpotsOf, D!InLoop
  <2>2. {} \in SUBSET (Callers \X Nat) /\ None \in Callers \cup {None} /\ woken' \subseteq D!Drivers
    BY <1>6, <1>w
  <2> QED BY <1>0, <1>6, <2>1, <2>2, Raced, SleepsKeeps DEF GuestInv
<1>7. CASE ~D!Done(d) /\ D!HostCalls = {} /\ D!Throws(d, "trapped") /\ UNCHANGED woken
  <2>1. d \in Callers
    BY <1>7 DEF D!Done, D!Drivers
  <2> QED BY <1>0, <1>7, <1>w, <2>1, ThrowsKeeps
<1> QED BY <1>1, <1>2, <1>3, <1>4, <1>5, <1>6, <1>7, Zenon DEF D!Decide
\* What wakes a loop up, and what its timer finds.
LEMMA WakeKeeps ==
  ASSUME LoopInv, GuestInv, GuestInv', NEW d \in D!Drivers,
         \/ D!Yielded(d) \/ D!Hopped(d) \/ D!ProbeWon(d) \/ D!RaceWon(d) \/ D!CallsWon(d)
         \/ D!ProbeTimeout(d) \/ D!GivesUp(d)
  PROVE  LoopInv'
<1> USE DEF D!guest, D!store
<1>w. woken \subseteq D!Drivers /\ failure \in BOOLEAN
  BY DEF LoopInv, LoopTypes
<1>f. mode = "plain" /\ failure => rejected # {}
  BY Zenon DEF LoopInv, PlainLoops
<1>g. UNCHANGED <<failure, rejected>> =>
       (failure' \in BOOLEAN /\ (mode = "plain" /\ failure' => rejected' # {}))
  BY <1>w, <1>f
<1>0. running = None /\ UNCHANGED <<mode, armed, rejected>> /\ woken' \subseteq woken
  <2>1. running = None
    BY DEF D!Yielded, D!Hopped, D!ProbeWon, D!RaceWon, D!CallsWon, D!ProbeTimeout, D!GivesUp, D!Quiet
  <2>2. UNCHANGED <<mode, armed, rejected>>
    BY DEF D!Yielded, D!Hopped, D!ProbeWon, D!RaceWon, D!CallsWon, D!ProbeTimeout, D!GivesUp
  <2>3. woken' \subseteq woken
    BY DEF D!Yielded, D!Hopped, D!ProbeWon, D!RaceWon, D!CallsWon, D!ProbeTimeout, D!GivesUp, D!RaceAll
  <2> QED BY <2>1, <2>2, <2>3
<1>s. {"service", "tick", "decide"} \subseteq SpotsOf(d)
  BY DEF SpotsOf, D!InLoop
<1>1. CASE D!Goes(d, "service") /\ running' = d /\ UNCHANGED failure
  BY <1>0, <1>1, <1>w, <1>g, <1>s, GoesKeeps
<1>2. CASE D!Hopped(d)
  <2>1. dpc[d] = "hop" /\ running' = d /\ D!Goes(d, IF D!Unserviced THEN "decide" ELSE "tick")
    BY <1>2 DEF D!Hopped
  <2>2. mode # "plain"
    BY <2>1 DEF LoopInv, PlainLoops
  <2>3. PICK to \in {"decide", "tick"} : to = (IF D!Unserviced THEN "decide" ELSE "tick")
    OBVIOUS
  <2>4. to \in Spots /\ D!Goes(d, to)
    BY <2>1, <2>3 DEF Spots, D!InLoop
  <2>5. /\ dpc' \in [D!Drivers -> Spots] /\ dpc'[d] = to /\ snap' \in [D!Drivers -> D!Snaps]
        /\ nudged' = nudged /\ \A e \in D!Drivers \ {d} : dpc'[e] = dpc[e]
    BY <2>4, GoesMoves DEF LoopInv
  <2>6. to = "decide" => D!Unserviced'
    BY <1>2, <2>3 DEF D!Hopped, D!Unserviced
  <2>7. nudged' \in BOOLEAN /\ failure' \in BOOLEAN
    BY <1>2, <2>5 DEF D!Hopped, LoopInv, LoopTypes
  <2>8. to \in SpotsOf(d) /\ woken' \subseteq D!Drivers
    BY <1>0, <1>s, <1>w
  <2> QED BY <1>0, <2>1, <2>2, <2>5, <2>6, <2>7, <2>8, LoopMoves
<1>3. CASE D!RaceAll(d, "again") /\ UNCHANGED failure
  BY <1>0, <1>3, RaceKeeps
<1>4. CASE D!ProbeTimeout(d)
  <2>1. dpc[d] = "probe" /\ UNCHANGED rejected
    BY <1>4 DEF D!ProbeTimeout
  <2>2. d \in Callers
    BY <2>1 DEF LoopInv, Onstage, SpotsOf
  <2>3. woken' \subseteq D!Drivers
    BY <1>0, <1>w
  <2>4. CASE D!Throws(d, "trapped")
    BY <1>0, <2>1, <2>2, <2>3, <2>4, ThrowsKeeps
  <2>5. D!Throws(d, "trapped") \/ (D!Goes(d, "service") /\ running' = d /\ UNCHANGED failure)
    BY <1>4, Zenon DEF D!ProbeTimeout
  <2> QED BY <1>1, <2>4, <2>5
<1>5. CASE D!GivesUp(d)
  <2>1. dpc[d] = "yield" /\ failure' = (failure \/ d \in D!Pumps) /\ D!Leaves(d, "failed")
    BY <1>5, Zenon DEF D!GivesUp
  <2>2. mode # "plain" /\ failure' \in BOOLEAN
    BY <2>1 DEF LoopInv, PlainLoops
  <2>3. woken' \subseteq D!Drivers
    BY <1>0, <1>w
  <2> QED BY <1>0, <2>1, <2>2, <2>3, LeavesKeeps
<1>6. CASE D!Yielded(d) \/ D!CallsWon(d) \/ D!RaceWon(d)
  <2>1. D!Goes(d, "service") /\ running' = d /\ UNCHANGED failure
    BY <1>6 DEF D!Yielded, D!CallsWon, D!RaceWon
  <2> QED BY <1>1, <2>1
<1>7. CASE D!ProbeWon(d)
  <2>1. UNCHANGED failure
    BY <1>7 DEF D!ProbeWon
  <2>2. (D!Goes(d, "service") /\ running' = d) \/ D!RaceAll(d, "again")
    BY <1>7, Zenon DEF D!ProbeWon
  <2> QED BY <1>1, <1>3, <2>1, <2>2
<1> QED BY <1>2, <1>4, <1>5, <1>6, <1>7

\* The pumps' own loops.
LEMMA PumpKeeps ==
  ASSUME LoopInv, GuestInv, D!SettlementLoop \/ D!SettlementWakes \/ D!EmbedderActs
            \/ D!Pump \/ D!ActivityLoop
  PROVE  LoopInv'
<1> USE DEF D!guest, D!store
<1>s. Settlement \in D!Drivers /\ Activity \in D!Drivers /\ Settlement \notin Callers
        /\ Activity \notin Callers
      /\ Activity # Settlement
  BY StoreAssumption DEF D!Drivers, D!Pumps
<1>t. /\ {"stand", "off", "outer", "service", "park"} \subseteq SpotsOf(Settlement)
      /\ {"stand", "off", "outer", "service", "pump", "failed"} \subseteq SpotsOf(Activity)
  BY <1>s DEF SpotsOf, D!InLoop
<1>w. woken \subseteq D!Drivers /\ failure \in BOOLEAN
  BY DEF LoopInv, LoopTypes
<1>f. mode = "plain" /\ failure => rejected # {}
  BY Zenon DEF LoopInv, PlainLoops
<1>g. UNCHANGED <<failure, rejected>> =>
       (failure' \in BOOLEAN /\ (mode = "plain" /\ failure' => rejected' # {}))
  BY <1>w, <1>f
<1>n. D!Notified \subseteq D!Drivers
  BY <1>w DEF D!Notified
<1>1. CASE D!SettlementLoop
  <2>1. running = None /\ running' = None /\ UNCHANGED <<mode, armed, failure, rejected, woken>>
    BY <1>1 DEF D!SettlementLoop
  <2>2. ASSUME NEW to \in {"stand", "off"}, D!Goes(Settlement, to) PROVE LoopInv'
    BY <1>g, <1>s, <1>t, <1>w, <2>1, <2>2, GoesKeeps
  <2>3. CASE /\ dpc' = [dpc EXCEPT ![Settlement] = "park"]
             /\ snap' = [snap EXCEPT ![Settlement] = [D!NoSnap EXCEPT !.calls = out]]
             /\ nudged' = FALSE
    <3>1. [D!NoSnap EXCEPT !.calls = out] \in D!Snaps
      BY DEF D!NoSnap, D!Snaps, GuestInv, GuestTypes
    <3>2. snap' \in [D!Drivers -> D!Snaps]
      BY <2>3, <3>1 DEF LoopInv, LoopTypes
    <3>3. /\ dpc' \in [D!Drivers -> Spots] /\ dpc'[Settlement] = "park" /\ nudged' \in BOOLEAN
          /\ \A e \in D!Drivers \ {Settlement} : dpc'[e] = dpc[e]
      BY <2>3, <1>s DEF LoopInv, LoopTypes, Spots
    <3>4. dpc'[Settlement] \in SpotsOf(Settlement) /\ woken' \subseteq D!Drivers
      BY <1>t, <1>w, <2>1, <3>3
    <3> QED BY <1>g, <1>s, <2>1, <3>2, <3>3, <3>4, LoopMoves
  <2>4. \/ D!Goes(Settlement, "stand") \/ D!Goes(Settlement, "off")
        \/ /\ dpc' = [dpc EXCEPT ![Settlement] = "park"]
           /\ snap' = [snap EXCEPT ![Settlement] = [D!NoSnap EXCEPT !.calls = out]]
           /\ nudged' = FALSE
    BY <1>1, Zenon DEF D!SettlementLoop
  <2> QED BY <2>2, <2>3, <2>4
<1>2. CASE D!SettlementWakes
  <2>1. running = None /\ UNCHANGED <<mode, armed, failure, rejected, woken>>
    BY <1>2 DEF D!SettlementWakes
  <2>2. \E to \in {"stand", "service"} : D!Goes(Settlement, to) /\ running' \in {None, Settlement}
    BY <1>2 DEF D!SettlementWakes
  <2> QED BY <1>g, <1>s, <1>t, <1>w, <2>1, <2>2, GoesKeeps
<1>3. CASE D!EmbedderActs
  <2>1. /\ running = None /\ running' = Activity /\ D!Goes(Activity, "pump") /\ woken' = D!Notified
        /\ UNCHANGED <<mode, armed, failure, rejected>>
    BY <1>3 DEF D!EmbedderActs
  <2> QED BY <1>g, <1>n, <1>s, <1>t, <2>1, GoesKeeps
<1>4. CASE D!Pump
  <2>1. running = Activity /\ dpc[Activity] = "pump" /\ UNCHANGED <<mode, armed, failure, rejected, woken>>
    BY <1>4 DEF D!Pump, D!Loop
  <2>2. CASE UNCHANGED <<dpc, snap, nudged, running>>
    <3>1. /\ dpc' \in [D!Drivers -> Spots] /\ dpc'[Activity] = "pump" /\ dpc'[Activity] \in SpotsOf(Activity)
          /\ snap' \in [D!Drivers -> D!Snaps] /\ nudged' \in BOOLEAN /\ dpc' = dpc /\ running' = Activity
      BY <1>t, <2>1, <2>2 DEF LoopInv, LoopTypes
    <3> QED BY <1>g, <1>s, <1>w, <2>1, <3>1, LoopMoves
  <2>3. CASE \E to \in {"off", "stand", "service"} : D!Goes(Activity, to) /\ running' \in {None, Activity}
    BY <1>g, <1>s, <1>t, <1>w, <2>1, <2>3, GoesKeeps
  <2>4. \/ UNCHANGED <<dpc, snap, nudged, running>>
        \/ \E to \in {"off", "stand", "service"} : D!Goes(Activity, to)
              /\ (running' = None \/ running' = running)
    BY <1>4, Zenon DEF D!Pump
  <2> QED BY <2>1, <2>2, <2>3, <2>4
<1>5. CASE D!ActivityLoop
  <2>1. running = None /\ UNCHANGED <<mode, armed, failure, rejected>>
    BY <1>5 DEF D!ActivityLoop
  <2>2. \E to \in {"off", "stand", "service"} :
          D!Goes(Activity, to) /\ (running' = Activity \/ running' = running)
            /\ (woken' = woken \/ woken' = D!Notified)
    BY <1>5, Zenon DEF D!ActivityLoop
  <2>3. woken' \subseteq D!Drivers
    BY <1>n, <1>w, <2>2
  <2> QED BY <1>g, <1>s, <1>t, <2>1, <2>2, <2>3, GoesKeeps
<1> QED BY <1>1, <1>2, <1>3, <1>4, <1>5

\* Each step of the loops, the engine, the host and the embedder keeps the invariant.
LEMMA LoopsKeep ==
  ASSUME LoopInv, GuestInv, GuestInv', D!Next
  PROVE  LoopInv'
<1>w. woken \subseteq D!Drivers /\ failure \in BOOLEAN
  BY DEF LoopInv, LoopTypes
<1>f. mode = "plain" /\ failure => rejected # {}
  BY Zenon DEF LoopInv, PlainLoops
<1>1. ASSUME NEW t \in Callers, D!EngineRuns(t) \/ D!Settles(t) PROVE LoopInv'
  <2>1. running = None /\ UNCHANGED <<mode, armed, dpc, snap, nudged, running, woken, failure, rejected>>
    BY <1>1 DEF D!EngineRuns, D!Settles, D!loops
  <2> QED BY <1>w, <1>f, <2>1, LoopsSame
<1>2. ASSUME NEW h \in SlowCalls, D!HostSettles(h) PROVE LoopInv'
  <2>1. running = None /\ UNCHANGED <<mode, armed, dpc, snap, nudged, running, woken>>
    BY <1>2 DEF D!HostSettles, D!loops
  <2>2. (failure' = failure /\ rejected' = rejected) \/ (failure' = TRUE /\ rejected' = rejected \cup {h})
    BY <1>2 DEF D!HostSettles
  <2>3. failure' \in BOOLEAN /\ (mode = "plain" /\ failure' => rejected' # {})
    <3>1. CASE failure' = failure /\ rejected' = rejected
      BY <1>w, <1>f, <3>1
    <3>2. CASE failure' = TRUE /\ rejected' = rejected \cup {h}
      BY <3>2
    <3> QED BY <2>2, <3>1, <3>2
  <2> QED BY <1>w, <2>1, <2>3, LoopsSame
<1>3. ASSUME NEW t \in Callers, D!CallExport(t) PROVE LoopInv'
  <2>1. /\ running = None /\ running' = t /\ dpc' = [dpc EXCEPT ![t] = "drive"] /\ D!Segment(t, 1)
        /\ UNCHANGED <<mode, armed, failure, rejected, snap, woken, nudged>>
    BY <1>3 DEF D!CallExport
  <2>2. mode = "jspi" => act'[t] \in {"hop", "susp", "settling"}
    BY <2>1, SegmentMoves DEF GuestInv, GuestTypes
  <2>3. t \in D!Drivers /\ "drive" \in SpotsOf(t)
    BY DEF D!Drivers, SpotsOf
  <2>4. /\ dpc' \in [D!Drivers -> Spots] /\ dpc'[t] = "drive" /\ \A e \in D!Drivers \ {t} : dpc'[e] = dpc[e]
    BY <2>1, <2>3 DEF LoopInv, LoopTypes, Spots
  <2>5. snap' \in [D!Drivers -> D!Snaps] /\ nudged' \in BOOLEAN
    BY <2>1 DEF LoopInv, LoopTypes
  <2> QED BY <1>w, <1>f, <2>1, <2>2, <2>3, <2>4, <2>5, LoopMoves
<1>4. ASSUME NEW t \in Callers, D!Drive(t) PROVE LoopInv'
  BY <1>4, DriveKeeps
<1>5. ASSUME NEW d \in D!Drivers,
             \/ D!Service(d) \/ D!Yielded(d) \/ D!Tick(d) \/ D!Hopped(d) \/ D!Decide(d)
             \/ D!ProbeWon(d) \/ D!RaceWon(d) \/ D!CallsWon(d) \/ D!ProbeTimeout(d) \/ D!GivesUp(d)
      PROVE  LoopInv'
  BY <1>5, ServiceLoopKeeps, TickLoopKeeps, DecideKeeps, WakeKeeps
<1>6. CASE D!SettlementLoop \/ D!SettlementWakes \/ D!EmbedderActs \/ D!Pump \/ D!ActivityLoop
  BY <1>6, PumpKeeps
<1> QED BY <1>1, <1>2, <1>3, <1>4, <1>5, <1>6 DEF D!Next
-----------------------------------------------------------------------------

Looping == \E d \in D!Drivers : dpc[d] \in D!InLoop

\* The settlement pump watches every outstanding host call, or was nudged to look again, and
\* has been woken if anything is ready.
Attended ==
  /\ out # {} => dpc[Settlement] # "off"
  /\ dpc[Settlement] = "park" => nudged \/ out \subseteq snap[Settlement].calls
  /\ D!Ready # {} => dpc[Settlement] = "park" /\ (nudged \/ D!CallWon(Settlement))

\* So it is, while no host call has failed, whenever no loop is under way.
Watched == mode = "plain" /\ rejected = {} /\ running = None /\ ~Looping => Attended

\* How deep the loops are nested, in terms of where they stand.
LEMMA DepthIs ==
  ASSUME LoopTypes
  PROVE  /\ D!Depth > 0 <=> Looping
         /\ D!Depth = 0 <=> ~Looping
         /\ \A d \in D!Drivers : dpc[d] \in D!InLoop /\ D!Depth # 1 =>
              \E e \in D!Drivers \ {d} : dpc[e] \in D!InLoop
<1> DEFINE L == {d \in D!Drivers : dpc[d] \in D!InLoop}
<1>1. IsFiniteSet(D!Drivers)
  <2>1. IsFiniteSet(D!Pumps)
    <3>1. IsFiniteSet({Settlement})
      BY FS_Singleton
    <3>2. IsFiniteSet({Settlement} \cup {Activity})
      BY <3>1, FS_AddElement
    <3>3. D!Pumps = {Settlement} \cup {Activity}
      BY DEF D!Pumps
    <3> QED BY <3>2, <3>3
  <2> QED BY <2>1, StoreAssumption, FS_Union DEF D!Drivers
<1>2. IsFiniteSet(L) /\ Cardinality(L) \in Nat
  BY <1>1, FS_Subset, FS_CardinalityType
<1>3. D!Depth = Cardinality(L)
  BY Zenon DEF D!Depth, D!Cardinality, Cardinality
<1>4. Cardinality(L) = 0 <=> L = {}
  BY <1>2, FS_EmptySet
<1>5. Looping <=> L # {}
  BY DEF Looping
<1>6. ASSUME NEW d \in D!Drivers, dpc[d] \in D!InLoop, \A e \in D!Drivers \ {d} : dpc[e] \notin D!InLoop
      PROVE  Cardinality(L) = 1
  <2>1. L = {d}
    BY <1>6
  <2> HIDE DEF L
  <2> QED BY <2>1, FS_Singleton
<1> HIDE DEF L
<1> QED BY <1>2, <1>3, <1>4, <1>5, <1>6

\* A driver that leaves nothing ready behind, and arms the settlement pump.
LEMMA ArmedAttends ==
  ASSUME LoopTypes, GuestTypes', NEW pcs \in [D!Drivers -> Spots], NEW live, D!Armed(pcs, live),
         D!Ready' = {}, ~failure'
  PROVE  Attended'
<1>1. out' \subseteq SlowCalls
  BY DEF GuestTypes
<1>2. /\ pcs[Settlement] # "off" => dpc' = pcs /\ (pcs[Settlement] = "park" => nudged')
      /\ pcs[Settlement] = "off" /\ out' # {} => snap'[Settlement].calls = out' /\ dpc'[Settlement] # "off"
  BY <1>1, ArmedMoves
<1>3. CASE pcs[Settlement] # "off"
  BY <1>2, <1>3 DEF Attended
<1>4. CASE pcs[Settlement] = "off"
  BY <1>2, <1>4 DEF Attended
<1> QED BY <1>3, <1>4

\* Nothing that could be ready, if it is not resumed, is left by a loop that ends.
LEMMA LeavesAttends ==
  ASSUME LoopInv, GuestTypes', NEW d \in D!Drivers, dpc[d] \in D!InLoop,
    NEW how \in {"off", "failed", "trapped"},
         D!Leaves(d, how), D!Ready' = {}, ~failure', ~Looping'
  PROVE  Attended'
<1> DEFINE pcs == [dpc EXCEPT ![d] = After(d, how)]
<1>1. IF D!Depth = 1 THEN D!Armed(pcs, 0) ELSE dpc' = pcs /\ UNCHANGED <<snap, nudged>>
  BY Zenon DEF D!Leaves, After
<1>2. After(d, how) \in Spots
  BY DEF After, Spots
<1>3. pcs \in [D!Drivers -> Spots] /\ \A e \in D!Drivers \ {d} : pcs[e] = dpc[e]
  BY <1>2 DEF LoopInv, LoopTypes
<1> HIDE DEF pcs
<1>4. D!Depth = 1
  <2> SUFFICES ASSUME D!Depth # 1 PROVE FALSE
    OBVIOUS
  <2>1. PICK e \in D!Drivers \ {d} : dpc[e] \in D!InLoop
    BY DepthIs DEF LoopInv
  <2>2. dpc'[e] \in D!InLoop
    BY <1>1, <1>3, <2>1
  <2> QED BY <2>2 DEF Looping
<1> QED BY <1>1, <1>3, <1>4, ArmedAttends DEF LoopInv
\* Whatever happens while no host call has failed, the settlement pump is there when the last
\* loop goes to rest: exec/boundary.ts, ensureSettlementPump.
LEMMA WatchedKeeps ==
  ASSUME LoopInv, GuestInv, LoopInv', GuestInv', Watched, D!Next
  PROVE  Watched'
<1> SUFFICES ASSUME mode' = "plain", rejected' = {}, running' = None, ~Looping'
             PROVE  Attended'
  BY DEF Watched
<1> USE DEF D!guest, D!store
<1>n. None \notin D!Drivers
  BY StoreAssumption DEF D!Drivers, D!Pumps
<1>m. mode = "plain"
  <2>1. UNCHANGED mode
    BY DEF D!Next, D!EngineRuns, D!Settles, D!CallExport, D!Drive, D!HostSettles, D!Service, D!Yielded,
         D!Tick,
           D!Hopped, D!Decide, D!ProbeWon, D!RaceWon, D!CallsWon, D!ProbeTimeout, D!GivesUp, D!SettlementLoop,
           D!SettlementWakes, D!EmbedderActs, D!Pump, D!ActivityLoop, D!Loop
  <2> QED BY <2>1
<1>r. rejected = {}
  <2>1. rejected \subseteq rejected'
    BY DEF D!Next, D!EngineRuns, D!Settles, D!CallExport, D!Drive, D!HostSettles, D!Service, D!Yielded,
         D!Tick,
           D!Hopped, D!Decide, D!ProbeWon, D!RaceWon, D!CallsWon, D!ProbeTimeout, D!GivesUp, D!SettlementLoop,
           D!SettlementWakes, D!EmbedderActs, D!Pump, D!ActivityLoop, D!Loop
  <2> QED BY <2>1
<1>f. ~failure /\ ~failure'
  BY <1>m, <1>r, Zenon DEF LoopInv, PlainLoops
<1>p. /\ settled = {} /\ pending = {} /\ D!Awaiting = {} /\ D!Awaiting' = {} /\ ~D!Unserviced
      /\ \A d \in D!Drivers : dpc[d] \notin {"yield", "hop", "probe", "race", "again"}
      /\ \A t \in Callers : act[t] \in {"idle", "wait", "done"}
  BY <1>m DEF GuestInv, NoPromises, LoopInv, PlainLoops, D!Awaiting, D!Unserviced
<1>l. LoopTypes /\ LoopTypes' /\ GuestTypes' /\ Onstage
  BY DEF LoopInv, GuestInv
<1>s. Settlement \in D!Drivers /\ Activity \in D!Drivers /\ Settlement \notin Callers /\ Activity # Settlement
  BY StoreAssumption DEF D!Drivers, D!Pumps
\* A step that leaves the activations and the host's answers alone leaves what is ready.
<1>a. UNCHANGED <<act, on, heard>> => D!Ready' = D!Ready
  BY DEF D!Ready
<1>b. D!Ready = {} /\ UNCHANGED <<act, on, heard>> => D!Ready' = {}
  BY <1>a
\* A loop that is not among those that move is one of those that are left.
<1>c. ASSUME NEW d \in D!Drivers, dpc[d] \in D!InLoop, dpc'[d] = dpc[d] PROVE FALSE
  BY <1>c DEF Looping
<1>1. ASSUME NEW t \in Callers, D!EngineRuns(t) \/ D!Settles(t) PROVE Attended'
  BY <1>1, <1>p DEF D!EngineRuns, D!Settles
<1>2. ASSUME NEW h \in SlowCalls, D!HostSettles(h) PROVE Attended'
  <2>1. /\ running = None /\ D!Quiet /\ h \in out /\ out' = out \ {h} /\ heard' = heard \cup {h}
        /\ UNCHANGED <<dpc, snap, nudged, woken, act, on>>
    BY <1>2 DEF D!HostSettles, D!loops
  <2>2. ~Looping /\ Attended
    BY <1>m, <1>r, <2>1 DEF Looping, Watched
  <2>3. dpc[Settlement] \notin D!InLoop /\ dpc[Settlement] # "off"
    BY <1>s, <2>1, <2>2 DEF Looping, Attended
  <2>4. dpc[Settlement] = "park" /\ ~nudged
    <3>1. ~D!Wakes(Settlement)
      BY <1>s, <2>1 DEF D!Quiet
    <3>2. D!Depth = 0
      BY <1>l, <2>2, DepthIs
    <3>3. dpc[Settlement] \notin {"outer", "stand"} /\ (dpc[Settlement] = "park" => ~nudged)
      BY <3>1, <3>2, Zenon DEF D!Wakes
    <3> QED BY <1>l, <1>s, <2>3, <3>3 DEF Onstage, SpotsOf
  <2>5. out \subseteq snap[Settlement].calls
    BY <2>2, <2>4 DEF Attended
  <2>6. h \in (snap[Settlement].calls)' \cap SlowCalls \cap (heard \cup rejected)'
    BY <2>1, <2>5
  <2>7. D!CallWon(Settlement)'
    BY <2>6 DEF D!CallWon
  <2> QED BY <2>1, <2>4, <2>5, <2>7 DEF Attended
<1>3. ASSUME NEW t \in Callers, D!CallExport(t) PROVE Attended'
  BY <1>3, <1>n DEF D!CallExport, D!Drivers
<1>4. ASSUME NEW t \in Callers, D!Drive(t) PROVE Attended'
  <2>1. running = t /\ UNCHANGED heard /\ t \in D!Drivers /\ t # Settlement
    BY <1>4, <1>s DEF D!Drive, D!Loop, D!Drivers
  <2>2. /\ ~D!CanTick /\ UNCHANGED <<act, on, gen, resolved, out, pending, settled, stale>>
        /\ \/ D!Armed([dpc EXCEPT ![t] = "off"], D!Depth)
           \/ D!HostCalls = {} /\ D!Goes(t, "trapped")
           \/ UNCHANGED running
    BY <1>4, <1>f, <1>p, <1>n, <2>1, Zenon DEF D!Drive
  <2>3. D!Ready' = {}
    BY <1>b, <1>p, <2>1, <2>2 DEF D!CanTick
  <2>4. CASE D!Armed([dpc EXCEPT ![t] = "off"], D!Depth)
    <3>1. [dpc EXCEPT ![t] = "off"] \in [D!Drivers -> Spots]
      BY <1>l DEF LoopTypes, Spots
    <3> QED BY <1>f, <1>l, <2>3, <2>4, <3>1, ArmedAttends
  <2>5. CASE D!HostCalls = {} /\ D!Goes(t, "trapped")
    <3>1. out' = {}
      BY <2>2, <2>5 DEF D!HostCalls
    <3> QED BY <2>3, <3>1 DEF Attended
  <2>6. CASE UNCHANGED running
    BY <1>n, <2>1, <2>6
  <2> QED BY <2>2, <2>4, <2>5, <2>6
<1>5. ASSUME NEW d \in D!Drivers, D!Service(d) \/ D!Tick(d) PROVE Attended'
  <2>1. running = d
    BY <1>5 DEF D!Service, D!Tick, D!Loop
  <2>2. UNCHANGED running
    <3>1. CASE D!Service(d)
      BY <1>f, <1>p, <3>1, Zenon DEF D!Service, D!ServiceOne, D!loops
    <3>2. CASE D!Tick(d)
      BY <1>f, <1>p, <3>2, Zenon DEF D!Tick
    <3> QED BY <1>5, <3>1, <3>2
  <2> QED BY <1>n, <2>1, <2>2
<1>6. ASSUME NEW d \in D!Drivers, D!Decide(d) PROVE Attended'
  <2>1. running = d /\ dpc[d] = "decide" /\ UNCHANGED <<act, on, out, heard>>
    BY <1>6 DEF D!Decide, D!Loop
  <2>2. D!Ready' = {}
    BY <1>b, <1>l, <1>p, <2>1 DEF Onstage
  <2>3. CASE \E how \in {"off", "failed", "trapped"} : D!Leaves(d, how)
    BY <1>f, <1>l, <2>1, <2>2, <2>3, LeavesAttends DEF D!InLoop
  <2>4. CASE D!Sleeps(d, "calls", {}, D!HostCalls, None)
    <3>1. dpc'[d] = "calls"
      BY <1>l, <2>4 DEF D!Sleeps, LoopTypes
    <3> QED BY <3>1 DEF Looping, D!InLoop
  <2>5. \/ D!Leaves(d, "off") \/ D!Throws(d, "trapped") \/ UNCHANGED running
        \/ D!Sleeps(d, "calls", {}, D!HostCalls, None)
    BY <1>6, <1>f, <1>p, Zenon DEF D!Decide
  <2>6. D!Throws(d, "trapped") => D!Leaves(d, "trapped")
    BY DEF D!Throws
  <2> QED BY <1>n, <2>1, <2>3, <2>4, <2>5, <2>6
<1>7. ASSUME NEW d \in D!Drivers,
             \/ D!Yielded(d) \/ D!Hopped(d) \/ D!ProbeWon(d) \/ D!RaceWon(d) \/ D!CallsWon(d)
             \/ D!ProbeTimeout(d) \/ D!GivesUp(d)
      PROVE  Attended'
  BY <1>7, <1>n, <1>p DEF D!Yielded, D!Hopped, D!ProbeWon, D!RaceWon, D!CallsWon, D!ProbeTimeout, D!GivesUp
\* A pump moves on its own: the loops stay.
<1>8. ASSUME running = None, NEW d \in D!Pumps, dpc[d] \notin D!InLoop, NEW to \in Spots, D!Goes(d, to)
      PROVE  ~Looping /\ Attended
  <2>1. \A e \in D!Drivers \ {d} : dpc'[e] = dpc[e]
    BY <1>8, <1>l, GoesMoves DEF D!Drivers
  <2>2. ~Looping
    BY <1>8, <1>c, <2>1 DEF Looping
  <2> QED BY <1>8, <1>m, <1>r, <2>2 DEF Watched
<1>9. CASE D!SettlementLoop
  <2>1. /\ running = None /\ dpc[Settlement] \in {"outer", "stand"}
        /\ UNCHANGED <<act, on, out, heard>>
    BY <1>9 DEF D!SettlementLoop
  <2>2. \A e \in D!Drivers \ {Settlement} : dpc'[e] = dpc[e]
    BY <1>9, <1>l DEF D!SettlementLoop, D!Goes, LoopTypes
  <2>3. ~Looping
    BY <1>c, <2>1, <2>2 DEF Looping, D!InLoop
  <2>4. D!Depth = 0 /\ Attended
    BY <1>l, <1>m, <1>r, <2>1, <2>3, DepthIs DEF Watched
  <2>5. D!Ready' = {}
    BY <1>b, <2>1, <2>4 DEF Attended
  <2>6. CASE out = {} /\ D!Goes(Settlement, "off")
    BY <2>1, <2>5, <2>6 DEF Attended
  <2>7. CASE /\ dpc' = [dpc EXCEPT ![Settlement] = "park"]
             /\ snap' = [snap EXCEPT ![Settlement] = [D!NoSnap EXCEPT !.calls = out]]
    <3>1. dpc'[Settlement] = "park" /\ snap'[Settlement] = [D!NoSnap EXCEPT !.calls = out]
      BY <1>l, <1>s, <2>7 DEF LoopTypes
    <3>2. snap'[Settlement].calls = out
      BY <3>1 DEF D!NoSnap
    <3> QED BY <2>1, <2>5, <3>1, <3>2 DEF Attended
  <2>8. ~(D!Depth > 0)
    BY <2>4
  <2>9. \/ out = {} /\ D!Goes(Settlement, "off")
        \/ /\ dpc' = [dpc EXCEPT ![Settlement] = "park"]
           /\ snap' = [snap EXCEPT ![Settlement] = [D!NoSnap EXCEPT !.calls = out]]
    BY <1>9, <1>f, <2>8, Zenon DEF D!SettlementLoop
  <2> QED BY <2>6, <2>7, <2>9
<1>10. CASE D!SettlementWakes
  <2>1. running = None /\ dpc[Settlement] = "park"
    BY <1>10 DEF D!SettlementWakes
  <2>2. (D!Depth > 0 /\ D!Goes(Settlement, "stand")) \/ running' = Settlement
    BY <1>10, Zenon DEF D!SettlementWakes
  <2>3. D!Depth > 0 /\ D!Goes(Settlement, "stand")
    BY <1>n, <1>s, <2>2
  <2>4. ~Looping
    BY <1>8, <2>1, <2>3 DEF D!InLoop, D!Pumps, Spots
  <2> QED BY <1>l, <2>3, <2>4, DepthIs
<1>11. CASE D!EmbedderActs
  BY <1>11, <1>n, <1>s DEF D!EmbedderActs
<1>12. CASE D!Pump
  <2>1. running = Activity /\ dpc[Activity] = "pump" /\ UNCHANGED heard
    BY <1>12 DEF D!Pump, D!Loop
  <2>2. /\ ~D!CanTick /\ UNCHANGED <<act, on, out, pending, settled>>
        /\ \/ D!Quiescent /\ D!Goes(Activity, "off")
           \/ D!Depth > 0 /\ D!Goes(Activity, "stand")
    BY <1>12, <1>n, <1>s, <2>1, Zenon DEF D!Pump
  <2>3. D!Ready' = {}
    BY <1>b, <1>p, <2>1, <2>2 DEF D!CanTick
  <2>4. CASE D!Quiescent
    BY <2>2, <2>3, <2>4 DEF Attended, D!Quiescent
  <2>5. CASE D!Depth > 0 /\ D!Goes(Activity, "stand")
    <3>1. PICK e \in D!Drivers : dpc[e] \in D!InLoop
      BY <1>l, <2>5, DepthIs DEF Looping
    <3>2. \A d \in D!Drivers \ {Activity} : dpc'[d] = dpc[d]
      BY <1>l, <1>s, <2>5, GoesMoves DEF Spots
    <3>3. e # Activity
      BY <2>1, <3>1 DEF D!InLoop
    <3> QED BY <1>c, <3>1, <3>2, <3>3
  <2> QED BY <2>2, <2>4, <2>5
<1>13. CASE D!ActivityLoop
  <2>1. /\ running = None /\ dpc[Activity] \in {"outer", "failed", "stand"}
        /\ UNCHANGED <<act, on, out, heard, rejected>>
    BY <1>13 DEF D!ActivityLoop
  <2>2. PICK to \in {"off", "stand", "service"} : D!Goes(Activity, to)
    BY <1>13 DEF D!ActivityLoop
  <2>3. ~Looping /\ Attended
    BY <1>8, <2>1, <2>2 DEF D!InLoop, D!Pumps, Spots
  <2>4. dpc'[Settlement] = dpc[Settlement] /\ snap'[Settlement] = snap[Settlement] /\ nudged' = nudged
    BY <1>l, <1>s, <2>2, GoesMoves DEF Spots, D!InLoop
  <2>5. woken \subseteq woken'
    BY <1>13 DEF D!ActivityLoop, D!Notified
  <2>6. D!CallWon(Settlement) => D!CallWon(Settlement)'
    BY <2>1, <2>4, <2>5 DEF D!CallWon
  <2> QED BY <1>a, <2>1, <2>3, <2>4, <2>6 DEF Attended
<1> QED BY <1>1, <1>2, <1>3, <1>4, <1>5, <1>6, <1>7, <1>9, <1>10, <1>11, <1>12, <1>13 DEF D!Next
-----------------------------------------------------------------------------
(* The loop of a call that sleeps.                                             *)

\* What an activation waits for once it has been called, and what its task has been told.
Waits(t) ==
  /\ act[t] = "idle" => dpc[t] = "off" /\ gen[t] = 0
  /\ (act[t] \in {"settling", "tail"} /\ on[t] = None) \/ act[t] = "done" => t \in resolved
  /\ act[t] = "wait" => on[t] # None
  /\ on[t] = Arm => armed
  /\ on[t] \in out \cup heard \cup rejected \cup {Arm, None}

\* What wakes the loop of a call up, or keeps its activation parked: a promise or a host call
\* that it races is over, its own promise is among those it races, or its activation waits
\* for a host call that it races or that has failed.
Seen(t) ==
  \/ D!Winners(t) # {}
  \/ dpc[t] # "probe" /\ D!CallWon(t)
  \/ <<t, gen[t]>> \in snap[t].tags /\ act[t] \in {"hop", "susp", "resumed", "settling"}
  \/ /\ act[t] = "wait" /\ t \notin resolved /\ on[t] \notin heard
     /\ on[t] \in rejected \/ (dpc[t] # "probe" /\ on[t] \in snap[t].calls)

Asleep == {"probe", "race", "calls"}
Sleeper(t) ==
  dpc[t] \in Asleep => (\A tag \in snap[t].tags : tag[2] <= gen[tag[1]]) /\ Seen(t)

SleepInv == \A t \in Callers : Waits(t) /\ Sleeper(t)

\* Where a segment of wasm leaves its activation, and that it leaves the others alone.
LEMMA SegmentWaits ==
  ASSUME GuestTypes, NEW t \in Callers, NEW g, D!Segment(t, g)
  PROVE  /\ act'[t] \in {"hop", "susp", "settling", "wait", "done"} /\ gen'[t] = g
         /\ mode = "jspi" => act'[t] \in {"hop", "susp", "settling"}
         /\ on'[t] \in out' \cup {Arm, None} /\ (on'[t] = Arm => armed) /\ out \subseteq out'
         /\ (act'[t] = "settling" /\ on'[t] = None) \/ act'[t] = "done" => t \in resolved'
         /\ act'[t] = "wait" => on'[t] # None
         /\ \A u \in Callers \ {t} : /\ act'[u] = act[u] /\ on'[u] = on[u] /\ gen'[u] = gen[u]
                                     /\ u \in resolved' <=> u \in resolved
<1>t. /\ act \in [Callers -> D!Acts] /\ on \in [Callers -> SlowCalls \cup {Arm, None}]
      /\ gen \in [Callers -> Nat]
  BY DEF GuestTypes
<1>g. gen'[t] = g /\ \A u \in Callers \ {t} : gen'[u] = gen[u]
  BY <1>t DEF D!Segment
<1>a. None # Arm /\ \A x \in D!Awaitable : x \in SlowCalls \cup {Arm} /\ x # None /\ (x = Arm => armed)
  BY StoreAssumption DEF D!Awaitable
<1>1. CASE /\ mode = "jspi" /\ act' = [act EXCEPT ![t] = "hop"] /\ on' = [on EXCEPT ![t] = None]
           /\ UNCHANGED <<resolved, out, pending>>
  BY <1>1, <1>a, <1>g, <1>t
<1>2. CASE \E x \in D!Awaitable :
             /\ mode = "jspi" /\ act' = [act EXCEPT ![t] = "susp"] /\ on' = [on EXCEPT ![t] = x]
             /\ out' = out \cup ({x} \ {Arm}) /\ pending' = pending \ {t}
             /\ resolved' \in {resolved, resolved \cup {t}}
  <2>1. PICK x \in D!Awaitable :
             /\ act' = [act EXCEPT ![t] = "susp"] /\ on' = [on EXCEPT ![t] = x]
             /\ out' = out \cup ({x} \ {Arm}) /\ resolved' \in {resolved, resolved \cup {t}}
    BY <1>2
  <2> QED BY <1>a, <1>g, <1>t, <2>1
<1>3. CASE \E x \in D!Awaitable \cup {None} :
          /\ act' = [act EXCEPT ![t] =
                     IF mode = "jspi" THEN "settling" ELSE IF x = None THEN "done" ELSE "wait"]
          /\ on' = [on EXCEPT ![t] = x]
          /\ out' = out \cup ({x} \ {Arm, None})
          /\ resolved' \in {IF x = None THEN resolved \cup {t} ELSE resolved, resolved \cup {t}}
          /\ UNCHANGED pending
  <2>1. PICK x \in D!Awaitable \cup {None} :
          /\ act' = [act EXCEPT ![t] =
                     IF mode = "jspi" THEN "settling" ELSE IF x = None THEN "done" ELSE "wait"]
          /\ on' = [on EXCEPT ![t] = x] /\ out' = out \cup ({x} \ {Arm, None})
          /\ resolved' \in {IF x = None THEN resolved \cup {t} ELSE resolved, resolved \cup {t}}
    BY <1>3
  <2>2. act'[t] = (IF mode = "jspi" THEN "settling" ELSE IF x = None THEN "done" ELSE "wait")
    BY <1>t, <2>1
  <2>3. on'[t] = x /\ (x = Arm => armed) /\ (x = None => t \in resolved')
    BY <1>a, <1>t, <2>1
  <2>4. x \in out' \cup {Arm, None}
    BY <1>a, <2>1
  <2>5. \A u \in Callers \ {t} : act'[u] = act[u] /\ on'[u] = on[u] /\ (u \in resolved' <=> u \in resolved)
    BY <1>t, <2>1
  <2> QED BY <1>g, <2>1, <2>2, <2>3, <2>4, <2>5
<1> QED BY <1>1, <1>2, <1>3, Zenon DEF D!Segment

Still(t) ==
  act'[t] = act[t] /\ on'[t] = on[t] /\ gen'[t] = gen[t] /\ (t \in resolved' <=> t \in resolved)
Moves(t) ==
  \/ act[t] \in {"hop", "resumed"} /\ D!Segment(t, gen[t])
  \/ act[t] = "wait" /\ on[t] \in heard /\ D!Segment(t, gen[t] + 1)
  \/ D!CallExport(t)
  \/ /\ \/ act[t] = "susp" /\ act'[t] = "resumed"
        \/ act[t] = "settling" /\ act'[t] = "tail"
        \/ act[t] = "tail" /\ act'[t] = IF on[t] = None THEN "done" ELSE "wait"
     /\ on'[t] = on[t] /\ gen'[t] = gen[t] /\ (t \in resolved' <=> t \in resolved)

\* A tick moves the thread it picks.
LEMMA TickOf ==
  ASSUME GuestInv, D!TickOne, NEW t \in Callers
  PROVE  Still(t) \/ Moves(t)
<1>t. act \in [Callers -> D!Acts] /\ GuestTypes
  BY DEF GuestInv, GuestTypes
<1>1. PICK u \in D!Ready :
       IF act[u] = "susp"
         THEN /\ act' = [act EXCEPT ![u] = "resumed"] /\ UNCHANGED <<on, gen, resolved, out>>
         ELSE D!Segment(u, gen[u] + 1)
  BY DEF D!TickOne
<1>2. u \in Callers /\ act[u] \in {"susp", "wait"} /\ on[u] \in heard
  BY DEF D!Ready
<1>3. CASE act[u] = "susp"
  BY <1>1, <1>2, <1>3, <1>t DEF Still, Moves
<1>4. CASE act[u] # "susp"
  <2>1. D!Segment(u, gen[u] + 1) /\ act[u] = "wait"
    BY <1>1, <1>2, <1>4
  <2>2. t # u => Still(t)
    BY <1>2, <1>t, <2>1, SegmentWaits DEF Still
  <2> QED BY <1>2, <2>1, <2>2 DEF Moves
<1> QED BY <1>3, <1>4

\* A resumption moves a tail.
LEMMA ResumeOf ==
  ASSUME GuestInv, NEW u \in Callers, NEW g, act[u] = "tail", D!ResumeWith(u, g),
         UNCHANGED <<on, gen, resolved>>, NEW t \in Callers
  PROVE  Still(t) \/ Moves(t)
<1>1. act' = [act EXCEPT ![u] = IF on[u] = None THEN "done" ELSE "wait"]
  BY DEF D!ResumeWith
<1>2. act \in [Callers -> D!Acts]
  BY DEF GuestInv, GuestTypes
<1>3. t # u => act'[t] = act[t]
  BY <1>1, <1>2
<1>4. act'[u] = IF on[u] = None THEN "done" ELSE "wait"
  BY <1>1, <1>2
<1> QED BY <1>3, <1>4 DEF Still, Moves

\* What serviceSettled takes off the queue is a tail or is dropped.
LEMMA ServiceOf ==
  ASSUME GuestInv, D!ServiceOne, NEW t \in Callers
  PROVE  Still(t) \/ Moves(t)
<1>1. PICK e \in settled :
    /\ IF e[1] \in D!Awaiting THEN D!ResumeWith(e[1], e[2]) ELSE UNCHANGED <<act, stale>>
    /\ UNCHANGED <<on, gen, resolved, out, pending>>
  BY DEF D!ServiceOne
<1>2. e[1] \in Callers /\ act[e[1]] \in {"tail", "wait", "done"}
  BY DEF GuestInv, GuestTypes, Tails
<1>3. CASE e[1] \in D!Awaiting
  <2>1. act[e[1]] = "tail"
    BY <1>2, <1>3 DEF D!Awaiting
  <2> QED BY <1>1, <1>2, <1>3, <2>1, ResumeOf
<1>4. CASE e[1] \notin D!Awaiting
  BY <1>1, <1>4 DEF Still
<1> QED BY <1>3, <1>4

\* Every step leaves a thread alone or moves it on.
LEMMA ThreadMoves ==
  ASSUME GuestInv, D!Next, NEW t \in Callers
  PROVE  Still(t) \/ Moves(t)
<1> USE DEF D!guest, D!store
<1>t. /\ act \in [Callers -> D!Acts] /\ GuestTypes
  BY DEF GuestInv, GuestTypes
<1>u. UNCHANGED <<act, on, gen, resolved>> => Still(t)
  BY DEF Still
<1>1. ASSUME NEW u \in Callers, D!EngineRuns(u) PROVE Still(t) \/ Moves(t)
  <2>1. act[u] \in {"hop", "resumed"} /\ D!Segment(u, gen[u])
    BY <1>1 DEF D!EngineRuns
  <2>2. t # u => Still(t)
    BY <1>t, <2>1, SegmentWaits DEF Still
  <2> QED BY <2>1, <2>2 DEF Moves
<1>2. ASSUME NEW u \in Callers, D!Settles(u) PROVE Still(t) \/ Moves(t)
  <2>1. act[u] = "settling" /\ act' = [act EXCEPT ![u] = "tail"] /\ UNCHANGED <<on, gen, resolved>>
    BY <1>2 DEF D!Settles
  <2> QED BY <1>t, <2>1 DEF Still, Moves
<1>3. ASSUME NEW u \in Callers, D!CallExport(u) PROVE Still(t) \/ Moves(t)
  <2>1. D!Segment(u, 1)
    BY <1>3 DEF D!CallExport
  <2>2. t # u => Still(t)
    BY <1>t, <2>1, SegmentWaits DEF Still
  <2> QED BY <1>3, <2>2 DEF Moves
<1>4. ASSUME NEW u \in Callers, D!Drive(u) PROVE Still(t) \/ Moves(t)
  <2>1. D!TickOne \/ UNCHANGED <<act, on, gen, resolved>>
    BY <1>4 DEF D!Drive
  <2> QED BY <1>u, <2>1, TickOf
<1>5. ASSUME NEW h \in SlowCalls, D!HostSettles(h) PROVE Still(t)
  BY <1>5, <1>u DEF D!HostSettles
<1>6. ASSUME NEW d \in D!Drivers, D!Service(d) \/ D!Tick(d) PROVE Still(t) \/ Moves(t)
  <2>1. D!ServiceOne \/ D!TickOne \/ UNCHANGED <<act, on, gen, resolved>>
    BY <1>6 DEF D!Service, D!Tick
  <2> QED BY <1>u, <2>1, ServiceOf, TickOf
<1>7. ASSUME NEW d \in D!Drivers,
             \/ D!Decide(d) \/ D!ProbeWon(d) \/ D!Yielded(d) \/ D!Hopped(d) \/ D!CallsWon(d)
             \/ D!ProbeTimeout(d) \/ D!GivesUp(d)
      PROVE  Still(t)
  <2>1. UNCHANGED <<act, on, gen, resolved>>
    BY <1>7 DEF D!Decide, D!ProbeWon, D!Yielded, D!Hopped, D!CallsWon, D!ProbeTimeout, D!GivesUp
  <2> QED BY <1>u, <2>1
<1>8. ASSUME NEW d \in D!Drivers, D!RaceWon(d) PROVE Still(t) \/ Moves(t)
  <2>1. /\ UNCHANGED <<on, gen, resolved>>
        /\ \/ UNCHANGED act
           \/ \E tag \in D!Winners(d) : D!SamePromise(tag) /\ D!ResumeWith(tag[1], tag[2])
    BY <1>8 DEF D!RaceWon
  <2>2. ASSUME NEW tag \in D!Winners(d), D!SamePromise(tag), D!ResumeWith(tag[1], tag[2])
        PROVE  Still(t) \/ Moves(t)
    <3>1. tag[1] \in Callers /\ gen[tag[1]] = tag[2] /\ tag[1] \in D!Awaiting /\ tag[2] \in Nat
      BY <2>2 DEF D!SamePromise, D!Awaiting, GuestInv, GuestTypes
    <3>2. tag[2] < gen[tag[1]] \/ act[tag[1]] \in {"tail", "wait", "done"}
      BY DEF D!Winners, D!TagSettled
    <3>3. act[tag[1]] = "tail"
      BY <3>1, <3>2 DEF D!Awaiting
    <3> QED BY <2>1, <2>2, <3>1, <3>3, ResumeOf
  <2> QED BY <1>u, <2>1, <2>2
<1>9. CASE D!SettlementLoop \/ D!SettlementWakes \/ D!ActivityLoop \/ D!EmbedderActs
  BY <1>9, <1>u DEF D!SettlementLoop, D!SettlementWakes, D!ActivityLoop, D!EmbedderActs
<1>10. CASE D!Pump
  <2>1. D!ServiceOne \/ D!TickOne \/ UNCHANGED <<act, on, gen, resolved>>
    BY <1>10 DEF D!Pump
  <2> QED BY <1>u, <2>1, ServiceOf, TickOf
<1> QED BY <1>1, <1>2, <1>3, <1>4, <1>5, <1>6, <1>7, <1>8, <1>9, <1>10 DEF D!Next

\* What has been answered stays so, and no host call is forgotten.
LEMMA HostGrows ==
  ASSUME GuestInv, D!Next
  PROVE  /\ UNCHANGED <<mode, armed>> /\ heard \subseteq heard' /\ rejected \subseteq rejected'
         /\ out \subseteq out' \cup heard' \cup rejected'
<1> USE DEF D!guest, D!store
<1>1. UNCHANGED <<mode, armed>> /\ heard \subseteq heard' /\ rejected \subseteq rejected'
  BY DEF D!Next, D!EngineRuns, D!Settles, D!CallExport, D!Drive, D!HostSettles, D!Service, D!Yielded, D!Tick,
         D!Hopped, D!Decide, D!ProbeWon, D!RaceWon, D!CallsWon, D!ProbeTimeout, D!GivesUp, D!SettlementLoop,
         D!SettlementWakes, D!EmbedderActs, D!Pump, D!ActivityLoop, D!Loop
<1>2. ASSUME NEW t \in Callers, NEW g, D!Segment(t, g) PROVE out \subseteq out'
  BY <1>2, SegmentWaits DEF GuestInv
<1>3. D!TickOne => out \subseteq out'
  <2>1. D!TickOne => \E t \in Callers : out' = out \/ D!Segment(t, gen[t] + 1)
    BY TickMoves
  <2> QED BY <1>2, <2>1
<1>4. D!ServiceOne => out' = out
  BY DEF D!ServiceOne
<1>5. ASSUME NEW h \in SlowCalls, D!HostSettles(h) PROVE out \subseteq out' \cup heard' \cup rejected'
  BY <1>5 DEF D!HostSettles
<1>6. ASSUME NEW t \in Callers, D!EngineRuns(t) \/ D!CallExport(t) \/ D!Settles(t) \/ D!Drive(t)
      PROVE  out \subseteq out'
  <2>1. D!Segment(t, gen[t]) \/ D!Segment(t, 1) \/ D!TickOne \/ out' = out
    BY <1>6 DEF D!EngineRuns, D!CallExport, D!Settles, D!Drive
  <2> QED BY <1>2, <1>3, <2>1
<1>7. ASSUME NEW d \in D!Drivers,
             \/ D!Service(d) \/ D!Yielded(d) \/ D!Tick(d) \/ D!Hopped(d) \/ D!Decide(d)
             \/ D!ProbeWon(d) \/ D!RaceWon(d) \/ D!CallsWon(d) \/ D!ProbeTimeout(d) \/ D!GivesUp(d)
      PROVE  out \subseteq out'
  <2>1. D!ServiceOne \/ D!TickOne \/ out' = out
    BY <1>7 DEF D!Service, D!Yielded, D!Tick, D!Hopped, D!Decide, D!ProbeWon, D!RaceWon, D!CallsWon,
                D!ProbeTimeout, D!GivesUp
  <2> QED BY <1>3, <1>4, <2>1
<1>8. ASSUME D!SettlementLoop \/ D!SettlementWakes \/ D!EmbedderActs \/ D!Pump \/ D!ActivityLoop
      PROVE  out \subseteq out'
  <2>1. D!ServiceOne \/ D!TickOne \/ out' = out
    BY <1>8 DEF D!SettlementLoop, D!SettlementWakes, D!EmbedderActs, D!Pump, D!ActivityLoop
  <2> QED BY <1>3, <1>4, <2>1
<1>9. out \subseteq out' \cup heard' \cup rejected'
  BY <1>5, <1>6, <1>7, <1>8 DEF D!Next
<1> QED BY <1>1, <1>9

\* The loop of a call stays, with what it races, or moves on; it falls asleep by its decision.
LoopStill(t) == dpc'[t] = dpc[t] /\ snap'[t] = snap[t] /\ (t \in woken => t \in woken')
LoopMoved(t) == dpc'[t] \notin Asleep /\ (dpc[t] # "off" \/ D!CallExport(t))

LEMMA LoopOf ==
  ASSUME GuestInv, LoopInv, GuestInv', D!Next, NEW t \in Callers
  PROVE  LoopStill(t) \/ LoopMoved(t) \/ (dpc[t] = "decide" /\ D!Decide(t))
<1> USE DEF D!guest, D!store
<1>o. /\ LoopTypes /\ out' \subseteq SlowCalls
      /\ t \in D!Drivers /\ Settlement \in D!Drivers /\ Activity \in D!Drivers /\ t \notin D!Pumps
      /\ t # Settlement /\ t # Activity
  BY StoreAssumption DEF LoopInv, GuestInv, GuestTypes, D!Drivers, D!Pumps
<1>u. UNCHANGED <<dpc, snap>> /\ woken \subseteq woken' => LoopStill(t)
  BY DEF LoopStill
<1>p. {"service", "yield", "tick", "hop", "decide", "outer", "stand", "pump", "off", "failed", "trapped"}
        \subseteq Spots \ Asleep
  BY DEF Spots, D!InLoop, Asleep
<1>g. ASSUME NEW e \in D!Drivers, NEW to \in Spots, D!Goes(e, to)
      PROVE  /\ dpc'[e] = to
             /\ t # e => dpc'[t] = dpc[t] /\ snap'[t] = snap[t]
  BY <1>g, <1>o, GoesMoves
<1>l. ASSUME NEW e \in D!Drivers, NEW how \in {"off", "failed", "trapped"}, D!Leaves(e, how)
      PROVE  /\ t # e => dpc'[t] = dpc[t] /\ snap'[t] = snap[t]
             /\ t = e => dpc'[t] \notin Asleep
  <2> DEFINE pcs == [dpc EXCEPT ![e] = After(e, how)]
  <2>1. After(e, how) \in Spots \ Asleep
    BY DEF After, Spots, D!InLoop, Asleep
  <2>2. pcs \in [D!Drivers -> Spots] /\ pcs[e] = After(e, how) /\ (t # e => pcs[t] = dpc[t])
    BY <1>o, <2>1 DEF LoopTypes
  <2>3. D!Armed(pcs, 0) \/ (dpc' = pcs /\ snap' = snap)
    BY <1>l, Zenon DEF D!Leaves, After
  <2> HIDE DEF pcs
  <2>4. dpc'[t] = pcs[t] /\ snap'[t] = snap[t]
    BY <1>o, <2>2, <2>3, ArmedMoves
  <2> QED BY <2>1, <2>2, <2>4
<1>s. ASSUME NEW e \in D!Drivers, e # t, NEW at, NEW tags, NEW calls, NEW chosen,
             D!Sleeps(e, at, tags, calls, chosen)
      PROVE  dpc'[t] = dpc[t] /\ snap'[t] = snap[t]
  BY <1>o, <1>s DEF D!Sleeps, LoopTypes
<1>1. ASSUME NEW u \in Callers, D!EngineRuns(u) \/ D!Settles(u) PROVE LoopStill(t)
  BY <1>1, <1>u DEF D!EngineRuns, D!Settles, D!loops
<1>2. ASSUME NEW u \in Callers, D!CallExport(u) PROVE LoopStill(t) \/ LoopMoved(t)
  <2>1. dpc' = [dpc EXCEPT ![u] = "drive"] /\ UNCHANGED <<snap, woken>> /\ u \in D!Drivers
    BY <1>2 DEF D!CallExport, D!Drivers
  <2>2. t # u => dpc'[t] = dpc[t]
    BY <1>o, <2>1 DEF LoopTypes
  <2>3. dpc'[u] \notin Asleep
    BY <1>o, <2>1 DEF LoopTypes, Asleep
  <2> QED BY <1>2, <2>1, <2>2, <2>3 DEF LoopStill, LoopMoved
<1>3. ASSUME NEW u \in Callers, D!Drive(u) PROVE LoopStill(t) \/ LoopMoved(t)
  <2>1. dpc[u] = "drive" /\ woken' = woken /\ u \in D!Drivers
    BY <1>3 DEF D!Drive, D!Loop, D!Drivers
  <2>2. \/ UNCHANGED <<dpc, snap>>
        \/ \E to \in {"failed", "service", "trapped"} : D!Goes(u, to)
        \/ D!Armed([dpc EXCEPT ![u] = "off"], D!Depth)
    BY <1>3, Zenon DEF D!Drive
  <2>3. ASSUME D!Armed([dpc EXCEPT ![u] = "off"], D!Depth) PROVE LoopStill(t) \/ LoopMoved(t)
    <3>1. [dpc EXCEPT ![u] = "off"] \in [D!Drivers -> Spots]
      BY <1>o DEF LoopTypes, Spots
    <3>2. dpc'[t] = [dpc EXCEPT ![u] = "off"][t] /\ snap'[t] = snap[t]
      BY <1>o, <2>3, <3>1, ArmedMoves
    <3> QED BY <1>o, <2>1, <3>2 DEF LoopTypes, LoopStill, LoopMoved, Asleep
  <2>4. ASSUME NEW to \in {"failed", "service", "trapped"}, D!Goes(u, to)
        PROVE  LoopStill(t) \/ LoopMoved(t)
    BY <1>g, <1>p, <2>1, <2>4 DEF LoopStill, LoopMoved
  <2> QED BY <1>u, <2>1, <2>2, <2>3, <2>4
<1>4. ASSUME NEW h \in SlowCalls, D!HostSettles(h) PROVE LoopStill(t)
  BY <1>4, <1>u DEF D!HostSettles, D!loops
<1>5. ASSUME NEW e \in D!Drivers, D!Service(e) \/ D!Tick(e) PROVE LoopStill(t) \/ LoopMoved(t)
  <2>1. dpc[e] # "off" /\ woken' = woken
    BY <1>5 DEF D!Service, D!Tick, D!Loop, D!loops
  <2>2. \/ UNCHANGED <<dpc, snap>> \/ D!Leaves(e, "failed")
        \/ \E to \in {"yield", "tick", "hop", "decide"} : D!Goes(e, to)
    <3>1. CASE D!Service(e)
      BY <3>1, Zenon DEF D!Service, D!loops, D!Throws
    <3>2. CASE D!Tick(e)
      BY <3>2, Zenon DEF D!Tick, D!Throws
    <3> QED BY <1>5, <3>1, <3>2
  <2>3. ASSUME NEW to \in {"yield", "tick", "hop", "decide"}, D!Goes(e, to) PROVE LoopStill(t) \/ LoopMoved(t)
    BY <1>g, <1>p, <2>1, <2>3 DEF LoopStill, LoopMoved
  <2>4. D!Leaves(e, "failed") => LoopStill(t) \/ LoopMoved(t)
    BY <1>l, <2>1 DEF LoopStill, LoopMoved
  <2> QED BY <1>u, <2>1, <2>2, <2>3, <2>4
<1>6. ASSUME NEW e \in D!Drivers, D!Decide(e), e # t PROVE LoopStill(t)
  <2>1. woken' \in {woken, woken \ {e}}
    BY <1>6, Zenon DEF D!Decide, D!RaceAll
  <2>2. \/ D!Leaves(e, "off") \/ D!Leaves(e, "failed") \/ D!Leaves(e, "trapped") \/ D!Goes(e, "service")
        \/ \E at, tags, calls, chosen : D!Sleeps(e, at, tags, calls, chosen)
    BY <1>6, Zenon DEF D!Decide, D!Throws, D!RaceAll
  <2> QED BY <1>6, <1>g, <1>l, <1>p, <1>s, <2>1, <2>2 DEF LoopStill
<1>7. D!Decide(t) => dpc[t] = "decide"
  BY DEF D!Decide, D!Loop
<1>8. ASSUME NEW e \in D!Drivers,
             \/ D!Yielded(e) \/ D!Hopped(e) \/ D!ProbeWon(e) \/ D!RaceWon(e) \/ D!CallsWon(e)
             \/ D!ProbeTimeout(e) \/ D!GivesUp(e)
      PROVE  LoopStill(t) \/ LoopMoved(t)
  <2>1. dpc[e] # "off" /\ woken' \in {woken, woken \ {e}}
    BY <1>8, Zenon DEF D!Yielded, D!Hopped, D!ProbeWon, D!RaceWon, D!CallsWon, D!ProbeTimeout, D!GivesUp, D!RaceAll
  <2>2. \/ \E to \in {"service", "decide", "tick"} : D!Goes(e, to)
        \/ D!RaceAll(e, "again") \/ D!Leaves(e, "failed") \/ D!Leaves(e, "trapped")
    BY <1>8 DEF D!Yielded, D!Hopped, D!ProbeWon, D!RaceWon, D!CallsWon, D!ProbeTimeout, D!GivesUp, D!Throws
  <2>3. ASSUME NEW to \in {"service", "decide", "tick"}, D!Goes(e, to) PROVE LoopStill(t) \/ LoopMoved(t)
    BY <1>g, <1>p, <2>1, <2>3 DEF LoopStill, LoopMoved
  <2>4. ASSUME D!RaceAll(e, "again") PROVE LoopStill(t) \/ LoopMoved(t)
    <3>1. PICK chosen : D!Sleeps(e, "again", D!TagsOf(D!Parked), D!HostCalls, chosen)
      BY <2>4, Zenon DEF D!RaceAll
    <3>2. t = e => dpc'[t] = "again"
      BY <1>o, <3>1 DEF D!Sleeps, LoopTypes
    <3> QED BY <1>s, <2>1, <3>1, <3>2 DEF LoopStill, LoopMoved, Asleep
  <2>5. ASSUME NEW how \in {"failed", "trapped"}, D!Leaves(e, how) PROVE LoopStill(t) \/ LoopMoved(t)
    BY <1>l, <2>1, <2>5 DEF LoopStill, LoopMoved
  <2> QED BY <2>2, <2>3, <2>4, <2>5
<1>9. CASE D!SettlementLoop
  <2>1. \/ D!Goes(Settlement, "stand") \/ D!Goes(Settlement, "off")
        \/ \E new : dpc' = [dpc EXCEPT ![Settlement] = "park"] /\ snap' = [snap EXCEPT ![Settlement] = new]
    BY <1>9, Zenon DEF D!SettlementLoop
  <2>2. ASSUME NEW new, dpc' = [dpc EXCEPT ![Settlement] = "park"], snap' = [snap EXCEPT ![Settlement] = new]
        PROVE  dpc'[t] = dpc[t] /\ snap'[t] = snap[t]
    BY <1>o, <2>2 DEF LoopTypes
  <2>3. UNCHANGED woken
    BY <1>9 DEF D!SettlementLoop
  <2> QED BY <1>g, <1>o, <1>p, <2>1, <2>2, <2>3 DEF LoopStill
<1>10. CASE D!SettlementWakes \/ D!EmbedderActs \/ D!Pump \/ D!ActivityLoop
  <2>1. \/ UNCHANGED <<dpc, snap>>
        \/ \E e \in {Settlement, Activity}, to \in {"stand", "service", "pump", "off"} : D!Goes(e, to)
    BY <1>10 DEF D!SettlementWakes, D!EmbedderActs, D!Pump, D!ActivityLoop
  <2>2. woken \subseteq woken'
    BY <1>10 DEF D!SettlementWakes, D!EmbedderActs, D!Pump, D!ActivityLoop, D!Notified
  <2> QED BY <1>g, <1>o, <1>p, <1>u, <2>1, <2>2 DEF LoopStill
<1>11. ASSUME NEW d \in D!Drivers, D!Decide(d)
       PROVE  LoopStill(t) \/ (dpc[t] = "decide" /\ D!Decide(t))
  BY <1>6, <1>7, <1>11
<1> QED BY <1>1, <1>2, <1>3, <1>4, <1>5, <1>8, <1>9, <1>10, <1>11 DEF D!Next

\* What an activation waits for stays so.
LEMMA WaitsKeep ==
  ASSUME GuestInv, LoopInv, GuestInv', D!Next, NEW t \in Callers, Waits(t)
  PROVE  Waits(t)'
<1>h. /\ armed' = armed /\ heard \subseteq heard' /\ rejected \subseteq rejected'
      /\ out \cup heard \cup rejected \subseteq out' \cup heard' \cup rejected'
  BY HostGrows
<1>t. act[t] \in D!Acts /\ act'[t] \in D!Acts /\ GuestTypes
  BY DEF GuestInv, GuestTypes
<1>l. (act[t] # "idle" /\ act'[t] # "idle") \/ dpc'[t] = dpc[t] \/ D!CallExport(t)
  <2>1. LoopStill(t) \/ LoopMoved(t) \/ dpc[t] = "decide"
    BY LoopOf
  <2>2. act[t] # "idle" => act'[t] # "idle"
    BY <1>t, ThreadMoves, SegmentWaits DEF Still, Moves, D!CallExport
  <2> QED BY <2>1, <2>2 DEF Waits, LoopStill, LoopMoved
<1>1. CASE Still(t)
  <2>1. D!CallExport(t) => act'[t] # "idle"
    BY <1>t, SegmentWaits DEF D!CallExport
  <2> QED BY <1>1, <1>h, <1>l, <2>1 DEF Waits, Still
<1>2. ASSUME NEW g, D!Segment(t, g) PROVE Waits(t)'
  <2>1. /\ act'[t] \in {"hop", "susp", "settling", "wait", "done"}
        /\ on'[t] \in out' \cup {Arm, None} /\ (on'[t] = Arm => armed)
        /\ (act'[t] = "settling" /\ on'[t] = None) \/ act'[t] = "done" => t \in resolved'
        /\ act'[t] = "wait" => on'[t] # None
    BY <1>2, <1>t, SegmentWaits
  <2> QED BY <1>h, <2>1 DEF Waits
<1>3. CASE /\ \/ act[t] = "susp" /\ act'[t] = "resumed"
              \/ act[t] = "settling" /\ act'[t] = "tail"
              \/ act[t] = "tail" /\ act'[t] = IF on[t] = None THEN "done" ELSE "wait"
           /\ on'[t] = on[t] /\ gen'[t] = gen[t] /\ (t \in resolved' <=> t \in resolved)
  BY <1>3, <1>h DEF Waits
<1> QED BY <1>1, <1>2, <1>3, ThreadMoves DEF Moves, D!CallExport

\* The embedder's arm is resolved by its own operations only.
LEMMA ArmComes ==
  ASSUME D!Next, Arm \notin heard, Arm \in heard'
  PROVE  D!EmbedderActs
<1> USE DEF D!guest, D!store
<1>1. \A h \in SlowCalls : ~D!HostSettles(h)
  BY StoreAssumption DEF D!HostSettles
<1>2. \A t \in Callers : ~D!EngineRuns(t) /\ ~D!Settles(t) /\ ~D!CallExport(t) /\ ~D!Drive(t)
  BY DEF D!EngineRuns, D!Settles, D!CallExport, D!Drive, D!Loop
<1>3. \A d \in D!Drivers :
        ~( \/ D!Service(d) \/ D!Yielded(d) \/ D!Tick(d) \/ D!Hopped(d) \/ D!Decide(d)
           \/ D!ProbeWon(d) \/ D!RaceWon(d) \/ D!CallsWon(d) \/ D!ProbeTimeout(d) \/ D!GivesUp(d))
  BY DEF D!Service, D!Yielded, D!Tick, D!Hopped, D!Decide, D!ProbeWon, D!RaceWon, D!CallsWon, D!ProbeTimeout,
         D!GivesUp, D!Loop
<1>4. ~D!SettlementLoop /\ ~D!SettlementWakes /\ ~D!Pump /\ ~D!ActivityLoop
  BY DEF D!SettlementLoop, D!SettlementWakes, D!Pump, D!ActivityLoop, D!Loop
<1> QED BY <1>1, <1>2, <1>3, <1>4 DEF D!Next

\* What wakes a sleeping loop up, or keeps its activation parked, is not lost, whatever the
\* other loops, the engine, the host and the embedder do.
LEMMA SeenStays ==
  ASSUME GuestInv, LoopInv, GuestInv', D!Next, \A u \in Callers : Waits(u), NEW t \in Callers,
         Sleeper(t), dpc[t] \in Asleep, LoopStill(t)
  PROVE  Sleeper(t)'
<1>t. /\ gen \in [Callers -> Nat] /\ \A u \in Callers : act[u] \in D!Acts /\ gen[u] \in Nat
      /\ GuestTypes /\ t \in D!Drivers /\ snap[t] \in D!Snaps
  BY DEF GuestInv, GuestTypes, LoopInv, LoopTypes, D!Drivers
<1>s. snap'[t] = snap[t] /\ dpc'[t] = dpc[t] /\ \A tag \in snap[t].tags : tag[1] \in Callers /\ tag[2] \in Nat
  BY <1>t DEF LoopStill, D!Snaps
<1>h. heard \subseteq heard' /\ rejected \subseteq rejected'
  BY HostGrows
<1>g. ASSUME NEW u \in Callers
      PROVE  /\ gen[u] <= gen'[u]
             /\ act[u] \in {"tail", "wait", "done"} => gen[u] < gen'[u] \/ act'[u] \in {"tail", "wait", "done"}
  <2>1. Still(u) \/ Moves(u)
    BY ThreadMoves
  <2>2. ASSUME NEW g, D!Segment(u, g) PROVE gen'[u] = g
    BY <1>t, <2>2, SegmentWaits
  <2>3. D!CallExport(u) => act[u] = "idle" /\ gen[u] = 0 /\ gen'[u] = 1
    BY <2>2 DEF D!CallExport, Waits
  <2>4. D!Segment(u, gen[u] + 1) => gen'[u] = gen[u] + 1
    BY <2>2
  <2>5. D!Segment(u, gen[u]) => gen'[u] = gen[u]
    BY <2>2
  <2>6. CASE Still(u)
    BY <1>t, <2>6 DEF Still
  <2>7. CASE act[u] \in {"hop", "resumed"} /\ D!Segment(u, gen[u])
    BY <1>t, <2>5, <2>7
  <2>8. CASE act[u] = "wait" /\ D!Segment(u, gen[u] + 1)
    BY <1>t, <2>4, <2>8
  <2>9. CASE D!CallExport(u)
    BY <1>t, <2>3, <2>9
  <2>10. CASE gen'[u] = gen[u] /\ (act[u] \in {"susp", "settling"} \/ act'[u] \in {"done", "wait"})
    BY <1>t, <2>10
  <2> QED BY <2>1, <2>6, <2>7, <2>8, <2>9, <2>10, Zenon DEF Moves
<1>1. \A tag \in snap'[t].tags : tag[2] <= gen'[tag[1]]
  <2> SUFFICES ASSUME NEW tag \in snap[t].tags PROVE tag[2] <= gen'[tag[1]]
    BY <1>s
  <2>1. tag[1] \in Callers /\ tag[2] \in Nat /\ tag[2] <= gen[tag[1]]
    BY <1>s DEF Sleeper
  <2>2. gen'[tag[1]] \in Nat /\ gen[tag[1]] \in Nat
    BY <2>1 DEF GuestInv, GuestTypes
  <2> QED BY <1>g, <2>1, <2>2
<1>2. CASE D!Winners(t) # {}
  <2>1. PICK tag \in snap[t].tags : D!TagSettled(tag)
    BY <1>2 DEF D!Winners
  <2>2. tag[1] \in Callers /\ tag[2] \in Nat /\ tag[2] <= gen[tag[1]]
    BY <1>s DEF Sleeper
  <2>3. gen'[tag[1]] \in Nat /\ gen[tag[1]] \in Nat
    BY <2>2 DEF GuestInv, GuestTypes
  <2>4. tag[2] < gen[tag[1]] \/ act[tag[1]] \in {"tail", "wait", "done"}
    BY <2>1 DEF D!TagSettled
  <2>5. tag[2] < gen'[tag[1]] \/ act'[tag[1]] \in {"tail", "wait", "done"}
    BY <1>g, <2>2, <2>3, <2>4
  <2>6. D!Winners(t)' # {}
    BY <1>s, <2>5 DEF D!Winners, D!TagSettled
  <2> QED BY <1>1, <2>6 DEF Sleeper, Seen
<1>3. CASE dpc[t] # "probe" /\ D!CallWon(t)
  <2>1. D!CallWon(t)'
    BY <1>3, <1>h, <1>s DEF D!CallWon, LoopStill
  <2> QED BY <1>1, <1>3, <1>s, <2>1 DEF Sleeper, Seen
<1>4. CASE <<t, gen[t]>> \in snap[t].tags /\ act[t] \in {"hop", "susp", "resumed", "settling"}
  <2>1. mode = "jspi"
    BY <1>4 DEF GuestInv, GuestTypes, NoPromises
  <2>2. D!Segment(t, gen[t]) => gen'[t] = gen[t] /\ act'[t] \in {"hop", "susp", "settling"}
    BY <1>t, <2>1, SegmentWaits
  <2>3. ~D!CallExport(t)
    BY <1>4 DEF D!CallExport
  <2>4. gen'[t] = gen[t] /\ act'[t] \in {"hop", "susp", "resumed", "settling", "tail"}
    BY <1>4, <2>2, <2>3, ThreadMoves DEF Still, Moves
  <2>5. act'[t] = "tail" => D!Winners(t)' # {}
    BY <1>4, <1>s, <2>4 DEF D!Winners, D!TagSettled
  <2> QED BY <1>1, <1>4, <1>s, <2>4, <2>5 DEF Sleeper, Seen
<1>5. CASE /\ act[t] = "wait" /\ t \notin resolved /\ on[t] \notin heard
           /\ on[t] \in rejected \/ (dpc[t] # "probe" /\ on[t] \in snap[t].calls)
  <2>1. act'[t] = "wait" /\ t \notin resolved' /\ on'[t] = on[t]
    BY <1>5, ThreadMoves DEF Still, Moves, D!CallExport
  <2>2. CASE on[t] \notin heard'
    BY <1>1, <1>5, <1>h, <1>s, <2>1, <2>2 DEF Sleeper, Seen
  <2>3. CASE on[t] \in heard'
    <3>1. on[t] \notin rejected /\ on[t] \notin rejected'
      <4>1. Arm \notin rejected'
        BY StoreAssumption DEF GuestInv, GuestTypes
      <4>2. on[t] \notin rejected'
        BY <2>3, <4>1 DEF GuestInv, GuestTypes
      <4> QED BY <1>h, <4>2
    <3>2. dpc[t] # "probe" /\ on[t] \in snap[t].calls
      BY <1>5, <3>1
    <3>3. CASE on[t] \in SlowCalls
      <4>1. D!CallWon(t)'
        BY <1>s, <2>3, <3>2, <3>3 DEF D!CallWon
      <4> QED BY <1>1, <1>s, <3>2, <4>1 DEF Sleeper, Seen
    <3>4. CASE on[t] \notin SlowCalls
      <4>1. on[t] = Arm
        BY <1>t, <3>2, <3>4 DEF D!Snaps
      <4>2. Arm \notin heard /\ Arm \in heard'
        BY <1>5, <2>3, <4>1
      <4>3. D!EmbedderActs
        BY <4>2, ArmComes
      <4>4. woken' = D!Notified
        BY <4>3 DEF D!EmbedderActs
      <4>5. dpc[t] \in {"race", "calls"}
        BY <3>2 DEF Asleep
      <4>6. t \in woken'
        BY <1>t, <3>2, <4>1, <4>4, <4>5 DEF D!Notified
      <4>7. D!CallWon(t)'
        BY <4>6 DEF D!CallWon
      <4> QED BY <1>1, <1>s, <3>2, <4>7 DEF Sleeper, Seen
    <3> QED BY <3>3, <3>4
  <2> QED BY <2>2, <2>3
<1> QED BY <1>2, <1>3, <1>4, <1>5 DEF Sleeper, Seen

\* A loop that falls asleep races the promise of its own activation, or what that waits for.
LEMMA FallsAsleep ==
  ASSUME GuestInv, LoopInv, GuestInv', NEW t \in Callers, Waits(t), dpc[t] = "decide", D!Decide(t)
  PROVE  Sleeper(t)'
<1> SUFFICES ASSUME dpc'[t] \in Asleep PROVE Sleeper(t)'
  BY DEF Sleeper
<1>o. /\ LoopTypes /\ GuestTypes /\ GuestTypes' /\ t \in D!Drivers /\ t \notin D!Pumps /\ t # Settlement
      /\ act[t] \in D!Acts
  BY StoreAssumption DEF LoopInv, GuestInv, GuestTypes, D!Drivers, D!Pumps
<1>d. UNCHANGED <<mode, armed, heard, rejected, act, on, gen, resolved, out, settled>>
  BY DEF D!Decide, D!Loop, D!guest
<1>g. ~D!Goes(t, "service")
  <2>1. D!Goes(t, "service") => dpc'[t] = "service"
    BY <1>o, GoesMoves DEF Spots, D!InLoop
  <2> QED BY <2>1 DEF Asleep
<1>l. ASSUME NEW how \in {"off", "failed", "trapped"}, D!Leaves(t, how) PROVE FALSE
  <2>1. out' \subseteq SlowCalls
    BY <1>o DEF GuestTypes
  <2>2. dpc'[t] = After(t, how)
    BY <1>l, <1>o, <2>1, LeavesMoves
  <2> QED BY <2>2 DEF After, Asleep
<1>s. ASSUME NEW at, NEW tags, NEW calls, NEW chosen, D!Sleeps(t, at, tags, calls, chosen)
      PROVE  dpc'[t] = at /\ snap'[t].tags = tags /\ snap'[t].calls = calls
  BY <1>o, <1>s DEF D!Sleeps, LoopTypes
<1>1. /\ ~D!Done(t) /\ ~D!Unserviced /\ pending = {}
      /\ \/ /\ D!Awaiting # {} /\ D!HostCalls = {}
            /\ D!Sleeps(t, "probe", D!TagsOf(D!Parked), {}, None)
         \/ D!Awaiting # {} /\ D!HostCalls # {} /\ D!RaceAll(t, "race")
         \/ D!Awaiting = {} /\ D!HostCalls # {} /\ D!Sleeps(t, "calls", {}, D!HostCalls, None)
  BY <1>g, <1>l, Zenon DEF D!Decide, D!Throws
<1>2. settled = {} /\ D!Parked = D!Awaiting /\ D!TagsOf({}) = {}
  BY <1>1 DEF D!Unserviced, D!Parked, D!TagsOf
<1>3. /\ snap'[t].tags = D!TagsOf(D!Awaiting) /\ snap'[t].calls = D!HostCalls
      /\ dpc'[t] = "probe" => D!HostCalls = {}
  <2>1. CASE D!HostCalls = {} /\ D!Sleeps(t, "probe", D!TagsOf(D!Parked), {}, None)
    BY <1>2, <1>s, <2>1
  <2>2. CASE D!HostCalls # {} /\ D!RaceAll(t, "race")
    <3>1. PICK chosen : D!Sleeps(t, "race", D!TagsOf(D!Parked), D!HostCalls, chosen)
      BY <2>2, Zenon DEF D!RaceAll
    <3> QED BY <1>2, <1>s, <3>1
  <2>3. CASE D!Awaiting = {} /\ D!HostCalls # {} /\ D!Sleeps(t, "calls", {}, D!HostCalls, None)
    BY <1>2, <1>s, <2>3
  <2> QED BY <1>1, <2>1, <2>2, <2>3
<1>4. \A tag \in snap'[t].tags : tag[2] <= gen'[tag[1]]
  <2>1. \A u \in D!Awaiting : gen[u] \in Nat
    BY <1>o DEF D!Awaiting, GuestTypes
  <2> QED BY <1>3, <1>d, <2>1 DEF D!TagsOf
<1>5. CASE t \in D!Awaiting
  <2>1. act[t] \in {"hop", "susp", "resumed", "settling"}
    BY <1>2, <1>5 DEF D!Awaiting, GuestInv, Tails
  <2>2. <<t, gen[t]>> \in snap'[t].tags
    BY <1>3, <1>5 DEF D!TagsOf
  <2> QED BY <1>4, <1>d, <2>1, <2>2 DEF Sleeper, Seen
<1>6. CASE t \notin D!Awaiting
  <2>1. t \notin resolved
    BY <1>1, <1>6, <1>o, Zenon DEF D!Done
  <2>2. act[t] \in {"idle", "wait", "done"}
    BY <1>6, <1>o DEF D!Awaiting, D!Acts, GuestInv, GuestTypes, NoPromises
  <2>3. act[t] = "wait" /\ on[t] # None
    BY <2>1, <2>2 DEF Waits
  <2>4. D!Ready = {}
    BY <1>1, <1>o DEF LoopInv, Onstage
  <2>5. on[t] \notin heard
    BY <2>3, <2>4 DEF D!Ready
  <2>6. on[t] \in rejected \/ on[t] \in D!HostCalls
    BY <2>3, <2>5 DEF Waits, D!HostCalls
  <2>7. on[t] \in D!HostCalls => dpc'[t] # "probe" /\ on[t] \in snap'[t].calls
    BY <1>3
  <2> QED BY <1>4, <1>d, <2>1, <2>3, <2>5, <2>6, <2>7 DEF Sleeper, Seen
<1> QED BY <1>5, <1>6

\* No loop of a call sleeps through what its activation can do.
LEMMA SleepKeeps ==
  ASSUME GuestInv, LoopInv, GuestInv', D!Next, SleepInv
  PROVE  SleepInv'
<1> SUFFICES ASSUME NEW t \in Callers PROVE Waits(t)' /\ Sleeper(t)'
  BY DEF SleepInv
<1>1. Waits(t)'
  BY WaitsKeep DEF SleepInv
<1>2. CASE LoopStill(t)
  <2>1. dpc[t] \in Asleep => Sleeper(t)'
    BY <1>2, SeenStays DEF SleepInv
  <2>2. dpc[t] \notin Asleep => Sleeper(t)'
    BY <1>2 DEF LoopStill, Sleeper
  <2> QED BY <1>1, <2>1, <2>2
<1>3. CASE LoopMoved(t)
  BY <1>1, <1>3 DEF LoopMoved, Sleeper
<1>4. CASE dpc[t] = "decide" /\ D!Decide(t)
  BY <1>1, <1>4, FallsAsleep DEF SleepInv
<1> QED BY <1>2, <1>3, <1>4, LoopOf

DriverInv == GuestInv /\ LoopInv /\ stale = FALSE /\ Watched /\ SleepInv

\* The four invariants hold of every store.
LEMMA DriversHold == StoreSpec => []DriverInv
<1>1. StoreStarted => DriverInv
  <2> SUFFICES ASSUME D!Init PROVE DriverInv
    BY DEF StoreStarted
  <2> USE StoreAssumption DEF D!Init
  <2>1. GuestInv
    BY DEF GuestInv, GuestTypes, NoPromises, Tails, D!Acts
  <2>2. D!NoSnap \in D!Snaps
    BY DEF D!NoSnap, D!Snaps
  <2>3. LoopTypes
    BY <2>2 DEF LoopTypes, Spots
  <2>4. \A d \in D!Drivers : dpc[d] = "off" /\ "off" \in SpotsOf(d)
    BY DEF SpotsOf
  <2>5. Onstage /\ PlainLoops
    <3>1. \A t \in Callers : t \in D!Drivers
      BY DEF D!Drivers
    <3> QED BY <2>4, <3>1 DEF Onstage, PlainLoops
  <2>6. D!Ready = {} /\ Settlement \in D!Drivers
    BY DEF D!Ready, D!Drivers, D!Pumps
  <2>7. Watched
    BY <2>6 DEF Watched, Attended
  <2>8. SleepInv
    <3>1. \A t \in Callers : t \in D!Drivers
      BY DEF D!Drivers
    <3> QED BY <2>4, <3>1 DEF SleepInv, Waits, Sleeper, Asleep
  <2> QED BY <2>1, <2>3, <2>5, <2>7, <2>8 DEF DriverInv, LoopInv
<1>2. DriverInv /\ [StoreStep]_<<part, storeVars>> => DriverInv'
  <2> SUFFICES ASSUME DriverInv, [StoreStep]_<<part, storeVars>> PROVE DriverInv'
    OBVIOUS
  <2>1. CASE D!Next
    <3>1. stale \in BOOLEAN
      BY DEF DriverInv
    <3>2. GuestInv' /\ stale' = stale
      BY <2>1, <3>1, GuestKeeps DEF DriverInv
    <3>3. LoopInv'
      BY <2>1, <3>2, LoopsKeep DEF DriverInv
    <3>4. Watched'
      BY <2>1, <3>2, <3>3, WatchedKeeps DEF DriverInv
    <3>5. SleepInv'
      BY <2>1, <3>2, SleepKeeps DEF DriverInv
    <3> QED BY <3>2, <3>3, <3>4, <3>5 DEF DriverInv
  <2>2. CASE UNCHANGED dvars
    <3> USE <2>2 DEF dvars
    <3>1. GuestInv'
      BY DEF DriverInv, GuestInv, GuestTypes, NoPromises, Tails
    <3>2. LoopInv'
      BY DEF DriverInv, LoopInv, LoopTypes, Onstage, PlainLoops, D!Unserviced, D!Ready
    <3>3. Watched'
      BY DEF DriverInv, Watched, Attended, Looping, D!Ready, D!CallWon
    <3>4. SleepInv'
      BY DEF DriverInv, SleepInv, Waits, Sleeper, Asleep, Seen, D!Winners, D!TagSettled, D!CallWon
    <3> QED BY <3>1, <3>2, <3>3, <3>4 DEF DriverInv
  <2>3. D!Next \/ UNCHANGED dvars
    BY DEF StoreStep, storeVars
  <2> QED BY <2>1, <2>2, <2>3
<1> QED BY <1>1, <1>2, PTL DEF StoreSpec

\* For any number of calls in any interleaving, an activation is resumed once for each of
\* its promises, and the loop of a call never sleeps beside a settled tail or a ready thread
\* of its own activation, with JSPI and without.  Without JSPI, until a host call fails, no
\* ready thread and no outstanding host call is left when no loop is under way:
\* exec/boundary.ts, host_streams.ts.
THEOREM StoresAreDriven == StoreSpec => []Driven
<1>1. DriverInv => D!TypeOK
  BY DEF DriverInv, GuestInv, GuestTypes, LoopInv, LoopTypes, Spots, D!TypeOK
<1>2. DriverInv => D!ResumedOnce
  BY DEF DriverInv, D!ResumedOnce
<1>s. Settlement \in D!Drivers
  BY DEF D!Drivers, D!Pumps
<1>3. DriverInv => D!WorkIsSeen
  <2> SUFFICES ASSUME DriverInv, mode = "plain", D!Depth = 0, D!Quiet, rejected = {}
               PROVE  D!Ready = {}
    BY DEF D!WorkIsSeen
  <2>2. Attended
    BY DepthIs DEF DriverInv, LoopInv, Watched, D!Quiet
  <2>3. ~(dpc[Settlement] = "park" /\ (nudged \/ D!CallWon(Settlement)))
    BY <1>s, Zenon DEF D!Quiet, D!Wakes
  <2> QED BY <2>2, <2>3, Zenon DEF Attended
<1>4. DriverInv => D!CallsWatched
  BY DepthIs DEF DriverInv, LoopInv, Watched, Attended, D!CallsWatched
<1>5. DriverInv => D!OwnLoopWakes
  <2> SUFFICES ASSUME DriverInv, D!Quiet, NEW t \in Callers, dpc[t] \in Asleep
               PROVE  act[t] = "susp" \/ (act[t] = "wait" /\ on[t] \notin heard /\ t \notin resolved)
    BY DEF D!OwnLoopWakes, Asleep
  <2>1. t \in D!Drivers /\ Seen(t)
    BY DEF D!Drivers, DriverInv, SleepInv, Sleeper
  <2>2. ~D!Wakes(t) /\ act[t] \notin {"hop", "resumed", "settling"}
    BY <2>1 DEF D!Quiet
  <2>3. D!Winners(t) = {} /\ (dpc[t] # "probe" => ~D!CallWon(t))
    BY <2>2 DEF D!Wakes, Asleep
  <2> QED BY <2>1, <2>2, <2>3, Zenon DEF Seen
<1>6. DriverInv => Driven
  BY <1>1, <1>2, <1>3, <1>4, <1>5 DEF Driven
<1> QED BY <1>6, DriversHold, PTL

Verdict(d) ==
  \/ dpc[d] = "drive" /\ D!Awaiting = {} /\ pending = {} /\ D!HostCalls = {} /\ ~D!CanTick
  \/ dpc[d] = "decide" /\ ~D!Unserviced /\ pending = {} /\ D!Awaiting = {} /\ D!HostCalls = {}
  \/ D!Quiet /\ ~D!Reprobes(d)

\* Who is told of a deadlock has been told by its drive, or by its loop, which found nothing
\* to wait for or waited in vain.
LEMMA VerdictBy ==
  ASSUME GuestInv, LoopInv, GuestInv', D!Next, NEW d \in Callers, dpc[d] # "trapped", dpc'[d] = "trapped"
  PROVE  Verdict(d)
<1> USE DEF D!guest, D!store
<1>d. d \in D!Drivers /\ d # Settlement /\ Settlement \in D!Drivers /\ Activity \in D!Drivers
  BY StoreAssumption DEF D!Drivers, D!Pumps
<1>o. out' \subseteq SlowCalls /\ LoopTypes
  BY DEF GuestInv, GuestTypes, LoopInv
<1>u. ASSUME UNCHANGED dpc PROVE FALSE
  BY <1>u
<1>g. ASSUME NEW e \in D!Drivers, NEW to \in Spots \ {"trapped"}, D!Goes(e, to) PROVE FALSE
  <2>1. dpc'[e] = to /\ \A x \in D!Drivers \ {e} : dpc'[x] = dpc[x]
    BY <1>g, <1>o, GoesMoves
  <2> QED BY <1>d, <2>1
<1>l. ASSUME NEW e \in D!Drivers, NEW how \in {"off", "failed"}, D!Leaves(e, how) PROVE FALSE
  <2>1. /\ \A x \in D!Drivers \ {e} : dpc'[x] = dpc[x] \/ x = Settlement
        /\ dpc'[e] = After(e, how) \/ e = Settlement
    BY <1>l, <1>o, LeavesMoves
  <2>2. After(e, how) # "trapped"
    BY DEF After
  <2> QED BY <1>d, <2>1, <2>2
<1>s. ASSUME NEW e \in D!Drivers, NEW at \in {"probe", "race", "again", "calls"}, NEW tags, NEW calls, NEW chosen,
             D!Sleeps(e, at, tags, calls, chosen)
      PROVE  FALSE
  BY <1>d, <1>o, <1>s DEF D!Sleeps, LoopTypes
<1>a. ASSUME NEW t \in Callers, NEW live, D!Armed([dpc EXCEPT ![t] = "off"], live) PROVE FALSE
  <2>1. [dpc EXCEPT ![t] = "off"] \in [D!Drivers -> Spots]
    BY <1>o DEF LoopTypes, Spots
  <2>2. dpc'[d] = [dpc EXCEPT ![t] = "off"][d]
    BY <1>a, <1>d, <1>o, <2>1, ArmedMoves
  <2> QED BY <1>d, <1>o, <2>2 DEF LoopTypes
<1>t. ASSUME NEW e \in D!Drivers, D!Throws(e, "failed") PROVE FALSE
  BY <1>l, <1>t DEF D!Throws
<1>h. ASSUME NEW e \in D!Drivers, D!Throws(e, "trapped") PROVE e = d
  <2>1. \A x \in D!Drivers \ {e} : dpc'[x] = dpc[x] \/ x = Settlement
    BY <1>h, <1>o, LeavesMoves DEF D!Throws
  <2> QED BY <1>d, <2>1
<1>p. {"service", "yield", "tick", "hop", "decide", "outer", "stand", "pump", "off", "failed"}
        \subseteq Spots \ {"trapped"}
  BY DEF Spots, D!InLoop
<1>1. ASSUME NEW t \in Callers, D!EngineRuns(t) \/ D!Settles(t) \/ D!CallExport(t) PROVE FALSE
  <2>1. UNCHANGED dpc \/ dpc' = [dpc EXCEPT ![t] = "drive"]
    BY <1>1 DEF D!EngineRuns, D!Settles, D!CallExport, D!loops
  <2> QED BY <1>d, <1>o, <2>1 DEF LoopTypes
<1>2. ASSUME NEW t \in Callers, D!Drive(t) PROVE Verdict(d)
  <2>1. \/ UNCHANGED dpc \/ D!Goes(t, "failed") \/ D!Goes(t, "service")
        \/ /\ D!Goes(t, "trapped") /\ dpc[t] = "drive"
           /\ D!Awaiting = {} /\ pending = {} /\ D!HostCalls = {} /\ ~D!CanTick
        \/ D!Armed([dpc EXCEPT ![t] = "off"], D!Depth)
    BY <1>2, Zenon DEF D!Drive, D!Loop
  <2>2. t \in D!Drivers
    BY DEF D!Drivers
  <2>3. D!Goes(t, "trapped") => t = d
    <3>1. D!Goes(t, "trapped") => \A x \in D!Drivers \ {t} : dpc'[x] = dpc[x]
      BY <1>o, <2>2, GoesMoves DEF Spots
    <3> QED BY <1>d, <3>1
  <2> QED BY <1>a, <1>g, <1>p, <1>u, <2>1, <2>2, <2>3 DEF Verdict
<1>3. ASSUME NEW h \in SlowCalls, D!HostSettles(h) PROVE FALSE
  BY <1>3, <1>u DEF D!HostSettles, D!loops
<1>4. ASSUME NEW e \in D!Drivers, D!Service(e) \/ D!Tick(e) PROVE FALSE
  <2>1. \/ UNCHANGED dpc \/ D!Throws(e, "failed")
        \/ \E to \in {"yield", "tick", "hop", "decide"} : D!Goes(e, to)
    <3>1. CASE D!Service(e)
      BY <3>1, Zenon DEF D!Service, D!loops
    <3>2. CASE D!Tick(e)
      BY <3>2, Zenon DEF D!Tick
    <3> QED BY <1>4, <3>1, <3>2
  <2> QED BY <1>g, <1>p, <1>t, <1>u, <2>1
<1>5. ASSUME NEW e \in D!Drivers, NEW at \in {"race", "again"}, D!RaceAll(e, at) PROVE FALSE
  BY <1>5, <1>s DEF D!RaceAll
<1>6. ASSUME NEW e \in D!Drivers, D!Decide(e) PROVE Verdict(d)
  <2>1. \/ D!Throws(e, "failed") \/ D!Leaves(e, "off") \/ D!Goes(e, "service") \/ D!RaceAll(e, "race")
        \/ D!Sleeps(e, "probe", D!TagsOf(D!Parked), {}, None)
        \/ D!Sleeps(e, "calls", {}, D!HostCalls, None)
        \/ /\ dpc[e] = "decide" /\ ~D!Unserviced /\ pending = {} /\ D!Awaiting = {} /\ D!HostCalls = {}
           /\ D!Throws(e, "trapped")
    BY <1>6, Zenon DEF D!Decide, D!Loop
  <2>2. CASE D!Sleeps(e, "probe", D!TagsOf(D!Parked), {}, None) \/ D!Sleeps(e, "calls", {}, D!HostCalls, None)
    BY <1>s, <2>2
  <2> QED BY <1>5, <1>g, <1>h, <1>l, <1>p, <1>t, <2>1, <2>2 DEF Verdict
<1>7. ASSUME NEW e \in D!Drivers, D!ProbeTimeout(e) PROVE Verdict(d)
  <2>1. (D!Quiet /\ ~D!Reprobes(e) /\ D!Throws(e, "trapped")) \/ D!Goes(e, "service")
    BY <1>7, Zenon DEF D!ProbeTimeout
  <2> QED BY <1>g, <1>h, <1>p, <2>1 DEF Verdict
<1>8. ASSUME NEW e \in D!Drivers,
             D!Yielded(e) \/ D!Hopped(e) \/ D!ProbeWon(e) \/ D!RaceWon(e) \/ D!CallsWon(e) \/ D!GivesUp(e)
      PROVE  FALSE
  <2>1. \/ \E to \in {"service", "decide", "tick"} : D!Goes(e, to)
        \/ D!RaceAll(e, "again") \/ D!Leaves(e, "failed")
    BY <1>8 DEF D!Yielded, D!Hopped, D!ProbeWon, D!RaceWon, D!CallsWon, D!GivesUp
  <2> QED BY <1>5, <1>g, <1>l, <1>p, <2>1
<1>9. CASE D!SettlementLoop
  <2>1. D!Goes(Settlement, "stand") \/ D!Goes(Settlement, "off") \/ dpc' = [dpc EXCEPT ![Settlement] = "park"]
    BY <1>9, Zenon DEF D!SettlementLoop
  <2>2. dpc' = [dpc EXCEPT ![Settlement] = "park"] => dpc'[d] = dpc[d]
    BY <1>d, <1>o DEF LoopTypes
  <2> QED BY <1>d, <1>g, <1>p, <2>1, <2>2
<1>10. CASE D!SettlementWakes \/ D!EmbedderActs \/ D!Pump \/ D!ActivityLoop
  <2>1. \/ UNCHANGED dpc
        \/ \E e \in {Settlement, Activity}, to \in {"stand", "service", "pump", "off"} : D!Goes(e, to)
    BY <1>10 DEF D!SettlementWakes, D!EmbedderActs, D!Pump, D!ActivityLoop
  <2> QED BY <1>d, <1>g, <1>p, <1>u, <2>1
<1> QED BY <1>1, <1>2, <1>3, <1>4, <1>6, <1>7, <1>8, <1>9, <1>10 DEF D!Next

\* The verdict of a deadlock is given to a call of the embedder, never to a pump, and only
\* when no activation can move any more, with JSPI or without: exec/boundary.ts.
THEOREM DeadlocksAreReal == StoreSpec => DeadlockIsReal
<1>1. ASSUME DriverInv, D!Next PROVE D!RealDeadlock
  <2> SUFFICES ASSUME NEW d \in D!Drivers, dpc[d] # "trapped", dpc'[d] = "trapped"
               PROVE  /\ d \in Callers
                      /\ D!Ready = {} /\ D!HostCalls = {} /\ pending = {}
                      /\ \A t \in Callers : act[t] \in {"idle", "susp", "wait", "done"}
    BY DEF D!RealDeadlock
  <2>0. GuestInv /\ LoopInv
    BY <1>1 DEF DriverInv
  <2>1. GuestInv' /\ LoopInv'
    BY <1>1, GuestKeeps, LoopsKeep DEF DriverInv
  <2>2. d \in Callers
    BY <2>1, StoreAssumption DEF LoopInv, Onstage, SpotsOf, D!InLoop
  <2>t. \A t \in Callers : act[t] \in D!Acts /\ (mode = "plain" \/ mode = "jspi")
    BY <2>0 DEF GuestInv, GuestTypes
  <2>p. mode = "plain" => settled = {} /\ \A t \in Callers : act[t] \in {"idle", "wait", "done"}
    BY <2>0 DEF GuestInv, NoPromises
  <2>a. D!Awaiting = {} => \A t \in Callers : act[t] \in {"idle", "susp", "wait", "done"}
    BY <2>t, <2>p DEF D!Awaiting, D!Acts
  <2>r. \A t \in Callers : act[t] = "tail" => settled # {}
    BY <2>0 DEF GuestInv, Tails
  <2>3. CASE dpc[d] = "drive" /\ D!Awaiting = {} /\ pending = {} /\ D!HostCalls = {} /\ ~D!CanTick
    <3>1. mode # "jspi"
      BY <2>0, <2>2, <2>3 DEF LoopInv, Onstage, D!Awaiting
    <3>2. ~D!Unserviced
      BY <2>2, <2>p, <2>t, <3>1 DEF D!Unserviced
    <3> QED BY <2>2, <2>3, <2>a, <3>2 DEF D!CanTick
  <2>4. CASE dpc[d] = "decide" /\ ~D!Unserviced /\ pending = {} /\ D!Awaiting = {} /\ D!HostCalls = {}
    BY <2>0, <2>2, <2>4, <2>a DEF LoopInv, Onstage
  <2>5. CASE D!Quiet /\ ~D!Reprobes(d)
    BY <2>2, <2>5, <2>r, <2>t DEF D!Quiet, D!Reprobes, D!Unserviced, D!Acts
  <2> QED BY <1>1, <2>0, <2>1, <2>2, <2>3, <2>4, <2>5, VerdictBy DEF Verdict
<1>2. DriverInv /\ [StoreStep]_<<part, storeVars>> => [D!RealDeadlock]_dvars
  BY <1>1 DEF StoreStep, storeVars
<1> QED BY <1>2, DriversHold, PTL DEF DeadlockIsReal, StoreSpec
=============================================================================
