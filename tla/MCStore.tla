------------------------------ MODULE MCStore ------------------------------
(* Small instances of what keeps a store: the loops that drive it, the handle    *)
(* tables with the host's wrappers, the registry of the host's own resources and *)
(* the two caches.  They share nothing: a behaviour is one of one of them, and   *)
(* the variables of the others keep their first value.                           *)
EXTENDS Integers, FiniteSets

CONSTANTS
  None,
  Provider, Client, Other, Host, RepNumbers, CallNumbers, Wrappers, MaxSlots, FromHost, \* Resources
  Objects, Lowerings, MaxReps,        \* HostResources
  Callers, Adapters, MaxFailures,     \* ArtifactCache
  Runs, Buffers, Foreign,             \* CompileCache
  SlowCalls, Settlement, Activity, Arm \* Drivers

ASSUME StoreAssumption ==
  /\ IsFiniteSet(Callers) /\ None \notin Callers \cup SlowCalls \cup {Arm, Settlement, Activity}
  /\ Settlement # Activity /\ {Settlement, Activity} \cap Callers = {} /\ Arm \notin SlowCalls
  /\ None \notin [{"meta", "plan"} \cup Adapters -> {"whole"}]

VARIABLES
  part,
  mode, armed, act, on, gen, resolved, out, heard, rejected, failure, pending, settled,
  dpc, snap, woken, nudged, running, stale,
  rep, table, wrapper, call, dead,
  byRep, byInstance, passed, handles, shared,
  backend, writable, entry, scratch, stage, left, taken, result, failures,
  input, phase, compile, began, slot

dvars == <<mode, armed, act, on, gen, resolved, out, heard, rejected, failure, pending, settled,
           dpc, snap, woken, nudged, running, stale>>
rvars == <<rep, table, wrapper, call, dead>>
gvars == <<byRep, byInstance, passed, handles, shared>>
avars == <<backend, writable, entry, scratch, stage, left, taken, result, failures>>
cvars == <<input, phase, compile, began, slot>>
storeVars == <<dvars, rvars, gvars, avars, cvars>>

-----------------------------------------------------------------------------
\* Both import from the provider, which implements the resource, and one from the other.
Insts == {Provider, Client, Other}
Impl == Provider
Links == {<<Client, Other>>, <<Client, Provider>>, <<Other, Provider>>}

ASSUME ResourceAssumption ==
  /\ RepNumbers \cup CallNumbers \cup Wrappers \subseteq Nat \ {0} /\ IsFiniteSet(CallNumbers)
  /\ FromHost \subseteq CallNumbers /\ Host \notin Insts /\ MaxSlots \in Nat

ASSUME RegistryAssumption == MaxReps \in Nat /\ None \notin Objects

D == INSTANCE Drivers WITH
  Threads <- Callers, Calls <- SlowCalls, Fails <- TRUE, Hops <- TRUE, Early <- TRUE,
  Overlap <- TRUE, Prompt <- FALSE, pc <- dpc
R == INSTANCE Resources WITH Reps <- RepNumbers, HostCalls <- FromHost, Calls <- CallNumbers
G == INSTANCE HostResources WITH NoObject <- None, lowered <- passed
A == INSTANCE ArtifactCache WITH Nothing <- None, at <- stage, got <- taken
C == INSTANCE CompileCache WITH Nothing <- None, at <- phase

\* The other parts start in one state, those that choose it in one of their choice.
StoreStarted ==
  /\ IF part = "drivers" THEN TRUE ELSE mode = "plain" /\ armed = FALSE
  /\ IF part = "artifacts" THEN TRUE ELSE backend = "web" /\ writable = TRUE /\ entry = None
  /\ IF part = "compile" THEN TRUE
      ELSE input = [x \in Runs |->
             [component |-> CHOOSE b \in Buffers : TRUE, adapter |-> None, verify |-> FALSE]]
  /\ D!Init /\ R!Init /\ G!Init /\ A!Init /\ C!Init

StoreStep ==
  /\ part' = part
  /\ \/ part = "drivers" /\ D!Next /\ UNCHANGED <<rvars, gvars, avars, cvars>>
     \/ part = "resources" /\ R!Next /\ UNCHANGED <<dvars, gvars, avars, cvars>>
     \/ part = "registry" /\ G!Next /\ UNCHANGED <<dvars, rvars, avars, cvars>>
     \/ part = "artifacts" /\ A!Next /\ UNCHANGED <<dvars, rvars, gvars, cvars>>
     \/ part = "compile" /\ C!Next /\ UNCHANGED <<dvars, rvars, gvars, avars>>

StoreSpec == StoreStarted /\ [][StoreStep]_<<part, storeVars>>

-----------------------------------------------------------------------------

\* The loops that drive a store: an activation is resumed once for each settlement; the
\* loop of a call never sleeps beside a tail or a ready thread of its own activation,
\* whoever moved that, with JSPI and without; and without JSPI, until a host call fails, no
\* ready thread and no outstanding host call is left when no loop is under way:
\* exec/boundary.ts, host_streams.ts.
Driven ==
  part = "drivers" =>
    D!TypeOK /\ D!ResumedOnce /\ D!OwnLoopWakes /\ D!WorkIsSeen /\ D!CallsWatched

\* A call is told of a deadlock only when nothing can move any more: exec/boundary.ts.
DeadlockIsReal == [][D!RealDeadlock]_dvars

\* Handles, wrappers and calls agree on who owns a resource and how often it is lent; the
\* registry of the host's own resources leads a handle to its object or nowhere, leaks nothing
\* and keeps what a single owner or call is to release, whatever is lowered again meanwhile:
\* handles.ts, the FACT transfers, embedder/resources.ts.
OwnersExact ==
  /\ part = "resources" => R!TypeOK /\ R!OneOwner /\ R!LendsExact
  /\ part = "registry" => G!RegistryExact

\* No call, handle or wrapper that can still be used stands for a resource whose destructor
\* has run.
NothingDangles == part = "resources" => R!BorrowAlive /\ R!HandlesAlive

\* What comes out of a cache is whole and was made from what was asked for, whoever writes,
\* removes or crashes meanwhile: cache/core.ts, dir.ts, web.ts, executor.ts.
CachesWhole ==
  /\ part = "artifacts" => A!ResultWhole /\ A!NeverTorn /\ A!Warm
  /\ part = "compile" => C!OwnModules
=============================================================================
