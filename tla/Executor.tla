------------------------------ MODULE Executor ------------------------------
(* One instantiation: the mode, the initializers of the plan in order, the    *)
(* wiring of the imports of every core module, the resource tokens, and the   *)
(* exports.  The plan is what the initializers turn out to be; it has one     *)
(* trampoline besides those that cannot block.                                *)
EXTENDS Integers, Sequences, FiniteSets

CONSTANTS
  Kinds,    \* of the trampoline, those the run looks at
  Owners,   \* component instances; an adapter belongs to Nobody
  Nobody,
  MaxCores, \* bound on the core instances
  MaxArgs   \* bound on the imports of one

VARIABLES
  decl,     \* the trampoline
  request,  \* what the embedder asked for, what the engine has, whether a lift is stackful
  at,       \* running, or how the instantiation ended
  lowered,  \* whether the lower-import initializer has run
  cores,    \* core instances: owner, what its imports name, and what they got
  instantiating, \* the module whose imports are resolved, until the engine has made it
  sawBlockingImport, \* whether the resolution saw one that makes the importer suspendable
  marked,   \* suspendableFuncs, by core instance
  imported, \* number of imported resources
  defined,  \* the resource initializers that have run: owner and destructor
  token,    \* per resource: who implements it, whose destructor, and the entry of the host's drop
  entries,  \* the lifted exports: promising or plain
  wrapped   \* whether an import was handed over as Suspending

linking == <<instantiating, sawBlockingImport>>
vars == <<decl, request, at, lowered, cores, linking, marked, imported, defined, token, entries, wrapped>>

-----------------------------------------------------------------------------
(* The mode. *)

Copies == {"stream-read", "stream-write", "future-read", "future-write"}
Cancels == {"subtask-cancel", "stream-cancel-read", "stream-cancel-write", "future-cancel-read", "future-cancel-write"}

\* async: that of the options of a copy, of the declaration of a cancel; branded: that
\* the host's function of a lowered import is marked suspending.
Decls ==
  [kind : {"sync-start-call", "async-start-call", "waitable-set-wait", "thread-yield", "waitable-set-poll"}, async : {FALSE}, branded : {FALSE}]
    \cup [kind : Copies \cup Cancels, async : BOOLEAN, branded : {FALSE}]
    \cup [kind : {"lower-import"}, async : {FALSE}, branded : BOOLEAN]

trampolineNeedsSuspension(d) ==
  \/ d.kind \in {"sync-start-call", "waitable-set-wait", "thread-yield"}
  \/ d.kind \in Copies \cup Cancels /\ ~d.async

trampolineCanBlock(d) ==
  d.kind \in {"async-start-call", "subtask-cancel"} \/ trampolineNeedsSuspension(d)

planNeedsSuspension == request.stackful \/ trampolineNeedsSuspension(decl)

chooseMode ==
  IF /\ request.jspi # "no"
     /\ request.jspi = "yes" \/ planNeedsSuspension \/ decl.branded
     /\ request.supported
  THEN "jspi" ELSE "plain"

-----------------------------------------------------------------------------
(* The values of imports.  Every resolution of a trampoline that can block    *)
(* makes a Suspending object of its own.                                      *)

Function(n) == [kind |-> "export", of |-> n, fresh |-> 0]
Plain == [kind |-> "trampoline", of |-> 0, fresh |-> 0]
Suspending(slot) == [kind |-> "suspending", of |-> 0, fresh |-> slot]
Context(owner) == [kind |-> "context", of |-> owner, fresh |-> 0]

Wraps == chooseMode = "jspi" /\ IF decl.kind = "lower-import" THEN decl.branded ELSE trampolineCanBlock(decl)

\* importValue for the import at slot of an instance of owner.
importValue(def, slot, owner) ==
  CASE def.kind = "export" -> Function(def.of)
    [] def.kind = "trampoline" -> IF Wraps THEN Suspending(slot) ELSE Plain
    [] OTHER -> Context(owner)

\* Mutant: every declaration that can be wrapped marks its importer.
MarksWrapped(def) == def.kind = "trampoline" /\ Wraps

\* Whether an import makes its importer suspendable.
Marks(def) ==
  \/ def.kind = "export" /\ def.of \in marked
  \/ def.kind = "trampoline" /\ Wraps /\ (trampolineNeedsSuspension(decl) \/ decl.branded)

\* The import object is keyed by name: the last value of a name is what every import of
\* that name receives, so two values of one name are refused.
Received(names, values, slot) ==
  values[CHOOSE j \in DOMAIN names : names[j] = names[slot] /\ \A k \in DOMAIN names : names[k] = names[slot] => k <= j]

Clash(names, values) == \E j, k \in DOMAIN names : names[j] = names[k] /\ values[j] # values[k]

-----------------------------------------------------------------------------
(* Initializers. *)

End(how) == at' = how

Defs == {[kind |-> "export", of |-> n] : n \in DOMAIN cores} \cup {[kind |-> k, of |-> 0] : k \in {"trampoline", "context"}}

\* The initializers are run one after the other; that of a module waits for the engine.
Idle == at = "running" /\ instantiating = Nobody

LowerImport ==
  /\ Idle /\ decl.kind = "lower-import" /\ ~lowered /\ lowered' = TRUE
  /\ UNCHANGED <<decl, request, at, cores, linking, marked, imported, defined, token, entries, wrapped>>

\* The trampoline of a lowered import needs its initializer to have run.
Resolvable(def) == def.kind = "trampoline" /\ decl.kind = "lower-import" => lowered

\* A start function that calls a Suspending import, itself or by way of another
\* instance, traps: an instantiation is no promising activation.
CanSuspend(got) ==
  LET reach[n \in 0..MaxCores] ==
        \E s \in DOMAIN cores[n].got :
          LET v == cores[n].got[s] IN v.kind = "suspending" \/ (v.kind = "export" /\ reach[v.of])
  IN  \E s \in DOMAIN got : got[s].kind = "suspending" \/ (got[s].kind = "export" /\ reach[got[s].of])

\* One flag serves all modules: it is reset, and set by the imports as they are resolved.
ResolveImports(owner, names, defs) ==
  LET value == [s \in DOMAIN defs |-> importValue(defs[s], s, owner)]
      got == [s \in DOMAIN defs |-> Received(names, value, s)]
  IN  /\ Idle /\ Len(cores) < MaxCores
      /\ \A s \in DOMAIN defs : defs[s] \in Defs /\ Resolvable(defs[s])
      /\ wrapped' = (wrapped \/ \E s \in DOMAIN value : value[s].kind = "suspending")
      /\ sawBlockingImport' = \E s \in DOMAIN defs : Marks(defs[s])
      /\ IF Clash(names, value) THEN End("refused") /\ UNCHANGED instantiating
         ELSE instantiating' = [owner |-> owner, defs |-> defs, got |-> got] /\ UNCHANGED at
      /\ UNCHANGED <<decl, request, lowered, cores, marked, imported, defined, token, entries>>

\* The await is over: the start function has run, and the flag is read.
Instantiated ==
  /\ at = "running" /\ instantiating # Nobody /\ instantiating' = Nobody
  /\ \/ CanSuspend(instantiating.got) /\ End("trapped") /\ UNCHANGED <<cores, marked>>
     \/ /\ cores' = Append(cores, instantiating)
        /\ marked' = IF sawBlockingImport THEN marked \cup {Len(cores) + 1} ELSE marked
        /\ UNCHANGED at
  /\ UNCHANGED <<decl, request, lowered, sawBlockingImport, imported, defined, token, entries, wrapped>>

\* Resources are numbered with the imported ones first; token is per resource, and every
\* table of a resource shares it.
resourceIndexOfDefined(d) == imported + d

Resources == 0..1
Unbound == [impl |-> Nobody, dtor |-> -1, entry |-> "none"]

\* The destructor is a function of the last core instance, or there is none (0); these
\* initializers come last here.
Resource(d, owner, n) ==
  /\ Idle /\ d = Len(defined) /\ imported + d \in Resources /\ Len(cores) = MaxCores /\ n \in {0, MaxCores}
  /\ defined' = Append(defined, [owner |-> owner, dtor |-> n])
  /\ token' = [token EXCEPT ![resourceIndexOfDefined(d)] =
                 [impl |-> owner, dtor |-> n, entry |-> IF chooseMode = "jspi" /\ n \in marked THEN "jspi" ELSE "plain"]]
  /\ UNCHANGED <<decl, request, at, lowered, cores, linking, marked, imported, entries, wrapped>>

-----------------------------------------------------------------------------
(* finish: lifted exports, each with the mode of the whole; a constructor has *)
(* a plain entry besides.  The wrapping sites must agree.                     *)

noteEntry == chooseMode

assertModeConsistent(made) ==
  IF chooseMode = "plain" THEN "jspi" \notin made /\ ~wrapped ELSE "jspi" \in made \/ ~wrapped

\* How many functions the component exports, and whether one is a constructor.
Finish(exports, constructor) ==
  LET made == {noteEntry : x \in 1..exports} IN
  /\ Idle /\ (constructor => exports > 0)
  /\ entries' = made \cup (IF constructor /\ chooseMode = "jspi" THEN {"sync entry"} ELSE {})
  /\ End(IF assertModeConsistent(made) THEN "done" ELSE "asserted")
  /\ UNCHANGED <<decl, request, lowered, cores, linking, marked, imported, defined, token, wrapped>>

-----------------------------------------------------------------------------

\* Only which names are the same matters.
Names(k) == {f \in [1..k -> 1..MaxArgs] : \A s \in 1..k : f[s] <= s /\ f[f[s]] = f[s]}

Requests ==
  {r \in [jspi : {"no", "unset", "yes"}, supported : BOOLEAN, stackful : BOOLEAN] :
     (~r.supported => r.jspi = "yes") /\ (r.stackful => r.jspi = "unset")}

\* bindImportedResources has run.
Init ==
  /\ decl \in {d \in Decls : d.kind \in Kinds} /\ request \in Requests /\ imported \in 0..1
  /\ at = "running" /\ lowered = FALSE /\ cores = <<>> /\ marked = {} /\ defined = <<>>
  /\ instantiating = Nobody /\ sawBlockingImport = FALSE
  /\ token = [r \in Resources |-> IF r < imported THEN [impl |-> Nobody, dtor |-> 0, entry |-> "host"] ELSE Unbound]
  /\ entries = {} /\ wrapped = FALSE

Next ==
  \/ LowerImport
  \/ /\ Idle /\ Len(cores) < MaxCores
     /\ \E k \in 0..MaxArgs : \E names \in Names(k), defs \in [1..k -> {def \in Defs : Resolvable(def)}] :
          \E owner \in Owners \cup {Nobody} : ResolveImports(owner, names, defs)
  \/ Instantiated
  \/ \E d \in 0..1, owner \in Owners, n \in 0..MaxCores : Resource(d, owner, n)
  \/ \E n \in 0..1, constructor \in BOOLEAN : Finish(n, constructor)

Spec == Init /\ [][Next]_vars

-----------------------------------------------------------------------------

\* Every import received what the plan names for it, though the import object is keyed by
\* names; a context built-in is bound to the instance its importer belongs to.
SlotsExact ==
  \A n \in DOMAIN cores : \A s \in DOMAIN cores[n].defs :
    LET def == cores[n].defs[s]  v == cores[n].got[s] IN
    CASE def.kind = "export" -> v = Function(def.of)
      [] def.kind = "trampoline" -> v.kind \in {"trampoline", "suspending"}
      [] OTHER -> v = Context(cores[n].owner)

\* A core instance is marked exactly when a chain of imports leads from it to a built-in
\* that blocks where it stands: one mark too few traps at the first suspension, one too
\* many makes a callee that completes at once report STARTED.
Chain(n, path) ==
  /\ path[1] = n
  /\ \A i \in 1..(Len(path) - 1) : [kind |-> "export", of |-> path[i + 1]] \in {cores[path[i]].defs[s] : s \in DOMAIN cores[path[i]].defs}
Blocks == trampolineNeedsSuspension(decl) \/ decl.branded
MarksExact ==
  \A n \in DOMAIN cores : n \in marked <=>
    /\ chooseMode = "jspi" /\ Blocks
    /\ \E k \in 1..Len(cores) : \E path \in [1..k -> DOMAIN cores] :
         Chain(n, path) /\ \E s \in DOMAIN cores[path[k]].defs : cores[path[k]].defs[s].kind = "trampoline"

\* Resources are numbered with the imported ones first: the token of an imported one is the
\* host's and no initializer's, that of a defined one has the implementation and the destructor
\* its own initializer names, and no other is bound.
TokensExact ==
  \A r \in Resources :
    CASE r < imported -> token[r].impl = Nobody /\ token[r].entry = "host"
      [] r >= imported + Len(defined) -> token[r] = Unbound
      [] OTHER -> LET d == defined[r - imported + 1] IN token[r].impl = d.owner /\ token[r].dtor = d.dtor
=============================================================================
