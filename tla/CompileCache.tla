---------------------------- MODULE CompileCache ----------------------------
(* The compiled modules of one plan, shared by its instantiations: the slot   *)
(* holds the buffers they were compiled from and the promise of the modules.  *)
(* The bytes of a component and of its adapter come in buffers; a buffer that *)
(* does not hash to what the plan says is refused when the hash is looked at. *)
(* An engine may fail to compile what it compiles the next time.              *)
EXTENDS Integers, FiniteSets

CONSTANTS
  Runs,     \* instantiations
  Buffers,  \* of the component, and of the adapter
  Foreign,  \* of Buffers, those that hold another component, or no adapter
  Nothing

VARIABLES
  input,   \* per run: its buffers, and whether it verifies the hash
  at,      \* per run: where it is
  compile, \* per run: the compilation it awaits: by whom it was begun
  began,   \* per run: the state of the one it began
  slot     \* the cache's entry: buffers, and who compiles

vars == <<input, at, compile, began, slot>>

-----------------------------------------------------------------------------

Go(x, where) == at' = [at EXCEPT ![x] = where]

\* The length is compared, then the digest is awaited.
Verify(x) ==
  /\ at[x] = "start"
  /\ Go(x, IF input[x].verify /\ input[x].component \in Foreign THEN "refused" ELSE "verified")
  /\ UNCHANGED <<input, compile, began, slot>>

Hit(x) == slot # Nothing /\ slot.component = input[x].component /\ slot.adapter = input[x].adapter

\* A hit shares the compilation under way; else a new one takes the slot.  An adapter
\* that is missing is refused first.
Compile(x) ==
  /\ at[x] = "verified"
  /\ IF Hit(x)
     THEN compile' = [compile EXCEPT ![x] = slot.by] /\ Go(x, "compiling") /\ UNCHANGED <<began, slot>>
     ELSE IF input[x].adapter = Nothing
     THEN Go(x, "refused") /\ UNCHANGED <<compile, began, slot>>
     ELSE /\ compile' = [compile EXCEPT ![x] = x] /\ Go(x, "compiling")
          /\ began' = [began EXCEPT ![x] = "pending"]
          /\ slot' = [component |-> input[x].component, adapter |-> input[x].adapter, by |-> x]
  /\ UNCHANGED input

Settle(x) ==
  /\ began[x] = "pending"
  /\ \E how \in {"done", "rejected"} :
       /\ how = "done" => {input[x].component, input[x].adapter} \cap Foreign = {}
       /\ began' = [began EXCEPT ![x] = how]
  /\ UNCHANGED <<input, at, compile, slot>>

\* The reaction to a rejection, a microtask later and before those that await it go on: the
\* failed compilation leaves the slot, if it is still its own.
Forget(x) ==
  /\ began[x] = "rejected" /\ began' = [began EXCEPT ![x] = "failed"]
  /\ slot' = IF slot # Nothing /\ slot.by = x THEN Nothing ELSE slot
  /\ UNCHANGED <<input, at, compile>>

Resume(x) ==
  /\ at[x] = "compiling" /\ began[compile[x]] \in {"done", "failed"}
  /\ Go(x, IF began[compile[x]] = "done" THEN "instantiated" ELSE "failed")
  /\ UNCHANGED <<input, compile, began, slot>>

Init ==
  /\ input \in [Runs -> [component : Buffers, adapter : Buffers \cup {Nothing}, verify : BOOLEAN]]
  /\ at = [x \in Runs |-> "start"]
  /\ compile = [x \in Runs |-> x]
  /\ began = [x \in Runs |-> "none"]
  /\ slot = Nothing

Next == \E x \in Runs : Verify(x) \/ Compile(x) \/ Settle(x) \/ Forget(x) \/ Resume(x)

Spec == Init /\ [][Next]_vars

\* An instantiation runs what was compiled from its own buffers; one that fails shared its
\* fate with those that came before its failure was seen to, and a failure that was seen to
\* never answers an instantiation that comes later.
OwnModules ==
  /\ \A x \in Runs : at[x] \in {"compiling", "instantiated"} =>
       input[x].component = input[compile[x]].component /\ input[x].adapter = input[compile[x]].adapter
  /\ slot # Nothing => began[slot.by] # "failed"

=============================================================================
