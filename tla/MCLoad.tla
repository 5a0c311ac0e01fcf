------------------------------- MODULE MCLoad -------------------------------
(* Small instances of what surrounds the scheduler: those of MCStore, and the    *)
(* plan on its way from the translator into an instantiation, the executor, and  *)
(* the values and strings at the boundary.  They share nothing: a behaviour is   *)
(* one of one of them.  The variables s1, s2, ... are those of the executor, or  *)
(* of the values or strings.                                                     *)
EXTENDS MCStore, PlanFormat, SequencesExt

CONSTANTS
  Trapped, Broken,
  Kinds, Components, MaxCores, MaxArgs,   \* Executor
  Patterns, MaxFlat, MemorySize           \* Values

VARIABLES s1, s2, s3, s4, s5, s6, s7, s8, s9, s10, s11, s12, s13

-----------------------------------------------------------------------------
V == INSTANCE Values WITH Samples <- {}, Trap <- Trapped, sample <- s1, lowered <- s2, altered <- s3, lifted <- s4

(* Types to pass, alone, side by side and one in another, and values of each. *)
Prim(k) == [kind |-> k]
Prims == {Prim(k) : k \in {"bool", "s16", "f32", "u64", "f64"}}
Opt == {Prim("bool"), Prim("f32"), Prim("u64"), Prim("f64"), None}
Simple ==
  Prims \cup {Prim("char")} \cup {[kind |-> "flags", labels |-> n] : n \in {1, 9, 17}}
    \cup {[kind |-> "enum", labels |-> n] : n \in {1, 257}}
    \cup {[kind |-> "list", element |-> t, length |-> n] : t \in {Prim("s16"), Prim("f64")}, n \in {None, 2}}
    \cup {[kind |-> "record", fields |-> <<t, u>>] : t, u \in {Prim("s16"), Prim("f64")}}
    \cup {[kind |-> "variant", cases |-> <<t, u>>] : t, u \in Opt}
    \cup {[kind |-> "map", key |-> Prim("s16"), value |-> Prim("f64")]}
Nested ==
  {[kind |-> "variant", cases |-> <<t, u>>] : t \in {x \in Simple : x.kind = "record"}, u \in {Prim("f32"), Prim("u64")}}
    \cup {[kind |-> "option", type |-> t] : t \in {x \in Simple : x.kind \in {"list", "map", "flags", "enum"}}}
    \cup {[kind |-> "result", ok |-> t, error |-> None] : t \in {x \in Simple : x.kind \in {"list", "record"}}}
    \cup {[kind |-> "list", element |-> t, length |-> None] : t \in {x \in Simple : x.kind \in {"record", "variant"}}}
    \cup {[kind |-> "tuple", elements |-> <<Prim("bool"), u>>] : u \in {x \in Simple : x.kind \in {"variant", "flags", "list", "char"}}}
Full(n, b) == [i \in 1..n |-> b]
Ints(n) == {Full(n, 255), [i \in 1..n |-> i]}
RECURSIVE Vals(_)
Vals(t) ==
  LET d == V!despecialize(t) IN
  CASE d.kind = "bool" -> {TRUE}
    [] d.kind \in {"f32", "f64"} -> {[i \in 1..V!Width[d.kind] |-> i], V!CanonicalNan[V!Width[d.kind]]}
    [] d.kind = "char" -> {Full(4, 0), <<255, 255, 16, 0>>}
    [] d.kind \in DOMAIN V!Width -> Ints(V!Width[d.kind])
    [] d.kind = "flags" -> {[i \in 1..d.labels |-> TRUE], [i \in 1..d.labels |-> i % 2 = 0]}
    [] d.kind = "list" /\ d.length = None -> {<<>>} \cup {<<v, v, v>> : v \in Vals(d.element)}
    [] d.kind = "list" /\ d.length # None -> {[i \in 1..d.length |-> v] : v \in Vals(d.element)}
    [] d.kind = "record" -> FoldLeft(LAMBDA acc, f : {Append(x, v) : x \in acc, v \in Vals(f)}, {<<>>}, d.fields)
    [] d.kind = "variant" -> UNION {IF d.cases[i] = None THEN {[case |-> i, payload |-> None]} ELSE {[case |-> i, payload |-> v] : v \in Vals(d.cases[i])} : i \in {1, Len(d.cases)}}
Samples == UNION {{[types |-> <<t>>, values |-> <<v>>] : v \in Vals(t)} : t \in Simple \cup Nested}

\* Code units of strings: ASCII, Latin-1, the euro sign, the halves of a surrogate pair;
\* bytes of UTF-8 that start sequences of every length, and one that continues them.
HostUnits == {65, 233, 8364, 55357, 56832}
GuestUnits == [utf8 |-> {65, 130, 195, 226, 240, 159}, utf16 |-> HostUnits, tagged |-> HostUnits, latin1 |-> {65, 233}]
MaxUnits == [host |-> 4, utf8 |-> 4, utf16 |-> 3, tagged |-> 3, latin1 |-> 3]

-----------------------------------------------------------------------------
X == INSTANCE Executor WITH
  Owners <- Components, Nobody <- None, decl <- s1, request <- s2, at <- s3, lowered <- s4, cores <- s5, marked <- s6,
  imported <- s7, defined <- s8, token <- s9, entries <- s10, wrapped <- s11,
  instantiating <- s12, sawBlockingImport <- s13
W == INSTANCE Values WITH
  Trap <- Trapped, sample <- s1, lowered <- s2, altered <- s3, lifted <- s4
S == INSTANCE Strings WITH
  Trap <- Trapped, source <- s1, to <- s2, size <- s3, dst <- s4, pass <- s5, read <- s6, units <- s7, loaded <- s8

svars == <<s1, s2, s3, s4, s5, s6, s7, s8, s9, s10, s11, s12, s13>>
Unused == s9 = None /\ s10 = None /\ s11 = None /\ s12 = None /\ s13 = None
Blank == s5 = None /\ s6 = None /\ s7 = None /\ s8 = None

Started ==
  /\ \/ part \in {"drivers", "resources", "registry", "artifacts", "compile", "plan"}
        /\ s1 = None /\ s2 = None /\ s3 = None /\ s4 = None /\ Blank /\ Unused
     \/ part = "executor" /\ X!Init
     \/ part = "values" /\ W!Init /\ Blank /\ Unused
     \/ part = "strings" /\ S!Init /\ Unused
  /\ StoreStarted /\ Init

LoadStep ==
  \/ StoreStep /\ UNCHANGED <<vars, svars>>
  \/ /\ UNCHANGED <<part, storeVars>>
     /\ \/ part = "plan" /\ Next /\ UNCHANGED svars
        \/ part = "executor" /\ X!Next /\ UNCHANGED vars
        \/ part = "values" /\ W!Next /\ UNCHANGED <<vars, s5, s6, s7, s8, s9, s10, s11, s12, s13>>
        \/ part = "strings" /\ S!Next /\ UNCHANGED <<vars, s9, s10, s11, s12, s13>>

LoadSpec == Started /\ [][LoadStep]_<<part, vars, svars, storeVars>>

-----------------------------------------------------------------------------

\* The plan says in the executor what it said in the translator; one that lost a field of a
\* section the loader vouches for (modules, initializers, options, exports and the precise
\* trampolines) is refused; whoever asks for one is never left without by the cache; and every
\* import, mark and token is what the plan names: plan.rs, cache/core.ts, loader.ts, executor.ts.
Wired ==
  /\ part = "artifacts" => A!NeverRefused
  /\ part = "executor" => X!SlotsExact /\ X!MarksExact /\ X!TokensExact
  /\ part = "plan" => EmittedLoads /\ DamageStops /\ TypesExact /\ TokensShared /\ ReadsItsSpace

\* A value or a string is lifted as it was lowered, whichever way it went, and what a guest
\* hands over that is no value traps: cabi/*.ts, intrinsics/transcode.ts.
ValuesArrive ==
  /\ part = "values" => W!RoundTrip /\ W!LanesExact /\ W!LiftTotal
  /\ part = "strings" => S!Lossless /\ S!Inside /\ S!LoadsText
=============================================================================
