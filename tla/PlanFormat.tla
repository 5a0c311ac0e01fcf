----------------------------- MODULE PlanFormat -----------------------------
(* The plan between the translator shim and the runtime: what the shim emits, *)
(* what the loader checks, and what the executor reads of it.  A plan is a    *)
(* sequence of items, in the order of the sections; of an item only the shape *)
(* and the fields that point at another item are kept.  One field of one item *)
(* may be lost on the way.                                                    *)
EXTENDS Integers, Sequences, FiniteSets, Functions, TLC

CONSTANTS
  Raw,      \* indices of types and tuples in the translator
  Abstract, \* the resource of a table that has none
  Null,
  MaxItems  \* bound on the items of a plan that refer to one another

VARIABLES
  items,     \* what the shim emitted: shape, src (what it was made from), refs
  types,     \* the types table, shared by functions, result tuples and values
  typeIndex, \* what was interned, and where
  lost,      \* the item and the field lost on the way
  at,        \* translating, sent, running, refused, failed, unsupported
  pc,        \* items the executor is done with
  zones,     \* what the extractions left, by index space
  tokens,    \* the resource token of each table
  dictionary,\* from the raw tuple of a task.return to its entry in types
  got        \* what each item read through its fields

vars == <<items, types, typeIndex, lost, at, pc, zones, tokens, dictionary, got>>

-----------------------------------------------------------------------------
(* What the shim emits, by shape.  Every trampoline has an index besides.     *)

Of(shapes, fields) == [s \in shapes |-> fields]

Initializers ==
  "instantiate-module" :> {"module", "instance", "args"} @@ "lower-import initializer" :> {"index", "import"} @@
  Of({"extract-memory", "extract-table"}, {"index", "export"}) @@
  Of({"extract-realloc", "extract-callback", "extract-post-return"}, {"index", "def"}) @@
  "resource" :> {"index", "rep", "dtor", "instance"}

Resources == Of({"resource-new", "resource-rep", "resource-drop"}, {"instance", "resource"})

Tasks ==
  Of({"backpressure-inc", "backpressure-dec", "task-cancel", "waitable-set-new", "waitable-set-drop",
      "waitable-join", "subtask-drop"}, {"instance"}) @@
  "task-return" :> {"instance", "results", "resultType", "options"} @@
  Of({"waitable-set-wait", "waitable-set-poll"}, {"instance", "options"}) @@
  "thread-yield" :> {"instance", "cancellable"} @@ "subtask-cancel" :> {"instance", "async"}

Streams ==
  Of({"stream-new", "stream-drop-readable", "stream-drop-writable"}, {"instance", "streamTable"}) @@
  Of({"stream-read", "stream-write"}, {"instance", "streamTable", "options"}) @@
  Of({"stream-cancel-read", "stream-cancel-write"}, {"instance", "streamTable", "async"})

Futures ==
  Of({"future-new", "future-drop-readable", "future-drop-writable"}, {"instance", "futureTable"}) @@
  Of({"future-read", "future-write"}, {"instance", "futureTable", "options"}) @@
  Of({"future-cancel-read", "future-cancel-write"}, {"instance", "futureTable", "async"})

ErrorContexts ==
  Of({"error-context-new", "error-context-debug-message"}, {"instance", "errorContextTable", "options"}) @@
  "error-context-drop" :> {"instance", "errorContextTable"}

Calls ==
  "lower-import" :> {"lowered", "options", "type"} @@ "transcoder" :> {"op", "from", "from64", "to", "to64"} @@
  "prepare-call" :> {"memory"} @@ "sync-start-call" :> {"callback"} @@ "async-start-call" :> {"callback", "postReturn"} @@
  Of({"resource-transfer-own", "resource-transfer-borrow", "future-transfer", "stream-transfer",
      "error-context-transfer", "trap", "enter-sync-call", "exit-sync-call"}, {})

Threads ==
  "thread-index" :> {} @@ "thread-new-indirect" :> {"instance", "startFuncType", "startFuncTable"} @@
  "thread-unsuspend" :> {"instance"} @@
  Of({"thread-suspend-to-suspended", "thread-suspend-to", "thread-suspend", "thread-yield-to-suspended"},
     {"instance", "cancellable"})

Tables ==
  "resource table" :> {"resource", "instance"} @@
  Of({"stream table", "future table"}, {"element", "instance"}) @@ "error-context table" :> {"instance"}

Options ==
  "options" :> {"instance", "stringEncoding", "memory", "realloc", "postReturn", "callback", "async", "cancellable", "coreType"}

Modules == "embedded" :> {"offset", "len"} @@ "adapter" :> {"file", "len", "intrinsics"}
Imports == "import" :> {"name", "path"} @@ "typed import" :> {"name", "path", "type"}
Exports ==
  "lifted-func" :> {"name", "coreDef", "options", "type"} @@ "instance" :> {"name", "exports"} @@
  "value type" :> {"name", "type"} @@ "resource type" :> {"name", "resource"} @@ "module" :> {"name", "module"}

Sections == <<Modules, Initializers, Resources @@ Tasks @@ Streams @@ Futures @@ ErrorContexts @@ Calls @@ Threads,
              Options, Tables, Imports, Exports>>

Trampolines == DOMAIN Sections[3]
Shapes == UNION {DOMAIN Sections[n] : n \in DOMAIN Sections}
SectionOf == [s \in Shapes |-> CHOOSE n \in DOMAIN Sections : s \in DOMAIN Sections[n]]
Emitted == [s \in Shapes |-> Sections[SectionOf[s]][s]]

-----------------------------------------------------------------------------
(* What the loader checks: everything of most sections; of the trampolines    *)
(* only the precise ones; of the tables only those of error contexts.         *)

checkedModule(s) == s \in DOMAIN Modules
checkedInitializer(s) == s \in DOMAIN Initializers
checkedTrampoline(s) == s \in DOMAIN Resources \cup {"lower-import", "task-return", "trap", "enter-sync-call", "exit-sync-call"}
checkedOptions(s) == s \in DOMAIN Options
\* The type of an import is optional.
checkedExtern(s) == s \in {"import"} \cup DOMAIN Exports
checkedTable(s) == s = "error-context table"
\* A table of streams or futures fails in the conversion of its element.
converted(s) == IF s \in {"stream table", "future table"} THEN {"element"} ELSE {}

Checked(s) ==
  IF \/ checkedModule(s) \/ checkedInitializer(s) \/ checkedTrampoline(s)
     \/ checkedOptions(s) \/ checkedExtern(s) \/ checkedTable(s)
  THEN Emitted[s] ELSE converted(s)

-----------------------------------------------------------------------------
(* What the executor reads: all but these. *)

Unread ==
  [s \in DOMAIN ErrorContexts |-> {"errorContextTable"}] @@ "resource" :> {"rep"} @@ "task-cancel" :> {"instance"} @@
  "thread-yield" :> {"instance"} @@ "adapter" :> {"len", "intrinsics"} @@ "typed import" :> {"type"} @@
  "value type" :> {"type"} @@ "resource type" :> {"resource"}

Supported == Trampolines \ DOMAIN Threads

Read(s) == Emitted[s] \ (IF s \in DOMAIN Unread THEN Unread[s] ELSE {})

-----------------------------------------------------------------------------
(* Translation. *)

\* What a shape's type field is interned as.
Variant ==
  Of({"lower-import", "lifted-func", "typed import"}, "func") @@ "task-return" :> "tuple" @@ "value type" :> "value"

\* The key of the interning table.
TypeKey(variant, raw) == <<variant, raw>>

intern(variant, raw) ==
  LET key == TypeKey(variant, raw) IN
  IF key \in DOMAIN typeIndex
  THEN [i |-> typeIndex[key], types |-> types, index |-> typeIndex]
  ELSE [i |-> Len(types) + 1, types |-> Append(types, [variant |-> variant, of |-> raw]),
        index |-> typeIndex @@ key :> Len(types) + 1]

TypeField == "task-return" :> "resultType" @@ [s \in DOMAIN Variant |-> "type"]

\* The index space a field counts in.
Spaces == {"memory", "realloc", "callback", "postReturn"}
Extractor == "extract-memory" :> "memory" @@ "extract-realloc" :> "realloc" @@ "extract-callback" :> "callback" @@ "extract-post-return" :> "postReturn"

Extracted(space) == Cardinality({n \in DOMAIN items : items[n].shape \in DOMAIN Extractor /\ Extractor[items[n].shape] = space})

\* Items that refer to another, or are referred to; any other says as much alone.
Referring == DOMAIN Variant \cup DOMAIN Extractor \cup {"prepare-call", "sync-start-call", "async-start-call", "options", "resource table"}

\* The raw indices a shape can be made from: the resource of a table is one too.
Sources(s) ==
  CASE s = "resource table" -> Raw \cup {Abstract}
    [] s \in DOMAIN Variant -> Raw
    [] OTHER -> {Null}

Refs(s) == Emitted[s] \cap Spaces
RefsOf(s) ==
  {r \in [Refs(s) -> 0..(MaxItems - 2) \cup {Null}] : \A f \in Refs(s) : r[f] = Null \/ r[f] < Extracted(f)}

Emit(s, raw, refs) ==
  /\ at = "translating"
  /\ IF s \in Referring THEN Len(items) < MaxItems /\ \A n \in DOMAIN items : items[n].shape \in Referring ELSE items = <<>>
  /\ items # <<>> => SectionOf[items[Len(items)].shape] <= SectionOf[s]
  /\ LET interned == intern(Variant[s], raw)
         typed == IF s \in DOMAIN Variant THEN TypeField[s] :> interned.i @@ refs ELSE refs
     IN  /\ items' = Append(items, [shape |-> s, src |-> raw, refs |-> typed])
         /\ types' = (IF s \in DOMAIN Variant THEN interned.types ELSE types)
         /\ typeIndex' = (IF s \in DOMAIN Variant THEN interned.index ELSE typeIndex)
  /\ UNCHANGED <<lost, at, pc, zones, tokens, dictionary, got>>

Send(damage) ==
  /\ at = "translating" /\ items # <<>> /\ at' = "sent" /\ lost' = damage
  /\ UNCHANGED <<items, types, typeIndex, pc, zones, tokens, dictionary, got>>

-----------------------------------------------------------------------------
(* Loading. *)

wellFormed == \A n \in DOMAIN items : lost.item = n => lost.field \notin Checked(items[n].shape)

TaskReturns == {n \in DOMAIN items : items[n].shape = "task-return"}
resultTuples == {<<items[n].src, items[n].refs["resultType"]>> : n \in TaskReturns}
tuplesAgree == \A p, q \in resultTuples : p[1] = q[1] => p = q

\* The tables of one resource share a token: that of the first of them.
ResourceTables == SelectSeq(items, LAMBDA x : x.shape = "resource table")

tokenOf(t) ==
  LET resource(u) == ResourceTables[u].src IN
  IF resource(t) = Abstract THEN t
  ELSE CHOOSE u \in DOMAIN ResourceTables : resource(u) = resource(t) /\ \A v \in 1..(u - 1) : resource(v) # resource(t)

loadPlan ==
  /\ at = "sent"
  /\ IF wellFormed /\ tuplesAgree
     THEN /\ at' = "running"
          /\ tokens' = [t \in DOMAIN ResourceTables |-> tokenOf(t)]
          /\ dictionary' = [r \in {p[1] : p \in resultTuples} |-> (CHOOSE p \in resultTuples : p[1] = r)[2]]
     ELSE at' = "refused" /\ UNCHANGED <<tokens, dictionary>>
  /\ UNCHANGED <<items, types, typeIndex, lost, pc, zones, got>>

-----------------------------------------------------------------------------
(* Running: initializers first, then every trampoline is made and called.     *)

\* The space a field of a shape is resolved in.
ZoneOf(s, f) == IF s = "async-start-call" /\ f = "postReturn" THEN "callback" ELSE f

Missing == -1

Resolved(s, f, i) ==
  IF i = Null THEN Null
  ELSE LET zone == zones[ZoneOf(s, f)] IN IF i + 1 \in DOMAIN zone THEN zone[i + 1] ELSE Missing

Step ==
  /\ at = "running" /\ pc < Len(items)
  /\ LET n == pc + 1  item == items[n]  s == item.shape
         values == [f \in Refs(s) |-> IF lost = [item |-> n, field |-> f] THEN Missing ELSE Resolved(s, f, item.refs[f])]
     IN  /\ at' = CASE s \in Trampolines \ Supported -> "unsupported"
                    [] \E f \in DOMAIN values : values[f] = Missing -> "failed"
                    [] OTHER -> at
         /\ zones' = IF s \in DOMAIN Extractor THEN [zones EXCEPT ![Extractor[s]] = Append(@, n)] ELSE zones
         /\ got' = [got EXCEPT ![n] = values]
  /\ pc' = pc + 1
  /\ UNCHANGED <<items, types, typeIndex, lost, tokens, dictionary>>

-----------------------------------------------------------------------------

NoLoss == [item |-> 0, field |-> "none"]

Init ==
  /\ items = <<>> /\ types = <<>> /\ typeIndex = <<>> /\ lost = NoLoss /\ at = "translating" /\ pc = 0
  /\ zones = [s \in Spaces |-> <<>>] /\ tokens = <<>> /\ dictionary = <<>>
  /\ got = [n \in 1..MaxItems |-> <<>>]

Translate ==
  \/ \E s \in Shapes : \E raw \in Sources(s), refs \in RefsOf(s) : Emit(s, raw, refs)
  \/ Send(NoLoss)
  \/ \E n \in DOMAIN items : \E f \in Emitted[items[n].shape] : Send([item |-> n, field |-> f])

Next == Translate \/ loadPlan \/ Step

Spec == Init /\ [][Next]_vars

-----------------------------------------------------------------------------

\* A plan the shim emitted and nothing damaged is accepted.
EmittedLoads == at = "refused" => lost # NoLoss

\* A field that the executor reads of a section the loader vouches for is there when it is
\* read: such a plan is refused when it is loaded and never dies in the executor.
Vouched(s) == s \in UNION {DOMAIN Sections[n] : n \in {1, 2, 4, 7}} \cup DOMAIN Resources \cup {"lower-import", "task-return"}
DamageStops ==
  pc > 0 /\ lost # NoLoss => LET s == items[lost.item].shape IN ~(Vouched(s) /\ lost.field \in Read(s))

\* Functions, result tuples and values share one table: an index leads to what it was
\* interned for, also through the dictionary that serves the calls between components.
TypesExact ==
  /\ \A n \in DOMAIN items : items[n].shape \in DOMAIN Variant =>
       types[items[n].refs[TypeField[items[n].shape]]] = [variant |-> Variant[items[n].shape], of |-> items[n].src]
  /\ \A r \in DOMAIN dictionary : types[dictionary[r]] = [variant |-> "tuple", of |-> r]

\* Two tables have one token exactly when they are of one resource.
TokensShared ==
  \A t, u \in DOMAIN tokens :
    LET r == ResourceTables[t].src  q == ResourceTables[u].src IN
    tokens[t] = tokens[u] <=> t = u \/ (r = q /\ r # Abstract)

\* What was extracted into one index space is read from that space.
Right(n, f) == got[n][f] = Null \/ (got[n][f] # Missing /\ Extractor[items[got[n][f]].shape] = f)
ReadsItsSpace ==
  \A n \in 1..pc : \A f \in DOMAIN got[n] :
    \/ lost = [item |-> n, field |-> f]
    \/ items[n].shape = "async-start-call" /\ f = "postReturn"
    \/ Right(n, f)

\* The post-return of a call between components is one that the plan extracted as such.
\* (No run: the code breaks it.)
PostReturnOfCall ==
  \A n \in 1..pc : items[n].shape = "async-start-call" /\ lost = NoLoss => Right(n, "postReturn")
=============================================================================
