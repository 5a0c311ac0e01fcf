------------------------------- MODULE Values -------------------------------
(* The canonical ABI of the boundary: component values laid out in a linear   *)
(* memory, or flattened into core values, lowered by the host, perhaps        *)
(* altered by the guest, and lifted again.  An integer is the sequence of its *)
(* bytes, the lowest first, so 64 bits are as good as 8; a float is its bits. *)
(* Handles are modelled in Resources, strings in Strings.                     *)
EXTENDS Integers, Sequences, SequencesExt, FiniteSetsExt, TLC

CONSTANTS
  Samples,    \* lists of types and values to pass: [types, values]
  Patterns,   \* bytes that a guest fills a lane or a memory with
  MaxFlat,    \* lanes beyond which values are spilled
  MemorySize,
  None, Trap, \* the guest is at fault
  Broken      \* an assertion of the host fails

VARIABLES
  sample,
  lowered, \* the memory [bytes, next, realloc, fault, fill] and the lanes handed over
  altered, \* what the guest made of them: nothing, or a fill of the lanes or the memory
  lifted   \* the values lifted, or None

vars == <<sample, lowered, altered, lifted>>

-----------------------------------------------------------------------------
(* Types. *)

Prim(k) == [kind |-> k]
Record(fs) == [kind |-> "record", fields |-> fs]
Variant(cs) == [kind |-> "variant", cases |-> cs]
List(t, n) == [kind |-> "list", element |-> t, length |-> n]

despecialize(t) ==
  CASE t.kind = "tuple" -> Record(t.elements)
    [] t.kind = "enum" -> Variant([i \in 1..t.labels |-> None])
    [] t.kind = "option" -> Variant(<<None, t.type>>)
    [] t.kind = "result" -> Variant(<<t.ok, t.error>>)
    [] t.kind = "map" -> List(Record(<<t.key, t.value>>), None)
    [] OTHER -> t

\* Bytes of a discriminant, and of flags.
discriminantType(cases) == IF Len(cases) <= 256 THEN 1 ELSE IF Len(cases) <= 65536 THEN 2 ELSE 4
elemSizeFlags(n) == IF n <= 8 THEN 1 ELSE IF n <= 16 THEN 2 ELSE 4

\* A pointer into a 32-bit memory has four bytes.
ptrSize == 4

-----------------------------------------------------------------------------
(* Layout. *)

alignTo(ptr, a) == ((ptr + a - 1) \div a) * a

Width ==
  [k \in {"bool", "u8", "s8"} |-> 1] @@ [k \in {"u16", "s16"} |-> 2] @@
  [k \in {"u32", "s32", "f32", "char"} |-> 4] @@ [k \in {"u64", "s64", "f64"} |-> 8]

Payloads(cases) == {cases[i] : i \in DOMAIN cases} \ {None}

RECURSIVE alignment(_)
alignment(t) ==
  LET d == despecialize(t) IN
  CASE d.kind \in DOMAIN Width -> Width[d.kind]
    [] d.kind = "list" -> IF d.length = None THEN ptrSize ELSE alignment(d.element)
    [] d.kind = "record" -> Max({1} \cup {alignment(d.fields[i]) : i \in DOMAIN d.fields})
    [] d.kind = "variant" -> Max({discriminantType(d.cases)} \cup {alignment(c) : c \in Payloads(d.cases)})
    [] d.kind = "flags" -> elemSizeFlags(d.labels)

maxCaseAlignment(cases) == Max({1} \cup {alignment(c) : c \in Payloads(cases)})

RECURSIVE elemSize(_)

\* Where the fields of a record begin, and where the last one ends.
Fields(fields) ==
  FoldLeft(LAMBDA acc, f : LET p == alignTo(acc.end, alignment(f)) IN [at |-> Append(acc.at, p), end |-> p + elemSize(f)],
           [at |-> <<>>, end |-> 0], fields)

\* Where the payload of a variant begins.
Payload(cases) == alignTo(discriminantType(cases), maxCaseAlignment(cases))

elemSize(t) ==
  LET d == despecialize(t) IN
  CASE d.kind \in DOMAIN Width -> Width[d.kind]
    [] d.kind = "list" -> IF d.length = None THEN 2 * ptrSize ELSE d.length * elemSize(d.element)
    [] d.kind = "record" -> alignTo(Fields(d.fields).end, alignment(d))
    [] d.kind = "variant" -> alignTo(Payload(d.cases) + Max({0} \cup {elemSize(c) : c \in Payloads(d.cases)}), alignment(d))
    [] d.kind = "flags" -> elemSizeFlags(d.labels)

-----------------------------------------------------------------------------
(* Scalars. *)

Zeros(n) == [i \in 1..n |-> 0]
Low(bs, n) == SubSeq(bs, 1, n)
Word(n) == <<n % 256, n \div 256, 0, 0>>
\* An address or a length; those of more than 16 bits are all alike.
Number(bs) == IF bs[3] + bs[4] > 0 THEN 65536 ELSE bs[1] + 256 * bs[2]

CanonicalNan == 4 :> <<0, 0, 192, 127>> @@ 8 :> <<0, 0, 0, 0, 0, 0, 248, 127>>
IsNan(bs) ==
  LET n == Len(bs)  quiet == IF n = 4 THEN 128 ELSE 240 IN
  bs[n] % 128 = 127 /\ bs[n - 1] >= quiet /\ (bs[n - 1] > quiet \/ \E i \in 1..(n - 2) : bs[i] > 0)
canonicalizeNan(bs) == IF IsNan(bs) THEN CanonicalNan[Len(bs)] ELSE bs

Float == {"f32", "f64"}
Signed == {"s8", "s16", "s32", "s64"}

Encoded(k, v) == IF k = "bool" THEN (IF v THEN <<1>> ELSE <<0>>) ELSE IF k \in Float THEN canonicalizeNan(v) ELSE v

\* A char is below 0x110000 and no surrogate.
convertI32ToChar(bs) == IF bs[4] > 0 \/ bs[3] > 16 \/ (bs[3] = 0 /\ bs[2] \in 216..223) THEN Trap ELSE bs

Decoded(k, bs) ==
  CASE k = "bool" -> \E i \in DOMAIN bs : bs[i] # 0
    [] k \in Float -> canonicalizeNan(bs)
    [] k = "char" -> convertI32ToChar(bs)
    [] OTHER -> bs

RECURSIVE bitsOf(_, _)
bitsOf(n, k) == IF k = 0 THEN <<>> ELSE <<n % 2 = 1>> \o bitsOf(n \div 2, k - 1)
packFlagsIntoInt(v) ==
  [b \in 1..4 |-> FoldSet(LAMBDA i, acc : acc + 2 ^ (i - 1), 0, {i \in 1..8 : 8 * (b - 1) + i \in DOMAIN v /\ v[8 * (b - 1) + i]})]
unpackFlagsFromInt(bs, n) == SubSeq(FoldLeft(LAMBDA acc, b : acc \o bitsOf(b, 8), <<>>, bs), 1, n)

-----------------------------------------------------------------------------
(* Storing.  The memory is what was written to it. *)

Fault(m, f) == [m EXCEPT !.fault = IF @ = None THEN f ELSE @]
storeInt(m, ptr, bs) ==
  IF m.fault # None THEN m ELSE [m EXCEPT !.bytes = [a \in ptr..(ptr + Len(bs) - 1) |-> bs[a - ptr + 1]] @@ @]

\* The guest's realloc: the next free address, or one that is no good.
allocate(m, align, size) ==
  LET p == alignTo(m.next, align) IN
  CASE m.realloc = "good" -> p
    [] m.realloc = "misaligned" -> p + 1
    [] OTHER -> MemorySize

RECURSIVE store(_, _, _, _)

storeListIntoValidRange(m, v, t, ptr) ==
  FoldLeft(LAMBDA acc, i : store(acc, v[i], t, ptr + (i - 1) * elemSize(t)), m, [i \in 1..Len(v) |-> i])

storeListIntoRange(m, v, t) ==
  LET size == Len(v) * elemSize(t)  p == allocate(m, alignment(t), size) IN
  IF m.fault # None \/ p # alignTo(p, alignment(t)) \/ p + size > MemorySize THEN [m |-> Fault(m, Trap), ptr |-> 0]
  ELSE [m |-> storeListIntoValidRange([m EXCEPT !.next = p + size], v, t, p), ptr |-> p]

storeRecord(m, v, fields, ptr) ==
  FoldLeft(LAMBDA acc, i : store(acc, v[i], fields[i], ptr + Fields(fields).at[i]), m, [i \in 1..Len(v) |-> i])

storeVariant(m, v, cases, ptr) ==
  LET tagged == storeInt(m, ptr, Low(Word(v.case - 1), discriminantType(cases))) IN
  IF cases[v.case] = None THEN tagged ELSE store(tagged, v.payload, cases[v.case], ptr + Payload(cases))

StorePointer(list, n, ptr) == storeInt(list.m, ptr, Word(list.ptr) \o Word(n))

store(m, v, t, ptr) ==
  LET d == despecialize(t) IN
  IF m.fault # None THEN m
  ELSE IF ptr # alignTo(ptr, alignment(t)) \/ ptr + elemSize(t) > MemorySize THEN Fault(m, Broken)
  ELSE CASE d.kind \in DOMAIN Width -> storeInt(m, ptr, Encoded(d.kind, v))
         [] d.kind = "list" /\ d.length # None -> storeListIntoValidRange(m, v, d.element, ptr)
         [] d.kind = "list" /\ d.length = None ->
              StorePointer(storeListIntoRange(m, v, d.element), Len(v), ptr)
         [] d.kind = "record" -> storeRecord(m, v, d.fields, ptr)
         [] d.kind = "variant" -> storeVariant(m, v, d.cases, ptr)
         [] d.kind = "flags" -> storeInt(m, ptr, Low(packFlagsIntoInt(v), elemSizeFlags(d.labels)))

-----------------------------------------------------------------------------
(* Loading. *)

loadInt(m, ptr, n) == [i \in 1..n |-> IF ptr + i - 1 \in DOMAIN m.bytes THEN m.bytes[ptr + i - 1] ELSE m.fill]
\* A compound one part of which is faulty is.
Whole(parts, v) ==
  IF \E i \in DOMAIN parts : parts[i] = Broken THEN Broken ELSE IF \E i \in DOMAIN parts : parts[i] = Trap THEN Trap ELSE v

RECURSIVE load(_, _, _)

loadListFromValidRange(m, ptr, n, t) ==
  LET vs == [i \in 1..n |-> load(m, ptr + (i - 1) * elemSize(t), t)] IN Whole(vs, vs)

loadListFromRange(m, ptr, n, t) ==
  IF ptr % alignment(t) # 0 \/ ptr + n * elemSize(t) > MemorySize THEN Trap ELSE loadListFromValidRange(m, ptr, n, t)

loadRecord(m, ptr, fields) ==
  LET vs == [i \in DOMAIN fields |-> load(m, ptr + Fields(fields).at[i], fields[i])] IN Whole(vs, vs)

\* Mutant: the payload follows the discriminant at once.
LoadPacked(m, ptr, cases) ==
  LET i == Number(loadInt(m, ptr, discriminantType(cases)) \o Zeros(4 - discriminantType(cases))) + 1 IN
  IF i > Len(cases) THEN Trap
  ELSE IF cases[i] = None THEN [case |-> i, payload |-> None]
  ELSE LET v == load(m, ptr + discriminantType(cases), cases[i]) IN Whole(<<v>>, [case |-> i, payload |-> v])

loadVariant(m, ptr, cases) ==
  LET i == Number(loadInt(m, ptr, discriminantType(cases)) \o Zeros(4 - discriminantType(cases))) + 1 IN
  IF i > Len(cases) THEN Trap
  ELSE IF cases[i] = None THEN [case |-> i, payload |-> None]
  ELSE LET v == load(m, ptr + Payload(cases), cases[i]) IN Whole(<<v>>, [case |-> i, payload |-> v])

load(m, ptr, t) ==
  LET d == despecialize(t) IN
  IF ptr # alignTo(ptr, alignment(t)) \/ ptr + elemSize(t) > MemorySize THEN Broken
  ELSE CASE d.kind \in DOMAIN Width -> Decoded(d.kind, loadInt(m, ptr, Width[d.kind]))
         [] d.kind = "list" /\ d.length # None -> loadListFromValidRange(m, ptr, d.length, d.element)
         [] d.kind = "list" /\ d.length = None ->
              loadListFromRange(m, Number(loadInt(m, ptr, ptrSize)), Number(loadInt(m, ptr + ptrSize, ptrSize)), d.element)
         [] d.kind = "record" -> loadRecord(m, ptr, d.fields)
         [] d.kind = "variant" -> loadVariant(m, ptr, d.cases)
         [] d.kind = "flags" -> unpackFlagsFromInt(loadInt(m, ptr, elemSizeFlags(d.labels)), d.labels)

-----------------------------------------------------------------------------
(* Flattening.  A lane is its core type and its bytes. *)

join(a, b) == IF a = b THEN a ELSE IF {a, b} = {"i32", "f32"} THEN "i32" ELSE "i64"

RECURSIVE flattenType(_)
flattenTypes(ts) == FoldLeft(LAMBDA acc, t : acc \o flattenType(t), <<>>, ts)

flattenVariant(cases) ==
  LET add(flat, more) ==
        [i \in 1..Max({Len(flat), Len(more)}) |->
           IF i > Len(flat) THEN more[i] ELSE IF i > Len(more) THEN flat[i] ELSE join(flat[i], more[i])]
  IN  <<"i32">> \o FoldLeft(LAMBDA acc, c : add(acc, flattenType(c)), <<>>, SelectSeq(cases, LAMBDA c : c # None))

flattenType(t) ==
  LET d == despecialize(t) IN
  CASE d.kind \in {"u64", "s64"} -> <<"i64">>
    [] d.kind \in Float -> <<d.kind>>
    [] d.kind = "list" -> IF d.length = None THEN <<"i32", "i32">> ELSE flattenTypes([i \in 1..d.length |-> d.element])
    [] d.kind = "record" -> flattenTypes(d.fields)
    [] d.kind = "variant" -> flattenVariant(d.cases)
    [] OTHER -> <<"i32">>

LaneWidth == [k \in {"i32", "f32"} |-> 4] @@ [k \in {"i64", "f64"} |-> 8]
Lane(type, bs) == [type |-> type, bytes |-> bs]

\* Extended to a lane: by zeros, or by the sign.
Extended(k, bs, n) == bs \o [i \in 1..(n - Len(bs)) |-> IF k \in Signed /\ Last(bs) >= 128 THEN 255 ELSE 0]

RECURSIVE lowerFlat(_, _, _)

\* Values and their types, lowered one after the other: the memory and the lanes.
Joined(lanes, r) == [m |-> r.m, lanes |-> lanes \o r.lanes]
lowerAll(m, vs, ts) ==
  FoldLeft(LAMBDA acc, i : Joined(acc.lanes, lowerFlat(acc.m, vs[i], ts[i])),
           [m |-> m, lanes |-> <<>>], [i \in 1..Len(vs) |-> i])

\* The lanes of a case made to fit those of the variant, the rest filled with zeros.
Widened(case, r, want) ==
  LET have(i) == r.lanes[i].type
      fits == \A i \in DOMAIN r.lanes : have(i) = want[i] \/ <<have(i), want[i]>> \in {<<"f32", "i32">>, <<"i32", "i64">>, <<"f32", "i64">>, <<"f64", "i64">>}
      lanes == [i \in DOMAIN want |-> Lane(want[i], IF i \in DOMAIN r.lanes THEN Extended("", r.lanes[i].bytes, LaneWidth[want[i]]) ELSE Zeros(LaneWidth[want[i]]))]
  IN  [m |-> IF fits THEN r.m ELSE Fault(r.m, Broken), lanes |-> <<Lane("i32", Word(case - 1))>> \o lanes]

lowerFlatVariant(m, v, cases) ==
  Widened(v.case, IF cases[v.case] = None THEN [m |-> m, lanes |-> <<>>] ELSE lowerFlat(m, v.payload, cases[v.case]),
          Tail(flattenVariant(cases)))

PointerLanes(list, n) == [m |-> list.m, lanes |-> <<Lane("i32", Word(list.ptr)), Lane("i32", Word(n))>>]

lowerFlat(m, v, t) ==
  LET d == despecialize(t)
      one(type, bs) == [m |-> m, lanes |-> <<Lane(type, bs)>>]
  IN  CASE d.kind \in DOMAIN Width ->
             LET type == flattenType(d)[1] IN one(type, Extended(d.kind, Encoded(d.kind, v), LaneWidth[type]))
        [] d.kind = "list" /\ d.length # None -> lowerAll(m, v, [i \in 1..d.length |-> d.element])
        [] d.kind = "list" /\ d.length = None -> PointerLanes(storeListIntoRange(m, v, d.element), Len(v))
        [] d.kind = "record" -> lowerAll(m, v, d.fields)
        [] d.kind = "variant" -> lowerFlatVariant(m, v, d.cases)
        [] d.kind = "flags" -> one("i32", packFlagsIntoInt(v))

RECURSIVE liftFlat(_, _, _)

\* Types lifted one after the other: the values and the lanes left over.
Added(vs, q) == [vs |-> Append(vs, q.v), rest |-> q.rest]
Compound(r) == [v |-> Whole(r.vs, r.vs), rest |-> r.rest]
liftAll(m, lanes, ts) ==
  Compound(FoldLeft(LAMBDA acc, t : Added(acc.vs, liftFlat(m, acc.rest, t)), [vs |-> <<>>, rest |-> lanes], ts))

\* A lane of a variant as the case at hand wants it.
Coerced(lane, want) ==
  CASE lane.type = want -> lane
    [] lane.type = "i32" /\ want = "f32" -> Lane(want, canonicalizeNan(lane.bytes))
    [] lane.type = "i64" /\ want = "i32" -> Lane(want, Low(lane.bytes, 4))
    [] lane.type = "i64" /\ want = "f32" -> Lane(want, canonicalizeNan(Low(lane.bytes, 4)))
    [] lane.type = "i64" /\ want = "f64" -> Lane(want, canonicalizeNan(lane.bytes))
    [] OTHER -> Lane("broken", lane.bytes)

OfCase(i, v) == Whole(<<v>>, [case |-> i, payload |-> v])
CoercedAll(lanes, want) == [k \in DOMAIN want |-> Coerced(lanes[k + 1], want[k])]

liftFlatVariant(m, lanes, cases) ==
  LET i == Number(lanes[1].bytes) + 1
  IN  [v |-> IF i \notin DOMAIN cases THEN Trap
             ELSE IF cases[i] = None THEN [case |-> i, payload |-> None]
             ELSE OfCase(i, liftFlat(m, CoercedAll(lanes, flattenType(cases[i])), cases[i]).v),
       rest |-> SubSeq(lanes, Len(flattenVariant(cases)) + 1, Len(lanes))]

liftFlat(m, lanes, t) ==
  LET d == despecialize(t) IN
  CASE d.kind \in DOMAIN Width ->
         [v |-> IF lanes[1].type # flattenType(d)[1] THEN Broken
                ELSE Decoded(d.kind, IF d.kind = "bool" THEN lanes[1].bytes ELSE Low(lanes[1].bytes, Width[d.kind])),
          rest |-> Tail(lanes)]
    [] d.kind = "list" /\ d.length # None -> liftAll(m, lanes, [i \in 1..d.length |-> d.element])
    [] d.kind = "list" /\ d.length = None ->
         [v |-> loadListFromRange(m, Number(lanes[1].bytes), Number(lanes[2].bytes), d.element), rest |-> Tail(Tail(lanes))]
    [] d.kind = "record" -> liftAll(m, lanes, d.fields)
    [] d.kind = "variant" -> liftFlatVariant(m, lanes, d.cases)
    [] d.kind = "flags" -> [v |-> unpackFlagsFromInt(lanes[1].bytes, d.labels), rest |-> Tail(lanes)]

-----------------------------------------------------------------------------
(* Parameters and results: flat, or spilled into a tuple in memory.           *)

Spilled(ts) == Len(flattenTypes(ts)) > MaxFlat

lowerFlatValues(m, vs, ts) ==
  IF ~Spilled(ts) THEN lowerAll(m, vs, ts)
  ELSE LET tuple == Record(ts)  p == allocate(m, alignment(tuple), elemSize(tuple)) IN
       IF p # alignTo(p, alignment(tuple)) \/ p + elemSize(tuple) > MemorySize THEN [m |-> Fault(m, Trap), lanes |-> <<>>]
       ELSE [m |-> store([m EXCEPT !.next = p + elemSize(tuple)], vs, tuple, p), lanes |-> <<Lane("i32", Word(p))>>]

liftFlatValues(m, lanes, ts) ==
  IF ~Spilled(ts) THEN liftAll(m, lanes, ts).v
  ELSE LET tuple == Record(ts)  p == Number(lanes[1].bytes) IN
       IF p % alignment(tuple) # 0 \/ p + elemSize(tuple) > MemorySize THEN Trap ELSE load(m, p, tuple)

-----------------------------------------------------------------------------

Empty == [bytes |-> <<>>, next |-> 1, fault |-> None, fill |-> 170]

Init == sample \in Samples /\ lowered = None /\ altered = None /\ lifted = None

\* The guest's realloc gives what is asked, or something misaligned, or beyond the memory.
Lower(realloc) ==
  /\ lowered = None
  /\ lowered' = lowerFlatValues(Empty @@ [realloc |-> realloc], sample.values, sample.types)
  /\ UNCHANGED <<sample, altered, lifted>>

\* A guest that hands over something else: every lane, or every byte, alike.
Alter(what, b) ==
  /\ lowered # None /\ lowered.m.fault = None /\ altered = None /\ lifted = None /\ altered' = what
  /\ lowered' = IF what = "memory" THEN [lowered EXCEPT !.m.bytes = <<>>, !.m.fill = b]
                ELSE [lowered EXCEPT !.lanes = [i \in DOMAIN @ |-> [@[i] EXCEPT !.bytes = [k \in DOMAIN @ |-> b]]]]
  /\ UNCHANGED <<sample, lifted>>

Lift ==
  /\ lowered # None /\ lowered.m.fault = None /\ lifted = None
  /\ lifted' = liftFlatValues(lowered.m, lowered.lanes, sample.types)
  /\ UNCHANGED <<sample, lowered, altered>>

Next ==
  \/ \E realloc \in {"good", "misaligned", "beyond"} : Lower(realloc)
  \/ Lift
  \/ \E what \in {"lanes", "memory"}, b \in Patterns : Alter(what, b)

Spec == Init /\ [][Next]_vars

-----------------------------------------------------------------------------

\* A value that no one altered is lifted as it was lowered, whatever its type and whether
\* it went by lanes, by memory or spilled; only a guest's allocator may stop it.
RoundTrip ==
  /\ (lifted # None /\ altered = None) => lifted = sample.values
  /\ (lowered # None) => lowered.m.fault \in {None} \cup (IF lowered.m.realloc = "good" THEN {} ELSE {Trap})

\* Lowering makes exactly the lanes that the signature of the call has.
LanesExact ==
  (lowered # None /\ lowered.m.fault = None) =>
    LET flat == flattenTypes(sample.types) IN
    [i \in DOMAIN lowered.lanes |-> lowered.lanes[i].type] = IF Spilled(sample.types) THEN <<"i32">> ELSE flat

\* Whatever the guest hands over, lifting gives a value of the type or traps; no assertion
\* of the host fails and no unvalidated value gets through.
RECURSIVE IsValue(_, _)
IsValue(v, t) ==
  LET d == despecialize(t) IN
  CASE d.kind = "bool" -> v \in BOOLEAN
    [] d.kind = "char" -> convertI32ToChar(v) = v
    [] d.kind \in Float -> canonicalizeNan(v) = v /\ Len(v) = Width[d.kind]
    [] d.kind \in DOMAIN Width -> Len(v) = Width[d.kind]
    [] d.kind = "list" -> (d.length = None \/ Len(v) = d.length) /\ \A i \in DOMAIN v : IsValue(v[i], d.element)
    [] d.kind = "record" -> Len(v) = Len(d.fields) /\ \A i \in DOMAIN v : IsValue(v[i], d.fields[i])
    [] d.kind = "variant" -> v.case \in DOMAIN d.cases /\ (d.cases[v.case] # None => IsValue(v.payload, d.cases[v.case]))
    [] d.kind = "flags" -> v \in [1..d.labels -> BOOLEAN]
LiftTotal ==
  lifted \notin {None, Trap} => lifted # Broken /\ Len(lifted) = Len(sample.types) /\ \A i \in DOMAIN lifted : IsValue(lifted[i], sample.types[i])
=============================================================================
