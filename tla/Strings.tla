------------------------------- MODULE Strings -------------------------------
(* Strings across a boundary.  The host lowers and loads its own strings;     *)
(* between two guests an adapter that the translator made drives the          *)
(* transcoders, in one pass or two, and does the allocations.  A text is a    *)
(* sequence of code points; memory is the bytes written to the block at hand. *)
(* Allocators that fail are modelled in Values.                               *)
EXTENDS Integers, Sequences, SequencesExt, FiniteSetsExt

CONSTANTS
  HostUnits,  \* code units that strings of the host are made of
  GuestUnits, \* what strings of a guest are made of, by encoding
  MaxUnits,   \* length of a string, by encoding ("host" for the host's)
  None, Trap

VARIABLES
  source, \* [encoding, units] of the string to pass on, "host" for the host's own
  to,     \* the encoding of the destination
  size,   \* of the block allocated for it
  dst,    \* the bytes written to it
  pass,   \* how far the adapter or the host is
  read,   \* units of the source that are dealt with
  units,  \* the length the destination is told, and whether it is tagged as UTF-16
  loaded  \* what the host loaded: the bytes, and the text or Trap

vars == <<source, to, size, dst, pass, read, units, loaded>>

-----------------------------------------------------------------------------
(* Encodings. *)

High == 55296..56319
Low == 56320..57343
Replacement == 65533

\* The bytes of a code point in UTF-8.
encodeUtf8At(cp) ==
  CASE cp < 128 -> <<cp>>
    [] cp \in 128..2047 -> <<192 + cp \div 64, 128 + (cp % 64)>>
    [] cp \in 2048..65535 -> <<224 + cp \div 4096, 128 + ((cp \div 64) % 64), 128 + (cp % 64)>>
    [] OTHER -> <<240 + cp \div 262144, 128 + ((cp \div 4096) % 64), 128 + ((cp \div 64) % 64), 128 + (cp % 64)>>

encodeUtf16At(cp) ==
  IF cp < 65536 THEN <<cp>> ELSE <<55296 + (cp - 65536) \div 1024, 56320 + ((cp - 65536) % 1024)>>

EncodedUtf8(text) == FlattenSeq([i \in DOMAIN text |-> encodeUtf8At(text[i])])
EncodedUtf16(text) == FlattenSeq([i \in DOMAIN text |-> encodeUtf16At(text[i])])

\* Code units as bytes, the low one first, and back.
encodeUtf16Le(us) == FlattenSeq([i \in DOMAIN us |-> <<us[i] % 256, us[i] \div 256>>])
UnitsOf(bytes) == [i \in 1..(Len(bytes) \div 2) |-> bytes[2 * i - 1] + 256 * bytes[2 * i]]
From(s, i) == SubSeq(s, i, Len(s))

\* UTF-16 decoded; "lone" stands for a surrogate without its other half.
RECURSIVE decodeUtf16(_, _)
decodeUtf16(us, lone) ==
  IF us = <<>> THEN <<>>
  ELSE LET pair == Len(us) > 1 /\ us[1] \in High /\ us[2] \in Low
           cp == IF pair THEN 65536 + (us[1] - 55296) * 1024 + us[2] - 56320
                 ELSE IF us[1] \in High \cup Low THEN lone ELSE us[1]
           rest == decodeUtf16(From(us, IF pair THEN 3 ELSE 2), lone)
       IN  IF cp = Trap \/ rest = Trap THEN Trap ELSE <<cp>> \o rest

toWellFormed(us) == EncodedUtf16(decodeUtf16(us, Replacement))

\* How a sequence that starts with a byte goes on: its width, and what may come second.
Lead(b) ==
  CASE b < 128 -> [width |-> 1, second |-> {}]
    [] b \in 194..223 -> [width |-> 2, second |-> 128..191]
    [] b \in 224..239 -> [width |-> 3, second |-> CASE b = 224 -> 160..191 [] b = 237 -> 128..159 [] OTHER -> 128..191]
    [] b \in 240..244 -> [width |-> 4, second |-> CASE b = 240 -> 144..191 [] b = 244 -> 128..143 [] OTHER -> 128..191]
    [] OTHER -> [width |-> 0, second |-> {}]

\* UTF-8 decoded: what is cut short, overlong or a surrogate is an error.
RECURSIVE decodeUtf8(_)
decodeUtf8(bs) ==
  IF bs = <<>> THEN <<>>
  ELSE LET n == Lead(bs[1]).width
           good == /\ n \in 1..Len(bs) /\ (n > 1 => bs[2] \in Lead(bs[1]).second)
                   /\ \A i \in 3..n : bs[i] \in 128..191
           first == IF n = 1 THEN bs[1] ELSE bs[1] % (2 ^ (7 - n))
           cp == FoldLeft(LAMBDA acc, b : acc * 64 + (b % 64), first, SubSeq(bs, 2, n))
           rest == decodeUtf8(From(bs, n + 1))
       IN  IF ~good THEN Trap ELSE IF rest = Trap THEN Trap ELSE <<cp>> \o rest

\* The longest prefix of units below a bound.
Below(us, bound) == Min({i \in 0..Len(us) : i = Len(us) \/ us[i + 1] >= bound})

-----------------------------------------------------------------------------
(* The host. *)

\* What is written, the most that was allocated for it, and the length told.
Stored(bytes, peak, n, tagged) == [bytes |-> bytes, peak |-> peak, units |-> n, tagged |-> tagged]

\* Copied as long as it is ASCII, then encoded anew into the worst case, which is cut down.
storeStringToUtf8(us) ==
  LET i == Below(us, 128)  encoded == EncodedUtf8(decodeUtf16(us, Replacement)) IN
  IF i = Len(us) THEN Stored(us, Len(us), Len(us), FALSE)
  ELSE Stored(SubSeq(us, 1, i) \o From(encoded, i + 1), 3 * Len(us), Len(encoded), FALSE)

storeStringCopyUtf16(us) == Stored(encodeUtf16Le(toWellFormed(us)), 2 * Len(us), Len(us), FALSE)

inflateLatin1Bytes(bytes) == FlattenSeq([i \in DOMAIN bytes |-> <<bytes[i], 0>>])

\* Copied as long as it is Latin-1, then widened where it lies and gone on with as UTF-16.
storeStringToLatin1OrUtf16(us) ==
  LET wf == toWellFormed(us)  i == Below(wf, 256) IN
  IF i = Len(wf) THEN Stored(wf, Len(us), Len(wf), FALSE)
  ELSE Stored(inflateLatin1Bytes(SubSeq(wf, 1, i)) \o From(encodeUtf16Le(wf), 2 * i + 1), 2 * Len(us), Len(wf), TRUE)

storeStringIntoRange(us, encoding) ==
  CASE encoding = "utf8" -> storeStringToUtf8(us)
    [] encoding = "utf16" -> storeStringCopyUtf16(us)
    [] OTHER -> storeStringToLatin1OrUtf16(us)

\* A string of a guest, from its bytes, where it begins, its length and the tag of that.
loadStringFromRange(bytes, ptr, n, tagged, encoding) ==
  LET wide == encoding = "utf16" \/ (encoding = "latin1+utf16" /\ tagged)
      length == IF wide THEN 2 * n ELSE n
      range == SubSeq(bytes, ptr + 1, ptr + length)
  IN  IF (encoding # "utf8" /\ ptr % 2 # 0) \/ ptr + length > Len(bytes) THEN Trap
      ELSE IF wide THEN decodeUtf16(UnitsOf(range), Trap)
      ELSE IF encoding = "utf8" THEN decodeUtf8(range) ELSE range

-----------------------------------------------------------------------------
(* The transcoders: what they read, what they write from the place given, and *)
(* what they say the destination's length is.                                 *)

Told(bytes, n) == [read |-> None, bytes |-> bytes, units |-> n, tagged |-> FALSE]
Moved(n, bytes) == [read |-> n, bytes |-> bytes, units |-> Len(bytes), tagged |-> FALSE]
TrapUnless(valid, result) == IF valid THEN result ELSE Trap

utf8ToUtf8(src) == TrapUnless(decodeUtf8(src) # Trap, Told(src, Len(src)))
utf16ToUtf16(src) == TrapUnless(decodeUtf16(src, Trap) # Trap, Told(encodeUtf16Le(src), Len(src)))
latin1ToLatin1(src) == Told(src, Len(src))
latin1ToUtf16(src) == Told(inflateLatin1Bytes(src), Len(src))

\* The destination holds as many units as the source has bytes.
utf8ToUtf16(src) ==
  IF decodeUtf8(src) = Trap THEN Trap
  ELSE LET us == EncodedUtf16(decodeUtf8(src))  n == Min({Len(us), Len(src)}) IN
       Told(encodeUtf16Le(SubSeq(us, 1, n)), n)

\* Compacted where it lies if all of it is Latin-1.
utf16ToCompactProbablyUtf16(src) ==
  IF decodeUtf16(src, Trap) = Trap THEN Trap
  ELSE IF Below(src, 256) = Len(src) THEN Told(src, Len(src))
  ELSE [Told(encodeUtf16Le(src), Len(src)) EXCEPT !.tagged = TRUE]

\* How far a source is well-formed Latin-1.
utf8Latin1UpTo(src) ==
  Max({i \in 0..Len(src) : LET text == decodeUtf8(SubSeq(src, 1, i)) IN text # Trap /\ \A k \in DOMAIN text : text[k] < 256})
utf8ToLatin1(src) == LET i == utf8Latin1UpTo(src) IN Moved(i, decodeUtf8(SubSeq(src, 1, i)))
utf16ToLatin1(src) == LET i == Below(src, 256) IN Moved(i, SubSeq(src, 1, i))

\* As many whole code points as fit; the first pass stops before what is not ASCII.
utf16ToUtf8(src, room, firstPass) ==
  LET text == decodeUtf16(src, None)
      fit == {k \in 0..Len(text) : /\ \A j \in 1..k : text[j] # None /\ (firstPass => text[j] < 128)
                                   /\ Len(EncodedUtf8(SubSeq(text, 1, k))) <= room}
      done == SubSeq(text, 1, Max(fit))
  IN  IF Max(fit) < Len(text) /\ text[Max(fit) + 1] = None THEN Trap
      ELSE Moved(Len(EncodedUtf16(done)), EncodedUtf8(done))
latin1ToUtf8(src, room, firstPass) ==
  LET fit == {k \in 0..Len(src) : (firstPass => Below(src, 128) >= k) /\ Len(EncodedUtf8(SubSeq(src, 1, k))) <= room}
  IN  Moved(Max(fit), EncodedUtf8(SubSeq(src, 1, Max(fit))))

\* What is left after the Latin-1 bytes already written, which are widened first.
utf8ToCompactUtf16(src, capacity, latin1) ==
  IF decodeUtf8(src) = Trap THEN Trap
  ELSE LET us == EncodedUtf16(decodeUtf8(src)) IN
       TrapUnless(Len(us) <= capacity - Len(latin1), Told(inflateLatin1Bytes(latin1) \o encodeUtf16Le(us), Len(us) + Len(latin1)))
utf16ToCompactUtf16(src, latin1) ==
  TrapUnless(decodeUtf16(src, Trap) # Trap, Told(inflateLatin1Bytes(latin1) \o encodeUtf16Le(src), Len(src) + Len(latin1)))

-----------------------------------------------------------------------------
(* The adapter. *)

total == Len(source.units)
Compact == "latin1+utf16"

FirstSize == IF to = "utf16" \/ (to = Compact /\ source.encoding = "tagged") THEN 2 * total ELSE total
GrownSize == IF to = "utf8" /\ source.encoding # "latin1" THEN 3 * total ELSE 2 * total

createTranscoder ==
  CASE source.encoding = "utf8" -> (CASE to = "utf8" -> utf8ToUtf8(source.units) [] to = "utf16" -> utf8ToUtf16(source.units) [] OTHER -> utf8ToLatin1(source.units))
    [] source.encoding = "latin1" -> (CASE to = "utf8" -> latin1ToUtf8(source.units, size, TRUE) [] to = "utf16" -> latin1ToUtf16(source.units) [] OTHER -> latin1ToLatin1(source.units))
    [] to = "utf8" -> utf16ToUtf8(source.units, size, TRUE)
    [] to = "utf16" -> utf16ToUtf16(source.units)
    [] source.encoding = "utf16" -> utf16ToLatin1(source.units)
    [] OTHER -> utf16ToCompactProbablyUtf16(source.units)

Init ==
  /\ source \in UNION {[encoding : {e}, units : SeqOf(IF e = "host" THEN HostUnits ELSE GuestUnits[e], MaxUnits[e])] : e \in DOMAIN MaxUnits}
  /\ to \in {"utf8", "utf16", Compact}
  /\ size = 0 /\ dst = <<>> /\ pass = "start" /\ read = 0 /\ units = None /\ loaded = None

Allocate ==
  /\ pass = "start" /\ source.encoding # "host"
  /\ size' = FirstSize /\ pass' = "first"
  /\ UNCHANGED <<source, to, dst, read, units, loaded>>

FirstPass ==
  /\ pass = "first"
  /\ IF createTranscoder = Trap THEN pass' = "trapped" /\ UNCHANGED <<dst, read, units>>
     ELSE /\ dst' = createTranscoder.bytes
          /\ read' = IF createTranscoder.read = None THEN total ELSE createTranscoder.read
          /\ units' = [length |-> createTranscoder.units, tagged |-> createTranscoder.tagged]
          /\ pass' = IF read' < total THEN "grow" ELSE "shrink"
  /\ UNCHANGED <<source, to, size, loaded>>

Grow ==
  /\ pass = "grow" /\ size' = GrownSize /\ pass' = "second"
  /\ UNCHANGED <<source, to, dst, read, units, loaded>>

Rest ==
  LET left == From(source.units, read + 1) IN
  CASE to = "utf8" /\ source.encoding = "latin1" -> latin1ToUtf8(left, size - Len(dst), FALSE)
    [] to = "utf8" /\ source.encoding # "latin1" -> utf16ToUtf8(left, size - Len(dst), FALSE)
    [] to = Compact /\ source.encoding = "utf8" -> utf8ToCompactUtf16(left, total, dst)
    [] OTHER -> utf16ToCompactUtf16(left, dst)

SecondPass ==
  /\ pass = "second"
  /\ IF Rest = Trap THEN pass' = "trapped" /\ UNCHANGED <<dst, read, units>>
     ELSE /\ dst' = IF to = "utf8" THEN dst \o Rest.bytes ELSE Rest.bytes
          /\ read' = IF Rest.read = None THEN total ELSE read + Rest.read
          /\ units' = [length |-> IF to = "utf8" THEN Len(dst') ELSE Rest.units, tagged |-> to = Compact]
          /\ pass' = "shrink"
  /\ UNCHANGED <<source, to, size, loaded>>

\* The host does all of it at one go.
HostStores ==
  /\ pass = "start" /\ source.encoding = "host"
  /\ LET r == storeStringIntoRange(source.units, to) IN
     /\ dst' = r.bytes /\ size' = r.peak /\ units' = [length |-> r.units, tagged |-> r.tagged] /\ read' = total
  /\ pass' = "shrink"
  /\ UNCHANGED <<source, to, loaded>>

Shrink ==
  /\ pass = "shrink" /\ pass' = "done"
  /\ size' = IF to = "utf16" \/ units.tagged THEN 2 * units.length ELSE units.length
  /\ UNCHANGED <<source, to, dst, read, units, loaded>>

\* The receiver is the host, or passes it on to the host.
Load ==
  /\ pass = "done" /\ loaded = None
  /\ loaded' = [bytes |-> dst, text |-> loadStringFromRange(dst, 0, units.length, units.tagged, to)]
  /\ UNCHANGED <<source, to, size, dst, pass, read, units>>

\* The host loads what a guest has: all of it, a part, or more than there is.
LoadRaw(ptr, length) ==
  LET bytes == IF source.encoding \in {"utf16", "tagged"} THEN encodeUtf16Le(source.units) ELSE source.units
      wide == source.encoding \in {"utf16", "tagged"}
      encoding == IF source.encoding \in {"latin1", "tagged"} THEN Compact ELSE source.encoding
  IN  /\ pass = "start" /\ source.encoding # "host" /\ loaded = None /\ pass' = "loaded"
      /\ loaded' = [bytes |-> SubSeq(bytes, ptr + 1, Min({Len(bytes), ptr + (IF wide THEN 2 * length ELSE length)})),
                    text |-> loadStringFromRange(bytes, ptr, length, source.encoding = "tagged", encoding)]
      /\ UNCHANGED <<source, to, size, dst, read, units>>

Next ==
  \/ Allocate \/ FirstPass \/ Grow \/ SecondPass \/ HostStores \/ Shrink \/ Load
  \/ \E ptr \in 0..1, length \in 0..(total + 1) : LoadRaw(ptr, length)

Spec == Init /\ [][Next]_vars

-----------------------------------------------------------------------------

Text ==
  CASE source.encoding = "host" -> decodeUtf16(source.units, Replacement)
    [] source.encoding = "utf8" -> decodeUtf8(source.units)
    [] source.encoding = "latin1" -> source.units
    [] OTHER -> decodeUtf16(source.units, Trap)

\* What arrives is the text that was sent, read to its end, with only what is no text
\* trapped, and kept as Latin-1 exactly if it can be.
Lossless ==
  /\ pass = "trapped" => Text = Trap
  /\ (pass = "done" /\ loaded # None) => loaded.text = Text /\ Text # Trap
  /\ pass = "done" =>
       /\ read = total /\ size = Len(dst)
       /\ units.tagged = (to = Compact /\ \E i \in DOMAIN Text : Text[i] > 255)

\* Nothing is written past the block.
Inside == Len(dst) <= size

\* What the host loads is a text that has exactly these bytes.
LoadsText ==
  (pass = "loaded" /\ loaded.text # Trap) =>
    loaded.bytes = CASE source.encoding = "utf8" -> EncodedUtf8(loaded.text)
                     [] source.encoding = "latin1" -> loaded.text
                     [] OTHER -> encodeUtf16Le(EncodedUtf16(loaded.text))
=============================================================================
