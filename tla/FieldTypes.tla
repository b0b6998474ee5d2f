----------------------------- MODULE FieldTypes -----------------------------
(***************************************************************************)
(* The field types of protocol/command/bitfield.py and the value mappers   *)
(* of the message bodies.                                                  *)
(*                                                                         *)
(* A field type is a record told apart by k.  Bits are a sequence of 0 and *)
(* 1, first the most significant.  What may raise returns a sequence:      *)
(* empty when it raises, else of the one result.  bytes, None and Bitfield *)
(* objects, which dynamic fields tell apart, are records with a k as well. *)
(***************************************************************************)
EXTENDS Integers, Sequences, SequencesExt

CONSTANT Short   \* the n for which the double n / 60 / 500 * 60 * 500 falls short of n

Raises == <<>>

\* Bits.to_int
ToInt(bits) == LET first[n \in 0..Len(bits)] == IF n = 0 THEN 0 ELSE 2 * first[n - 1] + bits[n]
               IN first[Len(bits)]

\* Bits.from_int, which raises for no bits at all and lets negative values pass.
FromInt(value, n) ==
  IF n <= 0 \/ value >= 2^n THEN Raises ELSE <<[i \in 1..n |-> (value \div 2^(n - i)) % 2]>>
-----------------------------------------------------------------------------
\* len is bftype_length() of the type; Dynamic stands for None.
Dynamic == -1

BfBits(n) == [k |-> "bits", n |-> n, len |-> n]
BfMap(inner, vm) == [k |-> "map", inner |-> inner, vm |-> vm, len |-> inner.len]
BfInt(n) == BfMap(BfBits(n), [m |-> "int", n |-> n])
BfBool == BfMap(BfInt(1), [m |-> "bool"])
BfList(inner, n) == [k |-> "list", inner |-> inner, n |-> n,
                     len |-> IF inner.len = Dynamic THEN Dynamic ELSE n * inner.len]
BfLit(inner, value) == [k |-> "lit", inner |-> inner, value |-> value, len |-> inner.len]
BfLitInt(n, value) == BfLit(BfInt(n), value)
BfBytes(n) == BfMap(BfList(BfInt(8), n), [m |-> "bytes"])
BfStr(n) == BfMap(BfBytes(n), [m |-> "str", n |-> n])
BfDyn(fn) == [k |-> "dyn", fn |-> fn, len |-> Dynamic]
BfDynN(fn) == [k |-> "dynN", fn |-> fn, len |-> Dynamic]
BfNone == [k |-> "none", len |-> 0]
BfBitfield(fields, n) == [k |-> "bitfield", fields |-> fields, n |-> n, len |-> n]

\* enum(x) raises for a value without a name, unless the class has _missing_.
BfIntEnum(values, n) == BfMap(BfInt(n), [m |-> "enum", values |-> values, missing |-> Raises])
BfEnumOr(values, n, unknown) == BfMap(BfInt(n), [m |-> "enum", values |-> values, missing |-> <<unknown>>])

\* Many small fields in a row: a width each; and count flags of one bit.
Ints(widths) == [i \in DOMAIN widths |-> BfInt(widths[i])]
Bools(count) == [i \in 1..count |-> BfBool]

None == [k |-> "none"]
Bytes(b) == [k |-> "bytes", v |-> b]
Object(fields, values) == [k |-> "bitfield", of |-> fields, v |-> values]

\* Bitfield.length
Length(fields) ==
  LET first[n \in 0..Len(fields)] == IF n = 0 THEN 0 ELSE first[n - 1] + fields[n].len
  IN IF \E i \in DOMAIN fields : fields[i].len = Dynamic THEN Dynamic ELSE first[Len(fields)]

\* undisguise() of a class.
OfClass(fields) == BfBitfield(fields, Length(fields))
-----------------------------------------------------------------------------
\* UTF-8, as bytes.decode() checks it: a character is the sequence of its bytes.
Following(b) == CASE b < 128 -> 0 [] b \in 194..223 -> 1 [] b \in 224..239 -> 2
                  [] b \in 240..244 -> 3 [] OTHER -> 4
Second(b) == CASE b = 224 -> 160..191 [] b = 237 -> 128..159 [] b = 240 -> 144..191
               [] b = 244 -> 128..143 [] OTHER -> 128..191

\* from[i]: the characters of the bytes from the i-th on.
Decode(bytes) ==
  LET from[i \in 1..Len(bytes) + 1] ==
        IF i = Len(bytes) + 1 THEN << <<>> >>
        ELSE LET more == Following(bytes[i])
             IN IF \/ more = 4 \/ Len(bytes) < i + more
                   \/ more > 0 /\ bytes[i + 1] \notin Second(bytes[i])
                   \/ \E j \in i + 2..i + more : bytes[j] \notin 128..191
                THEN Raises
                ELSE LET rest == from[i + more + 1]
                     IN IF rest = Raises THEN Raises
                        ELSE << <<SubSeq(bytes, i, i + more)>> \o rest[1] >>
  IN from[1]

Nul == <<0>>
StripNuls(chars) ==
  SubSeq(chars, 1, CHOOSE n \in 0..Len(chars) : /\ n = 0 \/ chars[n] # Nul
                                                /\ \A i \in n + 1..Len(chars) : chars[i] = Nul)

\* A mistake: rjust.
PadLeft(chars, n) == [i \in 1..n - Len(chars) |-> Nul] \o chars

\* str.ljust counts characters, not bytes.
Pad(chars, n) == chars \o [i \in 1..n - Len(chars) |-> Nul]
-----------------------------------------------------------------------------
\* ValueMapper.forward and back of every mapper.  A float is kept as the number
\* of its units: 1e-6 MHz, 1/1000 V, 100/15 %, 1/100 Hz, 1/30000 degree.
DcsCodes == 1..6699
Tones == 6700..25410
SubAudioForward(x) == CASE x = 0 -> <<"none">>
                        [] x \in DcsCodes -> <<"DCS", x>>
                        [] OTHER -> <<"tone", x>>
Within(range, n) == IF n \in range THEN <<n>> ELSE Raises
SubAudioBack(y) == CASE y[1] = "none" -> <<0>>
                     [] y[1] = "DCS"  -> Within(DcsCodes, y[2])
                     [] y[1] = "tone" -> Within(Tones, y[2])

\* Nearest(y, by): Python's round(y / by), ties to the even number.
Nearest(y, by) == LET low == y \div by
                      twice == 2 * (y % by)
                  IN IF twice < by \/ (twice = by /\ low % 2 = 0) THEN low ELSE low + 1

Forward(vm, x) ==
  CASE vm.m = "int"      -> <<ToInt(x)>>
    [] vm.m = "bool"     -> <<x = 1>>
    [] vm.m = "enum"     -> IF x \in vm.values THEN <<x>> ELSE vm.missing
    [] vm.m = "bytes"    -> <<Bytes(x)>>
    [] vm.m = "str"      -> LET chars == Decode(x.v)
                            IN IF chars = Raises THEN Raises ELSE <<StripNuls(chars[1])>>
    [] vm.m = "scale"    -> <<x * vm.by>>
    [] vm.m = "locCh"    -> IF x > 0 THEN << <<x - 1>> >> ELSE << <<>> >>
    [] vm.m = "subAudio" -> <<SubAudioForward(x)>>
    [] vm.m = "signed"   -> IF x >= 2^(vm.bits - 1) THEN <<x - 2^vm.bits>> ELSE <<x>>
    [] vm.m = "optional" -> IF x # vm.magic THEN << <<x>> >> ELSE << <<>> >>
    [] vm.m = "degrees"  -> <<x>>

Back(vm, y) ==
  CASE vm.m = "int"      -> FromInt(y, vm.n)
    [] vm.m = "bool"     -> <<IF y THEN 1 ELSE 0>>
    [] vm.m = "enum"     -> <<y>>
    [] vm.m = "bytes"    -> <<y.v>>
    [] vm.m = "str"      -> <<Bytes(FlattenSeq(Pad(y, vm.n)))>>
    [] vm.m = "scale"    -> <<Nearest(y, vm.by)>>
    [] vm.m = "locCh"    -> IF y = <<>> THEN <<0>> ELSE <<y[1] + 1>>
    [] vm.m = "subAudio" -> SubAudioBack(y)
    [] vm.m = "signed"   -> IF y < 0 THEN <<y + 2^vm.bits>> ELSE <<y>>
    [] vm.m = "optional" -> IF y # <<>> THEN <<y[1]>> ELSE <<vm.magic>>
    [] vm.m = "degrees"  -> IF y \in Short THEN <<IF y > 0 THEN y - 1 ELSE y + 1>> ELSE <<y>>
=============================================================================
