------------------------------- MODULE Fields -------------------------------
(***************************************************************************)
(* One step of bftype_from_bitstream and bftype_to_bits, and the loops of  *)
(* the class Bitfield, of protocol/command/bitfield.py.  The constants     *)
(* Read, Write and Loses are what the step calls for the types inside;     *)
(* configurations give them the step itself, by the operators of Codec.    *)
(*                                                                         *)
(* Reading returns <<value, the stream left>>, writing <<bits>>, and       *)
(* either <<>> when the code raises.  self is the proxy: the values of the *)
(* object's fields so far, or all of them.                                 *)
(***************************************************************************)
EXTENDS Bodies

CONSTANTS
  Read(_, _, _),    \* type, stream and self
  Write(_, _, _),   \* type, value and self
  Loses(_, _, _)    \* type, value and self: what to_bytes() does not take back

\* BitStream.take, which raises EOFError.
Remaining(stream) == Len(stream.bits) - stream.pos
Take(stream, n) ==
  IF n > Remaining(stream) THEN Raises
  ELSE <<SubSeq(stream.bits, stream.pos + 1, stream.pos + n), [stream EXCEPT !.pos = @ + n]>>
Stream(bits) == [bits |-> bits, pos |-> 0]

\* The types of the items of a list: range(n) is empty when n < 0.
Items(type) == [i \in 1..IF type.n < 0 THEN 0 ELSE type.n |-> type.inner]

\* One field or item after the other.  The fields of an object see in their proxy
\* the fields read before them, the items of a list what the list sees.
ReadEach(types, stream, self, inObject) ==
  LET after[i \in 0..Len(types)] ==
        IF i = 0 THEN << <<>>, stream>>
        ELSE LET before == after[i - 1]
             IN IF before = Raises THEN Raises
                ELSE LET r == Read(types[i], before[2], IF inObject THEN before[1] ELSE self)
                     IN IF r = Raises THEN Raises ELSE <<Append(before[1], r[1]), r[2]>>
  IN after[Len(types)]

\* Bitfield.from_bits: nothing may be left over.
FromBits(fields, bits) ==
  LET r == ReadEach(fields, Stream(bits), <<>>, TRUE)
  IN IF r = Raises THEN Raises
     ELSE IF Remaining(r[2]) > 0 THEN Raises ELSE <<Object(fields, r[1])>>

\* bftype_from_bitstream
ReadStep(type, stream, self) ==
  CASE type.k = "bits" -> Take(stream, type.n)
    [] type.k = "list" -> ReadEach(Items(type), stream, self, FALSE)
    [] type.k = "map"  ->
         LET r == Read(type.inner, stream, self)
             v == IF r = Raises THEN Raises ELSE Forward(type.vm, r[1])
         IN IF v = Raises THEN Raises ELSE <<v[1], r[2]>>
    [] type.k \in {"dyn", "dynN"} ->
         LET chosen == Discriminate(type.fn, self, Remaining(stream))
         IN IF chosen = Raises THEN Raises ELSE Read(chosen[1], stream, self)
    [] type.k = "lit"  ->
         LET r == Read(type.inner, stream, self)
         IN IF r = Raises THEN Raises ELSE IF r[1] # type.value THEN Raises ELSE r
    [] type.k = "none" -> <<None, stream>>
    [] type.k = "bitfield" ->
         LET r == Take(stream, type.n)
             o == IF r = Raises THEN Raises ELSE FromBits(type.fields, r[1])
         IN IF o = Raises THEN Raises ELSE <<o[1], r[2]>>
-----------------------------------------------------------------------------
\* The items of a list, or the fields of an object, one after the other.
WriteEach(types, values, self) ==
  LET upTo[i \in 0..Len(types)] ==
        IF i = 0 THEN << <<>> >>
        ELSE LET before == upTo[i - 1]
             IN IF before = Raises THEN Raises
                ELSE LET w == Write(types[i], values[i], self)
                     IN IF w = Raises THEN Raises ELSE <<before[1] \o w[1]>>
  IN upTo[Len(types)]

\* Bitfield.to_bits
ToBits(object) == WriteEach(object.of, object.v, object.v)

\* bftype_to_bits
WriteStep(type, value, self) ==
  CASE type.k = "bits" -> IF Len(value) # type.n THEN Raises ELSE <<value>>
    [] type.k = "list" -> IF Len(value) # type.n THEN Raises
                          ELSE WriteEach(Items(type), value, self)
    [] type.k = "map"  -> LET y == Back(type.vm, value)
                          IN IF y = Raises THEN Raises ELSE Write(type.inner, y[1], self)
    [] type.k = "dyn"  -> LET chosen == Discriminate(type.fn, self, 0)
                          IN IF chosen = Raises THEN Raises ELSE Write(chosen[1], value, self)
    [] type.k = "dynN" -> (CASE value.k = "bitfield" -> ToBits(value)
                             [] value.k = "bytes"    -> Write(BfBytes(Len(value.v)), value, self)
                             [] value.k = "none"     -> << <<>> >>)
    [] type.k = "lit"  -> IF value # type.value THEN Raises ELSE Write(type.inner, value, self)
    [] type.k = "none" -> IF value # None THEN Raises ELSE << <<>> >>
    [] type.k = "bitfield" ->
         LET bits == ToBits(value)
         IN IF bits = Raises THEN Raises ELSE IF Len(bits[1]) # type.n THEN Raises ELSE bits
-----------------------------------------------------------------------------
\* The values read from the radio that to_bytes() does not take back: a name with
\* a character of several bytes, a tone beyond 254.1 Hz, a coordinate that int()
\* rounds to the next one.
LosesValue(vm, v) ==
  \/ vm.m = "str" /\ \E j \in DOMAIN v : Len(v[j]) > 1
  \/ vm.m = "subAudio" /\ v[1] = "tone" /\ v[2] > 25410
  \/ vm.m = "degrees" /\ v \in Short

ObjectLoses(object) ==
  \E i \in DOMAIN object.of : Loses(object.of[i], object.v[i], object.v)

LosesStep(type, v, self) ==
  \/ type.k = "map" /\ LosesValue(type.vm, v)
  \/ type.k = "list" /\ \E i \in DOMAIN v : Loses(type.inner, v[i], self)
  \/ type.k = "dyn" /\ Loses(Discriminate(type.fn, self, 0)[1], v, self)
  \/ type.k = "dynN" /\ v.k = "bitfield" /\ ObjectLoses(v)
  \/ type.k = "bitfield" /\ ObjectLoses(v)
=============================================================================
