------------------------------ MODULE Protobuf ------------------------------
(***************************************************************************)
(* The wire format of protobuf, as the classes that protoc generates use   *)
(* it: CodedInputStream, CodedOutputStream and WireFormatLite of           *)
(* libprotobuf, which is not part of the repository.  A stream is a        *)
(* sequence of bytes.                                                      *)
(***************************************************************************)
EXTENDS Integers, Sequences, SequencesExt

Byte == 0..255

\* Wire types.
VARINT == 0
FIXED64 == 1
LENGTH == 2
FIXED32 == 5

\* A varint has at most this many bytes.
VarintLimit == 10

\* WriteVarint32/64: seven bits in a byte, the lowest first, and 128 added to
\* every byte but the last.
Varint(n) ==
  LET bytes[k \in Nat] ==
        IF k < 128 THEN <<k>> ELSE <<128 + (k % 128)>> \o bytes[k \div 128]
  IN  bytes[n]

\* UInt64Size, EnumSize, Int32Size
VarintSize(n) ==
  LET size[k \in Nat] == IF k < 128 THEN 1 ELSE 1 + size[k \div 128]
  IN  size[n]

\* WriteTag; one byte for field numbers below 16.
Tag(number, wire) == Varint(8 * number + wire)

\* WriteBytes, InternalWriteMessage
Delimited(number, bytes) == Tag(number, LENGTH) \o Varint(Len(bytes)) \o bytes
DelimitedSize(size) == 1 + VarintSize(size) + size

VarintValue(s) ==
  LET value[t \in Seq(Byte)] ==
        IF t = <<>> THEN 0 ELSE (Head(t) % 128) + 128 * value[Tail(t)]
  IN  value[s]

\* ReadVarint32/64 at the start of s: fails when s ends first, or never ends.
ReadVarint(s) ==
  LET k == SelectInSeq(s, LAMBDA b : b < 128)
  IN  IF k \notin 1..VarintLimit
      THEN [ok |-> FALSE, value |-> 0, rest |-> <<>>]
      ELSE [ok |-> TRUE, value |-> VarintValue(SubSeq(s, 1, k)),
            rest |-> SubSeq(s, k + 1, Len(s))]

\* ReadPackedPrimitive: the numbers of a packed field, up to a broken one.
NumbersAt(t, v, numbers) ==
  IF t = <<>> \/ ~ v.ok THEN <<>> ELSE <<v.value>> \o numbers[v.rest]
ReadPacked(s) ==
  LET numbers[t \in Seq(Byte)] == NumbersAt(t, ReadVarint(t), numbers)
  IN  numbers[s]

\* It fails at the broken one.
PackedAt(t, v, good) == t = <<>> \/ (v.ok /\ good[v.rest])
IsPacked(s) ==
  LET good[t \in Seq(Byte)] == PackedAt(t, ReadVarint(t), good)
  IN  good[s]

\* The first k bytes of s are a field's content; cut off when s is shorter,
\* though what there is of a string or a sub-message is still read.
Content(k, s) ==
  [ok |-> k <= Len(s),
   bytes |-> SubSeq(s, 1, IF k <= Len(s) THEN k ELSE Len(s)),
   rest |-> SubSeq(s, k + 1, Len(s))]

\* What is behind a tag of the wire type, when num is the number read there.
BodyOf(wire, num, s) ==
  CASE wire = LENGTH -> Content(num.value, num.rest)
    [] wire = FIXED64 -> Content(8, s)
    [] wire = FIXED32 -> Content(4, s)
    [] OTHER -> [ok |-> num.ok, bytes |-> <<>>, rest |-> num.rest]

\* key is field number and wire type, value what a scalar holds, bytes what a
\* string or sub-message holds, raw the field as it came.  Tag 0 ends a message;
\* groups and the wire types 6 and 7 are refused.
FieldOf(s, tag, num, body) ==
  [key |-> <<tag.value \div 8, tag.value % 8>>, value |-> num.value,
   bytes |-> body.bytes, raw |-> SubSeq(s, 1, Len(s) - Len(body.rest)),
   rest |-> body.rest, end |-> tag.ok /\ tag.value = 0,
   ok |-> /\ tag.ok /\ tag.value >= 8 /\ body.ok
          /\ \/ tag.value % 8 \in {VARINT, LENGTH} /\ num.ok
             \/ tag.value % 8 \in {FIXED64, FIXED32}]

FieldBehind(tag, num, s) == FieldOf(s, tag, num, BodyOf(tag.value % 8, num, tag.rest))
FieldWith(tag, s) == FieldBehind(tag, ReadVarint(tag.rest), s)

\* The fields of a stream, in order; one that is not ok is the last.
FieldsAt(t, field, fields) ==
  IF t = <<>> \/ field.end THEN <<>>
  ELSE IF field.ok THEN <<field>> \o fields[field.rest] ELSE <<field>>
Fields(s) ==
  LET fields[t \in Seq(Byte)] == FieldsAt(t, FieldWith(ReadVarint(t), t), fields)
  IN  fields[s]

\* MergePartialFromCodedStream of a class whose fields Read(msg, field) reads:
\* field after field until one fails, whatever was read before stays.  A
\* scalar that is cut off is not read.
MergedField(Read(_, _), state, f) ==
  IF ~ state.ok \/ (~ f.ok /\ f.key[2] # LENGTH)
  THEN [state EXCEPT !.ok = FALSE]
  ELSE [Read(state.msg, f) EXCEPT !.ok = @ /\ f.ok]

MergedFields(Read(_, _), msg, fields) ==
  LET after[n \in 0..Len(fields)] ==
        IF n = 0 THEN [msg |-> msg, ok |-> TRUE]
                 ELSE MergedField(Read, after[n - 1], fields[n])
  IN  after[Len(fields)]

Merged(Read(_, _), msg, s) == MergedFields(Read, msg, Fields(s))
=============================================================================
