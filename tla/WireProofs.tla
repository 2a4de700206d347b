----------------------------- MODULE WireProofs -----------------------------
(***************************************************************************)
(* Proofs about the classes of raftpb.pb.cc and who uses them, for any     *)
(* numbers, strings, files and bounds.                                     *)
(*                                                                         *)
(* A recursive function of Protobuf is met by its equation, which holds    *)
(* because the recursion descends; what it computes follows by induction   *)
(* on what it descends along.                                              *)
(***************************************************************************)
EXTENDS MCWire, RecursionLemmas

-----------------------------------------------------------------------------
(* Numbers *)

\* Dividing by 128.
LEMMA Seven ==
  ASSUME NEW n \in Nat, n >= 128
  PROVE  /\ n \div 128 \in Nat /\ n \div 128 < n /\ n \div 128 > 0
         /\ n % 128 \in 0..127 /\ n = 128 * (n \div 128) + (n % 128)
OBVIOUS

\* A number in its bytes.
LEMMA VarintIs ==
  ASSUME NEW n \in Nat
  PROVE  Varint(n) = IF n < 128 THEN <<n>> ELSE <<128 + (n % 128)>> \o Varint(n \div 128)
<1> DEFINE Right(g) == g = [k \in Nat |-> IF k < 128 THEN <<k>>
                                          ELSE <<128 + (k % 128)>> \o g[k \div 128]]
           h == CHOOSE g : Right(g)
<1>1. \A k \in Nat : Varint(k) = h[k]
  BY DEF Varint
<1>2. \E g : Right(g)
  <2> DEFINE T == Seq(Nat)
             small == 0..127
             M == [k \in Nat |-> k]
             B == [k \in small |-> <<k>>]
             P == [k \in Nat \ small |-> k \div 128]
             D == [k \in Nat \ small |-> [t \in T |-> <<128 + (k % 128)>> \o t]]
  <2>1. M \in [Nat -> Nat] /\ small \in SUBSET Nat /\ B \in [small -> T]
    OBVIOUS
  <2>2. \A k \in Nat \ small : k >= 128 /\ ~(k < 128)
    OBVIOUS
  <2>3. P \in [Nat \ small -> Nat] /\ \A k \in Nat \ small : M[P[k]] < M[k]
    BY <2>2, Seven
  <2>4. D \in [Nat \ small -> [T -> T]]
    <3>1. ASSUME NEW k \in Nat \ small, NEW t \in T PROVE <<128 + (k % 128)>> \o t \in T
      <4>1. 128 + (k % 128) \in Nat
        BY <2>2, Seven
      <4> QED BY <4>1
    <3> HIDE DEF T, small
    <3> QED BY <3>1
  <2>5. PICK S : S = Seq(Nat)
    OBVIOUS
  <2> HIDE DEF M, B, P, D, small, T
  <2>6. PICK f \in [Nat -> T] : Descends(f, Nat, small, B, P, D)
    BY <2>1, <2>3, <2>4, DescentExists
  <2>7. \A k \in small : f[k] = <<k>>
    BY <2>6 DEF Descends, B
  <2>8. ASSUME NEW k \in Nat \ small PROVE f[k] = <<128 + (k % 128)>> \o f[k \div 128]
    <3>1. P[k] = k \div 128 /\ P[k] \in Nat
      BY <2>3 DEF P
    <3>2. f[P[k]] \in T
      BY <2>6, <3>1
    <3>3. D[k][f[P[k]]] = <<128 + (k % 128)>> \o f[P[k]]
      BY <3>2 DEF D
    <3>4. f[k] = D[k][f[P[k]]]
      BY <2>6 DEF Descends
    <3> QED BY <3>1, <3>3, <3>4
  <2>9. \A k \in Nat : f[k] = IF k < 128 THEN <<k>> ELSE <<128 + (k % 128)>> \o f[k \div 128]
    <3>1. \A k \in Nat : IF k < 128 THEN k \in small ELSE k \in Nat \ small
      BY DEF small
    <3> QED BY <2>7, <2>8, <3>1
  <2>10. f = [k \in Nat |-> f[k]]
    BY <2>6
  <2>11. Right(f)
    BY <2>9, <2>10
  <2> QED BY <2>11
<1>3. Right(h)
  BY <1>2, Zenon
<1> HIDE DEF h
<1>4. h[n] = IF n < 128 THEN <<n>> ELSE <<128 + (n % 128)>> \o h[n \div 128]
  BY <1>3, Zenon
<1>5. CASE n < 128
  BY <1>1, <1>4, <1>5
<1>6. CASE ~(n < 128)
  <2>1. n >= 128
    BY <1>6
  <2>2. Varint(n \div 128) = h[n \div 128]
    BY <1>1, <2>1, Seven
  <2>3. h[n] = <<128 + (n % 128)>> \o h[n \div 128]
    BY <1>4, <1>6, Zenon
  <2> QED BY <1>1, <1>6, <2>2, <2>3
<1> QED BY <1>5, <1>6

\* How many bytes a number takes.
LEMMA VarintSizeIs ==
  ASSUME NEW n \in Nat
  PROVE  VarintSize(n) = IF n < 128 THEN 1 ELSE 1 + VarintSize(n \div 128)
<1> DEFINE Right(g) == g = [k \in Nat |-> IF k < 128 THEN 1 ELSE 1 + g[k \div 128]]
           h == CHOOSE g : Right(g)
<1>1. \A k \in Nat : VarintSize(k) = h[k]
  BY DEF VarintSize
<1>2. \E g : Right(g)
  <2> DEFINE small == 0..127
             M == [k \in Nat |-> k]
             B == [k \in small |-> 1]
             P == [k \in Nat \ small |-> k \div 128]
             D == [k \in Nat \ small |-> [t \in Nat |-> 1 + t]]
  <2>1. M \in [Nat -> Nat] /\ small \in SUBSET Nat /\ B \in [small -> Nat]
    OBVIOUS
  <2>2. \A k \in Nat \ small : k >= 128 /\ ~(k < 128)
    OBVIOUS
  <2>3. P \in [Nat \ small -> Nat] /\ \A k \in Nat \ small : M[P[k]] < M[k]
    BY <2>2, Seven
  <2>4. D \in [Nat \ small -> [Nat -> Nat]]
    OBVIOUS
  <2> HIDE DEF M, B, P, D, small
  <2>6. PICK f \in [Nat -> Nat] : Descends(f, Nat, small, B, P, D)
    BY <2>1, <2>3, <2>4, DescentExists
  <2>7. \A k \in small : f[k] = 1
    BY <2>6 DEF Descends, B
  <2>8. ASSUME NEW k \in Nat \ small PROVE f[k] = 1 + f[k \div 128]
    <3>1. P[k] = k \div 128 /\ P[k] \in Nat
      BY <2>3 DEF P
    <3>2. f[P[k]] \in Nat
      BY <2>6, <3>1
    <3>3. D[k][f[P[k]]] = 1 + f[P[k]]
      BY <3>2 DEF D
    <3>4. f[k] = D[k][f[P[k]]]
      BY <2>6 DEF Descends
    <3> QED BY <3>1, <3>3, <3>4
  <2>9. \A k \in Nat : f[k] = IF k < 128 THEN 1 ELSE 1 + f[k \div 128]
    <3>1. \A k \in Nat : IF k < 128 THEN k \in small ELSE k \in Nat \ small
      BY DEF small
    <3> QED BY <2>7, <2>8, <3>1
  <2>10. f = [k \in Nat |-> f[k]]
    BY <2>6
  <2>11. Right(f)
    BY <2>9, <2>10
  <2> QED BY <2>11
<1>3. Right(h)
  BY <1>2, Zenon
<1> HIDE DEF h
<1>4. h[n] = IF n < 128 THEN 1 ELSE 1 + h[n \div 128]
  BY <1>3, Zenon
<1>5. CASE n < 128
  BY <1>1, <1>4, <1>5
<1>6. CASE ~(n < 128)
  <2>1. n >= 128
    BY <1>6
  <2>2. VarintSize(n \div 128) = h[n \div 128]
    BY <1>1, <2>1, Seven
  <2> QED BY <1>1, <1>4, <1>6, <2>2
<1> QED BY <1>5, <1>6

\* The bytes of a number: as many as are counted; all but the last say that another
\* follows, and none is 0 unless the number is.
VarintShape(s, n) ==
  /\ s \in Seq(Byte) /\ Len(s) = VarintSize(n) /\ Len(s) >= 1
  /\ \A i \in 1..Len(s) - 1 : s[i] >= 128
  /\ s[Len(s)] < 128
  /\ n = 0 \/ \A i \in 1..Len(s) : s[i] # 0

\* Every number is written as such a varint.
LEMMA VarintHasShape ==
  ASSUME NEW n \in Nat
  PROVE  VarintShape(Varint(n), n)
<1> DEFINE A == {k \in Nat : VarintShape(Varint(k), k)}
<1>1. \A k \in Nat : (\A m \in 0..k - 1 : m \in A) => k \in A
  <2> SUFFICES ASSUME NEW k \in Nat, \A m \in 0..k - 1 : m \in A
               PROVE  VarintShape(Varint(k), k)
    OBVIOUS
  <2>1. CASE k < 128
    <3>1. Varint(k) = <<k>> /\ VarintSize(k) = 1
      BY <2>1, VarintIs, VarintSizeIs
    <3>2. PICK s : s = <<k>>
      OBVIOUS
    <3>3. s \in Seq(Byte) /\ Len(s) = 1 /\ s[1] = k
      BY <2>1, <3>2 DEF Byte
    <3> QED BY <2>1, <3>1, <3>2, <3>3 DEF VarintShape
  <2>2. CASE k >= 128
    <3>1. PICK m \in Nat : m = k \div 128
      BY <2>2, Seven
    <3>2. m \in 0..k - 1 /\ m > 0
      BY <2>2, <3>1, Seven
    <3>3. PICK b : b = 128 + (k % 128)
      OBVIOUS
    <3>4. b \in 128..255
      BY <2>2, <3>3, Seven
    <3>5. PICK s : s = Varint(m)
      OBVIOUS
    <3>6. VarintShape(s, m)
      BY <3>2, <3>5
    <3>7. Varint(k) = <<b>> \o s /\ VarintSize(k) = 1 + VarintSize(m)
      <4>1. ~(k < 128)
        BY <2>2
      <4> QED BY <4>1, <3>1, <3>3, <3>5, VarintIs, VarintSizeIs
    <3>8. s \in Seq(Byte) /\ b \in Byte
      BY <3>4, <3>6 DEF VarintShape, Byte
    <3>9. PICK t : t = <<b>> \o s
      OBVIOUS
    <3>10. /\ t \in Seq(Byte) /\ Len(t) = 1 + Len(s) /\ t[1] = b
           /\ \A i \in 1..Len(s) : t[i + 1] = s[i]
      BY <3>8, <3>9
    <3>11. \A i \in 2..Len(t) : t[i] = s[i - 1] /\ i - 1 \in 1..Len(s)
      BY <3>8, <3>10
    <3>12. Len(s) >= 1 /\ Len(s) \in Nat
      BY <3>6, <3>8 DEF VarintShape
    <3>13. \A i \in 1..Len(t) - 1 : t[i] >= 128
      <4> SUFFICES ASSUME NEW i \in 1..Len(t) - 1 PROVE t[i] >= 128
        OBVIOUS
      <4>1. CASE i = 1
        BY <4>1, <3>4, <3>10
      <4>2. CASE i # 1
        <5>1. i \in 2..Len(t) /\ i - 1 \in 1..Len(s) - 1
          BY <4>2, <3>10, <3>12
        <5>2. s[i - 1] >= 128
          BY <5>1, <3>6 DEF VarintShape
        <5> QED BY <5>1, <5>2, <3>11
      <4> QED BY <4>1, <4>2
    <3>14. t[Len(t)] < 128
      <4>1. Len(t) \in 2..Len(t) /\ Len(t) - 1 = Len(s)
        BY <3>10, <3>12
      <4> QED BY <4>1, <3>6, <3>11 DEF VarintShape
    <3>15. \A i \in 1..Len(t) : t[i] # 0
      <4> SUFFICES ASSUME NEW i \in 1..Len(t) PROVE t[i] # 0
        OBVIOUS
      <4>1. CASE i = 1
        BY <4>1, <3>4, <3>10
      <4>2. CASE i # 1
        <5>1. i \in 2..Len(t)
          BY <4>2
        <5> QED BY <5>1, <3>2, <3>6, <3>11 DEF VarintShape
      <4> QED BY <4>1, <4>2
    <3>16. Len(t) = VarintSize(k)
      BY <3>6, <3>7, <3>10 DEF VarintShape
    <3>17. VarintShape(t, k)
      BY <3>10, <3>12, <3>13, <3>14, <3>15, <3>16 DEF VarintShape
    <3> QED BY <3>7, <3>9, <3>17
  <2> QED BY <2>1, <2>2
<1> HIDE DEF A
<1>2. n \in A
  BY <1>1, AllNumbers
<1> QED BY <1>2 DEF A
-----------------------------------------------------------------------------
(* How long what is written is, and whether it holds a NUL *)

Wrote(t, size) == t \in Seq(Byte) /\ size \in Nat /\ Len(t) = size

\* A string.
LEMMA StringWrote ==
  ASSUME NEW s \in Seq(Byte)
  PROVE  Wrote(s, Len(s)) /\ (HasNul(s) <=> \E i \in 1..Len(s) : s[i] = 0)
BY DEF Wrote, HasNul, Range

\* Writing nothing writes nothing.
LEMMA NothingWrote == Wrote(<<>>, 0) /\ ~HasNul(<<>>)
BY DEF Wrote, HasNul, Range

\* One after the other.
LEMMA BothWrote ==
  ASSUME NEW s, NEW a, NEW t, NEW b, Wrote(s, a), Wrote(t, b)
  PROVE  Wrote(s \o t, a + b) /\ (HasNul(s \o t) <=> HasNul(s) \/ HasNul(t))
<1>1. s \in Seq(Byte) /\ t \in Seq(Byte) /\ Len(s) = a /\ Len(t) = b /\ a \in Nat /\ b \in Nat
  BY DEF Wrote
<1>2. PICK u : u = s \o t
  OBVIOUS
<1>3. /\ u \in Seq(Byte) /\ Len(u) = a + b
      /\ \A i \in 1..a : u[i] = s[i]
      /\ \A i \in 1..b : u[a + i] = t[i]
  <2>1. /\ s \o t \in Seq(Byte) /\ Len(s \o t) = Len(s) + Len(t)
        /\ \A i \in 1..Len(s) : (s \o t)[i] = s[i]
        /\ \A i \in 1..Len(t) : (s \o t)[Len(s) + i] = t[i]
    <3>1. s \in Seq(Byte) /\ t \in Seq(Byte)
      BY <1>1
    <3> QED BY <3>1, ConcatIs
  <2> QED BY <1>1, <1>2, <2>1, Zenon
<1>4. /\ HasNul(u) <=> \E i \in 1..a + b : u[i] = 0
      /\ HasNul(s) <=> \E i \in 1..a : s[i] = 0
      /\ HasNul(t) <=> \E i \in 1..b : t[i] = 0
  <2>1. \A v \in Seq(Byte) : HasNul(v) <=> \E i \in 1..Len(v) : v[i] = 0
    BY StringWrote
  <2> QED BY <1>1, <1>3, <2>1
<1>5. ASSUME NEW i \in 1..a, s[i] = 0 PROVE \E j \in 1..a + b : u[j] = 0
  BY <1>1, <1>3, <1>5
<1>6. ASSUME NEW i \in 1..b, t[i] = 0 PROVE \E j \in 1..a + b : u[j] = 0
  <2>1. a + i \in 1..a + b /\ u[a + i] = 0
    BY <1>1, <1>3, <1>6
  <2> QED BY <2>1
<1>7. ASSUME NEW i \in 1..a + b, u[i] = 0
      PROVE  (\E j \in 1..a : s[j] = 0) \/ (\E j \in 1..b : t[j] = 0)
  <2>1. CASE i <= a
    <3>1. i \in 1..a
      BY <2>1, <1>1
    <3> QED BY <3>1, <1>3, <1>7
  <2>2. CASE i > a
    <3>1. PICK j \in 1..b : i = a + j
      <4>1. i - a \in 1..b /\ i = a + (i - a)
        BY <2>2, <1>1
      <4> QED BY <4>1
    <3> QED BY <3>1, <1>3, <1>7
  <2> QED BY <2>1, <2>2, <1>1
<1>8. HasNul(u) <=> HasNul(s) \/ HasNul(t)
  BY <1>4, <1>5, <1>6, <1>7, Zenon
<1> QED BY <1>1, <1>2, <1>3, <1>8 DEF Wrote

\* A number.
LEMMA VarintWrote ==
  ASSUME NEW n \in Nat
  PROVE  Wrote(Varint(n), VarintSize(n)) /\ VarintSize(n) >= 1 /\ (HasNul(Varint(n)) <=> n = 0)
<1>1. PICK s : s = Varint(n)
  OBVIOUS
<1>2. VarintShape(s, n)
  BY <1>1, VarintHasShape
<1>3. s \in Seq(Byte) /\ Len(s) = VarintSize(n) /\ Len(s) >= 1
  BY <1>2 DEF VarintShape
<1>4. HasNul(s) <=> \E i \in 1..Len(s) : s[i] = 0
  BY <1>3, StringWrote
<1>5. CASE n = 0
  <2>1. n < 128
    BY <1>5
  <2>2. s = <<n>>
    BY <1>1, <2>1, VarintIs
  <2>3. 1 \in 1..Len(s) /\ s[1] = 0
    BY <1>5, <2>2
  <2> QED BY <1>1, <1>3, <1>4, <1>5, <2>3 DEF Wrote
<1>6. CASE n # 0
  <2>1. \A i \in 1..Len(s) : s[i] # 0
    BY <1>2, <1>6 DEF VarintShape
  <2> QED BY <1>1, <1>3, <1>4, <1>6, <2>1 DEF Wrote
<1> QED BY <1>5, <1>6

\* A tag.
LEMMA TagWrote ==
  ASSUME NEW number \in 1..15, NEW wire \in 0..7
  PROVE  /\ Wrote(Tag(number, wire), 1) /\ ~HasNul(Tag(number, wire))
         /\ Tag(number, wire) = <<8 * number + wire>>
<1>1. PICK n \in Nat : n = 8 * number + wire
  OBVIOUS
<1>2. n < 128 /\ n # 0
  BY <1>1
<1>3. Varint(n) = <<n>> /\ VarintSize(n) = 1
  BY <1>2, VarintIs, VarintSizeIs
<1>4. Wrote(Varint(n), 1) /\ ~HasNul(Varint(n))
  BY <1>2, <1>3, VarintWrote
<1> QED BY <1>1, <1>3, <1>4 DEF Tag

\* Bytes behind their length.
LEMMA DelimitedWrote ==
  ASSUME NEW number \in 1..15, NEW t, NEW size, Wrote(t, size)
  PROVE  /\ Wrote(Delimited(number, t), DelimitedSize(size)) /\ DelimitedSize(size) # 0
         /\ HasNul(Delimited(number, t)) <=> size = 0 \/ HasNul(t)
<1>1. t \in Seq(Byte) /\ size \in Nat /\ Len(t) = size
  BY DEF Wrote
<1>2. PICK tag : tag = Tag(number, LENGTH)
  OBVIOUS
<1>3. Wrote(tag, 1) /\ ~HasNul(tag)
  <2>1. LENGTH \in 0..7
    BY DEF LENGTH
  <2> QED BY <1>2, <2>1, TagWrote
<1>4. PICK v : v = Varint(size)
  OBVIOUS
<1>5. Wrote(v, VarintSize(size)) /\ VarintSize(size) >= 1 /\ (HasNul(v) <=> size = 0)
  BY <1>1, <1>4, VarintWrote
<1>6. Wrote(tag \o v, 1 + VarintSize(size)) /\ (HasNul(tag \o v) <=> HasNul(tag) \/ HasNul(v))
  BY <1>3, <1>5, BothWrote
<1>7. /\ Wrote((tag \o v) \o t, (1 + VarintSize(size)) + size)
      /\ HasNul((tag \o v) \o t) <=> HasNul(tag \o v) \/ HasNul(t)
  BY <1>6, BothWrote
<1>8. VarintSize(size) \in Nat
  BY <1>5 DEF Wrote
<1>9. Delimited(number, t) = (tag \o v) \o t /\ DelimitedSize(size) = (1 + VarintSize(size)) + size
  BY <1>1, <1>2, <1>4 DEF Delimited, DelimitedSize
<1>10. DelimitedSize(size) # 0
  BY <1>1, <1>8, <1>9
<1> QED BY <1>3, <1>5, <1>6, <1>7, <1>9, <1>10

\* A scalar, a string, ...
LEMMA UIntWrote ==
  ASSUME NEW number \in 1..15, NEW v \in Nat
  PROVE  /\ Wrote(UInt(number, v), UIntSize(v)) /\ ~HasNul(UInt(number, v))
         /\ UIntSize(v) = 0 <=> v = 0
<1>1. CASE v = 0
  <2>1. UInt(number, v) = <<>> /\ UIntSize(v) = 0
    BY <1>1 DEF UInt, UIntSize
  <2> QED BY <1>1, <2>1, NothingWrote
<1>2. CASE v # 0
  <2>1. PICK tag : tag = Tag(number, VARINT)
    OBVIOUS
  <2>2. Wrote(tag, 1) /\ ~HasNul(tag)
    <3>1. VARINT \in 0..7
      BY DEF VARINT
    <3> QED BY <2>1, <3>1, TagWrote
  <2>3. Wrote(Varint(v), VarintSize(v)) /\ VarintSize(v) >= 1 /\ ~HasNul(Varint(v))
    BY <1>2, VarintWrote
  <2>4. /\ Wrote(tag \o Varint(v), 1 + VarintSize(v))
        /\ HasNul(tag \o Varint(v)) <=> HasNul(tag) \/ HasNul(Varint(v))
    BY <2>2, <2>3, BothWrote
  <2>5. UInt(number, v) = tag \o Varint(v) /\ UIntSize(v) = 1 + VarintSize(v)
    BY <1>2, <2>1 DEF UInt, UIntSize
  <2>6. VarintSize(v) \in Nat
    BY <2>3 DEF Wrote
  <2>7. UIntSize(v) # 0
    BY <2>3, <2>5, <2>6
  <2> QED BY <1>2, <2>2, <2>3, <2>4, <2>5, <2>7
<1> QED BY <1>1, <1>2

\* A string writes its tag, its length and its bytes.
LEMMA StrWrote ==
  ASSUME NEW number \in 1..15, NEW s \in Seq(Byte)
  PROVE  /\ Wrote(Str(number, s), StrSize(s))
         /\ HasNul(Str(number, s)) <=> HasNul(s)
         /\ StrSize(s) = 0 <=> s = <<>>
<1>1. CASE s = <<>>
  <2>1. Str(number, s) = <<>> /\ StrSize(s) = 0
    BY <1>1 DEF Str, StrSize
  <2> QED BY <1>1, <2>1, NothingWrote
<1>2. CASE s # <<>>
  <2>1. Len(s) \in Nat /\ Len(s) # 0
    BY <1>2
  <2>2. PICK n : n = Len(s)
    OBVIOUS
  <2>3. Wrote(s, n)
    BY <2>2, StringWrote
  <2>4. /\ Wrote(Delimited(number, s), DelimitedSize(n)) /\ DelimitedSize(n) # 0
        /\ HasNul(Delimited(number, s)) <=> n = 0 \/ HasNul(s)
    BY <2>3, DelimitedWrote
  <2>5. Str(number, s) = Delimited(number, s) /\ StrSize(s) = DelimitedSize(n)
    BY <1>2, <2>2 DEF Str, StrSize
  <2> QED BY <1>2, <2>1, <2>2, <2>4, <2>5
<1> QED BY <1>1, <1>2
-----------------------------------------------------------------------------
(* What is repeated *)

\* A sum grows with its last number.
LEMMA TotalIs ==
  ASSUME NEW ns \in Seq(Nat)
  PROVE  Total(ns) = IF ns = <<>> THEN 0 ELSE Total(Front(ns)) + Last(ns)
<1> DEFINE X == Seq(Nat)
           Right(g) == g = [s \in X |-> IF s = <<>> THEN 0 ELSE g[Front(s)] + Last(s)]
           h == CHOOSE g : Right(g)
<1>1. \A s \in X : Total(s) = h[s]
  BY DEF Total
<1>2. \E g : Right(g)
  <2> DEFINE empty == {<<>>}
             M == [s \in X |-> Len(s)]
             B == [s \in empty |-> 0]
             P == [s \in X \ empty |-> Front(s)]
             D == [s \in X \ empty |-> [t \in Int |-> t + Last(s)]]
  <2>1. M \in [X -> Nat] /\ empty \in SUBSET X /\ B \in [empty -> Int]
    OBVIOUS
  <2>2. ASSUME NEW s \in X \ empty
        PROVE  Front(s) \in X /\ Len(Front(s)) < Len(s) /\ Last(s) \in Nat
    BY DEF Front, Last
  <2>3. P \in [X \ empty -> X] /\ \A s \in X \ empty : M[P[s]] < M[s]
    BY <2>2
  <2>4. D \in [X \ empty -> [Int -> Int]]
    BY <2>2
  <2> HIDE DEF M, B, P, D, empty, X
  <2>5. PICK f \in [X -> Int] : Descends(f, X, empty, B, P, D)
    BY <2>1, <2>3, <2>4, DescentExists
  <2>6. \A s \in empty : f[s] = 0
    BY <2>5 DEF Descends, B
  <2>7. ASSUME NEW s \in X \ empty PROVE f[s] = f[Front(s)] + Last(s)
    <3>1. P[s] = Front(s) /\ P[s] \in X
      BY <2>3 DEF P
    <3>2. f[P[s]] \in Int
      BY <2>5, <3>1
    <3>3. f[s] = D[s][f[P[s]]]
      BY <2>5 DEF Descends
    <3> QED BY <3>1, <3>2, <3>3 DEF D
  <2>8. \A s \in X : s \in empty <=> s = <<>>
    BY DEF empty
  <2>9. \A s \in X : f[s] = IF s = <<>> THEN 0 ELSE f[Front(s)] + Last(s)
    BY <2>6, <2>7, <2>8
  <2>10. f = [s \in X |-> IF s = <<>> THEN 0 ELSE f[Front(s)] + Last(s)]
    BY <2>5, <2>9
  <2> QED BY <2>10
<1>3. Right(h)
  <2> HIDE DEF Right
  <2> QED BY <1>2, Zenon
<1> HIDE DEF h
<1>4. \A s \in X : h[s] = IF s = <<>> THEN 0 ELSE h[Front(s)] + Last(s)
  BY <1>3
<1>5. CASE ns = <<>>
  BY <1>1, <1>4, <1>5
<1>6. CASE ns # <<>>
  <2>1. Front(ns) \in X
    BY <1>6 DEF Front
  <2> QED BY <1>1, <1>4, <1>6, <2>1
<1> QED BY <1>5, <1>6

\* One number more.
LEMMA TotalAppend ==
  ASSUME NEW ns \in Seq(Nat), NEW x \in Nat
  PROVE  Total(Append(ns, x)) = Total(ns) + x
<1>1. PICK t : t = Append(ns, x)
  OBVIOUS
<1>2. t \in Seq(Nat) /\ t # <<>> /\ Front(t) = ns /\ Last(t) = x
  BY <1>1 DEF Front, Last
<1> QED BY <1>1, <1>2, TotalIs

\* A sum of natural numbers is one.
LEMMA TotalNat ==
  ASSUME NEW ns \in Seq(Nat)
  PROVE  Total(ns) \in Nat
<1> DEFINE A == {s \in Seq(Nat) : Total(s) \in Nat}
<1>1. <<>> \in A
  <2>1. <<>> \in Seq(Nat)
    OBVIOUS
  <2>2. Total(<<>>) = 0
    BY <2>1, TotalIs
  <2> QED BY <2>1, <2>2
<1>2. ASSUME NEW s \in Seq(Nat), NEW x \in Nat, s \in A PROVE Append(s, x) \in A
  BY <1>2, TotalAppend
<1> HIDE DEF A
<1>3. ns \in A
  BY <1>1, <1>2, ByAppending
<1> QED BY <1>3 DEF A

Lens(ss) == [i \in 1..Len(ss) |-> Len(ss[i])]
LineUp(ss) ==
  /\ Wrote(FlattenSeq(ss), Total(Lens(ss)))
  /\ HasNul(FlattenSeq(ss)) <=> \E i \in 1..Len(ss) : HasNul(ss[i])
  /\ Total(Lens(ss)) = 0 <=> \A i \in 1..Len(ss) : ss[i] = <<>>

\* Pieces one behind the other: as long as they are together, with the NULs of each.
LEMMA AllWrote ==
  ASSUME NEW ss \in Seq(Seq(Byte))
  PROVE  LineUp(ss)
<1> DEFINE A == {s \in Seq(Seq(Byte)) : LineUp(s)}
<1>1. <<>> \in A
  <2>1. <<>> \in Seq(Seq(Byte)) /\ <<>> \in Seq(Nat) /\ Len(<<>>) = 0
    OBVIOUS
  <2>2. FlattenSeq(<<>>) = <<>> /\ Total(<<>>) = 0
    BY <2>1, TotalIs, FlattenEmpty
  <2>3. PICK e : e = Lens(<<>>)
    OBVIOUS
  <2>4. e = <<>>
    BY <2>3 DEF Lens
  <2> QED BY <2>1, <2>2, <2>3, <2>4, NothingWrote DEF LineUp
<1>2. ASSUME NEW s \in Seq(Seq(Byte)), NEW x \in Seq(Byte), s \in A
      PROVE  Append(s, x) \in A
  <2>1. PICK t : t = Append(s, x)
    OBVIOUS
  <2>2. /\ t \in Seq(Seq(Byte)) /\ Len(t) = Len(s) + 1 /\ Len(s) \in Nat
        /\ t[Len(t)] = x /\ \A i \in 1..Len(s) : t[i] = s[i]
    BY <2>1
  <2>3. Lens(s) \in Seq(Nat) /\ Len(x) \in Nat
    BY DEF Lens
  <2>4. Lens(t) = Append(Lens(s), Len(x))
    BY <2>1 DEF Lens
  <2>5. Total(Lens(t)) = Total(Lens(s)) + Len(x)
    BY <2>3, <2>4, TotalAppend
  <2>6. FlattenSeq(t) = FlattenSeq(s) \o x
    BY <2>1, FlattenAppend
  <2>7. LineUp(s)
    BY <1>2
  <2>8. Wrote(x, Len(x)) /\ (Len(x) = 0 <=> x = <<>>)
    BY StringWrote
  <2>9. /\ Wrote(FlattenSeq(t), Total(Lens(t)))
        /\ HasNul(FlattenSeq(t)) <=> HasNul(FlattenSeq(s)) \/ HasNul(x)
    BY <2>5, <2>6, <2>7, <2>8, BothWrote DEF LineUp
  <2>10. Total(Lens(s)) \in Nat
    BY <2>3, TotalNat
  <2>11. \A i \in 1..Len(t) : i \in 1..Len(s) \/ i = Len(t)
    BY <2>2
  <2>12. Len(t) \in 1..Len(t) /\ \A i \in 1..Len(s) : i \in 1..Len(t)
    BY <2>2
  <2>13. (\E i \in 1..Len(t) : HasNul(t[i])) <=> (\E i \in 1..Len(s) : HasNul(s[i])) \/ HasNul(x)
    BY <2>2, <2>11, <2>12, Zenon
  <2>14. (\A i \in 1..Len(t) : t[i] = <<>>) <=> (\A i \in 1..Len(s) : s[i] = <<>>) /\ x = <<>>
    BY <2>2, <2>11, <2>12, Zenon
  <2>15. Total(Lens(t)) = 0 <=> Total(Lens(s)) = 0 /\ Len(x) = 0
    BY <2>3, <2>5, <2>10
  <2>16. HasNul(FlattenSeq(t)) <=> \E i \in 1..Len(t) : HasNul(t[i])
    BY <2>7, <2>9, <2>13, Zenon DEF LineUp
  <2>17. Total(Lens(t)) = 0 <=> \A i \in 1..Len(t) : t[i] = <<>>
    BY <2>7, <2>8, <2>14, <2>15, Zenon DEF LineUp
  <2>18. LineUp(t)
    BY <2>9, <2>16, <2>17, Zenon DEF LineUp
  <2> QED BY <2>1, <2>2, <2>18
<1> HIDE DEF A
<1>3. ss \in A
  BY <1>1, <1>2, ByAppending
<1> QED BY <1>3 DEF A

\* Numbers in one field.
LEMMA PackedWrote ==
  ASSUME NEW ns \in Seq(Nat)
  PROVE  /\ Wrote(Packed(ns), PackedSize(ns))
         /\ HasNul(Packed(ns)) <=> \E i \in 1..Len(ns) : ns[i] = 0
         /\ PackedSize(ns) = 0 <=> ns = <<>>
<1> DEFINE bytes == [i \in 1..Len(ns) |-> Varint(ns[i])]
<1>1. Len(ns) \in Nat /\ \A i \in 1..Len(ns) : ns[i] \in Nat
  OBVIOUS
<1>2. \A i \in 1..Len(ns) :
        /\ Varint(ns[i]) \in Seq(Byte) /\ Len(Varint(ns[i])) = VarintSize(ns[i])
        /\ VarintSize(ns[i]) >= 1 /\ (HasNul(Varint(ns[i])) <=> ns[i] = 0)
  BY <1>1, VarintWrote DEF Wrote
<1>3. PICK ss : ss = bytes
  OBVIOUS
<1>4. /\ ss \in Seq(Seq(Byte)) /\ Len(ss) = Len(ns)
      /\ \A i \in 1..Len(ns) : ss[i] = Varint(ns[i])
  BY <1>1, <1>2, <1>3
<1>5. Lens(ss) = [i \in 1..Len(ns) |-> VarintSize(ns[i])]
  BY <1>2, <1>4 DEF Lens
<1>6. FlattenSeq(ss) = Packed(ns) /\ Total(Lens(ss)) = PackedSize(ns)
  BY <1>3, <1>5 DEF Packed, PackedSize
<1>7. LineUp(ss)
  BY <1>4, AllWrote
<1>8. \A i \in 1..Len(ns) : ss[i] # <<>>
  BY <1>2, <1>4
<1>9. (\A i \in 1..Len(ss) : ss[i] = <<>>) <=> ns = <<>>
  BY <1>1, <1>4, <1>8
<1>10. (\E i \in 1..Len(ss) : HasNul(ss[i])) <=> \E i \in 1..Len(ns) : ns[i] = 0
  BY <1>2, <1>4, Zenon
<1> QED BY <1>6, <1>7, <1>9, <1>10, Zenon DEF LineUp
-----------------------------------------------------------------------------
(* Classes *)

InFour(s, a, t, b, u, c, v, d) ==
  /\ Wrote(((s \o t) \o u) \o v, ((a + b) + c) + d)
  /\ HasNul(((s \o t) \o u) \o v) <=> HasNul(s) \/ HasNul(t) \/ HasNul(u) \/ HasNul(v)
  /\ ((a + b) + c) + d = 0 <=> a = 0 /\ b = 0 /\ c = 0 /\ d = 0

\* Four pieces.
LEMMA FourWrote ==
  ASSUME NEW s, NEW a, NEW t, NEW b, NEW u, NEW c, NEW v, NEW d,
         Wrote(s, a), Wrote(t, b), Wrote(u, c), Wrote(v, d)
  PROVE  InFour(s, a, t, b, u, c, v, d)
<1>1. Wrote(s \o t, a + b) /\ (HasNul(s \o t) <=> HasNul(s) \/ HasNul(t))
  BY BothWrote
<1>2. /\ Wrote((s \o t) \o u, (a + b) + c)
      /\ HasNul((s \o t) \o u) <=> HasNul(s \o t) \/ HasNul(u)
  BY <1>1, BothWrote
<1>3. /\ Wrote(((s \o t) \o u) \o v, ((a + b) + c) + d)
      /\ HasNul(((s \o t) \o u) \o v) <=> HasNul((s \o t) \o u) \/ HasNul(v)
  BY <1>2, BothWrote
<1>4. a \in Nat /\ b \in Nat /\ c \in Nat /\ d \in Nat
  BY DEF Wrote
<1>5. ((a + b) + c) + d = 0 <=> a = 0 /\ b = 0 /\ c = 0 /\ d = 0
  BY <1>4
<1> QED BY <1>1, <1>2, <1>3, <1>5, Zenon DEF InFour

Scalar(p, n, v) == Wrote(p, n) /\ ~HasNul(p) /\ (n = 0 <=> v = 0)
Bytes(p, n, s) == Wrote(p, n) /\ (HasNul(p) <=> HasNul(s)) /\ (n = 0 <=> s = <<>>)
Numbers(p, n, ns) ==
  /\ Wrote(p, n) /\ (n = 0 <=> ns = <<>>)
  /\ HasNul(p) <=> \E i \in 1..Len(ns) : ns[i] = 0

\* Fields of a class.
LEMMA ScalarWrote ==
  ASSUME NEW number \in 1..15, NEW v \in Nat
  PROVE  Scalar(UInt(number, v), UIntSize(v), v)
BY UIntWrote DEF Scalar

\* So a string has this shape.
LEMMA BytesWrote ==
  ASSUME NEW number \in 1..15, NEW s \in Seq(Byte)
  PROVE  Bytes(Str(number, s), StrSize(s), s)
BY StrWrote DEF Bytes

\* What a class keeps of what it does not know.
LEMMA UnknownWrote ==
  ASSUME NEW s \in Seq(Byte)
  PROVE  Bytes(s, Len(s), s)
BY DEF Wrote, Bytes

\* The packed numbers of a ConfState.
LEMMA NumbersWrote ==
  ASSUME NEW number \in 1..15, NEW ns \in Seq(Nat), NEW size,
         size = IF ns = <<>> THEN 0 ELSE DelimitedSize(PackedSize(ns))
  PROVE  Numbers(Str(number, Packed(ns)), size, ns)
<1>1. PICK s : s = Packed(ns)
  OBVIOUS
<1>2. /\ Wrote(s, PackedSize(ns)) /\ (PackedSize(ns) = 0 <=> ns = <<>>)
      /\ HasNul(s) <=> \E i \in 1..Len(ns) : ns[i] = 0
  BY <1>1, PackedWrote
<1>3. s \in Seq(Byte) /\ Len(s) = PackedSize(ns) /\ (s = <<>> <=> ns = <<>>)
  BY <1>2 DEF Wrote
<1>4. /\ Wrote(Str(number, s), StrSize(s))
      /\ HasNul(Str(number, s)) <=> HasNul(s)
      /\ StrSize(s) = 0 <=> s = <<>>
  BY <1>3, StrWrote
<1>5. StrSize(s) = size
  BY <1>3 DEF StrSize
<1> QED BY <1>1, <1>2, <1>3, <1>4, <1>5, Zenon DEF Numbers

NulOfConfState(m) ==
  \/ \E i \in 1..Len(m.nodes) : m.nodes[i] = 0
  \/ \E i \in 1..Len(m.learners) : m.learners[i] = 0
  \/ HasNul(m.unknown)

\* A ConfState: the size, the NULs, and that nothing is written only of a new one.
LEMMA ConfStateWrote ==
  ASSUME NEW m \in ConfStateClass
  PROVE  /\ Wrote(SerializeConfState(m), SizeOfConfState(m))
         /\ HasNul(SerializeConfState(m)) <=> NulOfConfState(m)
         /\ SizeOfConfState(m) = 0 <=> m = NewConfState
<1> DEFINE SizeOf(ns) == IF ns = <<>> THEN 0 ELSE DelimitedSize(PackedSize(ns))
<1>1. m.nodes \in Seq(Nat) /\ m.learners \in Seq(Nat) /\ m.unknown \in Seq(Byte)
  BY DEF ConfStateClass
<1>2. PICK p1, p2, p3, n1, n2, n3 :
        /\ p1 = Str(1, Packed(m.nodes)) /\ p2 = Str(2, Packed(m.learners)) /\ p3 = m.unknown
        /\ n1 = SizeOf(m.nodes) /\ n2 = SizeOf(m.learners) /\ n3 = Len(m.unknown)
  OBVIOUS
<1>3. Numbers(p1, n1, m.nodes) /\ Numbers(p2, n2, m.learners)
  <2>1. 1 \in 1..15 /\ 2 \in 1..15
    OBVIOUS
  <2>2. Numbers(p1, n1, m.nodes)
    BY <1>1, <1>2, <2>1, NumbersWrote, Zenon
  <2>3. Numbers(p2, n2, m.learners)
    BY <1>1, <1>2, <2>1, NumbersWrote, Zenon
  <2> QED BY <2>2, <2>3
<1>4. Bytes(p3, n3, m.unknown)
  BY <1>1, <1>2, UnknownWrote
<1>5. Wrote(p1, n1) /\ Wrote(p2, n2) /\ Wrote(p3, n3)
  BY <1>3, <1>4 DEF Numbers, Bytes
<1>6. Wrote(p1 \o p2, n1 + n2) /\ (HasNul(p1 \o p2) <=> HasNul(p1) \/ HasNul(p2))
  BY <1>5, BothWrote
<1>7. /\ Wrote((p1 \o p2) \o p3, (n1 + n2) + n3)
      /\ HasNul((p1 \o p2) \o p3) <=> HasNul(p1 \o p2) \/ HasNul(p3)
  BY <1>5, <1>6, BothWrote
<1>8. SerializeConfState(m) = (p1 \o p2) \o p3 /\ SizeOfConfState(m) = (n1 + n2) + n3
  BY <1>2 DEF SerializeConfState, SizeOfConfState
<1>9. (n1 + n2) + n3 = 0 <=> n1 = 0 /\ n2 = 0 /\ n3 = 0
  BY <1>5 DEF Wrote
<1>10. m = NewConfState <=> m.nodes = <<>> /\ m.learners = <<>> /\ m.unknown = <<>>
  BY DEF ConfStateClass, NewConfState
<1>11. HasNul(SerializeConfState(m)) <=> NulOfConfState(m)
  BY <1>2, <1>3, <1>4, <1>6, <1>7, <1>8, Zenon DEF NulOfConfState, Numbers
<1> QED BY <1>3, <1>4, <1>7, <1>8, <1>9, <1>10, <1>11, Zenon DEF Numbers, Bytes

\* An Entry.
LEMMA EntryWrote ==
  ASSUME NEW m \in EntryClass
  PROVE  /\ Wrote(SerializeEntry(m), SizeOfEntry(m))
         /\ HasNul(SerializeEntry(m)) <=> HasNul(m.data) \/ HasNul(m.unknown)
         /\ SizeOfEntry(m) = 0 <=> m = NewEntry
<1>1. /\ m.type \in Nat /\ m.term \in Nat /\ m.index \in Nat
      /\ m.data \in Seq(Byte) /\ m.unknown \in Seq(Byte)
  BY DEF EntryClass
<1>2. PICK p1, p2, p3, p4, p5, n1, n2, n3, n4, n5 :
        /\ p1 = UInt(1, m.type) /\ p2 = UInt(2, m.term) /\ p3 = UInt(3, m.index)
        /\ p4 = Str(4, m.data) /\ p5 = m.unknown
        /\ n1 = UIntSize(m.type) /\ n2 = UIntSize(m.term) /\ n3 = UIntSize(m.index)
        /\ n4 = StrSize(m.data) /\ n5 = Len(m.unknown)
  OBVIOUS
<1>3. /\ Scalar(p1, n1, m.type) /\ Scalar(p2, n2, m.term) /\ Scalar(p3, n3, m.index)
      /\ Bytes(p4, n4, m.data) /\ Bytes(p5, n5, m.unknown)
  <2>1. \A i \in {1, 2, 3, 4} : i \in 1..15
    OBVIOUS
  <2>2. Scalar(p1, n1, m.type) /\ Scalar(p2, n2, m.term) /\ Scalar(p3, n3, m.index)
    BY <1>1, <1>2, <2>1, ScalarWrote, Zenon
  <2> QED BY <1>1, <1>2, <2>1, <2>2, BytesWrote, UnknownWrote, Zenon
<1>4. /\ Wrote(p1, n1) /\ Wrote(p2, n2) /\ Wrote(p3, n3) /\ Wrote(p4, n4) /\ Wrote(p5, n5)
      /\ n1 \in Nat /\ n2 \in Nat /\ n3 \in Nat /\ n4 \in Nat /\ n5 \in Nat
  BY <1>3 DEF Scalar, Bytes, Wrote
<1>5. PICK q, n : q = ((p1 \o p2) \o p3) \o p4 /\ n = ((n1 + n2) + n3) + n4
  OBVIOUS
<1>6. /\ Wrote(q, n) /\ (HasNul(q) <=> HasNul(p4))
      /\ n = 0 <=> n1 = 0 /\ n2 = 0 /\ n3 = 0 /\ n4 = 0
  <2>1. InFour(p1, n1, p2, n2, p3, n3, p4, n4)
    BY <1>4, FourWrote
  <2> QED BY <1>3, <1>5, <2>1, Zenon DEF Scalar, InFour
<1>7. Wrote(q \o p5, n + n5) /\ (HasNul(q \o p5) <=> HasNul(q) \/ HasNul(p5))
  BY <1>4, <1>6, BothWrote
<1>8. SerializeEntry(m) = q \o p5
  BY <1>2, <1>5 DEF SerializeEntry
<1>9. SizeOfEntry(m) = n + n5 /\ (n + n5 = 0 <=> n = 0 /\ n5 = 0)
  <2>1. SizeOfEntry(m) = (((n4 + n2) + n3) + n1) + n5
    BY <1>2, Zenon DEF SizeOfEntry
  <2> QED BY <1>4, <1>5, <2>1
<1>10. m = NewEntry <=>
         m.type = 0 /\ m.term = 0 /\ m.index = 0 /\ m.data = <<>> /\ m.unknown = <<>>
  BY DEF EntryClass, NewEntry
<1>11. HasNul(SerializeEntry(m)) <=> HasNul(m.data) \/ HasNul(m.unknown)
  BY <1>2, <1>3, <1>6, <1>7, <1>8, Zenon DEF Bytes
<1> QED BY <1>3, <1>6, <1>7, <1>8, <1>9, <1>10, <1>11, Zenon DEF Scalar, Bytes

Nested(p, n, sub, t, size) ==
  /\ Wrote(p, n) /\ (n = 0 <=> sub = None)
  /\ HasNul(p) <=> sub # None /\ (size = 0 \/ HasNul(t))

\* A sub-message: when it says nothing there is a NUL for its length.
LEMMA NestedWrote ==
  ASSUME NEW number \in 1..15, NEW sub, NEW t, NEW size, NEW p, NEW n,
         sub # None => Wrote(t, size),
         p = IF sub = None THEN <<>> ELSE Delimited(number, t),
         n = IF sub = None THEN 0 ELSE DelimitedSize(size)
  PROVE  Nested(p, n, sub, t, size)
<1>1. CASE sub = None
  BY <1>1, NothingWrote DEF Nested
<1>2. CASE sub # None
  <2>1. Wrote(t, size)
    BY <1>2
  <2>2. /\ Wrote(Delimited(number, t), DelimitedSize(size)) /\ DelimitedSize(size) # 0
        /\ HasNul(Delimited(number, t)) <=> size = 0 \/ HasNul(t)
    BY <2>1, DelimitedWrote
  <2> QED BY <1>2, <2>2 DEF Nested
<1> QED BY <1>1, <1>2

NulOfMetadata(m) ==
  \/ m.conf_state # None /\ (m.conf_state = NewConfState \/ NulOfConfState(m.conf_state))
  \/ HasNul(m.unknown)

\* A SnapshotMetadata.
LEMMA SnapshotMetadataWrote ==
  ASSUME NEW m \in SnapshotMetadataClass
  PROVE  /\ Wrote(SerializeSnapshotMetadata(m), SizeOfSnapshotMetadata(m))
         /\ HasNul(SerializeSnapshotMetadata(m)) <=> NulOfMetadata(m)
         /\ SizeOfSnapshotMetadata(m) = 0 <=> m = NewSnapshotMetadata
<1> DEFINE c == m.conf_state
<1>1. /\ c \in ConfStateClass \cup {None} /\ m.index \in Nat /\ m.term \in Nat
      /\ m.unknown \in Seq(Byte)
  BY DEF SnapshotMetadataClass
<1>2. PICK p1, p2, p3, p4, n1, n2, n3, n4 :
        /\ p1 = Sub(1, SerializeConfState, c) /\ p2 = UInt(2, m.index)
        /\ p3 = UInt(3, m.term) /\ p4 = m.unknown
        /\ n1 = SubSize(SizeOfConfState, c) /\ n2 = UIntSize(m.index)
        /\ n3 = UIntSize(m.term) /\ n4 = Len(m.unknown)
  OBVIOUS
<1>3. Nested(p1, n1, c, SerializeConfState(c), SizeOfConfState(c))
  <2>1. c # None => Wrote(SerializeConfState(c), SizeOfConfState(c))
    BY <1>1, ConfStateWrote
  <2>2. /\ p1 = IF c = None THEN <<>> ELSE Delimited(1, SerializeConfState(c))
        /\ n1 = IF c = None THEN 0 ELSE DelimitedSize(SizeOfConfState(c))
    BY <1>2 DEF Sub, SubSize
  <2>3. 1 \in 1..15
    OBVIOUS
  <2> HIDE DEF c
  <2> QED BY <2>1, <2>2, <2>3, NestedWrote
<1>4. Scalar(p2, n2, m.index) /\ Scalar(p3, n3, m.term) /\ Bytes(p4, n4, m.unknown)
  <2>1. \A i \in {2, 3} : i \in 1..15
    OBVIOUS
  <2>2. Scalar(p2, n2, m.index) /\ Scalar(p3, n3, m.term)
    BY <1>1, <1>2, <2>1, ScalarWrote, Zenon
  <2> QED BY <1>1, <1>2, <2>2, UnknownWrote, Zenon
<1>5. InFour(p1, n1, p2, n2, p3, n3, p4, n4)
  BY <1>3, <1>4, FourWrote DEF Nested, Scalar, Bytes
<1>6. /\ SerializeSnapshotMetadata(m) = ((p1 \o p2) \o p3) \o p4
      /\ SizeOfSnapshotMetadata(m) = ((n1 + n2) + n3) + n4
  BY <1>2, Zenon DEF SerializeSnapshotMetadata, SizeOfSnapshotMetadata
<1>7. m = NewSnapshotMetadata <=> c = None /\ m.index = 0 /\ m.term = 0 /\ m.unknown = <<>>
  BY DEF SnapshotMetadataClass, NewSnapshotMetadata
<1>8. c # None => /\ SizeOfConfState(c) = 0 <=> c = NewConfState
                  /\ HasNul(SerializeConfState(c)) <=> NulOfConfState(c)
  BY <1>1, ConfStateWrote
<1>9. HasNul(SerializeSnapshotMetadata(m)) <=> NulOfMetadata(m)
  BY <1>2, <1>3, <1>4, <1>5, <1>6, <1>8, Zenon DEF NulOfMetadata, Nested, Scalar, Bytes, InFour
<1> QED BY <1>3, <1>4, <1>5, <1>6, <1>7, <1>9, Zenon DEF Nested, Scalar, Bytes, InFour

NulOfSnapshot(m) ==
  \/ HasNul(m.data)
  \/ m.metadata # None /\ (m.metadata = NewSnapshotMetadata \/ NulOfMetadata(m.metadata))
  \/ HasNul(m.unknown)

\* A Snapshot.
LEMMA SnapshotWrote ==
  ASSUME NEW m \in SnapshotClass
  PROVE  /\ Wrote(SerializeSnapshot(m), SizeOfSnapshot(m))
         /\ HasNul(SerializeSnapshot(m)) <=> NulOfSnapshot(m)
         /\ SizeOfSnapshot(m) = 0 <=> m = NewSnapshot
<1> DEFINE d == m.metadata
<1>1. /\ d \in SnapshotMetadataClass \cup {None} /\ m.data \in Seq(Byte)
      /\ m.unknown \in Seq(Byte)
  BY DEF SnapshotClass
<1>2. PICK p1, p2, p3, n1, n2, n3 :
        /\ p1 = Str(1, m.data) /\ p2 = Sub(2, SerializeSnapshotMetadata, d)
        /\ p3 = m.unknown
        /\ n1 = StrSize(m.data) /\ n2 = SubSize(SizeOfSnapshotMetadata, d)
        /\ n3 = Len(m.unknown)
  OBVIOUS
<1>3. Nested(p2, n2, d, SerializeSnapshotMetadata(d), SizeOfSnapshotMetadata(d))
  <2>1. d # None => Wrote(SerializeSnapshotMetadata(d), SizeOfSnapshotMetadata(d))
    BY <1>1, SnapshotMetadataWrote
  <2>2. /\ p2 = IF d = None THEN <<>> ELSE Delimited(2, SerializeSnapshotMetadata(d))
        /\ n2 = IF d = None THEN 0 ELSE DelimitedSize(SizeOfSnapshotMetadata(d))
    BY <1>2 DEF Sub, SubSize
  <2>3. 2 \in 1..15
    OBVIOUS
  <2> HIDE DEF d
  <2> QED BY <2>1, <2>2, <2>3, NestedWrote
<1>4. Bytes(p1, n1, m.data) /\ Bytes(p3, n3, m.unknown)
  <2>1. 1 \in 1..15
    OBVIOUS
  <2> QED BY <1>1, <1>2, <2>1, BytesWrote, UnknownWrote, Zenon
<1>5. Wrote(p1, n1) /\ Wrote(p2, n2) /\ Wrote(p3, n3)
  BY <1>3, <1>4, Zenon DEF Nested, Bytes
<1>6. Wrote(p1 \o p2, n1 + n2) /\ (HasNul(p1 \o p2) <=> HasNul(p1) \/ HasNul(p2))
  BY <1>5, BothWrote
<1>7. /\ Wrote((p1 \o p2) \o p3, (n1 + n2) + n3)
      /\ HasNul((p1 \o p2) \o p3) <=> HasNul(p1 \o p2) \/ HasNul(p3)
  BY <1>5, <1>6, BothWrote
<1>8. SerializeSnapshot(m) = (p1 \o p2) \o p3 /\ SizeOfSnapshot(m) = (n1 + n2) + n3
  BY <1>2, Zenon DEF SerializeSnapshot, SizeOfSnapshot
<1>9. (n1 + n2) + n3 = 0 <=> n1 = 0 /\ n2 = 0 /\ n3 = 0
  BY <1>5 DEF Wrote
<1>10. m = NewSnapshot <=> m.data = <<>> /\ d = None /\ m.unknown = <<>>
  BY DEF SnapshotClass, NewSnapshot
<1>11. d # None => /\ SizeOfSnapshotMetadata(d) = 0 <=> d = NewSnapshotMetadata
                   /\ HasNul(SerializeSnapshotMetadata(d)) <=> NulOfMetadata(d)
  BY <1>1, SnapshotMetadataWrote
<1>12. HasNul(SerializeSnapshot(m)) <=> NulOfSnapshot(m)
  BY <1>2, <1>3, <1>4, <1>6, <1>7, <1>8, <1>11, Zenon DEF NulOfSnapshot, Nested, Bytes
<1> QED BY <1>3, <1>4, <1>7, <1>8, <1>9, <1>10, <1>12, Zenon DEF Nested, Bytes

\* A HardState.
LEMMA HardStateWrote ==
  ASSUME NEW m \in HardStateClass
  PROVE  /\ Wrote(SerializeHardState(m), SizeOfHardState(m))
         /\ HasNul(SerializeHardState(m)) <=> HasNul(m.unknown)
<1>1. m.term \in Nat /\ m.vote \in Nat /\ m.commit \in Nat /\ m.unknown \in Seq(Byte)
  BY DEF HardStateClass
<1>2. PICK p1, p2, p3, p4, n1, n2, n3, n4 :
        /\ p1 = UInt(1, m.term) /\ p2 = UInt(2, m.vote) /\ p3 = UInt(3, m.commit)
        /\ p4 = m.unknown
        /\ n1 = UIntSize(m.term) /\ n2 = UIntSize(m.vote) /\ n3 = UIntSize(m.commit)
        /\ n4 = Len(m.unknown)
  OBVIOUS
<1>3. /\ Scalar(p1, n1, m.term) /\ Scalar(p2, n2, m.vote) /\ Scalar(p3, n3, m.commit)
      /\ Bytes(p4, n4, m.unknown)
  <2>1. \A i \in {1, 2, 3} : i \in 1..15
    OBVIOUS
  <2>2. Scalar(p1, n1, m.term) /\ Scalar(p2, n2, m.vote) /\ Scalar(p3, n3, m.commit)
    BY <1>1, <1>2, <2>1, ScalarWrote, Zenon
  <2> QED BY <1>1, <1>2, <2>2, UnknownWrote, Zenon
<1>4. InFour(p1, n1, p2, n2, p3, n3, p4, n4)
  BY <1>3, FourWrote DEF Scalar, Bytes
<1>5. /\ SerializeHardState(m) = ((p1 \o p2) \o p3) \o p4
      /\ SizeOfHardState(m) = ((n1 + n2) + n3) + n4
  BY <1>2, Zenon DEF SerializeHardState, SizeOfHardState
<1> QED BY <1>2, <1>3, <1>4, <1>5, Zenon DEF Scalar, Bytes, InFour

NulOfEntry(e) == e = NewEntry \/ HasNul(e.data) \/ HasNul(e.unknown)
Repeated(p, n, ms) ==
  /\ Wrote(p, n) /\ (n = 0 <=> ms = <<>>)
  /\ HasNul(p) <=> \E i \in 1..Len(ms) : NulOfEntry(ms[i])

\* The entries of a Storage or a Message: an empty one has a NUL for its length.
LEMMA EntriesWrote ==
  ASSUME NEW number \in 1..15, NEW ms \in Seq(EntryClass)
  PROVE  Repeated(Each(number, SerializeEntry, ms), EachSize(SizeOfEntry, ms), ms)
<1>1. Len(ms) \in Nat /\ \A i \in 1..Len(ms) : ms[i] \in EntryClass
  OBVIOUS
<1>2. ASSUME NEW i \in 1..Len(ms)
      PROVE  /\ Wrote(Delimited(number, SerializeEntry(ms[i])), DelimitedSize(SizeOfEntry(ms[i])))
             /\ DelimitedSize(SizeOfEntry(ms[i])) # 0
             /\ HasNul(Delimited(number, SerializeEntry(ms[i]))) <=> NulOfEntry(ms[i])
  <2>1. PICK e : e = ms[i]
    OBVIOUS
  <2>2. e \in EntryClass
    BY <1>1, <2>1
  <2>3. PICK t, size : t = SerializeEntry(e) /\ size = SizeOfEntry(e)
    OBVIOUS
  <2>4. /\ Wrote(t, size) /\ (size = 0 <=> e = NewEntry)
        /\ HasNul(t) <=> HasNul(e.data) \/ HasNul(e.unknown)
    BY <2>2, <2>3, EntryWrote
  <2>5. /\ Wrote(Delimited(number, t), DelimitedSize(size)) /\ DelimitedSize(size) # 0
        /\ HasNul(Delimited(number, t)) <=> size = 0 \/ HasNul(t)
    BY <2>4, DelimitedWrote
  <2> QED BY <2>1, <2>3, <2>4, <2>5, Zenon DEF NulOfEntry
<1>3. PICK ss : ss = [i \in 1..Len(ms) |-> Delimited(number, SerializeEntry(ms[i]))]
  OBVIOUS
<1>4. \A i \in 1..Len(ms) :
        /\ ss[i] \in Seq(Byte) /\ Len(ss[i]) = DelimitedSize(SizeOfEntry(ms[i]))
        /\ Len(ss[i]) # 0 /\ (HasNul(ss[i]) <=> NulOfEntry(ms[i]))
  BY <1>2, <1>3 DEF Wrote
<1>5. ss \in Seq(Seq(Byte)) /\ Len(ss) = Len(ms)
  BY <1>1, <1>3, <1>4
<1>6. Lens(ss) = [i \in 1..Len(ms) |-> DelimitedSize(SizeOfEntry(ms[i]))]
  BY <1>4, <1>5 DEF Lens
<1>7. /\ FlattenSeq(ss) = Each(number, SerializeEntry, ms)
      /\ Total(Lens(ss)) = EachSize(SizeOfEntry, ms)
  BY <1>3, <1>6, Zenon DEF Each, EachSize
<1>8. LineUp(ss)
  BY <1>5, AllWrote
<1>9. (\A i \in 1..Len(ss) : ss[i] = <<>>) <=> ms = <<>>
  <2>1. \A i \in 1..Len(ms) : ss[i] # <<>>
    BY <1>4
  <2>2. ms # <<>> => 1 \in 1..Len(ms)
    OBVIOUS
  <2>3. ms = <<>> => 1..Len(ms) = {}
    OBVIOUS
  <2> QED BY <1>5, <2>1, <2>2, <2>3, Zenon
<1>10. (\E i \in 1..Len(ss) : HasNul(ss[i])) <=> \E i \in 1..Len(ms) : NulOfEntry(ms[i])
  BY <1>4, <1>5, Zenon
<1> QED BY <1>7, <1>8, <1>9, <1>10, Zenon DEF LineUp, Repeated

\* A snapshot in its message.
LEMMA SnapshotNested ==
  ASSUME NEW number \in 1..15, NEW s \in SnapshotClass \cup {None}
  PROVE  Nested(Sub(number, SerializeSnapshot, s), SubSize(SizeOfSnapshot, s), s,
                SerializeSnapshot(s), SizeOfSnapshot(s))
<1>1. PICK p, n : p = Sub(number, SerializeSnapshot, s) /\ n = SubSize(SizeOfSnapshot, s)
  OBVIOUS
<1>2. s # None => Wrote(SerializeSnapshot(s), SizeOfSnapshot(s))
  BY SnapshotWrote
<1>3. /\ p = IF s = None THEN <<>> ELSE Delimited(number, SerializeSnapshot(s))
      /\ n = IF s = None THEN 0 ELSE DelimitedSize(SizeOfSnapshot(s))
  BY <1>1, Zenon DEF Sub, SubSize
<1>4. Nested(p, n, s, SerializeSnapshot(s), SizeOfSnapshot(s))
  BY <1>2, <1>3, NestedWrote
<1> QED BY <1>1, <1>4

\* A Storage.
LEMMA StorageWrote ==
  ASSUME NEW m \in StorageClass
  PROVE  Wrote(SerializeStorage(m), SizeOfStorage(m))
<1>1. /\ m.offset \in Nat /\ m.snap \in SnapshotClass \cup {None}
      /\ m.entries \in Seq(EntryClass) /\ m.hardstate \in HardStateClass \cup {None}
      /\ m.unknown \in Seq(Byte)
  BY DEF StorageClass
<1>2. PICK p1, p2, p3, p4, p5, n1, n2, n3, n4, n5 :
        /\ p1 = UInt(1, m.offset) /\ p2 = Sub(2, SerializeSnapshot, m.snap)
        /\ p3 = Each(3, SerializeEntry, m.entries)
        /\ p4 = Sub(4, SerializeHardState, m.hardstate) /\ p5 = m.unknown
        /\ n1 = UIntSize(m.offset) /\ n2 = SubSize(SizeOfSnapshot, m.snap)
        /\ n3 = EachSize(SizeOfEntry, m.entries)
        /\ n4 = SubSize(SizeOfHardState, m.hardstate) /\ n5 = Len(m.unknown)
  OBVIOUS
<1>3. \A i \in {1, 2, 3, 4} : i \in 1..15
  OBVIOUS
<1>4. Wrote(p1, n1)
  BY <1>1, <1>2, <1>3, ScalarWrote, Zenon DEF Scalar
<1>5. Wrote(p2, n2)
  BY <1>1, <1>2, <1>3, SnapshotNested, Zenon DEF Nested
<1>6. Wrote(p3, n3)
  BY <1>1, <1>2, <1>3, EntriesWrote, Zenon DEF Repeated
<1>7. Wrote(p4, n4)
  <2>1. PICK h : h = m.hardstate
    OBVIOUS
  <2>2. h # None => Wrote(SerializeHardState(h), SizeOfHardState(h))
    BY <1>1, <2>1, HardStateWrote
  <2>3. /\ p4 = IF h = None THEN <<>> ELSE Delimited(4, SerializeHardState(h))
        /\ n4 = IF h = None THEN 0 ELSE DelimitedSize(SizeOfHardState(h))
    BY <1>2, <2>1, Zenon DEF Sub, SubSize
  <2>4. 4 \in 1..15
    OBVIOUS
  <2>5. Nested(p4, n4, h, SerializeHardState(h), SizeOfHardState(h))
    BY <2>2, <2>3, <2>4, NestedWrote
  <2> QED BY <2>5 DEF Nested
<1>8. Wrote(p5, n5)
  BY <1>1, <1>2, UnknownWrote DEF Bytes
<1>9. Wrote(((p1 \o p2) \o p3) \o p4, ((n1 + n2) + n3) + n4)
  BY <1>4, <1>5, <1>6, <1>7, FourWrote DEF InFour
<1>10. Wrote((((p1 \o p2) \o p3) \o p4) \o p5, (((n1 + n2) + n3) + n4) + n5)
  BY <1>8, <1>9, BothWrote
<1>11. SerializeStorage(m) = (((p1 \o p2) \o p3) \o p4) \o p5
  BY <1>2, Zenon DEF SerializeStorage
<1>12. SizeOfStorage(m) = (((n1 + n2) + n3) + n4) + n5
  <2>1. SizeOfStorage(m) = (((n3 + n2) + n4) + n1) + n5
    BY <1>2, Zenon DEF SizeOfStorage
  <2>2. n1 \in Nat /\ n2 \in Nat /\ n3 \in Nat /\ n4 \in Nat /\ n5 \in Nat
    BY <1>4, <1>5, <1>6, <1>7, <1>8 DEF Wrote
  <2> QED BY <2>1, <2>2
<1> QED BY <1>10, <1>11, <1>12

\* A bool takes one byte behind its tag when it is true.
LEMMA BoolWrote ==
  ASSUME NEW number \in 1..15, NEW b \in {0, 1}
  PROVE  Scalar(UInt(number, b), 2 * b, b)
<1>1. Scalar(UInt(number, b), UIntSize(b), b)
  BY ScalarWrote
<1>2. UIntSize(b) = 2 * b
  <2>1. CASE b = 0
    BY <2>1 DEF UIntSize
  <2>2. CASE b = 1
    <3>1. VarintSize(b) = 1
      BY <2>2, VarintSizeIs
    <3> QED BY <2>2, <3>1 DEF UIntSize
  <2> QED BY <2>1, <2>2
<1> QED BY <1>1, <1>2

NulOfMessage(m) ==
  \/ HasNul(m.context) \/ HasNul(m.unknown)
  \/ \E i \in 1..Len(m.entries) : NulOfEntry(m.entries[i])
  \/ m.snapshot # None /\ (m.snapshot = NewSnapshot \/ NulOfSnapshot(m.snapshot))

\* A Message.
LEMMA MessageWrote ==
  ASSUME NEW m \in MessageClass
  PROVE  /\ Wrote(SerializeMessage(m), SizeOfMessage(m))
         /\ HasNul(SerializeMessage(m)) <=> NulOfMessage(m)
<1>1. /\ m.type \in Nat /\ m.to \in Nat /\ m.from \in Nat /\ m.term \in Nat
      /\ m.logterm \in Nat /\ m.index \in Nat /\ m.entries \in Seq(EntryClass)
      /\ m.commit \in Nat /\ m.snapshot \in SnapshotClass \cup {None}
      /\ m.reject \in {0, 1} /\ m.rejecthint \in Nat /\ m.context \in Seq(Byte)
      /\ m.unknown \in Seq(Byte)
  BY DEF MessageClass
<1>2. PICK p1, p2, p3, p4, p5, p6, p7, p8, p9, p10, p11, p12, p13 :
        /\ p1 = UInt(1, m.type) /\ p2 = UInt(2, m.to) /\ p3 = UInt(3, m.from)
        /\ p4 = UInt(4, m.term) /\ p5 = UInt(5, m.logterm) /\ p6 = UInt(6, m.index)
        /\ p7 = Each(7, SerializeEntry, m.entries) /\ p8 = UInt(8, m.commit)
        /\ p9 = Sub(9, SerializeSnapshot, m.snapshot) /\ p10 = UInt(10, m.reject)
        /\ p11 = UInt(11, m.rejecthint) /\ p12 = Str(12, m.context) /\ p13 = m.unknown
  OBVIOUS
<1>3. PICK n1, n2, n3, n4, n5, n6, n7, n8, n9, n10, n11, n12, n13 :
        /\ n1 = UIntSize(m.type) /\ n2 = UIntSize(m.to) /\ n3 = UIntSize(m.from)
        /\ n4 = UIntSize(m.term) /\ n5 = UIntSize(m.logterm) /\ n6 = UIntSize(m.index)
        /\ n7 = EachSize(SizeOfEntry, m.entries) /\ n8 = UIntSize(m.commit)
        /\ n9 = SubSize(SizeOfSnapshot, m.snapshot) /\ n10 = 2 * m.reject
        /\ n11 = UIntSize(m.rejecthint) /\ n12 = StrSize(m.context)
        /\ n13 = Len(m.unknown)
  OBVIOUS
<1>4. \A i \in {1, 2, 3, 4, 5, 6, 7, 8, 9, 10, 11, 12} : i \in 1..15
  OBVIOUS
<1>5. /\ Scalar(p1, n1, m.type) /\ Scalar(p2, n2, m.to) /\ Scalar(p3, n3, m.from)
      /\ Scalar(p4, n4, m.term) /\ Scalar(p5, n5, m.logterm) /\ Scalar(p6, n6, m.index)
      /\ Scalar(p8, n8, m.commit) /\ Scalar(p11, n11, m.rejecthint)
  BY <1>1, <1>2, <1>3, <1>4, ScalarWrote, Zenon
<1>6. Repeated(p7, n7, m.entries)
  BY <1>1, <1>2, <1>3, <1>4, EntriesWrote, Zenon
<1>7. Nested(p9, n9, m.snapshot, SerializeSnapshot(m.snapshot), SizeOfSnapshot(m.snapshot))
  BY <1>1, <1>2, <1>3, <1>4, SnapshotNested, Zenon
<1>8. Scalar(p10, n10, m.reject)
  BY <1>1, <1>2, <1>3, <1>4, BoolWrote, Zenon
<1>9. Bytes(p12, n12, m.context) /\ Bytes(p13, n13, m.unknown)
  BY <1>1, <1>2, <1>3, <1>4, BytesWrote, UnknownWrote, Zenon
<1>10. PICK q, n : q = ((p1 \o p2) \o p3) \o p4 /\ n = ((n1 + n2) + n3) + n4
  OBVIOUS
<1>11. PICK r, k : r = ((q \o p5) \o p6) \o p7 /\ k = ((n + n5) + n6) + n7
  OBVIOUS
<1>12. PICK s, l : s = ((r \o p8) \o p9) \o p10 /\ l = ((k + n8) + n9) + n10
  OBVIOUS
<1>13. PICK t, z : t = ((s \o p11) \o p12) \o p13 /\ z = ((l + n11) + n12) + n13
  OBVIOUS
<1>14. Wrote(q, n) /\ ~HasNul(q)
  <2>1. InFour(p1, n1, p2, n2, p3, n3, p4, n4)
    BY <1>5, FourWrote DEF Scalar
  <2> QED BY <1>5, <1>10, <2>1, Zenon DEF Scalar, InFour
<1>15. Wrote(r, k) /\ (HasNul(r) <=> HasNul(p7))
  <2>1. InFour(q, n, p5, n5, p6, n6, p7, n7)
    BY <1>5, <1>6, <1>14, FourWrote DEF Scalar, Repeated
  <2> QED BY <1>5, <1>11, <1>14, <2>1, Zenon DEF Scalar, InFour
<1>16. Wrote(s, l) /\ (HasNul(s) <=> HasNul(p7) \/ HasNul(p9))
  <2>1. InFour(r, k, p8, n8, p9, n9, p10, n10)
    BY <1>5, <1>7, <1>8, <1>15, FourWrote DEF Scalar, Nested
  <2> QED BY <1>5, <1>8, <1>12, <1>15, <2>1, Zenon DEF Scalar, InFour
<1>17. Wrote(t, z) /\ (HasNul(t) <=> HasNul(p7) \/ HasNul(p9) \/ HasNul(p12) \/ HasNul(p13))
  <2>1. InFour(s, l, p11, n11, p12, n12, p13, n13)
    BY <1>5, <1>9, <1>16, FourWrote DEF Scalar, Bytes
  <2> QED BY <1>5, <1>13, <1>16, <2>1, Zenon DEF Scalar, InFour
<1>18. SerializeMessage(m) = t
  BY <1>2, <1>10, <1>11, <1>12, <1>13, Zenon DEF SerializeMessage
<1>19. SizeOfMessage(m) = z
  <2>1. SizeOfMessage(m) = n7 + n12 + n9 + n2 + n3 + n4 + n5 + n1 + n10 + n6 + n8 + n11 + n13
    BY <1>3, Zenon DEF SizeOfMessage
  <2>2. /\ n1 \in Nat /\ n2 \in Nat /\ n3 \in Nat /\ n4 \in Nat /\ n5 \in Nat /\ n6 \in Nat
        /\ n7 \in Nat /\ n8 \in Nat /\ n9 \in Nat /\ n10 \in Nat /\ n11 \in Nat
        /\ n12 \in Nat /\ n13 \in Nat
    BY <1>5, <1>6, <1>7, <1>8, <1>9 DEF Scalar, Repeated, Nested, Bytes, Wrote
  <2> QED BY <1>10, <1>11, <1>12, <1>13, <2>1, <2>2
<1>20. (SizeOfSnapshot(m.snapshot) = 0 \/ HasNul(SerializeSnapshot(m.snapshot))
          <=> m.snapshot = NewSnapshot \/ NulOfSnapshot(m.snapshot)) \/ m.snapshot = None
  BY <1>1, SnapshotWrote
<1>21. HasNul(t) <=> NulOfMessage(m)
  BY <1>6, <1>7, <1>9, <1>17, <1>20, Zenon DEF NulOfMessage, Repeated, Nested, Bytes
<1> QED BY <1>17, <1>18, <1>19, <1>21, Zenon

\* The sample's class.
LEMMA helloworldWrote ==
  ASSUME NEW m \in helloworldClass
  PROVE  Wrote(Serializehelloworld(m), SizeOfhelloworld(m))
<1>1. /\ m.id \in Nat \cup {None} /\ m.name \in Seq(Byte) \cup {None}
      /\ m.email \in Seq(Byte) \cup {None} /\ m.unknown \in Seq(Byte)
  BY DEF helloworldClass
<1>2. PICK p1, p2, p3, p4, n1, n2, n3, n4 :
        /\ p1 = IF m.id = None THEN <<>> ELSE Tag(1, VARINT) \o Varint(m.id)
        /\ p2 = IF m.name = None THEN <<>> ELSE Delimited(2, m.name)
        /\ p3 = IF m.email = None THEN <<>> ELSE Delimited(3, m.email)
        /\ p4 = m.unknown
        /\ n1 = IF m.id = None THEN 0 ELSE 1 + VarintSize(m.id)
        /\ n2 = IF m.name = None THEN 0 ELSE DelimitedSize(Len(m.name))
        /\ n3 = IF m.email = None THEN 0 ELSE DelimitedSize(Len(m.email))
        /\ n4 = Len(m.unknown)
  OBVIOUS
<1>3. Wrote(p1, n1)
  <2>1. CASE m.id = None
    BY <1>2, <2>1, NothingWrote
  <2>2. CASE m.id # None
    <3>1. VARINT \in 0..7
      BY DEF VARINT
    <3>2. Wrote(Tag(1, VARINT), 1) /\ Wrote(Varint(m.id), VarintSize(m.id))
      <4>1. Wrote(Tag(1, VARINT), 1)
        BY <3>1, TagWrote
      <4>2. m.id \in Nat
        BY <1>1, <2>2
      <4>3. Wrote(Varint(m.id), VarintSize(m.id))
        BY <4>2, VarintWrote
      <4> QED BY <4>1, <4>3
    <3> QED BY <1>2, <2>2, <3>2, BothWrote
  <2> QED BY <2>1, <2>2
<1>4. Wrote(p2, n2)
  <2>1. PICK s, n : s = m.name /\ n = Len(s)
    OBVIOUS
  <2>2. s # None => Wrote(s, n)
    BY <1>1, <2>1, StringWrote
  <2>3. 2 \in 1..15
    OBVIOUS
  <2>4. /\ p2 = IF s = None THEN <<>> ELSE Delimited(2, s)
        /\ n2 = IF s = None THEN 0 ELSE DelimitedSize(n)
    BY <1>2, <2>1
  <2>5. Nested(p2, n2, s, s, n)
    BY <2>2, <2>3, <2>4, NestedWrote, Zenon
  <2> QED BY <2>5 DEF Nested
<1>5. Wrote(p3, n3)
  <2>1. PICK s, n : s = m.email /\ n = Len(s)
    OBVIOUS
  <2>2. s # None => Wrote(s, n)
    BY <1>1, <2>1, StringWrote
  <2>3. 3 \in 1..15
    OBVIOUS
  <2>4. /\ p3 = IF s = None THEN <<>> ELSE Delimited(3, s)
        /\ n3 = IF s = None THEN 0 ELSE DelimitedSize(n)
    BY <1>2, <2>1
  <2>5. Nested(p3, n3, s, s, n)
    BY <2>2, <2>3, <2>4, NestedWrote, Zenon
  <2> QED BY <2>5 DEF Nested
<1>6. Wrote(p4, n4)
  BY <1>1, <1>2, UnknownWrote DEF Bytes
<1>7. Wrote(((p1 \o p2) \o p3) \o p4, ((n1 + n2) + n3) + n4)
  BY <1>3, <1>4, <1>5, <1>6, FourWrote DEF InFour
<1>8. /\ Serializehelloworld(m) = ((p1 \o p2) \o p3) \o p4
      /\ SizeOfhelloworld(m) = ((n1 + n2) + n3) + n4
  BY <1>2, Zenon DEF Serializehelloworld, SizeOfhelloworld
<1> QED BY <1>7, <1>8
-----------------------------------------------------------------------------
(* What the accessors make of a message *)

\* Nothing that was not set: the setters' numbers or 0, no unknown fields.
Settings == Number \cup {0}

PlainConfState ==
  [nodes : Seq(Settings), learners : Seq(Settings), unknown : {<<>>}]
PlainEntry ==
  [type : Settings, term : Settings, index : Settings, data : Seq(Byte), unknown : {<<>>}]
PlainMetadata ==
  [conf_state : PlainConfState \cup {None}, index : Settings, term : Settings,
   unknown : {<<>>}]
PlainSnapshot ==
  [data : Seq(Byte), metadata : PlainMetadata \cup {None}, unknown : {<<>>}]
PlainMessage ==
  [type : Settings, to : Settings, from : Settings, term : Settings, logterm : Settings,
   index : Settings, entries : Seq(PlainEntry), commit : Settings,
   snapshot : PlainSnapshot \cup {None}, reject : {0, 1}, rejecthint : Settings,
   context : Seq(Byte), unknown : {<<>>}]

\* A sequence whose members are of T is one of T's.
LEMMA SeqOfIts ==
  ASSUME NEW S, NEW T, NEW s \in Seq(S), \A i \in 1..Len(s) : s[i] \in T
  PROVE  s \in Seq(T)
OBVIOUS

\* They are objects of the classes.
LEMMA PlainIsOfClass ==
  /\ PlainConfState \subseteq ConfStateClass /\ PlainEntry \subseteq EntryClass
  /\ PlainMetadata \subseteq SnapshotMetadataClass /\ PlainSnapshot \subseteq SnapshotClass
  /\ PlainMessage \subseteq MessageClass
<1>0. <<>> \in Seq(Byte) /\ (\A s \in Seq(Settings) : s \in Seq(Nat)) /\ \A v \in Settings : v \in Nat
  <2>2. ASSUME NEW v \in Settings PROVE v \in Nat
    BY RaftPbAssumption DEF Settings
  <2>1. ASSUME NEW s \in Seq(Settings) PROVE s \in Seq(Nat)
    <3>1. \A i \in 1..Len(s) : s[i] \in Settings
      BY ElementOfSeq
    <3>2. \A i \in 1..Len(s) : s[i] \in Nat
      BY <2>2, <3>1, Zenon
    <3> QED BY <3>2, SeqOfIts
  <2>3. <<>> \in Seq(Byte)
    OBVIOUS
  <2> QED BY <2>1, <2>2, <2>3
<1>1. ASSUME NEW m \in PlainConfState PROVE m \in ConfStateClass
  BY <1>0 DEF PlainConfState, ConfStateClass
<1>2. ASSUME NEW m \in PlainEntry PROVE m \in EntryClass
  BY <1>0 DEF PlainEntry, EntryClass
<1>3. ASSUME NEW m \in PlainMetadata PROVE m \in SnapshotMetadataClass
  BY <1>0, <1>1 DEF PlainMetadata, SnapshotMetadataClass
<1>4. ASSUME NEW m \in PlainSnapshot PROVE m \in SnapshotClass
  BY <1>0, <1>3 DEF PlainSnapshot, SnapshotClass
<1>5. ASSUME NEW s \in Seq(PlainEntry) PROVE s \in Seq(EntryClass)
  BY <1>2
<1>6. ASSUME NEW m \in PlainMessage PROVE m \in MessageClass
  BY <1>0, <1>4, <1>5 DEF PlainMessage, MessageClass
<1> QED BY <1>1, <1>2, <1>3, <1>4, <1>6

\* A new object of each class.
LEMMA NewIsPlain ==
  /\ NewConfState \in PlainConfState /\ NewEntry \in PlainEntry
  /\ NewSnapshotMetadata \in PlainMetadata /\ NewSnapshot \in PlainSnapshot
  /\ NewMessage \in PlainMessage
<1>0. 0 \in Settings
  BY DEF Settings
<1>1. NewConfState \in PlainConfState
  BY DEF PlainConfState, NewConfState
<1>2. NewEntry \in PlainEntry
  BY <1>0 DEF PlainEntry, NewEntry
<1>3. NewSnapshotMetadata \in PlainMetadata
  BY <1>0 DEF PlainMetadata, NewSnapshotMetadata
<1>4. NewSnapshot \in PlainSnapshot
  BY DEF PlainSnapshot, NewSnapshot
<1>5. NewMessage \in PlainMessage
  BY <1>0 DEF PlainMessage, NewMessage
<1> QED BY <1>1, <1>2, <1>3, <1>4, <1>5

\* What the setters are called with.
LEMMA Settable ==
  /\ \A s \in String \cup {<<>>} : s \in Seq(Byte)
  /\ \A v \in Number \cup {0} : v \in Settings /\ v \in Nat
<1>1. <<>> \in Seq(Byte) /\ 0 \in Nat /\ \A v \in Nat \ {0} : v \in Nat
  OBVIOUS
<1> QED BY <1>1, RaftPbAssumption, Zenon DEF Settings

\* The accessors of a repeated number, ...
LEMMA NumbersEditsArePlain ==
  ASSUME NEW ns \in Seq(Settings)
  PROVE  NumbersEdits(ns) \subseteq Seq(Settings)
<1> SUFFICES ASSUME NEW s \in NumbersEdits(ns) PROVE s \in Seq(Settings)
  OBVIOUS
<1>1. \A v \in Number \cup {0} : v \in Settings
  BY Settable
<1>2. CASE \E v \in Number \cup {0} : s = Append(ns, v)
  BY <1>1, <1>2
<1>3. CASE \E i \in 1..Len(ns), v \in Number \cup {0} : s = [ns EXCEPT ![i] = v]
  BY <1>1, <1>3
<1>4. CASE s = <<>>
  BY <1>4
<1> QED BY <1>2, <1>3, <1>4 DEF NumbersEdits

\* ... a ConfState, ...
LEMMA ConfStateEditsArePlain ==
  ASSUME NEW m \in PlainConfState
  PROVE  ConfStateEdits(m) \subseteq PlainConfState
<1>1. m \in [nodes : Seq(Settings), learners : Seq(Settings), unknown : {<<>>}]
  BY DEF PlainConfState
<1>2. NumbersEdits(m.nodes) \subseteq Seq(Settings) /\ NumbersEdits(m.learners) \subseteq Seq(Settings)
  BY <1>1, NumbersEditsArePlain
<1> SUFFICES ASSUME NEW c \in ConfStateEdits(m) PROVE c \in PlainConfState
  OBVIOUS
<1>3. CASE \E s \in Seq(Settings) : c = [m EXCEPT !.nodes = s]
  BY <1>1, <1>3 DEF PlainConfState
<1>4. CASE \E s \in Seq(Settings) : c = [m EXCEPT !.learners = s]
  BY <1>1, <1>4 DEF PlainConfState
<1> QED BY <1>2, <1>3, <1>4, Zenon DEF ConfStateEdits

\* ... an Entry, ...
LEMMA EntryEditsArePlain ==
  ASSUME NEW m \in PlainEntry
  PROVE  EntryEdits(m) \subseteq PlainEntry
<1>1. (\A s \in String \cup {<<>>} : s \in Seq(Byte)) /\ \A v \in Number \cup {0} : v \in Settings
  BY Settable
<1> SUFFICES ASSUME NEW e \in EntryEdits(m) PROVE e \in PlainEntry
  OBVIOUS
<1>2. CASE \E v \in Number \cup {0} :
             e \in {[m EXCEPT !.type = v], [m EXCEPT !.term = v], [m EXCEPT !.index = v]}
  BY <1>1, <1>2 DEF PlainEntry
<1>3. CASE \E s \in String \cup {<<>>} : e = [m EXCEPT !.data = s]
  BY <1>1, <1>3 DEF PlainEntry
<1> QED BY <1>2, <1>3 DEF EntryEdits

\* ... a SnapshotMetadata ...
LEMMA SnapshotMetadataEditsArePlain ==
  ASSUME NEW m \in PlainMetadata
  PROVE  SnapshotMetadataEdits(m) \subseteq PlainMetadata
<1>1. \A v \in Number \cup {0} : v \in Settings
  BY Settable
<1>2. Mutable(m.conf_state, NewConfState) \in PlainConfState
  BY NewIsPlain DEF Mutable, PlainMetadata
<1>3. ConfStateEdits(Mutable(m.conf_state, NewConfState)) \subseteq PlainConfState
  BY <1>2, ConfStateEditsArePlain
<1> SUFFICES ASSUME NEW d \in SnapshotMetadataEdits(m) PROVE d \in PlainMetadata
  OBVIOUS
<1>4. CASE \E c \in PlainConfState \cup {None} : d = [m EXCEPT !.conf_state = c]
  BY <1>4 DEF PlainMetadata
<1>5. CASE \E v \in Number \cup {0} : d \in {[m EXCEPT !.index = v], [m EXCEPT !.term = v]}
  BY <1>1, <1>5 DEF PlainMetadata
<1> QED BY <1>3, <1>4, <1>5 DEF SnapshotMetadataEdits

\* ... and a Snapshot.
LEMMA SnapshotEditsArePlain ==
  ASSUME NEW m \in PlainSnapshot
  PROVE  SnapshotEdits(m) \subseteq PlainSnapshot
<1>1. \A s \in String \cup {<<>>} : s \in Seq(Byte)
  BY Settable
<1>2. Mutable(m.metadata, NewSnapshotMetadata) \in PlainMetadata
  BY NewIsPlain DEF Mutable, PlainSnapshot
<1>3. SnapshotMetadataEdits(Mutable(m.metadata, NewSnapshotMetadata)) \subseteq PlainMetadata
  BY <1>2, SnapshotMetadataEditsArePlain
<1> SUFFICES ASSUME NEW s \in SnapshotEdits(m) PROVE s \in PlainSnapshot
  OBVIOUS
<1>4. CASE \E d \in PlainMetadata \cup {None} : s = [m EXCEPT !.metadata = d]
  BY <1>4 DEF PlainSnapshot
<1>5. CASE \E b \in String \cup {<<>>} : s = [m EXCEPT !.data = b]
  BY <1>1, <1>5 DEF PlainSnapshot
<1> QED BY <1>3, <1>4, <1>5 DEF SnapshotEdits

\* The numbers of a message, ...
LEMMA NumberEditsArePlain ==
  ASSUME NEW m \in PlainMessage
  PROVE  NumberEdits(m) \subseteq PlainMessage
<1> SUFFICES ASSUME NEW x \in NumberEdits(m) PROVE x \in PlainMessage
  OBVIOUS
<1>1. PICK v \in Number \cup {0} :
        x \in {[m EXCEPT !.type = v], [m EXCEPT !.to = v], [m EXCEPT !.from = v],
               [m EXCEPT !.term = v], [m EXCEPT !.logterm = v], [m EXCEPT !.index = v]}
  BY Zenon DEF NumberEdits
<1>2. v \in Settings
  BY Settable
<1>3. [m EXCEPT !.type = v] \in PlainMessage /\ [m EXCEPT !.to = v] \in PlainMessage
  BY <1>2 DEF PlainMessage
<1>4. [m EXCEPT !.from = v] \in PlainMessage /\ [m EXCEPT !.term = v] \in PlainMessage
  BY <1>2 DEF PlainMessage
<1>5. [m EXCEPT !.logterm = v] \in PlainMessage /\ [m EXCEPT !.index = v] \in PlainMessage
  BY <1>2 DEF PlainMessage
<1> QED BY <1>1, <1>3, <1>4, <1>5, Zenon

\* ... its entries, ...
LEMMA EntriesEditsArePlain ==
  ASSUME NEW m \in PlainMessage
  PROVE  EntriesEdits(m) \subseteq PlainMessage
<1>1. m.entries \in Seq(PlainEntry)
  BY DEF PlainMessage
<1>2. ASSUME NEW es \in Seq(PlainEntry) PROVE [m EXCEPT !.entries = es] \in PlainMessage
  BY DEF PlainMessage
<1>3. Append(m.entries, NewEntry) \in Seq(PlainEntry) /\ <<>> \in Seq(PlainEntry)
  BY <1>1, NewIsPlain
<1>4. ASSUME NEW i \in 1..Len(m.entries), NEW e \in EntryEdits(m.entries[i])
      PROVE  [m EXCEPT !.entries[i] = e] \in PlainMessage
  <2>1. m.entries[i] \in PlainEntry
    BY <1>1
  <2>2. e \in PlainEntry
    BY <2>1, EntryEditsArePlain
  <2>3. [m.entries EXCEPT ![i] = e] \in Seq(PlainEntry)
    BY <1>1, <2>2
  <2>4. [m EXCEPT !.entries[i] = e] = [m EXCEPT !.entries = [m.entries EXCEPT ![i] = e]]
    BY DEF PlainMessage
  <2> QED BY <1>2, <2>3, <2>4
<1> SUFFICES ASSUME NEW x \in EntriesEdits(m) PROVE x \in PlainMessage
  OBVIOUS
<1>5. CASE x = [m EXCEPT !.entries = Append(@, NewEntry)] \/ x = [m EXCEPT !.entries = <<>>]
  BY <1>2, <1>3, <1>5
<1>6. CASE \E i \in 1..Len(m.entries) : \E e \in EntryEdits(m.entries[i]) :
             x = [m EXCEPT !.entries[i] = e]
  BY <1>4, <1>6
<1>7. \/ x = [m EXCEPT !.entries = Append(@, NewEntry)] \/ x = [m EXCEPT !.entries = <<>>]
      \/ \E i \in 1..Len(m.entries) : \E e \in EntryEdits(m.entries[i]) :
           x = [m EXCEPT !.entries[i] = e]
  BY DEF EntriesEdits
<1> QED BY <1>5, <1>6, <1>7, Zenon

\* ... its snapshot ...
LEMMA SnapEditsArePlain ==
  ASSUME NEW m \in PlainMessage
  PROVE  SnapEdits(m) \subseteq PlainMessage
<1>1. Mutable(m.snapshot, NewSnapshot) \in PlainSnapshot
  BY NewIsPlain DEF Mutable, PlainMessage
<1>2. SnapshotEdits(Mutable(m.snapshot, NewSnapshot)) \subseteq PlainSnapshot
  BY <1>1, SnapshotEditsArePlain
<1>3. ASSUME NEW s \in PlainSnapshot \cup {None} PROVE [m EXCEPT !.snapshot = s] \in PlainMessage
  BY DEF PlainMessage
<1>4. ASSUME NEW x \in SnapEdits(m) PROVE \E s \in PlainSnapshot \cup {None} : x = [m EXCEPT !.snapshot = s]
  BY <1>2, Zenon DEF SnapEdits
<1> QED BY <1>3, <1>4

\* ... and the rest of it.
LEMMA TailEditsArePlain ==
  ASSUME NEW m \in PlainMessage
  PROVE  TailEdits(m) \subseteq PlainMessage
<1> SUFFICES ASSUME NEW x \in TailEdits(m) PROVE x \in PlainMessage
  OBVIOUS
<1>1. CASE \E v \in Number \cup {0} : x \in {[m EXCEPT !.commit = v], [m EXCEPT !.rejecthint = v]}
  BY <1>1, Settable DEF PlainMessage
<1>2. CASE \E b \in {0, 1} : x = [m EXCEPT !.reject = b]
  BY <1>2 DEF PlainMessage
<1>3. CASE \E s \in String \cup {<<>>} : x = [m EXCEPT !.context = s]
  BY <1>3, Settable DEF PlainMessage
<1> QED BY <1>1, <1>2, <1>3, Zenon DEF TailEdits

MsgIsPlain == msg \in PlainMessage

\* A step of raft.cc keeps the message one that only the accessors made.
LEMMA NextKeepsMsgPlain ==
  ASSUME MsgIsPlain, [Next]_vars
  PROVE  MsgIsPlain'
<1> USE DEF MsgIsPlain
<1>1. CASE Edit
  <2>1. msg' \in MessageEdits(msg)
    BY <1>1, Zenon DEF Edit
  <2> QED BY <2>1, NumberEditsArePlain, EntriesEditsArePlain, SnapEditsArePlain, TailEditsArePlain
          DEF MessageEdits
<1>2. CASE PopSendbuf
  <2>1. msg' = NewMessage
    BY <1>2 DEF PopSendbuf, Swap
  <2> QED BY <2>1, NewIsPlain
<1>3. CASE PushRecvbuf
  BY <1>3 DEF PushRecvbuf
<1>4. CASE UNCHANGED wireVars
  BY <1>4 DEF wireVars
<1> QED BY <1>1, <1>2, <1>3, <1>4, Zenon DEF Next, WireNext, vars

\* The first message is a new one.
LEMMA InitMsgPlain == Init => MsgIsPlain
BY NewIsPlain DEF Init, WireInit, MsgIsPlain

\* Where the NULs of such a message are.
LEMMA PlainNul ==
  ASSUME NEW m \in PlainMessage
  PROVE  HasNul(SerializeMessage(m)) <=> HoldsNul(m)
<1>1. m \in MessageClass
  BY PlainIsOfClass
<1>2. HasNul(SerializeMessage(m)) <=> NulOfMessage(m)
  BY <1>1, MessageWrote
<1>3. ~HasNul(<<>>)
  BY NothingWrote
<1>4. m.unknown = <<>>
  BY DEF PlainMessage
<1>5. (\E e \in Range(m.entries) : e = NewEntry \/ HasNul(e.data))
        <=> \E i \in 1..Len(m.entries) : NulOfEntry(m.entries[i])
  <2>1. m.entries \in Seq(PlainEntry)
    BY DEF PlainMessage
  <2>2. DOMAIN m.entries = 1..Len(m.entries)
    BY <2>1
  <2>3. \A i \in 1..Len(m.entries) : m.entries[i].unknown = <<>>
    <3>1. ASSUME NEW e \in PlainEntry PROVE e.unknown = <<>>
      BY DEF PlainEntry
    <3> QED BY <2>1, <3>1
  <2>4. \A i \in 1..Len(m.entries) :
          NulOfEntry(m.entries[i]) <=> m.entries[i] = NewEntry \/ HasNul(m.entries[i].data)
    BY <1>3, <2>3, Zenon DEF NulOfEntry
  <2> QED BY <2>2, <2>4, Zenon DEF Range
<1>6. ASSUME m.snapshot # None
      PROVE  NulOfSnapshot(m.snapshot) <=>
               \/ HasNul(m.snapshot.data)
               \/ /\ m.snapshot.metadata # None
                  /\ \/ m.snapshot.metadata = NewSnapshotMetadata
                     \/ m.snapshot.metadata.conf_state = NewConfState
                     \/ HasZero(m.snapshot.metadata.conf_state)
  <2>1. PICK s : s = m.snapshot
    OBVIOUS
  <2>2. s.metadata \in PlainMetadata \cup {None} /\ s.unknown = <<>>
    BY <1>6, <2>1 DEF PlainMessage, PlainSnapshot
  <2>3. ASSUME s.metadata # None
        PROVE  NulOfMetadata(s.metadata) <=>
                 s.metadata.conf_state = NewConfState \/ HasZero(s.metadata.conf_state)
    <3>1. PICK c : c = s.metadata.conf_state
      OBVIOUS
    <3>2. c \in PlainConfState \cup {None} /\ s.metadata.unknown = <<>>
      BY <2>2, <2>3, <3>1 DEF PlainMetadata
    <3>3. ASSUME c # None PROVE NulOfConfState(c) <=> HasZero(c)
      <4>1. c.nodes \in Seq(Settings) /\ c.learners \in Seq(Settings) /\ c.unknown = <<>>
        BY <3>2, <3>3 DEF PlainConfState
      <4>2. \A t \in Seq(Settings) : 0 \in Range(t) <=> \E i \in 1..Len(t) : t[i] = 0
        BY DEF Range
      <4>3. /\ 0 \in Range(c.nodes) <=> \E i \in 1..Len(c.nodes) : c.nodes[i] = 0
            /\ 0 \in Range(c.learners) <=> \E i \in 1..Len(c.learners) : c.learners[i] = 0
        BY <4>1, <4>2, Zenon
      <4>4. 0 \in Range(c.nodes) \cup Range(c.learners)
              <=> 0 \in Range(c.nodes) \/ 0 \in Range(c.learners)
        BY Zenon
      <4> QED BY <1>3, <3>3, <4>1, <4>3, <4>4, Zenon DEF NulOfConfState, HasZero
    <3>4. NewConfState # None
      BY NoneAssumption, NewIsPlain, PlainIsOfClass
    <3>5. c = None => ~HasZero(c)
      BY Zenon DEF HasZero
    <3> QED BY <1>3, <3>1, <3>2, <3>3, <3>4, <3>5, Zenon DEF NulOfMetadata
  <2> QED BY <1>3, <2>1, <2>2, <2>3, Zenon DEF NulOfSnapshot
<1> QED BY <1>2, <1>3, <1>4, <1>5, <1>6, Zenon DEF HoldsNul, NulOfMessage

\* handleRead() and the readers of the log file stop at a NUL: one is written only
\* for a NUL in a string, an empty entry or sub-message, or a 0 among the nodes and
\* learners, which are packed; never for another number, however large it is.
THEOREM NulOnlyForData == Spec => []NulIsInData
<1>1. MsgIsPlain => NulIsInData
  BY PlainNul DEF MsgIsPlain, NulIsInData
<1>2. MsgIsPlain /\ [Next]_vars => MsgIsPlain'
  BY NextKeepsMsgPlain
<1> QED BY <1>1, <1>2, InitMsgPlain, PTL DEF Spec
-----------------------------------------------------------------------------
(* Reading *)

\* A number's bytes, the lowest first.
LEMMA VarintValueIs ==
  ASSUME NEW s \in Seq(Byte)
  PROVE  VarintValue(s) = IF s = <<>> THEN 0 ELSE (Head(s) % 128) + 128 * VarintValue(Tail(s))
<1> DEFINE X == Seq(Byte)
           Right(g) == g = [t \in X |-> IF t = <<>> THEN 0
                                        ELSE (Head(t) % 128) + 128 * g[Tail(t)]]
           h == CHOOSE g : Right(g)
<1>1. \A t \in X : VarintValue(t) = h[t]
  BY DEF VarintValue
<1>2. \E g : Right(g)
  <2> DEFINE empty == {<<>>}
             M == [t \in X |-> Len(t)]
             B == [t \in empty |-> 0]
             P == [t \in X \ empty |-> Tail(t)]
             D == [t \in X \ empty |-> [r \in Int |-> (Head(t) % 128) + 128 * r]]
  <2>1. M \in [X -> Nat] /\ empty \in SUBSET X /\ B \in [empty -> Int]
    OBVIOUS
  <2>2. ASSUME NEW t \in X \ empty
        PROVE  Tail(t) \in X /\ Len(Tail(t)) < Len(t) /\ Head(t) \in Byte
    OBVIOUS
  <2>3. P \in [X \ empty -> X] /\ \A t \in X \ empty : M[P[t]] < M[t]
    BY <2>2
  <2>4. D \in [X \ empty -> [Int -> Int]]
    <3>1. ASSUME NEW t \in X \ empty, NEW r \in Int PROVE (Head(t) % 128) + 128 * r \in Int
      <4>1. PICK b \in 0..255 : b = Head(t)
        BY <2>2 DEF Byte
      <4> QED BY <4>1
    <3> HIDE DEF X, empty
    <3> QED BY <3>1
  <2> HIDE DEF M, B, P, D, empty, X
  <2>5. PICK f \in [X -> Int] : Descends(f, X, empty, B, P, D)
    BY <2>1, <2>3, <2>4, DescentExists
  <2>6. \A t \in empty : f[t] = 0
    BY <2>5 DEF Descends, B
  <2>7. ASSUME NEW t \in X \ empty PROVE f[t] = (Head(t) % 128) + 128 * f[Tail(t)]
    <3>1. P[t] = Tail(t) /\ P[t] \in X
      BY <2>3 DEF P
    <3>2. f[P[t]] \in Int
      BY <2>5, <3>1
    <3>3. f[t] = D[t][f[P[t]]]
      BY <2>5 DEF Descends
    <3> QED BY <3>1, <3>2, <3>3 DEF D
  <2>8. \A t \in X : t \in empty <=> t = <<>>
    BY DEF empty
  <2>9. \A t \in X : f[t] = IF t = <<>> THEN 0 ELSE (Head(t) % 128) + 128 * f[Tail(t)]
    BY <2>6, <2>7, <2>8
  <2>10. f = [t \in X |-> IF t = <<>> THEN 0 ELSE (Head(t) % 128) + 128 * f[Tail(t)]]
    BY <2>5, <2>9
  <2> QED BY <2>10
<1>3. Right(h)
  <2> HIDE DEF Right
  <2> QED BY <1>2, Zenon
<1> HIDE DEF h
<1>4. \A t \in X : h[t] = IF t = <<>> THEN 0 ELSE (Head(t) % 128) + 128 * h[Tail(t)]
  BY <1>3
<1>5. CASE s = <<>>
  BY <1>1, <1>4, <1>5
<1>6. CASE s # <<>>
  <2>1. Tail(s) \in X
    BY <1>6
  <2> QED BY <1>1, <1>4, <1>6, <2>1
<1> QED BY <1>5, <1>6

\* It is a number.
LEMMA VarintValueNat ==
  ASSUME NEW s \in Seq(Byte)
  PROVE  VarintValue(s) \in Nat
<1> DEFINE A == {n \in Nat : \A t \in Seq(Byte) : Len(t) = n => VarintValue(t) \in Nat}
<1>1. \A n \in Nat : (\A m \in 0..n - 1 : m \in A) => n \in A
  <2> SUFFICES ASSUME NEW n \in Nat, \A m \in 0..n - 1 : m \in A,
                      NEW t \in Seq(Byte), Len(t) = n
               PROVE  VarintValue(t) \in Nat
    OBVIOUS
  <2>1. CASE t = <<>>
    BY <2>1, VarintValueIs
  <2>2. CASE t # <<>>
    <3>1. Tail(t) \in Seq(Byte) /\ Len(Tail(t)) \in 0..n - 1 /\ Head(t) \in 0..255
      BY <2>2 DEF Byte
    <3>2. VarintValue(Tail(t)) \in Nat
      BY <3>1
    <3>3. VarintValue(t) = (Head(t) % 128) + 128 * VarintValue(Tail(t))
      BY <2>2, VarintValueIs
    <3>4. PICK b \in 0..255, v \in Nat : b = Head(t) /\ v = VarintValue(Tail(t))
      BY <3>1, <3>2
    <3>5. (b % 128) + 128 * v \in Nat
      OBVIOUS
    <3> QED BY <3>3, <3>4, <3>5
  <2> QED BY <2>1, <2>2
<1> HIDE DEF A
<1>2. Len(s) \in A
  BY <1>1, AllNumbers
<1> QED BY <1>2 DEF A

\* Where the first byte is that ends a number, if there is one.
LEMMA SelectIs ==
  ASSUME NEW s \in Seq(Byte), NEW k, k = SelectInSeq(s, LAMBDA b : b < 128)
  PROVE  /\ k \in 0..Len(s)
         /\ k > 0 => s[k] < 128 /\ \A i \in 1..k - 1 : ~(s[i] < 128)
         /\ k = 0 => \A i \in 1..Len(s) : ~(s[i] < 128)
<1> DEFINE I == {i \in 1..Len(s) : s[i] < 128}
<1>0. k = IF I # {} THEN Min(I) ELSE 0
  BY DEF SelectInSeq
<1>1. CASE I = {}
  BY <1>0, <1>1
<1>2. CASE I # {}
  <2>1. I \in SUBSET Nat
    OBVIOUS
  <2>2. \E i \in I : \A j \in I : i <= j
    BY <1>2, <2>1, LeastOf
  <2>3. k = CHOOSE i \in I : \A j \in I : i <= j
    BY <1>0, <1>2 DEF Min
  <2>4. k \in I /\ \A j \in I : k <= j
    BY <2>2, <2>3
  <2> QED BY <2>4
<1> QED BY <1>1, <1>2

NumberRead == [ok : BOOLEAN, value : Nat, rest : Seq(Byte)]

\* What is read is a number and what follows it.
LEMMA ReadVarintType ==
  ASSUME NEW s \in Seq(Byte)
  PROVE  /\ ReadVarint(s) \in NumberRead
         /\ Len(ReadVarint(s).rest) <= Len(s)
         /\ ReadVarint(s).ok => Len(ReadVarint(s).rest) < Len(s)
<1>1. PICK k : k = SelectInSeq(s, LAMBDA b : b < 128)
  OBVIOUS
<1>2. k \in 0..Len(s)
  BY <1>1, SelectIs
<1>3. ReadVarint(s) = IF k \notin 1..VarintLimit
                      THEN [ok |-> FALSE, value |-> 0, rest |-> <<>>]
                      ELSE [ok |-> TRUE, value |-> VarintValue(SubSeq(s, 1, k)),
                            rest |-> SubSeq(s, k + 1, Len(s))]
  BY <1>1 DEF ReadVarint
<1>4. CASE k \notin 1..VarintLimit
  <2>1. PICK r : r = ReadVarint(s)
    OBVIOUS
  <2>2. r = [ok |-> FALSE, value |-> 0, rest |-> <<>>] /\ <<>> \in Seq(Byte)
    BY <1>3, <1>4, <2>1
  <2>3. r \in NumberRead /\ Len(r.rest) = 0 /\ ~r.ok
    BY <2>2 DEF NumberRead
  <2> QED BY <2>1, <2>3
<1>5. CASE k \in 1..VarintLimit
  <2>1. PICK r, v, t : r = ReadVarint(s) /\ v = VarintValue(SubSeq(s, 1, k)) /\ t = SubSeq(s, k + 1, Len(s))
    OBVIOUS
  <2>2. k >= 1
    BY <1>5 DEF VarintLimit
  <2>3. SubSeq(s, 1, k) \in Seq(Byte) /\ t \in Seq(Byte) /\ Len(t) = Len(s) - k
    BY <1>2, <2>1, <2>2
  <2>4. v \in Nat
    BY <2>1, <2>3, VarintValueNat
  <2>5. r = [ok |-> TRUE, value |-> v, rest |-> t]
    BY <1>3, <1>5, <2>1
  <2>6. r \in NumberRead /\ r.rest = t
    BY <2>3, <2>4, <2>5 DEF NumberRead
  <2>7. Len(t) < Len(s) /\ Len(t) <= Len(s)
    BY <1>2, <2>2, <2>3
  <2> QED BY <2>1, <2>6, <2>7, Zenon
<1> QED BY <1>4, <1>5

Body == [ok : BOOLEAN, bytes : Seq(Byte), rest : Seq(Byte)]

\* The content of a field is some bytes of what follows it.
LEMMA ContentType ==
  ASSUME NEW k \in Nat, NEW s \in Seq(Byte)
  PROVE  Content(k, s) \in Body /\ Len(Content(k, s).rest) <= Len(s)
<1>1. PICK b, t : b = SubSeq(s, 1, IF k <= Len(s) THEN k ELSE Len(s)) /\ t = SubSeq(s, k + 1, Len(s))
  OBVIOUS
<1>2. b \in Seq(Byte) /\ t \in Seq(Byte) /\ Len(t) <= Len(s)
  <2>1. CASE k <= Len(s)
    BY <1>1, <2>1
  <2>2. CASE ~(k <= Len(s))
    BY <1>1, <2>2
  <2> QED BY <2>1, <2>2
<1>3. Content(k, s) = [ok |-> k <= Len(s), bytes |-> b, rest |-> t]
  BY <1>1 DEF Content
<1>4. (k <= Len(s)) \in BOOLEAN
  OBVIOUS
<1>5. PICK c : c = Content(k, s)
  OBVIOUS
<1>6. c \in Body /\ c.rest = t
  BY <1>2, <1>3, <1>4, <1>5 DEF Body
<1> QED BY <1>2, <1>5, <1>6

\* What is behind a tag.
LEMMA BodyType ==
  ASSUME NEW wire, NEW num \in NumberRead, NEW s \in Seq(Byte), Len(num.rest) <= Len(s)
  PROVE  BodyOf(wire, num, s) \in Body /\ Len(BodyOf(wire, num, s).rest) <= Len(s)
<1>1. num.ok \in BOOLEAN /\ num.value \in Nat /\ num.rest \in Seq(Byte)
  BY DEF NumberRead
<1>2. PICK b : b = BodyOf(wire, num, s)
  OBVIOUS
<1>3. CASE wire = LENGTH
  <2>1. b = Content(num.value, num.rest)
    BY <1>2, <1>3 DEF BodyOf, LENGTH, FIXED64, FIXED32
  <2>2. b \in Body /\ Len(b.rest) <= Len(num.rest)
    BY <1>1, <2>1, ContentType
  <2>3. Len(b.rest) \in Nat /\ Len(num.rest) \in Nat /\ Len(s) \in Nat
    BY <1>1, <2>2 DEF Body
  <2>4. Len(b.rest) <= Len(s)
    BY <2>2, <2>3
  <2> QED BY <1>2, <2>2, <2>4
<1>4. CASE wire # LENGTH /\ wire = FIXED64
  <2>1. b = Content(8, s)
    BY <1>2, <1>4 DEF BodyOf, LENGTH, FIXED64, FIXED32
  <2> QED BY <1>2, <2>1, ContentType
<1>5. CASE wire # LENGTH /\ wire # FIXED64 /\ wire = FIXED32
  <2>1. b = Content(4, s)
    BY <1>2, <1>5 DEF BodyOf
  <2> QED BY <1>2, <2>1, ContentType
<1>6. CASE wire # LENGTH /\ wire # FIXED64 /\ wire # FIXED32
  <2>1. b = [ok |-> num.ok, bytes |-> <<>>, rest |-> num.rest]
    BY <1>2, <1>6 DEF BodyOf
  <2>2. <<>> \in Seq(Byte)
    OBVIOUS
  <2>3. b \in Body /\ b.rest = num.rest
    BY <1>1, <2>1, <2>2 DEF Body
  <2> QED BY <1>2, <2>3
<1> QED BY <1>3, <1>4, <1>5, <1>6

Field ==
  [key : Nat \X Nat, value : Nat, bytes : Seq(Byte), raw : Seq(Byte), rest : Seq(Byte),
   end : BOOLEAN, ok : BOOLEAN]

\* The field that a stream begins with.
First(s) == FieldWith(ReadVarint(s), s)

\* What is read as one, behind which there is less.
LEMMA FirstType ==
  ASSUME NEW s \in Seq(Byte)
  PROVE  First(s) \in Field /\ (First(s).ok => Len(First(s).rest) < Len(s))
<1>1. PICK tag : tag = ReadVarint(s)
  OBVIOUS
<1>2. /\ tag \in NumberRead /\ Len(tag.rest) <= Len(s)
      /\ tag.ok => Len(tag.rest) < Len(s)
  BY <1>1, ReadVarintType
<1>3. tag.ok \in BOOLEAN /\ tag.value \in Nat /\ tag.rest \in Seq(Byte)
  BY <1>2 DEF NumberRead
<1>4. PICK num : num = ReadVarint(tag.rest)
  OBVIOUS
<1>5. num \in NumberRead /\ Len(num.rest) <= Len(tag.rest)
  BY <1>3, <1>4, ReadVarintType
<1>6. PICK body : body = BodyOf(tag.value % 8, num, tag.rest)
  OBVIOUS
<1>7. body \in Body /\ Len(body.rest) <= Len(tag.rest)
  BY <1>3, <1>5, <1>6, BodyType
<1>8. body.bytes \in Seq(Byte) /\ body.rest \in Seq(Byte) /\ num.value \in Nat
  BY <1>5, <1>7 DEF Body, NumberRead
<1>9. First(s) = FieldOf(s, tag, num, body)
  BY <1>1, <1>4, <1>6 DEF First, FieldWith, FieldBehind
<1>10. PICK f : f = First(s)
  OBVIOUS
<1>11. /\ f.key = <<tag.value \div 8, tag.value % 8>> /\ f.value = num.value
       /\ f.bytes = body.bytes /\ f.raw = SubSeq(s, 1, Len(s) - Len(body.rest))
       /\ f.rest = body.rest
       /\ f.ok => tag.ok
  BY <1>9, <1>10 DEF FieldOf
<1>12. f.raw \in Seq(Byte)
  <2>1. PICK n \in Nat : n = Len(s) - Len(body.rest) /\ n <= Len(s)
    <3>1. PICK a \in Nat, b \in Nat, c \in Nat : a = Len(s) /\ b = Len(tag.rest) /\ c = Len(body.rest)
      BY <1>3, <1>8
    <3>2. c <= b /\ b <= a
      BY <1>2, <1>7, <3>1
    <3>3. a - c \in Nat /\ a - c <= a
      BY <3>2
    <3> QED BY <3>1, <3>3
  <2> QED BY <1>11, <2>1
<1>13. f.key \in Nat \X Nat
  <2>1. tag.value \div 8 \in Nat /\ tag.value % 8 \in Nat
    BY <1>3
  <2> QED BY <1>11, <2>1
<1>14. f \in Field
  <2>1. f = [key |-> f.key, value |-> f.value, bytes |-> f.bytes, raw |-> f.raw, rest |-> f.rest,
             end |-> f.end, ok |-> f.ok]
    BY <1>9, <1>10 DEF FieldOf
  <2>2. f.end \in BOOLEAN /\ f.ok \in BOOLEAN
    BY <1>9, <1>10 DEF FieldOf
  <2>3. f.value \in Nat /\ f.bytes \in Seq(Byte) /\ f.rest \in Seq(Byte)
    BY <1>8, <1>11
  <2> QED BY <1>12, <1>13, <2>1, <2>2, <2>3 DEF Field
<1>15. f.ok => Len(f.rest) < Len(s)
  <2>1. PICK a \in Nat, b \in Nat, c \in Nat : a = Len(s) /\ b = Len(tag.rest) /\ c = Len(body.rest)
    BY <1>3, <1>8
  <2>2. c <= b /\ (tag.ok => b < a)
    BY <1>2, <1>7, <2>1
  <2>3. tag.ok => c < a
    BY <2>2
  <2> QED BY <1>11, <2>1, <2>3, Zenon
<1> QED BY <1>10, <1>14, <1>15

\* Field after field, until one ends the message or is not whole.
LEMMA FieldsAre ==
  ASSUME NEW s \in Seq(Byte)
  PROVE  Fields(s) = IF s = <<>> \/ First(s).end THEN <<>>
                     ELSE IF First(s).ok THEN <<First(s)>> \o Fields(First(s).rest)
                          ELSE <<First(s)>>
<1> DEFINE X == Seq(Byte)
           Right(g) == g = [t \in X |-> IF t = <<>> \/ First(t).end THEN <<>>
                                        ELSE IF First(t).ok THEN <<First(t)>> \o g[First(t).rest]
                                             ELSE <<First(t)>>]
           h == CHOOSE g : Right(g)
<1>1. \A t \in X : Fields(t) = h[t]
  BY DEF Fields, FieldsAt, First
<1>2. \E g : Right(g)
  <2> DEFINE T == Seq(Field)
             last == {t \in X : t = <<>> \/ First(t).end \/ ~First(t).ok}
             M == [t \in X |-> Len(t)]
             B == [t \in last |-> IF t = <<>> \/ First(t).end THEN <<>> ELSE <<First(t)>>]
             P == [t \in X \ last |-> First(t).rest]
             D == [t \in X \ last |-> [r \in T |-> <<First(t)>> \o r]]
  <2>1. M \in [X -> Nat] /\ last \in SUBSET X
    OBVIOUS
  <2>2. B \in [last -> T]
    <3>1. ASSUME NEW t \in last PROVE <<First(t)>> \in T /\ <<>> \in T
      BY FirstType
    <3> HIDE DEF T, last
    <3> QED BY <3>1
  <2>3. ASSUME NEW t \in X \ last
        PROVE  First(t) \in Field /\ First(t).ok /\ t # <<>> /\ ~First(t).end
    BY FirstType
  <2>4. ASSUME NEW t \in X \ last PROVE First(t).rest \in X /\ Len(First(t).rest) < Len(t)
    BY <2>3, FirstType DEF Field
  <2>5. P \in [X \ last -> X] /\ \A t \in X \ last : M[P[t]] < M[t]
    <3> HIDE DEF last
    <3> QED BY <2>4
  <2>6. D \in [X \ last -> [T -> T]]
    <3>1. ASSUME NEW t \in X \ last, NEW r \in T PROVE <<First(t)>> \o r \in T
      BY <2>3
    <3> HIDE DEF T, last, X
    <3> QED BY <3>1
  <2>7. \A t \in X : t \in last <=> t = <<>> \/ First(t).end \/ ~First(t).ok
    OBVIOUS
  <2> HIDE DEF M, B, P, D, last, X, T
  <2>8. PICK f \in [X -> T] : Descends(f, X, last, B, P, D)
    BY <2>1, <2>2, <2>5, <2>6, DescentExists
  <2>9. \A t \in last : f[t] = IF t = <<>> \/ First(t).end THEN <<>> ELSE <<First(t)>>
    BY <2>8 DEF Descends, B
  <2>10. ASSUME NEW t \in X \ last PROVE f[t] = <<First(t)>> \o f[First(t).rest]
    <3>1. P[t] = First(t).rest /\ P[t] \in X
      BY <2>5 DEF P
    <3>2. f[P[t]] \in T
      BY <2>8, <3>1
    <3>3. f[t] = D[t][f[P[t]]]
      BY <2>8 DEF Descends
    <3>4. D[t][f[P[t]]] = <<First(t)>> \o f[P[t]]
      BY <3>2 DEF D
    <3> QED BY <3>1, <3>3, <3>4
  <2>11. ASSUME NEW t \in X
         PROVE  f[t] = IF t = <<>> \/ First(t).end THEN <<>>
                       ELSE IF First(t).ok THEN <<First(t)>> \o f[First(t).rest]
                            ELSE <<First(t)>>
    <3>1. CASE t \in last
      BY <2>7, <2>9, <3>1, Zenon
    <3>2. CASE t \notin last
      <4>1. t \in X \ last
        BY <3>2
      <4> QED BY <2>7, <2>10, <3>2, <4>1, Zenon
    <3> QED BY <3>1, <3>2
  <2>12. f = [t \in X |-> f[t]]
    BY <2>8
  <2>13. f = [t \in X |-> IF t = <<>> \/ First(t).end THEN <<>>
                          ELSE IF First(t).ok THEN <<First(t)>> \o f[First(t).rest]
                               ELSE <<First(t)>>]
    BY <2>11, <2>12, Zenon
  <2> QED BY <2>13, Zenon
<1>3. Right(h)
  <2> HIDE DEF Right
  <2> QED BY <1>2, Zenon
<1> HIDE DEF h
<1>4. \A t \in X : h[t] = IF t = <<>> \/ First(t).end THEN <<>>
                          ELSE IF First(t).ok THEN <<First(t)>> \o h[First(t).rest]
                               ELSE <<First(t)>>
  <2> HIDE DEF X
  <2> QED BY <1>3, Zenon
<1>5. CASE s = <<>> \/ First(s).end \/ ~First(s).ok
  BY <1>1, <1>4, <1>5, Zenon
<1>6. CASE ~(s = <<>> \/ First(s).end \/ ~First(s).ok)
  <2>1. First(s).rest \in X
    BY FirstType DEF Field
  <2> QED BY <1>1, <1>4, <1>6, <2>1, Zenon
<1> QED BY <1>5, <1>6

\* So what is read is a sequence of fields.
LEMMA FieldsType ==
  ASSUME NEW s \in Seq(Byte)
  PROVE  Fields(s) \in Seq(Field)
<1> DEFINE A == {n \in Nat : \A t \in Seq(Byte) : Len(t) = n => Fields(t) \in Seq(Field)}
<1>1. \A n \in Nat : (\A m \in 0..n - 1 : m \in A) => n \in A
  <2> SUFFICES ASSUME NEW n \in Nat, \A m \in 0..n - 1 : m \in A,
                      NEW t \in Seq(Byte), Len(t) = n
               PROVE  Fields(t) \in Seq(Field)
    OBVIOUS
  <2>1. PICK f : f = First(t)
    OBVIOUS
  <2>2. f \in Field /\ (f.ok => Len(f.rest) < n)
    BY <2>1, FirstType
  <2>3. Fields(t) = IF t = <<>> \/ f.end THEN <<>>
                    ELSE IF f.ok THEN <<f>> \o Fields(f.rest) ELSE <<f>>
    BY <2>1, FieldsAre
  <2>4. <<>> \in Seq(Field) /\ <<f>> \in Seq(Field)
    BY <2>2
  <2>5. CASE f.ok
    <3>1. f.rest \in Seq(Byte) /\ Len(f.rest) \in 0..n - 1
      BY <2>2, <2>5 DEF Field
    <3>2. PICK r : r = Fields(f.rest)
      OBVIOUS
    <3>3. r \in Seq(Field)
      BY <3>1, <3>2
    <3>4. <<f>> \o r \in Seq(Field)
      BY <2>4, <3>3
    <3> QED BY <2>3, <2>4, <3>2, <3>4, Zenon
  <2>6. CASE ~f.ok
    BY <2>3, <2>4, <2>6, Zenon
  <2> QED BY <2>5, <2>6
<1> HIDE DEF A
<1>2. Len(s) \in A
  BY <1>1, AllNumbers
<1> QED BY <1>2 DEF A

\* The numbers of a packed field, up to a broken one.
LEMMA ReadPackedIs ==
  ASSUME NEW s \in Seq(Byte)
  PROVE  ReadPacked(s) = IF s = <<>> \/ ~ReadVarint(s).ok THEN <<>>
                         ELSE <<ReadVarint(s).value>> \o ReadPacked(ReadVarint(s).rest)
<1> DEFINE X == Seq(Byte)
           Right(g) == g = [t \in X |-> IF t = <<>> \/ ~ReadVarint(t).ok THEN <<>>
                                        ELSE <<ReadVarint(t).value>> \o g[ReadVarint(t).rest]]
           h == CHOOSE g : Right(g)
<1>1. \A t \in X : ReadPacked(t) = h[t]
  BY DEF ReadPacked, NumbersAt
<1>2. \E g : Right(g)
  <2> DEFINE T == Seq(Nat)
             last == {t \in X : t = <<>> \/ ~ReadVarint(t).ok}
             M == [t \in X |-> Len(t)]
             B == [t \in last |-> <<>>]
             P == [t \in X \ last |-> ReadVarint(t).rest]
             D == [t \in X \ last |-> [r \in T |-> <<ReadVarint(t).value>> \o r]]
  <2>1. M \in [X -> Nat] /\ last \in SUBSET X /\ B \in [last -> T]
    OBVIOUS
  <2>2. ASSUME NEW t \in X \ last
        PROVE  ReadVarint(t) \in NumberRead /\ ReadVarint(t).ok /\ t # <<>>
    BY ReadVarintType
  <2>3. ASSUME NEW t \in X \ last
        PROVE  ReadVarint(t).rest \in X /\ Len(ReadVarint(t).rest) < Len(t)
    BY <2>2, ReadVarintType DEF NumberRead
  <2>4. P \in [X \ last -> X] /\ \A t \in X \ last : M[P[t]] < M[t]
    <3> HIDE DEF last
    <3> QED BY <2>3
  <2>5. D \in [X \ last -> [T -> T]]
    <3>1. ASSUME NEW t \in X \ last, NEW r \in T PROVE <<ReadVarint(t).value>> \o r \in T
      BY <2>2 DEF NumberRead
    <3> HIDE DEF T, last, X
    <3> QED BY <3>1
  <2>6. \A t \in X : t \in last <=> t = <<>> \/ ~ReadVarint(t).ok
    OBVIOUS
  <2> HIDE DEF M, B, P, D, last, X, T
  <2>7. PICK f \in [X -> T] : Descends(f, X, last, B, P, D)
    BY <2>1, <2>4, <2>5, DescentExists
  <2>8. \A t \in last : f[t] = <<>>
    BY <2>7 DEF Descends, B
  <2>9. ASSUME NEW t \in X \ last PROVE f[t] = <<ReadVarint(t).value>> \o f[ReadVarint(t).rest]
    <3>1. P[t] = ReadVarint(t).rest /\ P[t] \in X
      BY <2>4 DEF P
    <3>2. f[P[t]] \in T
      BY <2>7, <3>1
    <3>3. f[t] = D[t][f[P[t]]]
      BY <2>7 DEF Descends
    <3>4. D[t][f[P[t]]] = <<ReadVarint(t).value>> \o f[P[t]]
      BY <3>2 DEF D
    <3> QED BY <3>1, <3>3, <3>4
  <2>10. ASSUME NEW t \in X
         PROVE  f[t] = IF t = <<>> \/ ~ReadVarint(t).ok THEN <<>>
                       ELSE <<ReadVarint(t).value>> \o f[ReadVarint(t).rest]
    <3>1. CASE t \in last
      BY <2>6, <2>8, <3>1, Zenon
    <3>2. CASE t \notin last
      <4>1. t \in X \ last
        BY <3>2
      <4> QED BY <2>6, <2>9, <3>2, <4>1, Zenon
    <3> QED BY <3>1, <3>2
  <2>11. f = [t \in X |-> f[t]]
    BY <2>7
  <2>12. f = [t \in X |-> IF t = <<>> \/ ~ReadVarint(t).ok THEN <<>>
                          ELSE <<ReadVarint(t).value>> \o f[ReadVarint(t).rest]]
    BY <2>10, <2>11, Zenon
  <2> QED BY <2>12, Zenon
<1>3. Right(h)
  <2> HIDE DEF Right
  <2> QED BY <1>2, Zenon
<1> HIDE DEF h
<1>4. \A t \in X : h[t] = IF t = <<>> \/ ~ReadVarint(t).ok THEN <<>>
                          ELSE <<ReadVarint(t).value>> \o h[ReadVarint(t).rest]
  <2> HIDE DEF X
  <2> QED BY <1>3, Zenon
<1>5. CASE s = <<>> \/ ~ReadVarint(s).ok
  BY <1>1, <1>4, <1>5, Zenon
<1>6. CASE ~(s = <<>> \/ ~ReadVarint(s).ok)
  <2>1. ReadVarint(s).rest \in X
    BY ReadVarintType DEF NumberRead
  <2> QED BY <1>1, <1>4, <1>6, <2>1, Zenon
<1> QED BY <1>5, <1>6

\* They are numbers.
LEMMA ReadPackedType ==
  ASSUME NEW s \in Seq(Byte)
  PROVE  ReadPacked(s) \in Seq(Nat)
<1> DEFINE A == {n \in Nat : \A t \in Seq(Byte) : Len(t) = n => ReadPacked(t) \in Seq(Nat)}
<1>1. \A n \in Nat : (\A m \in 0..n - 1 : m \in A) => n \in A
  <2> SUFFICES ASSUME NEW n \in Nat, \A m \in 0..n - 1 : m \in A,
                      NEW t \in Seq(Byte), Len(t) = n
               PROVE  ReadPacked(t) \in Seq(Nat)
    OBVIOUS
  <2>1. PICK v : v = ReadVarint(t)
    OBVIOUS
  <2>2. v \in NumberRead /\ (v.ok => Len(v.rest) < n)
    BY <2>1, ReadVarintType
  <2>3. ReadPacked(t) = IF t = <<>> \/ ~v.ok THEN <<>> ELSE <<v.value>> \o ReadPacked(v.rest)
    BY <2>1, ReadPackedIs
  <2>4. <<>> \in Seq(Nat) /\ <<v.value>> \in Seq(Nat)
    BY <2>2 DEF NumberRead
  <2>5. CASE v.ok
    <3>1. v.rest \in Seq(Byte) /\ Len(v.rest) \in 0..n - 1
      BY <2>2, <2>5 DEF NumberRead
    <3>2. PICK r : r = ReadPacked(v.rest)
      OBVIOUS
    <3>3. r \in Seq(Nat)
      BY <3>1, <3>2
    <3>4. <<v.value>> \o r \in Seq(Nat)
      BY <2>4, <3>3
    <3> QED BY <2>3, <2>4, <3>2, <3>4, Zenon
  <2>6. CASE ~v.ok
    BY <2>3, <2>4, <2>6, Zenon
  <2> QED BY <2>5, <2>6
<1> HIDE DEF A
<1>2. Len(s) \in A
  BY <1>1, AllNumbers
<1> QED BY <1>2 DEF A

\* A packed field is good if its first number is and what is behind that.
PackedBehind(t, v, b) == t = <<>> \/ (v.ok /\ b)

\* They are there to the end of it, or one is broken.
LEMMA IsPackedIs ==
  ASSUME NEW s \in Seq(Byte)
  PROVE  /\ IsPacked(s) \in BOOLEAN
         /\ IsPacked(s) = PackedBehind(s, ReadVarint(s), IsPacked(ReadVarint(s).rest))
<1> DEFINE X == Seq(Byte)
           Right(g) == g = [t \in X |-> t = <<>> \/ (ReadVarint(t).ok /\ g[ReadVarint(t).rest])]
           h == CHOOSE g : Right(g)
<1>1. \A t \in X : IsPacked(t) = h[t]
  BY DEF IsPacked, PackedAt
<1>2. \E g : Right(g)
  <2> DEFINE T == BOOLEAN
             last == {t \in X : t = <<>> \/ ~ReadVarint(t).ok}
             M == [t \in X |-> Len(t)]
             B == [t \in last |-> t = <<>>]
             P == [t \in X \ last |-> ReadVarint(t).rest]
             D == [t \in X \ last |-> [r \in T |-> r]]
  <2>1. M \in [X -> Nat] /\ last \in SUBSET X /\ B \in [last -> T]
    OBVIOUS
  <2>2. ASSUME NEW t \in X \ last
        PROVE  ReadVarint(t).rest \in X /\ Len(ReadVarint(t).rest) < Len(t)
    <3>1. ReadVarint(t) \in NumberRead /\ ReadVarint(t).ok
      BY ReadVarintType
    <3> QED BY <3>1, ReadVarintType DEF NumberRead
  <2>3. P \in [X \ last -> X] /\ \A t \in X \ last : M[P[t]] < M[t]
    <3> HIDE DEF last
    <3> QED BY <2>2
  <2>4. D \in [X \ last -> [T -> T]]
    <3> HIDE DEF T, last, X
    <3> QED OBVIOUS
  <2>5. \A t \in X : t \in last <=> t = <<>> \/ ~ReadVarint(t).ok
    OBVIOUS
  <2> HIDE DEF M, B, P, D, last, X, T
  <2>6. PICK f \in [X -> T] : Descends(f, X, last, B, P, D)
    BY <2>1, <2>3, <2>4, DescentExists
  <2>7. \A t \in last : f[t] = (t = <<>>)
    BY <2>6 DEF Descends, B
  <2>8. ASSUME NEW t \in X \ last PROVE f[t] = f[ReadVarint(t).rest]
    <3>1. P[t] = ReadVarint(t).rest /\ P[t] \in X
      BY <2>3 DEF P
    <3>2. f[P[t]] \in T
      BY <2>6, <3>1
    <3>3. f[t] = D[t][f[P[t]]]
      BY <2>6 DEF Descends
    <3>4. D[t][f[P[t]]] = f[P[t]]
      BY <3>2 DEF D
    <3> QED BY <3>1, <3>3, <3>4
  <2>9. \A t \in X : f[t] \in BOOLEAN
    BY <2>6 DEF T
  <2>10. ASSUME NEW t \in X
         PROVE  f[t] = (t = <<>> \/ (ReadVarint(t).ok /\ f[ReadVarint(t).rest]))
    <3>1. CASE t \in last
      BY <2>5, <2>7, <3>1, Zenon
    <3>2. CASE t \notin last
      <4>1. t \in X \ last
        BY <3>2
      <4> QED BY <2>5, <2>8, <2>9, <3>2, <4>1, Zenon
    <3> QED BY <3>1, <3>2
  <2>11. f = [t \in X |-> f[t]]
    BY <2>6
  <2>12. f = [t \in X |-> t = <<>> \/ (ReadVarint(t).ok /\ f[ReadVarint(t).rest])]
    BY <2>10, <2>11, Zenon
  <2> QED BY <2>12, Zenon
<1>3. Right(h)
  <2> HIDE DEF Right
  <2> QED BY <1>2, Zenon
<1> HIDE DEF h
<1>4. \A t \in X : h[t] = (t = <<>> \/ (ReadVarint(t).ok /\ h[ReadVarint(t).rest]))
  <2> HIDE DEF X
  <2> QED BY <1>3, Zenon
<1>5. ReadVarint(s).rest \in X
  BY ReadVarintType DEF NumberRead
<1> QED BY <1>1, <1>4, <1>5, Zenon DEF PackedBehind
-----------------------------------------------------------------------------
(* Merging what was read: the reader of a class as a function *)

Outcome(C) == [msg : C, ok : BOOLEAN]
Reader(C) == [C \X Field -> Outcome(C)]

StepBy(R, st, f) ==
  IF ~st.ok \/ (~f.ok /\ f.key[2] # LENGTH) THEN [st EXCEPT !.ok = FALSE]
  ELSE [R[<<st.msg, f>>] EXCEPT !.ok = @ /\ f.ok]

Reads(g, R, C, st, fs) ==
  /\ g \in [0..Len(fs) -> Outcome(C)] /\ g[0] = st
  /\ \A n \in 1..Len(fs) : g[n] = StepBy(R, g[n - 1], fs[n])

\* What is there after the fields fs.
After(R, C, st, fs) == (CHOOSE g : Reads(g, R, C, st, fs))[Len(fs)]

\* A field more.
LEMMA StepByType ==
  ASSUME NEW C, NEW R \in Reader(C), NEW st \in Outcome(C), NEW f \in Field
  PROVE  StepBy(R, st, f) \in Outcome(C)
<1>1. [st EXCEPT !.ok = FALSE] \in Outcome(C)
  BY DEF Outcome
<1>2. PICK r : r = R[<<st.msg, f>>]
  OBVIOUS
<1>3. st.msg \in C
  BY DEF Outcome
<1>4. r \in Outcome(C)
  BY <1>2, <1>3 DEF Reader
<1>5. r.ok \in BOOLEAN /\ (r.ok /\ f.ok) \in BOOLEAN
  BY <1>4 DEF Outcome
<1>6. [r EXCEPT !.ok = @ /\ f.ok] \in Outcome(C)
  BY <1>4, <1>5 DEF Outcome
<1> QED BY <1>1, <1>2, <1>6, Zenon DEF StepBy

\* There is a run through the fields.
LEMMA ReadsExists ==
  ASSUME NEW C, NEW R \in Reader(C), NEW st \in Outcome(C), NEW fs \in Seq(Field)
  PROVE  \E g : Reads(g, R, C, st, fs)
<1> DEFINE T == Outcome(C)
           N == Len(fs)
           D == [n \in 1..N |-> [x \in T |-> StepBy(R, x, fs[n])]]
<1>1. N \in Nat /\ \A n \in 1..N : fs[n] \in Field
  OBVIOUS
<1>2. D \in [1..N -> [T -> T]]
  <2>1. ASSUME NEW n \in 1..N, NEW x \in T PROVE StepBy(R, x, fs[n]) \in T
    BY <1>1, StepByType
  <2> HIDE DEF T, N
  <2> QED BY <2>1
<1>3. ASSUME NEW n \in 1..N, NEW x \in T PROVE D[n][x] = StepBy(R, x, fs[n])
  OBVIOUS
<1> HIDE DEF D, T, N
<1>4. st \in T
  BY DEF T
<1>5. PICK g \in [0..N -> T] : Recurs(g, st, N, D)
  BY <1>1, <1>2, <1>4, RecursionExists
<1>6. ASSUME NEW n \in 1..N PROVE g[n] = StepBy(R, g[n - 1], fs[n])
  <2>1. n - 1 \in 0..N
    BY <1>1
  <2>2. g[n - 1] \in T
    BY <1>5, <2>1
  <2> QED BY <1>3, <1>5, <2>2 DEF Recurs
<1>7. Reads(g, R, C, st, fs)
  BY <1>5, <1>6 DEF Reads, Recurs, T, N
<1> QED BY <1>7

\* Whatever runs through them ends at the same object.
LEMMA ReadsUnique ==
  ASSUME NEW C, NEW R \in Reader(C), NEW st \in Outcome(C), NEW fs \in Seq(Field),
         NEW h, h[0] = st,
         \A n \in 1..Len(fs) : h[n - 1] \in Outcome(C) => h[n] = StepBy(R, h[n - 1], fs[n])
  PROVE  h[Len(fs)] = After(R, C, st, fs)
<1> DEFINE N == Len(fs)
           g == CHOOSE x : Reads(x, R, C, st, fs)
           S == {n \in 0..N : h[n] = g[n]}
<1>1. Reads(g, R, C, st, fs)
  BY ReadsExists
<1> HIDE DEF g
<1>2. g[0] = st /\ (\A n \in 0..N : g[n] \in Outcome(C)) /\ N \in Nat
      /\ \A n \in 1..N : g[n] = StepBy(R, g[n - 1], fs[n])
  BY <1>1 DEF Reads
<1>3. 0 \in S
  BY <1>2
<1>4. ASSUME NEW n \in 0..N - 1, n \in S PROVE n + 1 \in S
  <2>1. PICK k \in 1..N : k = n + 1 /\ k - 1 = n
    BY <1>2
  <2>2. h[k - 1] = g[k - 1] /\ k - 1 \in 0..N
    BY <1>4, <2>1
  <2>3. h[k] = g[k]
    BY <1>2, <2>2, Zenon
  <2> QED BY <2>1, <2>3
<1> HIDE DEF S, N
<1>5. \A n \in 0..N : n \in S
  BY <1>2, <1>3, <1>4, UpTo
<1>6. N \in S
  BY <1>2, <1>5
<1> QED BY <1>6 DEF S, N, After, g

\* It is an object of the class.
LEMMA AfterType ==
  ASSUME NEW C, NEW R \in Reader(C), NEW st \in Outcome(C), NEW fs \in Seq(Field)
  PROVE  After(R, C, st, fs) \in Outcome(C)
<1> DEFINE g == CHOOSE x : Reads(x, R, C, st, fs)
<1>1. Reads(g, R, C, st, fs)
  BY ReadsExists
<1> HIDE DEF g
<1>2. Len(fs) \in 0..Len(fs)
  OBVIOUS
<1>3. g[Len(fs)] \in Outcome(C)
  BY <1>1, <1>2 DEF Reads
<1> QED BY <1>3 DEF After, g

\* What a class does not know is kept.
LEMMA UnknownKept ==
  ASSUME NEW f \in Field, NEW s \in Seq(Byte)
  PROVE  s \o (IF f.key[2] = LENGTH THEN Delimited(f.key[1], f.bytes) ELSE f.raw) \in Seq(Byte)
<1>1. f.key[1] \in Nat /\ f.bytes \in Seq(Byte) /\ f.raw \in Seq(Byte)
  BY DEF Field
<1>2. PICK k \in Nat, n \in Nat : k = 8 * f.key[1] + LENGTH /\ n = Len(f.bytes)
  <2>1. 8 * f.key[1] + LENGTH \in Nat /\ Len(f.bytes) \in Nat
    BY <1>1 DEF LENGTH
  <2> QED BY <2>1
<1>3. PICK tag, len : tag = Varint(k) /\ len = Varint(n)
  OBVIOUS
<1>4. tag \in Seq(Byte) /\ len \in Seq(Byte)
  BY <1>3, VarintWrote DEF Wrote
<1>5. Delimited(f.key[1], f.bytes) = (tag \o len) \o f.bytes
  BY <1>2, <1>3 DEF Delimited, Tag
<1>6. (tag \o len) \o f.bytes \in Seq(Byte)
  BY <1>1, <1>4
<1> QED BY <1>1, <1>5, <1>6

\* Reading a field of a ConfState.
LEMMA ReadConfStateType ==
  ASSUME NEW m \in ConfStateClass, NEW f \in Field
  PROVE  ReadConfState(m, f) \in Outcome(ConfStateClass)
<1>1. f.value \in Nat /\ f.bytes \in Seq(Byte)
  BY DEF Field
<1>2. ASSUME NEW e \in ConfStateClass PROVE Good(e) \in Outcome(ConfStateClass)
  BY DEF Good, Outcome
<1>3. /\ [m EXCEPT !.nodes = @ \o ReadPacked(f.bytes)] \in ConfStateClass
      /\ [m EXCEPT !.nodes = Append(@, f.value)] \in ConfStateClass
      /\ [m EXCEPT !.learners = @ \o ReadPacked(f.bytes)] \in ConfStateClass
      /\ [m EXCEPT !.learners = Append(@, f.value)] \in ConfStateClass
  <2>1. PICK ns \in Seq(Nat) : ns = ReadPacked(f.bytes)
    BY <1>1, ReadPackedType
  <2>2. m.nodes \in Seq(Nat) /\ m.learners \in Seq(Nat)
    BY DEF ConfStateClass
  <2>3. /\ m.nodes \o ns \in Seq(Nat) /\ m.learners \o ns \in Seq(Nat)
        /\ Append(m.nodes, f.value) \in Seq(Nat) /\ Append(m.learners, f.value) \in Seq(Nat)
    BY <1>1, <2>2
  <2>4. ASSUME NEW v \in Seq(Nat)
        PROVE  [m EXCEPT !.nodes = v] \in ConfStateClass /\ [m EXCEPT !.learners = v] \in ConfStateClass
    BY DEF ConfStateClass
  <2> QED BY <2>1, <2>3, <2>4
<1>4. Unknown(m, f) \in Outcome(ConfStateClass)
  <2>1. PICK u : u = m.unknown \o (IF f.key[2] = LENGTH THEN Delimited(f.key[1], f.bytes) ELSE f.raw)
    OBVIOUS
  <2>2. u \in Seq(Byte)
    BY <2>1, UnknownKept DEF ConfStateClass
  <2>3. [m EXCEPT !.unknown = u] \in ConfStateClass
    BY <2>2 DEF ConfStateClass
  <2> QED BY <1>2, <2>1, <2>3 DEF Unknown
<1>5. ASSUME NEW e \in ConfStateClass
      PROVE  [msg |-> e, ok |-> IsPacked(f.bytes)] \in Outcome(ConfStateClass)
  <2>1. PICK b \in BOOLEAN : b = IsPacked(f.bytes)
    BY <1>1, IsPackedIs
  <2> QED BY <2>1 DEF Outcome
<1> QED BY <1>2, <1>3, <1>4, <1>5, Zenon DEF ReadConfState

ConfStateReader == [p \in ConfStateClass \X Field |-> ReadConfState(p[1], p[2])]

\* Parsing is reading field after field with this reader.
LEMMA ParseConfStateIs ==
  ASSUME NEW m \in ConfStateClass, NEW s \in Seq(Byte)
  PROVE  /\ ConfStateReader \in Reader(ConfStateClass)
         /\ Good(m) \in Outcome(ConfStateClass) /\ Fields(s) \in Seq(Field)
         /\ ParseConfState(m, s) = After(ConfStateReader, ConfStateClass, Good(m), Fields(s))
<1> DEFINE N == Len(Fields(s))
           T == Outcome(ConfStateClass)
           Step(st, f) ==
             IF ~st.ok \/ (~f.ok /\ f.key[2] # LENGTH) THEN [st EXCEPT !.ok = FALSE]
             ELSE [ReadConfState(st.msg, f) EXCEPT !.ok = @ /\ f.ok]
           Right(g) == g = [n \in 0..N |-> IF n = 0 THEN [msg |-> m, ok |-> TRUE]
                                           ELSE Step(g[n - 1], Fields(s)[n])]
           h == CHOOSE g : Right(g)
<1>1. ParseConfState(m, s) = h[N]
  BY DEF ParseConfState, Merged, MergedFields, MergedField
<1>2. Fields(s) \in Seq(Field) /\ N \in Nat /\ \A n \in 1..N : Fields(s)[n] \in Field
  BY FieldsType
<1>3. ConfStateReader \in Reader(ConfStateClass)
  BY ReadConfStateType DEF ConfStateReader, Reader
<1>4. Good(m) \in T /\ Good(m) = [msg |-> m, ok |-> TRUE]
  BY DEF Good, Outcome
<1>5. ASSUME NEW st \in T, NEW f \in Field PROVE Step(st, f) = StepBy(ConfStateReader, st, f)
  <2>1. st.msg \in ConfStateClass
    BY DEF Outcome
  <2>2. ConfStateReader[<<st.msg, f>>] = ReadConfState(st.msg, f)
    BY <2>1 DEF ConfStateReader
  <2> QED BY <2>2, Zenon DEF StepBy
<1> HIDE DEF Step, N, T
<1>6. PICK g : Reads(g, ConfStateReader, ConfStateClass, Good(m), Fields(s))
  BY <1>2, <1>3, <1>4, ReadsExists DEF T
<1>7. ASSUME NEW n \in 1..N PROVE g[n - 1] \in T /\ g[n] = Step(g[n - 1], Fields(s)[n])
  <2>1. n - 1 \in 0..N
    BY <1>2
  <2>2. g[n - 1] \in T
    BY <1>6, <2>1 DEF Reads, N, T
  <2>3. g[n] = StepBy(ConfStateReader, g[n - 1], Fields(s)[n])
    BY <1>6 DEF Reads, N
  <2> QED BY <1>2, <1>5, <2>2, <2>3
<1>8. g = [n \in 0..N |-> g[n]] /\ g[0] = [msg |-> m, ok |-> TRUE]
  BY <1>4, <1>6 DEF Reads, N
<1>9. Right(g)
  <2>1. ASSUME NEW n \in 0..N
        PROVE  g[n] = IF n = 0 THEN [msg |-> m, ok |-> TRUE] ELSE Step(g[n - 1], Fields(s)[n])
    <3>1. CASE n = 0
      BY <1>8, <3>1, Zenon
    <3>2. CASE n # 0
      <4>1. n \in 1..N
        BY <1>2, <3>2
      <4> QED BY <1>7, <3>2, <4>1, Zenon
    <3> QED BY <3>1, <3>2
  <2> QED BY <1>8, <2>1, Zenon
<1>10. Right(h)
  <2> HIDE DEF Right
  <2> QED BY <1>9, Zenon
<1> HIDE DEF h
<1>11. h[0] = Good(m)
  BY <1>2, <1>4, <1>10
<1>12. ASSUME NEW n \in 1..N, h[n - 1] \in T
       PROVE  h[n] = StepBy(ConfStateReader, h[n - 1], Fields(s)[n])
  <2>1. n \in 0..N /\ n # 0
    BY <1>2
  <2>2. h[n] = Step(h[n - 1], Fields(s)[n])
    BY <1>10, <2>1, Zenon
  <2> QED BY <1>2, <1>5, <1>12, <2>2
<1>13. h[N] = After(ConfStateReader, ConfStateClass, Good(m), Fields(s))
  BY <1>2, <1>3, <1>4, <1>11, <1>12, ReadsUnique DEF N, T
<1> QED BY <1>1, <1>2, <1>3, <1>4, <1>13 DEF T

\* What comes of it is of the class.
LEMMA ParseConfStateType ==
  ASSUME NEW m \in ConfStateClass, NEW s \in Seq(Byte)
  PROVE  ParseConfState(m, s) \in Outcome(ConfStateClass)
BY ParseConfStateIs, AfterType

\* Reading a field of an Entry.
LEMMA ReadEntryType ==
  ASSUME NEW m \in EntryClass, NEW f \in Field
  PROVE  ReadEntry(m, f) \in Outcome(EntryClass)
<1>1. f.value \in Nat /\ f.bytes \in Seq(Byte)
  BY DEF Field
<1>2. ASSUME NEW e \in EntryClass PROVE Good(e) \in Outcome(EntryClass)
  BY DEF Good, Outcome
<1>3. /\ [m EXCEPT !.type = f.value] \in EntryClass /\ [m EXCEPT !.term = f.value] \in EntryClass
      /\ [m EXCEPT !.index = f.value] \in EntryClass /\ [m EXCEPT !.data = f.bytes] \in EntryClass
  BY <1>1 DEF EntryClass
<1>4. Unknown(m, f) \in Outcome(EntryClass)
  <2>1. PICK u : u = m.unknown \o (IF f.key[2] = LENGTH THEN Delimited(f.key[1], f.bytes) ELSE f.raw)
    OBVIOUS
  <2>2. u \in Seq(Byte)
    BY <2>1, UnknownKept DEF EntryClass
  <2>3. [m EXCEPT !.unknown = u] \in EntryClass
    BY <2>2 DEF EntryClass
  <2> QED BY <1>2, <2>1, <2>3 DEF Unknown
<1> QED BY <1>2, <1>3, <1>4, Zenon DEF ReadEntry

EntryReader == [p \in EntryClass \X Field |-> ReadEntry(p[1], p[2])]

\* Parsing is reading field after field with this reader.
LEMMA ParseEntryIs ==
  ASSUME NEW m \in EntryClass, NEW s \in Seq(Byte)
  PROVE  /\ EntryReader \in Reader(EntryClass)
         /\ Good(m) \in Outcome(EntryClass) /\ Fields(s) \in Seq(Field)
         /\ ParseEntry(m, s) = After(EntryReader, EntryClass, Good(m), Fields(s))
<1> DEFINE N == Len(Fields(s))
           T == Outcome(EntryClass)
           Step(st, f) ==
             IF ~st.ok \/ (~f.ok /\ f.key[2] # LENGTH) THEN [st EXCEPT !.ok = FALSE]
             ELSE [ReadEntry(st.msg, f) EXCEPT !.ok = @ /\ f.ok]
           Right(g) == g = [n \in 0..N |-> IF n = 0 THEN [msg |-> m, ok |-> TRUE]
                                           ELSE Step(g[n - 1], Fields(s)[n])]
           h == CHOOSE g : Right(g)
<1>1. ParseEntry(m, s) = h[N]
  BY DEF ParseEntry, Merged, MergedFields, MergedField
<1>2. Fields(s) \in Seq(Field) /\ N \in Nat /\ \A n \in 1..N : Fields(s)[n] \in Field
  BY FieldsType
<1>3. EntryReader \in Reader(EntryClass)
  BY ReadEntryType DEF EntryReader, Reader
<1>4. Good(m) \in T /\ Good(m) = [msg |-> m, ok |-> TRUE]
  BY DEF Good, Outcome
<1>5. ASSUME NEW st \in T, NEW f \in Field PROVE Step(st, f) = StepBy(EntryReader, st, f)
  <2>1. st.msg \in EntryClass
    BY DEF Outcome
  <2>2. EntryReader[<<st.msg, f>>] = ReadEntry(st.msg, f)
    BY <2>1 DEF EntryReader
  <2> QED BY <2>2, Zenon DEF StepBy
<1> HIDE DEF Step, N, T
<1>6. PICK g : Reads(g, EntryReader, EntryClass, Good(m), Fields(s))
  BY <1>2, <1>3, <1>4, ReadsExists DEF T
<1>7. ASSUME NEW n \in 1..N PROVE g[n - 1] \in T /\ g[n] = Step(g[n - 1], Fields(s)[n])
  <2>1. n - 1 \in 0..N
    BY <1>2
  <2>2. g[n - 1] \in T
    BY <1>6, <2>1 DEF Reads, N, T
  <2>3. g[n] = StepBy(EntryReader, g[n - 1], Fields(s)[n])
    BY <1>6 DEF Reads, N
  <2> QED BY <1>2, <1>5, <2>2, <2>3
<1>8. g = [n \in 0..N |-> g[n]] /\ g[0] = [msg |-> m, ok |-> TRUE]
  BY <1>4, <1>6 DEF Reads, N
<1>9. Right(g)
  <2>1. ASSUME NEW n \in 0..N
        PROVE  g[n] = IF n = 0 THEN [msg |-> m, ok |-> TRUE] ELSE Step(g[n - 1], Fields(s)[n])
    <3>1. CASE n = 0
      BY <1>8, <3>1, Zenon
    <3>2. CASE n # 0
      <4>1. n \in 1..N
        BY <1>2, <3>2
      <4> QED BY <1>7, <3>2, <4>1, Zenon
    <3> QED BY <3>1, <3>2
  <2> QED BY <1>8, <2>1, Zenon
<1>10. Right(h)
  <2> HIDE DEF Right
  <2> QED BY <1>9, Zenon
<1> HIDE DEF h
<1>11. h[0] = Good(m)
  BY <1>2, <1>4, <1>10
<1>12. ASSUME NEW n \in 1..N, h[n - 1] \in T
       PROVE  h[n] = StepBy(EntryReader, h[n - 1], Fields(s)[n])
  <2>1. n \in 0..N /\ n # 0
    BY <1>2
  <2>2. h[n] = Step(h[n - 1], Fields(s)[n])
    BY <1>10, <2>1, Zenon
  <2> QED BY <1>2, <1>5, <1>12, <2>2
<1>13. h[N] = After(EntryReader, EntryClass, Good(m), Fields(s))
  BY <1>2, <1>3, <1>4, <1>11, <1>12, ReadsUnique DEF N, T
<1> QED BY <1>1, <1>2, <1>3, <1>4, <1>13 DEF T

\* What comes of it is of the class.
LEMMA ParseEntryType ==
  ASSUME NEW m \in EntryClass, NEW s \in Seq(Byte)
  PROVE  ParseEntry(m, s) \in Outcome(EntryClass)
BY ParseEntryIs, AfterType

\* Reading a field of a SnapshotMetadata.
LEMMA ReadSnapshotMetadataType ==
  ASSUME NEW m \in SnapshotMetadataClass, NEW f \in Field
  PROVE  ReadSnapshotMetadata(m, f) \in Outcome(SnapshotMetadataClass)
<1>1. f.value \in Nat /\ f.bytes \in Seq(Byte)
  BY DEF Field
<1>2. ASSUME NEW e \in SnapshotMetadataClass PROVE Good(e) \in Outcome(SnapshotMetadataClass)
  BY DEF Good, Outcome
<1>3. /\ [m EXCEPT !.index = f.value] \in SnapshotMetadataClass
      /\ [m EXCEPT !.term = f.value] \in SnapshotMetadataClass
  BY <1>1 DEF SnapshotMetadataClass
<1>4. Unknown(m, f) \in Outcome(SnapshotMetadataClass)
  <2>1. PICK u : u = m.unknown \o (IF f.key[2] = LENGTH THEN Delimited(f.key[1], f.bytes) ELSE f.raw)
    OBVIOUS
  <2>2. u \in Seq(Byte)
    BY <2>1, UnknownKept DEF SnapshotMetadataClass
  <2>3. [m EXCEPT !.unknown = u] \in SnapshotMetadataClass
    BY <2>2 DEF SnapshotMetadataClass
  <2> QED BY <1>2, <2>1, <2>3 DEF Unknown
<1>5. Filled(m, "conf_state", ParseConfState(Mutable(m.conf_state, NewConfState), f.bytes)) \in Outcome(SnapshotMetadataClass)
  <2>1. PICK o : o = ParseConfState(Mutable(m.conf_state, NewConfState), f.bytes)
    OBVIOUS
  <2>2. Mutable(m.conf_state, NewConfState) \in ConfStateClass
    BY NewIsPlain, PlainIsOfClass DEF Mutable, SnapshotMetadataClass
  <2>3. o \in Outcome(ConfStateClass)
    BY <1>1, <2>1, <2>2, ParseConfStateType
  <2>4. o.msg \in ConfStateClass /\ o.ok \in BOOLEAN
    BY <2>3 DEF Outcome
  <2>5. [m EXCEPT !.conf_state = o.msg] \in SnapshotMetadataClass
    BY <2>4 DEF SnapshotMetadataClass
  <2>6. Filled(m, "conf_state", o) \in Outcome(SnapshotMetadataClass)
    BY <2>4, <2>5 DEF Filled, Outcome
  <2> QED BY <2>1, <2>6
<1> QED BY <1>2, <1>3, <1>4, <1>5, Zenon DEF ReadSnapshotMetadata

SnapshotMetadataReader == [p \in SnapshotMetadataClass \X Field |-> ReadSnapshotMetadata(p[1], p[2])]

\* Parsing is reading field after field with this reader.
LEMMA ParseSnapshotMetadataIs ==
  ASSUME NEW m \in SnapshotMetadataClass, NEW s \in Seq(Byte)
  PROVE  /\ SnapshotMetadataReader \in Reader(SnapshotMetadataClass)
         /\ Good(m) \in Outcome(SnapshotMetadataClass) /\ Fields(s) \in Seq(Field)
         /\ ParseSnapshotMetadata(m, s) = After(SnapshotMetadataReader, SnapshotMetadataClass, Good(m), Fields(s))
<1> DEFINE N == Len(Fields(s))
           T == Outcome(SnapshotMetadataClass)
           Step(st, f) ==
             IF ~st.ok \/ (~f.ok /\ f.key[2] # LENGTH) THEN [st EXCEPT !.ok = FALSE]
             ELSE [ReadSnapshotMetadata(st.msg, f) EXCEPT !.ok = @ /\ f.ok]
           Right(g) == g = [n \in 0..N |-> IF n = 0 THEN [msg |-> m, ok |-> TRUE]
                                           ELSE Step(g[n - 1], Fields(s)[n])]
           h == CHOOSE g : Right(g)
<1>1. ParseSnapshotMetadata(m, s) = h[N]
  BY DEF ParseSnapshotMetadata, Merged, MergedFields, MergedField
<1>2. Fields(s) \in Seq(Field) /\ N \in Nat /\ \A n \in 1..N : Fields(s)[n] \in Field
  BY FieldsType
<1>3. SnapshotMetadataReader \in Reader(SnapshotMetadataClass)
  BY ReadSnapshotMetadataType DEF SnapshotMetadataReader, Reader
<1>4. Good(m) \in T /\ Good(m) = [msg |-> m, ok |-> TRUE]
  BY DEF Good, Outcome
<1>5. ASSUME NEW st \in T, NEW f \in Field PROVE Step(st, f) = StepBy(SnapshotMetadataReader, st, f)
  <2>1. st.msg \in SnapshotMetadataClass
    BY DEF Outcome
  <2>2. SnapshotMetadataReader[<<st.msg, f>>] = ReadSnapshotMetadata(st.msg, f)
    BY <2>1 DEF SnapshotMetadataReader
  <2> QED BY <2>2, Zenon DEF StepBy
<1> HIDE DEF Step, N, T
<1>6. PICK g : Reads(g, SnapshotMetadataReader, SnapshotMetadataClass, Good(m), Fields(s))
  BY <1>2, <1>3, <1>4, ReadsExists DEF T
<1>7. ASSUME NEW n \in 1..N PROVE g[n - 1] \in T /\ g[n] = Step(g[n - 1], Fields(s)[n])
  <2>1. n - 1 \in 0..N
    BY <1>2
  <2>2. g[n - 1] \in T
    BY <1>6, <2>1 DEF Reads, N, T
  <2>3. g[n] = StepBy(SnapshotMetadataReader, g[n - 1], Fields(s)[n])
    BY <1>6 DEF Reads, N
  <2> QED BY <1>2, <1>5, <2>2, <2>3
<1>8. g = [n \in 0..N |-> g[n]] /\ g[0] = [msg |-> m, ok |-> TRUE]
  BY <1>4, <1>6 DEF Reads, N
<1>9. Right(g)
  <2>1. ASSUME NEW n \in 0..N
        PROVE  g[n] = IF n = 0 THEN [msg |-> m, ok |-> TRUE] ELSE Step(g[n - 1], Fields(s)[n])
    <3>1. CASE n = 0
      BY <1>8, <3>1, Zenon
    <3>2. CASE n # 0
      <4>1. n \in 1..N
        BY <1>2, <3>2
      <4> QED BY <1>7, <3>2, <4>1, Zenon
    <3> QED BY <3>1, <3>2
  <2> QED BY <1>8, <2>1, Zenon
<1>10. Right(h)
  <2> HIDE DEF Right
  <2> QED BY <1>9, Zenon
<1> HIDE DEF h
<1>11. h[0] = Good(m)
  BY <1>2, <1>4, <1>10
<1>12. ASSUME NEW n \in 1..N, h[n - 1] \in T
       PROVE  h[n] = StepBy(SnapshotMetadataReader, h[n - 1], Fields(s)[n])
  <2>1. n \in 0..N /\ n # 0
    BY <1>2
  <2>2. h[n] = Step(h[n - 1], Fields(s)[n])
    BY <1>10, <2>1, Zenon
  <2> QED BY <1>2, <1>5, <1>12, <2>2
<1>13. h[N] = After(SnapshotMetadataReader, SnapshotMetadataClass, Good(m), Fields(s))
  BY <1>2, <1>3, <1>4, <1>11, <1>12, ReadsUnique DEF N, T
<1> QED BY <1>1, <1>2, <1>3, <1>4, <1>13 DEF T

\* What comes of it is of the class.
LEMMA ParseSnapshotMetadataType ==
  ASSUME NEW m \in SnapshotMetadataClass, NEW s \in Seq(Byte)
  PROVE  ParseSnapshotMetadata(m, s) \in Outcome(SnapshotMetadataClass)
BY ParseSnapshotMetadataIs, AfterType

\* Reading a field of a Snapshot.
LEMMA ReadSnapshotType ==
  ASSUME NEW m \in SnapshotClass, NEW f \in Field
  PROVE  ReadSnapshot(m, f) \in Outcome(SnapshotClass)
<1>1. f.value \in Nat /\ f.bytes \in Seq(Byte)
  BY DEF Field
<1>2. ASSUME NEW e \in SnapshotClass PROVE Good(e) \in Outcome(SnapshotClass)
  BY DEF Good, Outcome
<1>3. [m EXCEPT !.data = f.bytes] \in SnapshotClass
  BY <1>1 DEF SnapshotClass
<1>4. Unknown(m, f) \in Outcome(SnapshotClass)
  <2>1. PICK u : u = m.unknown \o (IF f.key[2] = LENGTH THEN Delimited(f.key[1], f.bytes) ELSE f.raw)
    OBVIOUS
  <2>2. u \in Seq(Byte)
    BY <2>1, UnknownKept DEF SnapshotClass
  <2>3. [m EXCEPT !.unknown = u] \in SnapshotClass
    BY <2>2 DEF SnapshotClass
  <2> QED BY <1>2, <2>1, <2>3 DEF Unknown
<1>5. Filled(m, "metadata", ParseSnapshotMetadata(Mutable(m.metadata, NewSnapshotMetadata), f.bytes)) \in Outcome(SnapshotClass)
  <2>1. PICK o : o = ParseSnapshotMetadata(Mutable(m.metadata, NewSnapshotMetadata), f.bytes)
    OBVIOUS
  <2>2. Mutable(m.metadata, NewSnapshotMetadata) \in SnapshotMetadataClass
    BY NewIsPlain, PlainIsOfClass DEF Mutable, SnapshotClass
  <2>3. o \in Outcome(SnapshotMetadataClass)
    BY <1>1, <2>1, <2>2, ParseSnapshotMetadataType
  <2>4. o.msg \in SnapshotMetadataClass /\ o.ok \in BOOLEAN
    BY <2>3 DEF Outcome
  <2>5. [m EXCEPT !.metadata = o.msg] \in SnapshotClass
    BY <2>4 DEF SnapshotClass
  <2>6. Filled(m, "metadata", o) \in Outcome(SnapshotClass)
    BY <2>4, <2>5 DEF Filled, Outcome
  <2> QED BY <2>1, <2>6
<1> QED BY <1>2, <1>3, <1>4, <1>5, Zenon DEF ReadSnapshot

SnapshotReader == [p \in SnapshotClass \X Field |-> ReadSnapshot(p[1], p[2])]

\* Parsing is reading field after field with this reader.
LEMMA ParseSnapshotIs ==
  ASSUME NEW m \in SnapshotClass, NEW s \in Seq(Byte)
  PROVE  /\ SnapshotReader \in Reader(SnapshotClass)
         /\ Good(m) \in Outcome(SnapshotClass) /\ Fields(s) \in Seq(Field)
         /\ ParseSnapshot(m, s) = After(SnapshotReader, SnapshotClass, Good(m), Fields(s))
<1> DEFINE N == Len(Fields(s))
           T == Outcome(SnapshotClass)
           Step(st, f) ==
             IF ~st.ok \/ (~f.ok /\ f.key[2] # LENGTH) THEN [st EXCEPT !.ok = FALSE]
             ELSE [ReadSnapshot(st.msg, f) EXCEPT !.ok = @ /\ f.ok]
           Right(g) == g = [n \in 0..N |-> IF n = 0 THEN [msg |-> m, ok |-> TRUE]
                                           ELSE Step(g[n - 1], Fields(s)[n])]
           h == CHOOSE g : Right(g)
<1>1. ParseSnapshot(m, s) = h[N]
  BY DEF ParseSnapshot, Merged, MergedFields, MergedField
<1>2. Fields(s) \in Seq(Field) /\ N \in Nat /\ \A n \in 1..N : Fields(s)[n] \in Field
  BY FieldsType
<1>3. SnapshotReader \in Reader(SnapshotClass)
  BY ReadSnapshotType DEF SnapshotReader, Reader
<1>4. Good(m) \in T /\ Good(m) = [msg |-> m, ok |-> TRUE]
  BY DEF Good, Outcome
<1>5. ASSUME NEW st \in T, NEW f \in Field PROVE Step(st, f) = StepBy(SnapshotReader, st, f)
  <2>1. st.msg \in SnapshotClass
    BY DEF Outcome
  <2>2. SnapshotReader[<<st.msg, f>>] = ReadSnapshot(st.msg, f)
    BY <2>1 DEF SnapshotReader
  <2> QED BY <2>2, Zenon DEF StepBy
<1> HIDE DEF Step, N, T
<1>6. PICK g : Reads(g, SnapshotReader, SnapshotClass, Good(m), Fields(s))
  BY <1>2, <1>3, <1>4, ReadsExists DEF T
<1>7. ASSUME NEW n \in 1..N PROVE g[n - 1] \in T /\ g[n] = Step(g[n - 1], Fields(s)[n])
  <2>1. n - 1 \in 0..N
    BY <1>2
  <2>2. g[n - 1] \in T
    BY <1>6, <2>1 DEF Reads, N, T
  <2>3. g[n] = StepBy(SnapshotReader, g[n - 1], Fields(s)[n])
    BY <1>6 DEF Reads, N
  <2> QED BY <1>2, <1>5, <2>2, <2>3
<1>8. g = [n \in 0..N |-> g[n]] /\ g[0] = [msg |-> m, ok |-> TRUE]
  BY <1>4, <1>6 DEF Reads, N
<1>9. Right(g)
  <2>1. ASSUME NEW n \in 0..N
        PROVE  g[n] = IF n = 0 THEN [msg |-> m, ok |-> TRUE] ELSE Step(g[n - 1], Fields(s)[n])
    <3>1. CASE n = 0
      BY <1>8, <3>1, Zenon
    <3>2. CASE n # 0
      <4>1. n \in 1..N
        BY <1>2, <3>2
      <4> QED BY <1>7, <3>2, <4>1, Zenon
    <3> QED BY <3>1, <3>2
  <2> QED BY <1>8, <2>1, Zenon
<1>10. Right(h)
  <2> HIDE DEF Right
  <2> QED BY <1>9, Zenon
<1> HIDE DEF h
<1>11. h[0] = Good(m)
  BY <1>2, <1>4, <1>10
<1>12. ASSUME NEW n \in 1..N, h[n - 1] \in T
       PROVE  h[n] = StepBy(SnapshotReader, h[n - 1], Fields(s)[n])
  <2>1. n \in 0..N /\ n # 0
    BY <1>2
  <2>2. h[n] = Step(h[n - 1], Fields(s)[n])
    BY <1>10, <2>1, Zenon
  <2> QED BY <1>2, <1>5, <1>12, <2>2
<1>13. h[N] = After(SnapshotReader, SnapshotClass, Good(m), Fields(s))
  BY <1>2, <1>3, <1>4, <1>11, <1>12, ReadsUnique DEF N, T
<1> QED BY <1>1, <1>2, <1>3, <1>4, <1>13 DEF T

\* What comes of it is of the class.
LEMMA ParseSnapshotType ==
  ASSUME NEW m \in SnapshotClass, NEW s \in Seq(Byte)
  PROVE  ParseSnapshot(m, s) \in Outcome(SnapshotClass)
BY ParseSnapshotIs, AfterType

\* Reading a field of a HardState.
LEMMA ReadHardStateType ==
  ASSUME NEW m \in HardStateClass, NEW f \in Field
  PROVE  ReadHardState(m, f) \in Outcome(HardStateClass)
<1>1. f.value \in Nat /\ f.bytes \in Seq(Byte)
  BY DEF Field
<1>2. ASSUME NEW e \in HardStateClass PROVE Good(e) \in Outcome(HardStateClass)
  BY DEF Good, Outcome
<1>3. /\ [m EXCEPT !.term = f.value] \in HardStateClass
      /\ [m EXCEPT !.vote = f.value] \in HardStateClass
      /\ [m EXCEPT !.commit = f.value] \in HardStateClass
  BY <1>1 DEF HardStateClass
<1>4. Unknown(m, f) \in Outcome(HardStateClass)
  <2>1. PICK u : u = m.unknown \o (IF f.key[2] = LENGTH THEN Delimited(f.key[1], f.bytes) ELSE f.raw)
    OBVIOUS
  <2>2. u \in Seq(Byte)
    BY <2>1, UnknownKept DEF HardStateClass
  <2>3. [m EXCEPT !.unknown = u] \in HardStateClass
    BY <2>2 DEF HardStateClass
  <2> QED BY <1>2, <2>1, <2>3 DEF Unknown
<1> QED BY <1>2, <1>3, <1>4, Zenon DEF ReadHardState

HardStateReader == [p \in HardStateClass \X Field |-> ReadHardState(p[1], p[2])]

\* Parsing is reading field after field with this reader.
LEMMA ParseHardStateIs ==
  ASSUME NEW m \in HardStateClass, NEW s \in Seq(Byte)
  PROVE  /\ HardStateReader \in Reader(HardStateClass)
         /\ Good(m) \in Outcome(HardStateClass) /\ Fields(s) \in Seq(Field)
         /\ ParseHardState(m, s) = After(HardStateReader, HardStateClass, Good(m), Fields(s))
<1> DEFINE N == Len(Fields(s))
           T == Outcome(HardStateClass)
           Step(st, f) ==
             IF ~st.ok \/ (~f.ok /\ f.key[2] # LENGTH) THEN [st EXCEPT !.ok = FALSE]
             ELSE [ReadHardState(st.msg, f) EXCEPT !.ok = @ /\ f.ok]
           Right(g) == g = [n \in 0..N |-> IF n = 0 THEN [msg |-> m, ok |-> TRUE]
                                           ELSE Step(g[n - 1], Fields(s)[n])]
           h == CHOOSE g : Right(g)
<1>1. ParseHardState(m, s) = h[N]
  BY DEF ParseHardState, Merged, MergedFields, MergedField
<1>2. Fields(s) \in Seq(Field) /\ N \in Nat /\ \A n \in 1..N : Fields(s)[n] \in Field
  BY FieldsType
<1>3. HardStateReader \in Reader(HardStateClass)
  BY ReadHardStateType DEF HardStateReader, Reader
<1>4. Good(m) \in T /\ Good(m) = [msg |-> m, ok |-> TRUE]
  BY DEF Good, Outcome
<1>5. ASSUME NEW st \in T, NEW f \in Field PROVE Step(st, f) = StepBy(HardStateReader, st, f)
  <2>1. st.msg \in HardStateClass
    BY DEF Outcome
  <2>2. HardStateReader[<<st.msg, f>>] = ReadHardState(st.msg, f)
    BY <2>1 DEF HardStateReader
  <2> QED BY <2>2, Zenon DEF StepBy
<1> HIDE DEF Step, N, T
<1>6. PICK g : Reads(g, HardStateReader, HardStateClass, Good(m), Fields(s))
  BY <1>2, <1>3, <1>4, ReadsExists DEF T
<1>7. ASSUME NEW n \in 1..N PROVE g[n - 1] \in T /\ g[n] = Step(g[n - 1], Fields(s)[n])
  <2>1. n - 1 \in 0..N
    BY <1>2
  <2>2. g[n - 1] \in T
    BY <1>6, <2>1 DEF Reads, N, T
  <2>3. g[n] = StepBy(HardStateReader, g[n - 1], Fields(s)[n])
    BY <1>6 DEF Reads, N
  <2> QED BY <1>2, <1>5, <2>2, <2>3
<1>8. g = [n \in 0..N |-> g[n]] /\ g[0] = [msg |-> m, ok |-> TRUE]
  BY <1>4, <1>6 DEF Reads, N
<1>9. Right(g)
  <2>1. ASSUME NEW n \in 0..N
        PROVE  g[n] = IF n = 0 THEN [msg |-> m, ok |-> TRUE] ELSE Step(g[n - 1], Fields(s)[n])
    <3>1. CASE n = 0
      BY <1>8, <3>1, Zenon
    <3>2. CASE n # 0
      <4>1. n \in 1..N
        BY <1>2, <3>2
      <4> QED BY <1>7, <3>2, <4>1, Zenon
    <3> QED BY <3>1, <3>2
  <2> QED BY <1>8, <2>1, Zenon
<1>10. Right(h)
  <2> HIDE DEF Right
  <2> QED BY <1>9, Zenon
<1> HIDE DEF h
<1>11. h[0] = Good(m)
  BY <1>2, <1>4, <1>10
<1>12. ASSUME NEW n \in 1..N, h[n - 1] \in T
       PROVE  h[n] = StepBy(HardStateReader, h[n - 1], Fields(s)[n])
  <2>1. n \in 0..N /\ n # 0
    BY <1>2
  <2>2. h[n] = Step(h[n - 1], Fields(s)[n])
    BY <1>10, <2>1, Zenon
  <2> QED BY <1>2, <1>5, <1>12, <2>2
<1>13. h[N] = After(HardStateReader, HardStateClass, Good(m), Fields(s))
  BY <1>2, <1>3, <1>4, <1>11, <1>12, ReadsUnique DEF N, T
<1> QED BY <1>1, <1>2, <1>3, <1>4, <1>13 DEF T

\* What comes of it is of the class.
LEMMA ParseHardStateType ==
  ASSUME NEW m \in HardStateClass, NEW s \in Seq(Byte)
  PROVE  ParseHardState(m, s) \in Outcome(HardStateClass)
BY ParseHardStateIs, AfterType

\* Reading a field of a Storage.
LEMMA ReadStorageType ==
  ASSUME NEW m \in StorageClass, NEW f \in Field
  PROVE  ReadStorage(m, f) \in Outcome(StorageClass)
<1>1. f.value \in Nat /\ f.bytes \in Seq(Byte)
  BY DEF Field
<1>2. ASSUME NEW e \in StorageClass PROVE Good(e) \in Outcome(StorageClass)
  BY DEF Good, Outcome
<1>3. [m EXCEPT !.offset = f.value] \in StorageClass
  BY <1>1 DEF StorageClass
<1>4. Unknown(m, f) \in Outcome(StorageClass)
  <2>1. PICK u : u = m.unknown \o (IF f.key[2] = LENGTH THEN Delimited(f.key[1], f.bytes) ELSE f.raw)
    OBVIOUS
  <2>2. u \in Seq(Byte)
    BY <2>1, UnknownKept DEF StorageClass
  <2>3. [m EXCEPT !.unknown = u] \in StorageClass
    BY <2>2 DEF StorageClass
  <2> QED BY <1>2, <2>1, <2>3 DEF Unknown
<1>5. Filled(m, "snap", ParseSnapshot(Mutable(m.snap, NewSnapshot), f.bytes)) \in Outcome(StorageClass)
  <2>1. PICK o : o = ParseSnapshot(Mutable(m.snap, NewSnapshot), f.bytes)
    OBVIOUS
  <2>2. Mutable(m.snap, NewSnapshot) \in SnapshotClass
    BY NewIsPlain, PlainIsOfClass DEF Mutable, StorageClass
  <2>3. o \in Outcome(SnapshotClass)
    BY <1>1, <2>1, <2>2, ParseSnapshotType
  <2>4. o.msg \in SnapshotClass /\ o.ok \in BOOLEAN
    BY <2>3 DEF Outcome
  <2>5. [m EXCEPT !.snap = o.msg] \in StorageClass
    BY <2>4 DEF StorageClass
  <2>6. Filled(m, "snap", o) \in Outcome(StorageClass)
    BY <2>4, <2>5 DEF Filled, Outcome
  <2> QED BY <2>1, <2>6
<1>6. Extended(m, ParseEntry(NewEntry, f.bytes)) \in Outcome(StorageClass)
  <2>1. PICK o : o = ParseEntry(NewEntry, f.bytes)
    OBVIOUS
  <2>2. NewEntry \in EntryClass
    BY NewIsPlain, PlainIsOfClass
  <2>3. o \in Outcome(EntryClass)
    BY <1>1, <2>1, <2>2, ParseEntryType
  <2>4. o.msg \in EntryClass /\ o.ok \in BOOLEAN
    BY <2>3 DEF Outcome
  <2>5. PICK es : es = Append(m.entries, o.msg)
    OBVIOUS
  <2>6. es \in Seq(EntryClass)
    BY <2>4, <2>5 DEF StorageClass
  <2>7. [m EXCEPT !.entries = es] \in StorageClass
    BY <2>6 DEF StorageClass
  <2>8. Extended(m, o) \in Outcome(StorageClass)
    BY <2>4, <2>5, <2>7 DEF Extended, Outcome
  <2> QED BY <2>1, <2>8
<1>7. Filled(m, "hardstate", ParseHardState(Mutable(m.hardstate, NewHardState), f.bytes)) \in Outcome(StorageClass)
  <2>1. PICK o : o = ParseHardState(Mutable(m.hardstate, NewHardState), f.bytes)
    OBVIOUS
  <2>2. Mutable(m.hardstate, NewHardState) \in HardStateClass
    BY DEF Mutable, StorageClass, NewHardState, HardStateClass
  <2>3. o \in Outcome(HardStateClass)
    BY <1>1, <2>1, <2>2, ParseHardStateType
  <2>4. o.msg \in HardStateClass /\ o.ok \in BOOLEAN
    BY <2>3 DEF Outcome
  <2>5. [m EXCEPT !.hardstate = o.msg] \in StorageClass
    BY <2>4 DEF StorageClass
  <2>6. Filled(m, "hardstate", o) \in Outcome(StorageClass)
    BY <2>4, <2>5 DEF Filled, Outcome
  <2> QED BY <2>1, <2>6
<1> QED BY <1>2, <1>3, <1>4, <1>5, <1>6, <1>7, Zenon DEF ReadStorage

StorageReader == [p \in StorageClass \X Field |-> ReadStorage(p[1], p[2])]

\* Parsing is reading field after field with this reader.
LEMMA ParseStorageIs ==
  ASSUME NEW m \in StorageClass, NEW s \in Seq(Byte)
  PROVE  /\ StorageReader \in Reader(StorageClass)
         /\ Good(m) \in Outcome(StorageClass) /\ Fields(s) \in Seq(Field)
         /\ ParseStorage(m, s) = After(StorageReader, StorageClass, Good(m), Fields(s))
<1> DEFINE N == Len(Fields(s))
           T == Outcome(StorageClass)
           Step(st, f) ==
             IF ~st.ok \/ (~f.ok /\ f.key[2] # LENGTH) THEN [st EXCEPT !.ok = FALSE]
             ELSE [ReadStorage(st.msg, f) EXCEPT !.ok = @ /\ f.ok]
           Right(g) == g = [n \in 0..N |-> IF n = 0 THEN [msg |-> m, ok |-> TRUE]
                                           ELSE Step(g[n - 1], Fields(s)[n])]
           h == CHOOSE g : Right(g)
<1>1. ParseStorage(m, s) = h[N]
  BY DEF ParseStorage, Merged, MergedFields, MergedField
<1>2. Fields(s) \in Seq(Field) /\ N \in Nat /\ \A n \in 1..N : Fields(s)[n] \in Field
  BY FieldsType
<1>3. StorageReader \in Reader(StorageClass)
  BY ReadStorageType DEF StorageReader, Reader
<1>4. Good(m) \in T /\ Good(m) = [msg |-> m, ok |-> TRUE]
  BY DEF Good, Outcome
<1>5. ASSUME NEW st \in T, NEW f \in Field PROVE Step(st, f) = StepBy(StorageReader, st, f)
  <2>1. st.msg \in StorageClass
    BY DEF Outcome
  <2>2. StorageReader[<<st.msg, f>>] = ReadStorage(st.msg, f)
    BY <2>1 DEF StorageReader
  <2> QED BY <2>2, Zenon DEF StepBy
<1> HIDE DEF Step, N, T
<1>6. PICK g : Reads(g, StorageReader, StorageClass, Good(m), Fields(s))
  BY <1>2, <1>3, <1>4, ReadsExists DEF T
<1>7. ASSUME NEW n \in 1..N PROVE g[n - 1] \in T /\ g[n] = Step(g[n - 1], Fields(s)[n])
  <2>1. n - 1 \in 0..N
    BY <1>2
  <2>2. g[n - 1] \in T
    BY <1>6, <2>1 DEF Reads, N, T
  <2>3. g[n] = StepBy(StorageReader, g[n - 1], Fields(s)[n])
    BY <1>6 DEF Reads, N
  <2> QED BY <1>2, <1>5, <2>2, <2>3
<1>8. g = [n \in 0..N |-> g[n]] /\ g[0] = [msg |-> m, ok |-> TRUE]
  BY <1>4, <1>6 DEF Reads, N
<1>9. Right(g)
  <2>1. ASSUME NEW n \in 0..N
        PROVE  g[n] = IF n = 0 THEN [msg |-> m, ok |-> TRUE] ELSE Step(g[n - 1], Fields(s)[n])
    <3>1. CASE n = 0
      BY <1>8, <3>1, Zenon
    <3>2. CASE n # 0
      <4>1. n \in 1..N
        BY <1>2, <3>2
      <4> QED BY <1>7, <3>2, <4>1, Zenon
    <3> QED BY <3>1, <3>2
  <2> QED BY <1>8, <2>1, Zenon
<1>10. Right(h)
  <2> HIDE DEF Right
  <2> QED BY <1>9, Zenon
<1> HIDE DEF h
<1>11. h[0] = Good(m)
  BY <1>2, <1>4, <1>10
<1>12. ASSUME NEW n \in 1..N, h[n - 1] \in T
       PROVE  h[n] = StepBy(StorageReader, h[n - 1], Fields(s)[n])
  <2>1. n \in 0..N /\ n # 0
    BY <1>2
  <2>2. h[n] = Step(h[n - 1], Fields(s)[n])
    BY <1>10, <2>1, Zenon
  <2> QED BY <1>2, <1>5, <1>12, <2>2
<1>13. h[N] = After(StorageReader, StorageClass, Good(m), Fields(s))
  BY <1>2, <1>3, <1>4, <1>11, <1>12, ReadsUnique DEF N, T
<1> QED BY <1>1, <1>2, <1>3, <1>4, <1>13 DEF T

\* What comes of it is of the class.
LEMMA ParseStorageType ==
  ASSUME NEW m \in StorageClass, NEW s \in Seq(Byte)
  PROVE  ParseStorage(m, s) \in Outcome(StorageClass)
BY ParseStorageIs, AfterType

\* Reading a field of a Message.
LEMMA ReadMessageType ==
  ASSUME NEW m \in MessageClass, NEW f \in Field
  PROVE  ReadMessage(m, f) \in Outcome(MessageClass)
<1>1. f.value \in Nat /\ f.bytes \in Seq(Byte)
  BY DEF Field
<1>2. ASSUME NEW e \in MessageClass PROVE Good(e) \in Outcome(MessageClass)
  BY DEF Good, Outcome
<1>3. /\ [m EXCEPT !.type = f.value] \in MessageClass /\ [m EXCEPT !.to = f.value] \in MessageClass
      /\ [m EXCEPT !.from = f.value] \in MessageClass
      /\ [m EXCEPT !.term = f.value] \in MessageClass
      /\ [m EXCEPT !.logterm = f.value] \in MessageClass
      /\ [m EXCEPT !.index = f.value] \in MessageClass
      /\ [m EXCEPT !.commit = f.value] \in MessageClass
      /\ [m EXCEPT !.reject = IF f.value = 0 THEN 0 ELSE 1] \in MessageClass
      /\ [m EXCEPT !.rejecthint = f.value] \in MessageClass
      /\ [m EXCEPT !.context = f.bytes] \in MessageClass
  BY <1>1 DEF MessageClass
<1>4. Unknown(m, f) \in Outcome(MessageClass)
  <2>1. PICK u : u = m.unknown \o (IF f.key[2] = LENGTH THEN Delimited(f.key[1], f.bytes) ELSE f.raw)
    OBVIOUS
  <2>2. u \in Seq(Byte)
    BY <2>1, UnknownKept DEF MessageClass
  <2>3. [m EXCEPT !.unknown = u] \in MessageClass
    BY <2>2 DEF MessageClass
  <2> QED BY <1>2, <2>1, <2>3 DEF Unknown
<1>5. Filled(m, "snapshot", ParseSnapshot(Mutable(m.snapshot, NewSnapshot), f.bytes)) \in Outcome(MessageClass)
  <2>1. PICK o : o = ParseSnapshot(Mutable(m.snapshot, NewSnapshot), f.bytes)
    OBVIOUS
  <2>2. Mutable(m.snapshot, NewSnapshot) \in SnapshotClass
    BY NewIsPlain, PlainIsOfClass DEF Mutable, MessageClass
  <2>3. o \in Outcome(SnapshotClass)
    BY <1>1, <2>1, <2>2, ParseSnapshotType
  <2>4. o.msg \in SnapshotClass /\ o.ok \in BOOLEAN
    BY <2>3 DEF Outcome
  <2>5. [m EXCEPT !.snapshot = o.msg] \in MessageClass
    BY <2>4 DEF MessageClass
  <2>6. Filled(m, "snapshot", o) \in Outcome(MessageClass)
    BY <2>4, <2>5 DEF Filled, Outcome
  <2> QED BY <2>1, <2>6
<1>6. Extended(m, ParseEntry(NewEntry, f.bytes)) \in Outcome(MessageClass)
  <2>1. PICK o : o = ParseEntry(NewEntry, f.bytes)
    OBVIOUS
  <2>2. NewEntry \in EntryClass
    BY NewIsPlain, PlainIsOfClass
  <2>3. o \in Outcome(EntryClass)
    BY <1>1, <2>1, <2>2, ParseEntryType
  <2>4. o.msg \in EntryClass /\ o.ok \in BOOLEAN
    BY <2>3 DEF Outcome
  <2>5. PICK es : es = Append(m.entries, o.msg)
    OBVIOUS
  <2>6. es \in Seq(EntryClass)
    BY <2>4, <2>5 DEF MessageClass
  <2>7. [m EXCEPT !.entries = es] \in MessageClass
    BY <2>6 DEF MessageClass
  <2>8. Extended(m, o) \in Outcome(MessageClass)
    BY <2>4, <2>5, <2>7 DEF Extended, Outcome
  <2> QED BY <2>1, <2>8
<1> QED BY <1>2, <1>3, <1>4, <1>5, <1>6, Zenon DEF ReadMessage

MessageReader == [p \in MessageClass \X Field |-> ReadMessage(p[1], p[2])]

\* Parsing is reading field after field with this reader.
LEMMA ParseMessageIs ==
  ASSUME NEW m \in MessageClass, NEW s \in Seq(Byte)
  PROVE  /\ MessageReader \in Reader(MessageClass)
         /\ Good(m) \in Outcome(MessageClass) /\ Fields(s) \in Seq(Field)
         /\ ParseMessage(m, s) = After(MessageReader, MessageClass, Good(m), Fields(s))
<1> DEFINE N == Len(Fields(s))
           T == Outcome(MessageClass)
           Step(st, f) ==
             IF ~st.ok \/ (~f.ok /\ f.key[2] # LENGTH) THEN [st EXCEPT !.ok = FALSE]
             ELSE [ReadMessage(st.msg, f) EXCEPT !.ok = @ /\ f.ok]
           Right(g) == g = [n \in 0..N |-> IF n = 0 THEN [msg |-> m, ok |-> TRUE]
                                           ELSE Step(g[n - 1], Fields(s)[n])]
           h == CHOOSE g : Right(g)
<1>1. ParseMessage(m, s) = h[N]
  BY DEF ParseMessage, Merged, MergedFields, MergedField
<1>2. Fields(s) \in Seq(Field) /\ N \in Nat /\ \A n \in 1..N : Fields(s)[n] \in Field
  BY FieldsType
<1>3. MessageReader \in Reader(MessageClass)
  BY ReadMessageType DEF MessageReader, Reader
<1>4. Good(m) \in T /\ Good(m) = [msg |-> m, ok |-> TRUE]
  BY DEF Good, Outcome
<1>5. ASSUME NEW st \in T, NEW f \in Field PROVE Step(st, f) = StepBy(MessageReader, st, f)
  <2>1. st.msg \in MessageClass
    BY DEF Outcome
  <2>2. MessageReader[<<st.msg, f>>] = ReadMessage(st.msg, f)
    BY <2>1 DEF MessageReader
  <2> QED BY <2>2, Zenon DEF StepBy
<1> HIDE DEF Step, N, T
<1>6. PICK g : Reads(g, MessageReader, MessageClass, Good(m), Fields(s))
  BY <1>2, <1>3, <1>4, ReadsExists DEF T
<1>7. ASSUME NEW n \in 1..N PROVE g[n - 1] \in T /\ g[n] = Step(g[n - 1], Fields(s)[n])
  <2>1. n - 1 \in 0..N
    BY <1>2
  <2>2. g[n - 1] \in T
    BY <1>6, <2>1 DEF Reads, N, T
  <2>3. g[n] = StepBy(MessageReader, g[n - 1], Fields(s)[n])
    BY <1>6 DEF Reads, N
  <2> QED BY <1>2, <1>5, <2>2, <2>3
<1>8. g = [n \in 0..N |-> g[n]] /\ g[0] = [msg |-> m, ok |-> TRUE]
  BY <1>4, <1>6 DEF Reads, N
<1>9. Right(g)
  <2>1. ASSUME NEW n \in 0..N
        PROVE  g[n] = IF n = 0 THEN [msg |-> m, ok |-> TRUE] ELSE Step(g[n - 1], Fields(s)[n])
    <3>1. CASE n = 0
      BY <1>8, <3>1, Zenon
    <3>2. CASE n # 0
      <4>1. n \in 1..N
        BY <1>2, <3>2
      <4> QED BY <1>7, <3>2, <4>1, Zenon
    <3> QED BY <3>1, <3>2
  <2> QED BY <1>8, <2>1, Zenon
<1>10. Right(h)
  <2> HIDE DEF Right
  <2> QED BY <1>9, Zenon
<1> HIDE DEF h
<1>11. h[0] = Good(m)
  BY <1>2, <1>4, <1>10
<1>12. ASSUME NEW n \in 1..N, h[n - 1] \in T
       PROVE  h[n] = StepBy(MessageReader, h[n - 1], Fields(s)[n])
  <2>1. n \in 0..N /\ n # 0
    BY <1>2
  <2>2. h[n] = Step(h[n - 1], Fields(s)[n])
    BY <1>10, <2>1, Zenon
  <2> QED BY <1>2, <1>5, <1>12, <2>2
<1>13. h[N] = After(MessageReader, MessageClass, Good(m), Fields(s))
  BY <1>2, <1>3, <1>4, <1>11, <1>12, ReadsUnique DEF N, T
<1> QED BY <1>1, <1>2, <1>3, <1>4, <1>13 DEF T

\* What comes of it is of the class.
LEMMA ParseMessageType ==
  ASSUME NEW m \in MessageClass, NEW s \in Seq(Byte)
  PROVE  ParseMessage(m, s) \in Outcome(MessageClass)
BY ParseMessageIs, AfterType
-----------------------------------------------------------------------------
(* The log file *)

\* What a reader makes of its array are bytes.
LEMMA CStringType ==
  ASSUME NEW s \in Seq(Byte)
  PROVE  CString(s) \in Seq(Byte)
<1> DEFINE I == {i \in 1..Len(s) : s[i] = 0}
<1>1. PICK k : k = SelectInSeq(s, LAMBDA b : b = 0)
  OBVIOUS
<1>2. k = IF I # {} THEN Min(I) ELSE 0
  BY <1>1 DEF SelectInSeq
<1>3. k \in 0..Len(s)
  <2>1. CASE I = {}
    BY <1>2, <2>1
  <2>2. CASE I # {}
    <3>1. I \in SUBSET Nat
      OBVIOUS
    <3>2. \E i \in I : \A j \in I : i <= j
      BY <2>2, <3>1, LeastOf
    <3>3. k = CHOOSE i \in I : \A j \in I : i <= j
      BY <1>2, <2>2 DEF Min
    <3>4. k \in I
      BY <3>2, <3>3
    <3> QED BY <3>4
  <2> QED BY <2>1, <2>2
<1>4. CString(s) = IF k = 0 THEN s ELSE SubSeq(s, 1, k - 1)
  BY <1>1 DEF CString
<1>5. k # 0 => SubSeq(s, 1, k - 1) \in Seq(Byte)
  BY <1>3
<1> QED BY <1>4, <1>5

FileIsBytes == file \in Seq(Byte) \cup {None}

\* So is what it reads with what was on the stack behind it.
LEMMA RdataType ==
  ASSUME FileIsBytes, file # None, NEW left \in Leftover
  PROVE  Rdata(left) \in Seq(Byte)
<1>1. file \in Seq(Byte)
  BY DEF FileIsBytes
<1>2. left \in Seq(Byte)
  <2>1. PICK B : B = Byte \ {0}
    OBVIOUS
  <2>2. left \in Seq(B) /\ \A b \in B : b \in Byte
    BY <2>1, LogFileAssumption
  <2> QED BY <2>2
<1>3. PICK b : b = Content(BufferSize, file).bytes
  OBVIOUS
<1>4. b \in Seq(Byte)
  BY <1>1, <1>3, LogFileAssumption, ContentType DEF Body
<1>5. b \o left \in Seq(Byte)
  BY <1>2, <1>4
<1> QED BY <1>3, <1>5, CStringType DEF Rdata

\* Whatever is on the stack, a reader has an object of the class.
LEMMA StoredType ==
  ASSUME FileIsBytes, NEW left \in Leftover
  PROVE  Stored(left) \in StorageClass /\ StoredHard(left) \in HardStateClass
<1>1. NewStorage \in StorageClass
  BY DEF NewStorage, StorageClass
<1>2. NewHardState \in HardStateClass
  BY DEF NewHardState, HardStateClass
<1>3. CASE file = None
  BY <1>1, <1>2, <1>3 DEF Stored, StoredHard
<1>4. CASE file # None
  <2>1. PICK s \in Seq(Byte) : s = Rdata(left)
    BY <1>4, RdataType
  <2>2. PICK o, h : o = ParseStorage(NewStorage, s) /\ h = ParseHardState(NewHardState, s)
    OBVIOUS
  <2>3. o \in Outcome(StorageClass)
    BY <1>1, <2>2, ParseStorageType
  <2>4. h \in Outcome(HardStateClass)
    BY <1>2, <2>2, ParseHardStateType
  <2>5. Stored(left) = o.msg /\ StoredHard(left) = h.msg
    BY <1>4, <2>1, <2>2 DEF Stored, StoredHard
  <2> QED BY <2>3, <2>4, <2>5 DEF Outcome
<1> QED BY <1>3, <1>4

\* Append() copies entries and writes bytes.
LEMMA AppendBytesType ==
  ASSUME NEW ents \in Seq(EntryClass)
  PROVE  Copies(ents) \in Seq(EntryClass) /\ AppendBytes(ents) \in Seq(Byte)
<1>1. PICK es : es = Copies(ents)
  OBVIOUS
<1>2. ASSUME NEW i \in 1..Len(ents) PROVE [ents[i] EXCEPT !.unknown = <<>>] \in EntryClass
  <2>1. PICK e \in EntryClass : e = ents[i]
    OBVIOUS
  <2>2. <<>> \in Seq(Byte)
    OBVIOUS
  <2>3. [e EXCEPT !.unknown = <<>>] \in EntryClass
    BY <2>2 DEF EntryClass
  <2> QED BY <2>1, <2>3
<1>3. es \in Seq(EntryClass)
  BY <1>1, <1>2 DEF Copies
<1>4. PICK m : m = AddEntries(NewStorage, es)
  OBVIOUS
<1>5. m \in StorageClass
  <2>1. <<>> \o es = es
    BY <1>3
  <2>2. m = [NewStorage EXCEPT !.entries = es]
    BY <1>4, <2>1 DEF AddEntries, NewStorage
  <2>3. NewStorage \in StorageClass
    BY DEF NewStorage, StorageClass
  <2> QED BY <1>3, <2>2, <2>3 DEF StorageClass
<1>6. SerializeStorage(m) \in Seq(Byte)
  BY <1>5, StorageWrote DEF Wrote
<1> QED BY <1>1, <1>3, <1>4, <1>6 DEF AppendBytes

\* ApplySnapshot() fills in a snapshot.
LEMMA WithSnapshotType ==
  ASSUME NEW snap \in SnapshotClass, NEW from \in SnapshotClass, NEW stray \in Nat
  PROVE  WithSnapshot(snap, from, stray) \in SnapshotClass
<1>1. NewConfState \in ConfStateClass /\ NewSnapshotMetadata \in SnapshotMetadataClass
  BY NewIsPlain, PlainIsOfClass
<1>2. PICK d, fd : d = Mutable(snap.metadata, NewSnapshotMetadata)
                   /\ fd = Mutable(from.metadata, NewSnapshotMetadata)
  OBVIOUS
<1>3. d \in SnapshotMetadataClass /\ fd \in SnapshotMetadataClass
  BY <1>1, <1>2 DEF Mutable, SnapshotClass
<1>4. PICK c, fc : c = Mutable(d.conf_state, NewConfState) /\ fc = Mutable(fd.conf_state, NewConfState)
  OBVIOUS
<1>5. c \in ConfStateClass /\ fc \in ConfStateClass
  BY <1>1, <1>3, <1>4 DEF Mutable, SnapshotMetadataClass
<1>6. PICK w : w = WithConfState(c, fc, stray)
  OBVIOUS
<1>7. w \in ConfStateClass
  <2>1. /\ c.nodes \in Seq(Nat) /\ c.learners \in Seq(Nat)
        /\ fc.nodes \in Seq(Nat) /\ fc.learners \in Seq(Nat)
    BY <1>5 DEF ConfStateClass
  <2>2. PICK ls : ls = [i \in 1..Len(fc.nodes) |->
                          IF i <= Len(fc.learners) THEN fc.learners[i] ELSE stray]
    OBVIOUS
  <2>3. ls \in Seq(Nat)
    <3>1. \A i \in 1..Len(fc.nodes) : i <= Len(fc.learners) => fc.learners[i] \in Nat
      BY <2>1
    <3>2. \A i \in 1..Len(fc.nodes) : ls[i] \in Nat
      BY <2>2, <3>1
    <3> QED BY <2>1, <2>2, <3>2
  <2>4. PICK ns, ks : ns = c.nodes \o fc.nodes /\ ks = c.learners \o ls
    OBVIOUS
  <2>5. ns \in Seq(Nat) /\ ks \in Seq(Nat)
    BY <2>1, <2>3, <2>4
  <2>6. w = [c EXCEPT !.nodes = ns, !.learners = ks]
    BY <1>6, <2>2, <2>4 DEF WithConfState
  <2> QED BY <1>5, <2>5, <2>6 DEF ConfStateClass
<1>8. PICK k : k = IF fc.nodes = <<>> THEN d.conf_state ELSE w
  OBVIOUS
<1>9. k \in ConfStateClass \cup {None}
  BY <1>3, <1>7, <1>8 DEF SnapshotMetadataClass
<1>10. PICK e : e = [d EXCEPT !.index = fd.index, !.term = fd.term, !.conf_state = k]
  OBVIOUS
<1>11. e \in SnapshotMetadataClass
  BY <1>3, <1>9, <1>10 DEF SnapshotMetadataClass
<1>12. WithSnapshot(snap, from, stray) = [snap EXCEPT !.data = from.data, !.metadata = e]
  BY <1>2, <1>4, <1>6, <1>8, <1>10 DEF WithSnapshot
<1> QED BY <1>11, <1>12 DEF SnapshotClass

\* What a writer leaves is bytes.
LEMMA NextKeepsFile ==
  ASSUME FileIsBytes, [Next]_vars
  PROVE  FileIsBytes'
<1>1. CASE FileAppend
  <2>1. PICK ents \in Logs : file' = AppendBytes(ents)
    BY <1>1 DEF FileAppend
  <2> QED BY <2>1, AppendBytesType, LogFileAssumption DEF FileIsBytes
<1>2. CASE ApplySnapshot
  <2>1. PICK from \in Snaps, left \in Leftover, stray \in Number :
          file' = SerializeStorage([Stored(left) EXCEPT
                    !.snap = WithSnapshot(Mutable(@, NewSnapshot), from, stray)])
    BY <1>2 DEF ApplySnapshot
  <2>2. PICK m : m = Stored(left)
    OBVIOUS
  <2>3. m \in StorageClass
    BY <2>2, StoredType
  <2>4. Mutable(m.snap, NewSnapshot) \in SnapshotClass
    BY <2>3, NewIsPlain, PlainIsOfClass DEF Mutable, StorageClass
  <2>5. PICK s : s = WithSnapshot(Mutable(m.snap, NewSnapshot), from, stray)
    OBVIOUS
  <2>6. s \in SnapshotClass
    <3>1. from \in SnapshotClass /\ stray \in Nat
      BY LogFileAssumption, RaftPbAssumption
    <3> QED BY <2>4, <2>5, <3>1, WithSnapshotType
  <2>7. [m EXCEPT !.snap = s] \in StorageClass
    BY <2>3, <2>6 DEF StorageClass
  <2>8. SerializeStorage([m EXCEPT !.snap = s]) \in Seq(Byte)
    BY <2>7, StorageWrote DEF Wrote
  <2> QED BY <2>1, <2>2, <2>5, <2>8 DEF FileIsBytes
<1>3. CASE SetHardState
  <2>1. PICK h \in HardStateEdits(NewHardState), left \in Leftover :
          file' = SerializeHardState([StoredHard(left) EXCEPT !.term = h.commit])
    BY <1>3 DEF SetHardState
  <2>2. PICK m : m = StoredHard(left)
    OBVIOUS
  <2>3. m \in HardStateClass
    BY <2>2, StoredType
  <2>4. h.commit \in Nat
    <3>1. PICK v \in Number \cup {0} :
            h \in {[NewHardState EXCEPT !.term = v], [NewHardState EXCEPT !.vote = v],
                   [NewHardState EXCEPT !.commit = v]}
      BY Zenon DEF HardStateEdits
    <3>2. v \in Nat
      BY Settable
    <3> QED BY <3>1, <3>2 DEF NewHardState
  <2>5. [m EXCEPT !.term = h.commit] \in HardStateClass
    BY <2>3, <2>4 DEF HardStateClass
  <2>6. SerializeHardState([m EXCEPT !.term = h.commit]) \in Seq(Byte)
    BY <2>5, HardStateWrote DEF Wrote
  <2> QED BY <2>1, <2>2, <2>6 DEF FileIsBytes
<1>4. CASE UNCHANGED fileVars
  BY <1>4 DEF FileIsBytes, fileVars
<1> QED BY <1>1, <1>2, <1>3, <1>4, Zenon DEF Next, FileNext, vars

\* An accessor leaves a message of the sample its class.
LEMMA helloworldEditsType ==
  ASSUME NEW m \in helloworldClass
  PROVE  helloworldEdits(m) \subseteq helloworldClass
<1> SUFFICES ASSUME NEW x \in helloworldEdits(m) PROVE x \in helloworldClass
  OBVIOUS
<1>1. CASE \E v \in Number \cup {0, None} : x = [m EXCEPT !.id = v]
  <2>1. \A v \in Number \cup {0, None} : v \in Nat \cup {None}
    BY Settable
  <2> QED BY <1>1, <2>1 DEF helloworldClass
<1>2. CASE \E s \in String \cup {<<>>, None} :
             x \in {[m EXCEPT !.name = s], [m EXCEPT !.email = s]}
  <2>1. \A s \in String \cup {<<>>, None} : s \in Seq(Byte) \cup {None}
    BY Settable, Zenon
  <2>2. ASSUME NEW s \in Seq(Byte) \cup {None}
        PROVE  [m EXCEPT !.name = s] \in helloworldClass /\ [m EXCEPT !.email = s] \in helloworldClass
    BY DEF helloworldClass
  <2> QED BY <1>2, <2>1, <2>2, Zenon
<1> QED BY <1>1, <1>2, Zenon DEF helloworldEdits

\* The message of write.cc is of its class.
LEMMA HelloType == Hello \in helloworldClass
<1>1. PICK s : s = HelloName
  OBVIOUS
<1>2. s \in Seq(Byte)
  BY <1>1, NameAssumption
<1>3. \A n \in Seq(Byte), v \in Nat :
        [id |-> v, name |-> n, email |-> None, unknown |-> <<>>] \in helloworldClass
  <2>1. <<>> \in Seq(Byte)
    OBVIOUS
  <2> QED BY <2>1 DEF helloworldClass
<1>4. Hello = [id |-> 1, name |-> s, email |-> None, unknown |-> <<>>]
  <2>1. PICK b, none, v : b = <<>> /\ none = None /\ v = 1
    OBVIOUS
  <2>2. Newhelloworld = [id |-> none, name |-> none, email |-> none, unknown |-> b]
    BY <2>1, Zenon DEF Newhelloworld
  <2>3. PICK x : x = [Newhelloworld EXCEPT !.id = v]
    OBVIOUS
  <2>4. x = [id |-> v, name |-> none, email |-> none, unknown |-> b]
    BY <2>2, <2>3
  <2>5. [x EXCEPT !.name = s] = [id |-> v, name |-> s, email |-> none, unknown |-> b]
    BY <2>4
  <2>6. Hello = [x EXCEPT !.name = s]
    BY <1>1, <2>1, <2>3 DEF Hello
  <2> QED BY <2>1, <2>5, <2>6, Zenon
<1>5. 1 \in Nat
  OBVIOUS
<1> QED BY <1>2, <1>3, <1>4, <1>5, Zenon

Typed == MsgIsPlain /\ FileIsBytes

\* Both are so from the start.
LEMMA InitTyped == Init => Typed
<1> SUFFICES ASSUME Init PROVE Typed
  OBVIOUS
<1>1. file = None
  BY DEF Init, FileInit
<1> QED BY <1>1, InitMsgPlain DEF Typed, FileIsBytes

\* ByteSizeLong() says what the serializers write.
LEMMA TypedFits == Typed => SizeIsLength
<1> SUFFICES ASSUME Typed PROVE SizeIsLength
  OBVIOUS
<1>1. SizeOfMessage(msg) = Len(SerializeMessage(msg))
  <2>1. msg \in MessageClass
    BY PlainIsOfClass DEF Typed, MsgIsPlain
  <2> QED BY <2>1, MessageWrote DEF Wrote
<1>2. ASSUME NEW m \in helloworldEdits(Hello)
      PROVE  SizeOfhelloworld(m) = Len(Serializehelloworld(m))
  <2>1. m \in helloworldClass
    BY HelloType, helloworldEditsType
  <2> QED BY <2>1, helloworldWrote DEF Wrote
<1>3. ASSUME NEW left \in Leftover
      PROVE  StorageFits(Stored(left)) /\ HardStateFits(StoredHard(left))
  <2>1. Stored(left) \in StorageClass /\ StoredHard(left) \in HardStateClass
    BY StoredType DEF Typed
  <2>2. PICK m \in StorageClass, h \in HardStateClass : m = Stored(left) /\ h = StoredHard(left)
    BY <2>1
  <2>3. StorageFits(m) /\ HardStateFits(h)
    BY StorageWrote, HardStateWrote DEF StorageFits, HardStateFits, Wrote
  <2> QED BY <2>2, <2>3
<1> QED BY <1>1, <1>2, <1>3, Zenon DEF SizeIsLength

\* A serializer never writes past the buffer that ByteSizeLong() made room for, nor
\* less: neither for a message, nor for the sample's, nor for what the readers of the
\* log file make of any file and of anything on the stack behind it.
THEOREM SizesAreLengths == Spec => []SizeIsLength
<1>1. Typed /\ [Next]_vars => Typed'
  BY NextKeepsMsgPlain, NextKeepsFile DEF Typed
<1> QED BY <1>1, InitTyped, TypedFits, PTL DEF Spec
-----------------------------------------------------------------------------
(* What is written is read *)

\* The numbers that a varint of at most VarintLimit bytes can say; those of 64 bits
\* are such.
Word == {n \in Nat : VarintSize(n) <= VarintLimit}

\* The bytes of a number say it.
LEMMA ValueOfVarint ==
  ASSUME NEW n \in Nat
  PROVE  VarintValue(Varint(n)) = n
<1> DEFINE A == {k \in Nat : VarintValue(Varint(k)) = k}
<1>1. \A k \in Nat : (\A m \in 0..k - 1 : m \in A) => k \in A
  <2> SUFFICES ASSUME NEW k \in Nat, \A m \in 0..k - 1 : m \in A
               PROVE  VarintValue(Varint(k)) = k
    OBVIOUS
  <2>1. CASE k < 128
    <3>1. PICK s : s = <<k>>
      OBVIOUS
    <3>2. s \in Seq(Byte) /\ s # <<>> /\ Head(s) = k /\ Tail(s) = <<>> /\ <<>> \in Seq(Byte)
      BY <2>1, <3>1 DEF Byte
    <3>3. VarintValue(<<>>) = 0
      BY <3>2, VarintValueIs
    <3>4. VarintValue(s) = (k % 128) + 128 * 0
      <4>1. VarintValue(s) = IF s = <<>> THEN 0
                             ELSE (Head(s) % 128) + 128 * VarintValue(Tail(s))
        BY <3>2, VarintValueIs, Zenon
      <4> QED BY <4>1, <3>2, <3>3, Zenon
    <3>5. (k % 128) + 128 * 0 = k
      BY <2>1
    <3>6. Varint(k) = s
      BY <2>1, <3>1, VarintIs
    <3> QED BY <3>4, <3>5, <3>6
  <2>2. CASE k >= 128
    <3>1. PICK m \in Nat, r \in 0..127 : m = k \div 128 /\ r = k % 128 /\ k = 128 * m + r /\ m < k
      BY <2>2, Seven
    <3>2. PICK s : s = Varint(m)
      OBVIOUS
    <3>3. s \in Seq(Byte) /\ VarintValue(s) = m
      <4>1. m \in 0..k - 1
        BY <3>1
      <4>2. VarintValue(Varint(m)) = m
        BY <4>1
      <4> QED BY <3>2, <4>2, VarintWrote DEF Wrote
    <3>4. PICK b \in Byte : b = 128 + r
      BY DEF Byte
    <3>5. PICK u : u = <<b>> \o s
      OBVIOUS
    <3>6. u \in Seq(Byte) /\ u # <<>> /\ Head(u) = b /\ Tail(u) = s
      BY <3>3, <3>5
    <3>7. Varint(k) = u
      <4>1. ~(k < 128)
        BY <2>2
      <4> QED BY <4>1, <3>1, <3>2, <3>4, <3>5, VarintIs
    <3>8. VarintValue(u) = (b % 128) + 128 * m
      BY <3>3, <3>6, VarintValueIs
    <3>9. b % 128 = r
      BY <3>4
    <3>10. VarintValue(u) = k
      BY <3>1, <3>8, <3>9
    <3> QED BY <3>7, <3>10
  <2> QED BY <2>1, <2>2
<1> HIDE DEF A
<1>2. n \in A
  BY <1>1, AllNumbers
<1> QED BY <1>2 DEF A

\* A smaller number takes no more bytes.
LEMMA VarintSizeGrows ==
  ASSUME NEW b \in Nat, NEW a \in 0..b
  PROVE  VarintSize(a) <= VarintSize(b)
<1> DEFINE A == {k \in Nat : \A i \in 0..k : VarintSize(i) <= VarintSize(k)}
<1>1. \A k \in Nat : (\A m \in 0..k - 1 : m \in A) => k \in A
  <2> SUFFICES ASSUME NEW k \in Nat, \A m \in 0..k - 1 : m \in A, NEW i \in 0..k
               PROVE  VarintSize(i) <= VarintSize(k)
    OBVIOUS
  <2>1. VarintSize(k) \in Nat /\ VarintSize(k) >= 1 /\ VarintSize(i) \in Nat
    BY VarintWrote DEF Wrote
  <2>2. CASE i < 128
    <3>1. VarintSize(i) = 1
      BY <2>2, VarintSizeIs
    <3> QED BY <2>1, <3>1
  <2>3. CASE i >= 128
    <3>1. k >= 128
      BY <2>3
    <3>2. PICK p \in Nat, q \in Nat : p = i \div 128 /\ q = k \div 128
      BY <2>3, <3>1, Seven
    <3>3. p <= q /\ q \in 0..k - 1
      BY <2>3, <3>1, <3>2, Seven
    <3>4. VarintSize(p) <= VarintSize(q)
      BY <3>3
    <3>5. VarintSize(i) = 1 + VarintSize(p) /\ VarintSize(k) = 1 + VarintSize(q)
      BY <2>3, <3>1, <3>2, VarintSizeIs
    <3>6. VarintSize(p) \in Nat /\ VarintSize(q) \in Nat
      BY VarintWrote DEF Wrote
    <3> QED BY <3>4, <3>5, <3>6
  <2> QED BY <2>2, <2>3
<1> HIDE DEF A
<1>2. b \in A
  BY <1>1, AllNumbers
<1> QED BY <1>2 DEF A

\* What is below such a number is one too.
LEMMA WordBelow ==
  ASSUME NEW b \in Word, NEW a \in Nat, a <= b
  PROVE  a \in Word
<1>1. b \in Nat /\ VarintSize(b) <= VarintLimit
  BY DEF Word
<1>2. VarintSize(a) <= VarintSize(b)
  BY <1>1, VarintSizeGrows
<1>3. VarintSize(a) \in Nat /\ VarintSize(b) \in Nat /\ VarintLimit \in Nat
  BY <1>1, VarintWrote DEF Wrote, VarintLimit
<1>4. VarintSize(a) <= VarintLimit
  BY <1>1, <1>2, <1>3
<1> QED BY <1>4 DEF Word

\* A number is read from its bytes and what follows is left.
LEMMA ReadVarintIs ==
  ASSUME NEW n \in Word, NEW t \in Seq(Byte)
  PROVE  ReadVarint(Varint(n) \o t) = [ok |-> TRUE, value |-> n, rest |-> t]
<1>1. n \in Nat /\ VarintSize(n) <= VarintLimit
  BY DEF Word
<1>2. PICK s : s = Varint(n)
  OBVIOUS
<1>3. VarintShape(s, n)
  BY <1>1, <1>2, VarintHasShape
<1>4. PICK L \in Nat : L = Len(s) /\ L >= 1 /\ L <= VarintLimit
  BY <1>1, <1>3 DEF VarintShape
<1>5. s \in Seq(Byte) /\ (\A i \in 1..L - 1 : s[i] >= 128) /\ s[L] < 128
  BY <1>3, <1>4 DEF VarintShape
<1>6. PICK u : u = s \o t
  OBVIOUS
<1>7. u \in Seq(Byte) /\ Len(u) = L + Len(t) /\ \A i \in 1..L : u[i] = s[i]
  BY <1>4, <1>5, <1>6
<1>8. PICK k : k = SelectInSeq(u, LAMBDA b : b < 128)
  OBVIOUS
<1>9. /\ k \in 0..Len(u)
      /\ k > 0 => u[k] < 128 /\ \A i \in 1..k - 1 : ~(u[i] < 128)
      /\ k = 0 => \A i \in 1..Len(u) : ~(u[i] < 128)
  BY <1>7, <1>8, SelectIs
<1>10. L \in 1..L /\ L \in 1..Len(u) /\ u[L] < 128
  BY <1>4, <1>5, <1>7
<1>11. k # 0
  BY <1>9, <1>10
<1>12. ~(k > L)
  <2> SUFFICES ASSUME k > L PROVE FALSE
    OBVIOUS
  <2>1. L \in 1..k - 1
    BY <1>4, <1>9
  <2> QED BY <1>9, <1>10, <1>11, <2>1
<1>13. ~(k < L)
  <2> SUFFICES ASSUME k < L PROVE FALSE
    OBVIOUS
  <2>1. k \in 1..L - 1 /\ k \in 1..L /\ k > 0
    BY <1>4, <1>9, <1>11
  <2>2. u[k] < 128
    BY <1>9, <2>1
  <2>3. u[k] = s[k] /\ s[k] >= 128
    BY <1>5, <1>7, <2>1
  <2>4. PICK b \in 0..255 : b = s[k]
    <3>1. s \in [1..Len(s) -> Byte]
      BY <1>5
    <3>2. s[k] \in Byte
      BY <1>4, <2>1, <3>1, Zenon
    <3> QED BY <3>2 DEF Byte
  <2>5. b < 128 /\ b >= 128
    BY <2>2, <2>3, <2>4, Zenon
  <2> QED BY <2>5
<1>14. k = L
  BY <1>4, <1>9, <1>12, <1>13
<1>15. SubSeq(u, 1, L) = s /\ SubSeq(u, L + 1, Len(u)) = t
  BY <1>4, <1>5, <1>6
<1>16. k \in 1..VarintLimit
  <2>1. L >= 1 /\ L <= VarintLimit
    BY <1>4
  <2>2. L \in 1..VarintLimit
    BY <2>1 DEF VarintLimit
  <2> QED BY <1>14, <2>2
<1>17. VarintValue(s) = n
  BY <1>1, <1>2, ValueOfVarint
<1> QED BY <1>2, <1>6, <1>8, <1>14, <1>15, <1>16, <1>17 DEF ReadVarint

-----------------------------------------------------------------------------
(* A stream is read field by field *)

Run(R, C, st, s) == After(R, C, st, Fields(s))

\* Without fields nothing changes.
LEMMA AfterNone ==
  ASSUME NEW C, NEW R \in Reader(C), NEW st \in Outcome(C)
  PROVE  After(R, C, st, <<>>) = st
<1> DEFINE h == [n \in {0} |-> st]
<1>1. PICK fs : fs = <<>>
  OBVIOUS
<1>2. fs \in Seq(Field)
  BY <1>1
<1>3. h[0] = st
  OBVIOUS
<1> HIDE DEF h
<1>4. ASSUME NEW n \in 1..Len(fs) PROVE h[n] = StepBy(R, h[n - 1], fs[n])
  <2>1. FALSE
    BY <1>1
  <2> QED BY <2>1
<1>5. h[Len(fs)] = After(R, C, st, fs)
  BY <1>2, <1>3, <1>4, ReadsUnique
<1>6. Len(fs) = 0
  BY <1>1
<1> QED BY <1>1, <1>3, <1>5, <1>6

\* The first field is read, then the others.
LEMMA AfterFirst ==
  ASSUME NEW C, NEW R \in Reader(C), NEW st \in Outcome(C), NEW f \in Field, NEW fs \in Seq(Field)
  PROVE  After(R, C, st, <<f>> \o fs) = After(R, C, StepBy(R, st, f), fs)
<1>1. PICK x \in Outcome(C) : x = StepBy(R, st, f)
  BY StepByType
<1>2. PICK N \in Nat : N = Len(fs)
  OBVIOUS
<1>3. PICK g : Reads(g, R, C, x, fs)
  BY ReadsExists
<1>4. /\ g[0] = x /\ \A n \in 0..N : g[n] \in Outcome(C)
      /\ \A n \in 1..N : g[n] = StepBy(R, g[n - 1], fs[n])
  BY <1>2, <1>3 DEF Reads
<1>5. g[N] = After(R, C, x, fs)
  BY <1>2, <1>4, ReadsUnique
<1>6. PICK all : all = <<f>> \o fs
  OBVIOUS
<1>7. /\ all \in Seq(Field) /\ Len(all) = N + 1 /\ all[1] = f
      /\ \A n \in 1..N : all[n + 1] = fs[n]
  BY <1>2, <1>6
<1> DEFINE h == [n \in 0..N + 1 |-> IF n = 0 THEN st ELSE g[n - 1]]
<1>8. h[0] = st /\ h[1] = x /\ \A n \in 0..N : h[n + 1] = g[n]
  BY <1>4
<1> HIDE DEF h
<1>9. ASSUME NEW n \in 1..N + 1 PROVE h[n] = StepBy(R, h[n - 1], all[n])
  <2>1. CASE n = 1
    BY <1>1, <1>7, <1>8, <2>1
  <2>2. CASE n # 1
    <3>1. PICK k \in 1..N : n = k + 1 /\ n - 1 = (k - 1) + 1 /\ k \in 0..N /\ k - 1 \in 0..N
      <4>1. n - 1 \in 1..N /\ n - 1 \in 0..N /\ (n - 1) - 1 \in 0..N
        BY <2>2
      <4>2. n = (n - 1) + 1 /\ n - 1 = ((n - 1) - 1) + 1
        OBVIOUS
      <4> QED BY <4>1, <4>2
    <3>2. h[n] = g[k] /\ h[n - 1] = g[k - 1] /\ all[n] = fs[k]
      BY <1>7, <1>8, <3>1, Zenon
    <3> QED BY <1>4, <3>2
  <2> QED BY <2>1, <2>2
<1>10. h[Len(all)] = After(R, C, st, all)
  BY <1>7, <1>8, <1>9, ReadsUnique
<1>11. h[N + 1] = g[N]
  BY <1>8
<1> QED BY <1>1, <1>5, <1>6, <1>7, <1>10, <1>11

\* Whole says that the stream s begins with a whole field of the key, and then has t.
Whole(s, number, wire, t) ==
  /\ s \in Seq(Byte) /\ s # <<>> /\ First(s) \in Field
  /\ First(s).key = <<number, wire>> /\ First(s).rest = t
  /\ First(s).ok /\ ~First(s).end

\* Such a field is read, then what is behind it.
LEMMA RunFirst ==
  ASSUME NEW C, NEW R \in Reader(C), NEW st \in Outcome(C), NEW s, NEW number, NEW wire,
         NEW t \in Seq(Byte), Whole(s, number, wire, t)
  PROVE  Run(R, C, st, s) = Run(R, C, StepBy(R, st, First(s)), t)
<1>1. PICK f : f = First(s)
  OBVIOUS
<1>2. s \in Seq(Byte) /\ s # <<>> /\ f \in Field /\ f.ok /\ ~f.end /\ f.rest = t
  BY <1>1 DEF Whole
<1>3. Fields(s) = <<f>> \o Fields(t)
  BY <1>1, <1>2, FieldsAre
<1>4. Fields(t) \in Seq(Field)
  BY FieldsType
<1>5. After(R, C, st, <<f>> \o Fields(t)) = After(R, C, StepBy(R, st, f), Fields(t))
  BY <1>2, <1>4, AfterFirst
<1> QED BY <1>1, <1>3, <1>5 DEF Run

\* A field that is read without fail leaves what the reader makes of it.
LEMMA StepWell ==
  ASSUME NEW C, NEW R \in Reader(C), NEW m \in C, NEW f \in Field, f.ok,
         NEW x, R[<<m, f>>] = Good(x)
  PROVE  StepBy(R, Good(m), f) = Good(x)
<1>1. Good(m).ok /\ Good(m).msg = m /\ Good(x) = [msg |-> x, ok |-> TRUE]
  BY DEF Good
<1>2. [Good(x) EXCEPT !.ok = @ /\ f.ok] = Good(x)
  <2>1. f.ok = TRUE
    BY DEF Field
  <2>2. Good(x).ok = TRUE
    BY <1>1
  <2>3. (Good(x).ok /\ f.ok) = TRUE
    BY <2>1, <2>2
  <2> QED BY <1>1, <2>3
<1>3. StepBy(R, Good(m), f) = [R[<<Good(m).msg, f>>] EXCEPT !.ok = @ /\ f.ok]
  BY <1>1, Zenon DEF StepBy
<1> QED BY <1>1, <1>2, <1>3

\* Bytes that are joined are bytes, in whatever order they are joined.
LEMMA BytesJoin ==
  \A p, q, r \in Seq(Byte) : /\ p \o q \in Seq(Byte) /\ q \o r \in Seq(Byte)
                             /\ (p \o q) \o r = p \o (q \o r)
<1> SUFFICES ASSUME NEW p \in Seq(Byte), NEW q \in Seq(Byte), NEW r \in Seq(Byte)
             PROVE  /\ p \o q \in Seq(Byte) /\ q \o r \in Seq(Byte)
                    /\ (p \o q) \o r = p \o (q \o r)
  OBVIOUS
<1>1. p \o q \in Seq(Byte) /\ q \o r \in Seq(Byte)
  OBVIOUS
<1>2. (p \o q) \o r = p \o (q \o r)
  BY ConcatAssociative
<1> QED BY <1>1, <1>2

\* A tag is read from its byte.
LEMMA TagRead ==
  ASSUME NEW number \in 1..15, NEW wire \in 0..7, NEW u \in Seq(Byte)
  PROVE  /\ ReadVarint(Tag(number, wire) \o u) = [ok |-> TRUE, value |-> 8 * number + wire, rest |-> u]
         /\ Tag(number, wire) \in Seq(Byte) /\ Tag(number, wire) # <<>>
         /\ (8 * number + wire) \div 8 = number /\ (8 * number + wire) % 8 = wire
<1>1. PICK n \in Nat : n = 8 * number + wire /\ n < 128
  OBVIOUS
<1>2. VarintSize(n) = 1
  BY <1>1, VarintSizeIs
<1>3. n \in Word
  BY <1>2 DEF Word, VarintLimit
<1>4. ReadVarint(Varint(n) \o u) = [ok |-> TRUE, value |-> n, rest |-> u]
  BY <1>3, ReadVarintIs
<1>5. n \div 8 = number /\ n % 8 = wire
  BY <1>1
<1>6. Tag(number, wire) \in Seq(Byte)
  BY TagWrote DEF Wrote
<1>7. Tag(number, wire) # <<>>
  <2>1. Tag(number, wire) = <<8 * number + wire>>
    BY TagWrote
  <2> QED BY <2>1
<1> QED BY <1>1, <1>4, <1>5, <1>6, <1>7 DEF Tag

\* A number that is written is the first field.
LEMMA FirstOfUInt ==
  ASSUME NEW number \in 1..15, NEW v \in Word, NEW t \in Seq(Byte),
         NEW s, s = (Tag(number, VARINT) \o Varint(v)) \o t
  PROVE  Whole(s, number, VARINT, t) /\ First(s).value = v
<1>1. PICK tag, size : tag = Tag(number, VARINT) /\ size = Varint(v)
  OBVIOUS
<1>2. VARINT \in 0..7 /\ v \in Nat
  BY DEF VARINT, Word
<1>3. size \in Seq(Byte)
  BY <1>1, <1>2, VarintWrote DEF Wrote
<1>4. PICK u \in Seq(Byte) : u = size \o t
  BY <1>3, BytesJoin
<1>5. tag \in Seq(Byte) /\ tag # <<>>
  BY <1>1, <1>2, TagRead
<1>6. s = tag \o u
  <2>1. tag \in Seq(Byte)
    BY <1>5
  <2>2. (tag \o size) \o t = tag \o (size \o t)
    BY <1>3, <2>1, BytesJoin, Zenon
  <2> QED BY <1>1, <1>4, <2>2, Zenon
<1>7. s \in Seq(Byte) /\ s # <<>>
  BY <1>4, <1>5, <1>6
<1>8. PICK k \in Nat : k = 8 * number + VARINT
  BY DEF VARINT
<1>9. ReadVarint(s) = [ok |-> TRUE, value |-> k, rest |-> u] /\ k \div 8 = number /\ k % 8 = VARINT
  BY <1>1, <1>2, <1>4, <1>6, <1>8, TagRead
<1>10. ReadVarint(u) = [ok |-> TRUE, value |-> v, rest |-> t]
  BY <1>1, <1>4, ReadVarintIs
<1>11. PICK a, b : a = ReadVarint(s) /\ b = ReadVarint(u)
  OBVIOUS
<1>12. a.ok /\ a.value = k /\ a.rest = u /\ b.ok /\ b.value = v /\ b.rest = t
  BY <1>9, <1>10, <1>11
<1>13. PICK c : c = BodyOf(VARINT, b, u)
  OBVIOUS
<1>14. c = [ok |-> b.ok, bytes |-> <<>>, rest |-> b.rest]
  BY <1>13 DEF BodyOf, VARINT, LENGTH, FIXED64, FIXED32
<1>15. First(s) = FieldOf(s, a, b, c)
  BY <1>9, <1>11, <1>12, <1>13 DEF First, FieldWith, FieldBehind
<1>16. PICK f : f = First(s)
  OBVIOUS
<1>17. /\ f.key = <<k \div 8, k % 8>> /\ f.value = v /\ f.rest = t
       /\ f.end = (a.ok /\ k = 0)
       /\ f.ok = (/\ a.ok /\ k >= 8 /\ c.ok
                  /\ \/ k % 8 \in {VARINT, LENGTH} /\ b.ok
                     \/ k % 8 \in {FIXED64, FIXED32})
  BY <1>12, <1>14, <1>15, <1>16 DEF FieldOf
<1>18. k >= 8
  BY <1>8 DEF VARINT
<1>19. f.key = <<number, VARINT>> /\ ~f.end /\ f.ok
  <2>1. k # 0 /\ c.ok /\ k % 8 \in {VARINT, LENGTH}
    BY <1>9, <1>12, <1>14, <1>18
  <2> QED BY <1>9, <1>12, <1>17, <1>18, <2>1
<1>20. f \in Field
  BY <1>7, <1>16, FirstType
<1> QED BY <1>7, <1>16, <1>17, <1>19, <1>20 DEF Whole

\* So are bytes that are written behind their length.
LEMMA FirstOfDelimited ==
  ASSUME NEW number \in 1..15, NEW b \in Seq(Byte), Len(b) \in Word, NEW t \in Seq(Byte),
         NEW s, s = Delimited(number, b) \o t
  PROVE  Whole(s, number, LENGTH, t) /\ First(s).bytes = b
<1>1. PICK tag, size, n : tag = Tag(number, LENGTH) /\ n = Len(b) /\ size = Varint(n)
  OBVIOUS
<1>2. LENGTH \in 0..7 /\ n \in Nat /\ n \in Word
  BY <1>1 DEF LENGTH
<1>3. size \in Seq(Byte)
  BY <1>1, <1>2, VarintWrote DEF Wrote
<1>4. PICK w \in Seq(Byte) : w = b \o t
  BY BytesJoin
<1>5. PICK u \in Seq(Byte) : u = size \o w
  BY <1>3, <1>4, BytesJoin
<1>6. tag \in Seq(Byte) /\ tag # <<>>
  BY <1>1, <1>2, TagRead
<1>7. s = tag \o u
  <2>1. s = ((tag \o size) \o b) \o t
    BY <1>1 DEF Delimited
  <2>2. tag \o size \in Seq(Byte)
    BY <1>3, <1>6
  <2>3. ((tag \o size) \o b) \o t = (tag \o size) \o (b \o t)
    BY <2>2, BytesJoin
  <2>4. (tag \o size) \o w = tag \o (size \o w)
    <3>1. tag \in Seq(Byte)
      BY <1>6
    <3>2. w \in Seq(Byte)
      BY <1>4
    <3> QED BY <1>3, <3>1, <3>2, BytesJoin, Zenon
  <2> QED BY <1>4, <1>5, <2>1, <2>3, <2>4, Zenon
<1>8. s \in Seq(Byte) /\ s # <<>>
  BY <1>5, <1>6, <1>7
<1>9. PICK k \in Nat : k = 8 * number + LENGTH
  BY DEF LENGTH
<1>10. ReadVarint(s) = [ok |-> TRUE, value |-> k, rest |-> u] /\ k \div 8 = number /\ k % 8 = LENGTH
  BY <1>1, <1>2, <1>5, <1>7, <1>9, TagRead
<1>11. ReadVarint(u) = [ok |-> TRUE, value |-> n, rest |-> w]
  BY <1>1, <1>2, <1>5, <1>4, ReadVarintIs
<1>12. PICK x, y : x = ReadVarint(s) /\ y = ReadVarint(u)
  OBVIOUS
<1>13. x.ok /\ x.value = k /\ x.rest = u /\ y.ok /\ y.value = n /\ y.rest = w
  BY <1>10, <1>11, <1>12
<1>14. PICK c : c = BodyOf(LENGTH, y, u)
  OBVIOUS
<1>15. c = Content(n, w)
  BY <1>13, <1>14 DEF BodyOf, LENGTH, FIXED64, FIXED32
<1>16. c.ok /\ c.bytes = b /\ c.rest = t
  <2>1. n <= Len(w) /\ SubSeq(w, 1, n) = b /\ SubSeq(w, n + 1, Len(w)) = t
    BY <1>1, <1>4
  <2> QED BY <1>15, <2>1 DEF Content
<1>17. First(s) = FieldOf(s, x, y, c)
  BY <1>10, <1>12, <1>13, <1>14 DEF First, FieldWith, FieldBehind
<1>18. PICK f : f = First(s)
  OBVIOUS
<1>19. /\ f.key = <<k \div 8, k % 8>> /\ f.bytes = b /\ f.rest = t
       /\ f.end = (x.ok /\ k = 0)
       /\ f.ok = (/\ x.ok /\ k >= 8 /\ c.ok
                  /\ \/ k % 8 \in {VARINT, LENGTH} /\ y.ok
                     \/ k % 8 \in {FIXED64, FIXED32})
  BY <1>13, <1>16, <1>17, <1>18 DEF FieldOf
<1>20. k >= 8
  BY <1>9 DEF LENGTH
<1>21. f.key = <<number, LENGTH>> /\ ~f.end /\ f.ok
  <2>1. k # 0 /\ k % 8 \in {VARINT, LENGTH}
    BY <1>10, <1>20
  <2> QED BY <1>10, <1>13, <1>16, <1>19, <1>20, <2>1
<1>22. f \in Field
  BY <1>8, <1>18, FirstType
<1> QED BY <1>8, <1>18, <1>19, <1>21, <1>22 DEF Whole

\* The reader R makes x of m when the field of the number holds v.
TakesValue(R, number, v, m, x) ==
  \A f \in Field : (f.key = <<number, VARINT>> /\ f.value = v) => R[<<m, f>>] = Good(x)

\* A field that is not written holds 0.
TakesNumber(R, number, v, m, x) ==
  /\ v = 0 => x = m
  /\ v # 0 => TakesValue(R, number, v, m, x)

\* So for bytes.
TakesBytes(R, number, b, m, x) ==
  \A f \in Field : (f.key = <<number, LENGTH>> /\ f.bytes = b) => R[<<m, f>>] = Good(x)

\* A string is written unless it is empty.
TakesString(R, number, b, m, x) ==
  /\ b = <<>> => x = m
  /\ b # <<>> => TakesBytes(R, number, b, m, x)

\* A number that was written is read, ...
LEMMA RunNumber ==
  ASSUME NEW C, NEW R \in Reader(C), NEW m \in C, NEW x \in C, NEW number \in 1..15,
         NEW v \in Word, NEW t \in Seq(Byte), TakesValue(R, number, v, m, x)
  PROVE  Run(R, C, Good(m), (Tag(number, VARINT) \o Varint(v)) \o t) = Run(R, C, Good(x), t)
<1>1. PICK s, f : s = (Tag(number, VARINT) \o Varint(v)) \o t /\ f = First(s)
  OBVIOUS
<1>2. Whole(s, number, VARINT, t) /\ f.value = v
  BY <1>1, FirstOfUInt
<1>3. f \in Field /\ f.ok /\ f.key = <<number, VARINT>>
  BY <1>1, <1>2 DEF Whole
<1>4. R[<<m, f>>] = Good(x)
  BY <1>2, <1>3 DEF TakesValue
<1>5. StepBy(R, Good(m), f) = Good(x)
  BY <1>3, <1>4, StepWell
<1>6. Good(m) \in Outcome(C)
  BY DEF Good, Outcome
<1>7. Run(R, C, Good(m), s) = Run(R, C, StepBy(R, Good(m), First(s)), t)
  BY <1>2, <1>6, RunFirst
<1> QED BY <1>1, <1>5, <1>7, Zenon

\* ... and a 0 that was not.
LEMMA RunUInt ==
  ASSUME NEW C, NEW R \in Reader(C), NEW m \in C, NEW x \in C, NEW number \in 1..15,
         NEW v \in Word, NEW t \in Seq(Byte), TakesNumber(R, number, v, m, x)
  PROVE  Run(R, C, Good(m), UInt(number, v) \o t) = Run(R, C, Good(x), t)
<1>1. CASE v = 0
  <2>1. UInt(number, v) \o t = t /\ x = m
    BY <1>1 DEF UInt, TakesNumber
  <2> QED BY <2>1
<1>2. CASE v # 0
  <2>1. UInt(number, v) = Tag(number, VARINT) \o Varint(v)
    BY <1>2 DEF UInt
  <2>2. TakesValue(R, number, v, m, x)
    BY <1>2 DEF TakesNumber
  <2> QED BY <2>1, <2>2, RunNumber
<1> QED BY <1>1, <1>2

\* So are bytes behind their length.
LEMMA RunDelimited ==
  ASSUME NEW C, NEW R \in Reader(C), NEW m \in C, NEW x \in C, NEW number \in 1..15,
         NEW b \in Seq(Byte), Len(b) \in Word, NEW t \in Seq(Byte), TakesBytes(R, number, b, m, x)
  PROVE  Run(R, C, Good(m), Delimited(number, b) \o t) = Run(R, C, Good(x), t)
<1>1. PICK s, f : s = Delimited(number, b) \o t /\ f = First(s)
  OBVIOUS
<1>2. Whole(s, number, LENGTH, t) /\ f.bytes = b
  BY <1>1, FirstOfDelimited
<1>3. f \in Field /\ f.ok /\ f.key = <<number, LENGTH>>
  BY <1>1, <1>2 DEF Whole
<1>4. R[<<m, f>>] = Good(x)
  BY <1>2, <1>3 DEF TakesBytes
<1>5. StepBy(R, Good(m), f) = Good(x)
  BY <1>3, <1>4, StepWell
<1>6. Good(m) \in Outcome(C)
  BY DEF Good, Outcome
<1>7. Run(R, C, Good(m), s) = Run(R, C, StepBy(R, Good(m), First(s)), t)
  BY <1>2, <1>6, RunFirst
<1> QED BY <1>1, <1>5, <1>7, Zenon

\* So is a string, which is not written when it is empty.
LEMMA RunStr ==
  ASSUME NEW C, NEW R \in Reader(C), NEW m \in C, NEW x \in C, NEW number \in 1..15,
         NEW b \in Seq(Byte), Len(b) \in Word, NEW t \in Seq(Byte), TakesString(R, number, b, m, x)
  PROVE  Run(R, C, Good(m), Str(number, b) \o t) = Run(R, C, Good(x), t)
<1>1. CASE b = <<>>
  <2>1. Str(number, b) \o t = t /\ x = m
    BY <1>1 DEF Str, TakesString
  <2> QED BY <2>1
<1>2. CASE b # <<>>
  <2>1. Str(number, b) = Delimited(number, b)
    BY <1>2 DEF Str
  <2>2. TakesBytes(R, number, b, m, x)
    BY <1>2 DEF TakesString
  <2> QED BY <2>1, <2>2, RunDelimited
<1> QED BY <1>1, <1>2

\* What is behind a sequence may begin with its last member.
LEMMA AppendJoin ==
  \A s \in Seq(Nat), x \in Nat, u \in Seq(Nat) : s \o (<<x>> \o u) = Append(s, x) \o u
OBVIOUS

\* Of s are read the numbers r and what is read of t.
PackedBack(s, r, t) == ReadPacked(s) = r \o ReadPacked(t) /\ IsPacked(s) = IsPacked(t)

\* The numbers of a packed field, which ends well if what is behind them does.
LEMMA ReadPackedBack ==
  ASSUME NEW ns \in Seq(Word)
  PROVE  /\ Packed(ns) \in Seq(Byte)
         /\ \A t \in Seq(Byte) : PackedBack(Packed(ns) \o t, ns, t)
<1> DEFINE A == {r \in Seq(Word) : /\ Packed(r) \in Seq(Byte)
                                   /\ \A t \in Seq(Byte) : PackedBack(Packed(r) \o t, r, t)}
<1>1. <<>> \in A
  <2>1. <<>> \in Seq(Word) /\ <<>> \in Seq(Byte)
    OBVIOUS
  <2>2. PICK r : r = <<>>
    OBVIOUS
  <2>3. Packed(r) = FlattenSeq(<<>>)
    BY <2>2 DEF Packed
  <2>4. Packed(r) = <<>>
    BY <2>3, FlattenEmpty
  <2>5. ASSUME NEW t \in Seq(Byte) PROVE PackedBack(Packed(r) \o t, r, t)
    <3>1. ReadPacked(t) \in Seq(Nat)
      BY ReadPackedType
    <3>2. <<>> \o t = t /\ <<>> \o ReadPacked(t) = ReadPacked(t)
      BY <3>1
    <3> QED BY <2>2, <2>4, <3>2, Zenon DEF PackedBack
  <2> QED BY <2>1, <2>2, <2>4, <2>5
<1>2. ASSUME NEW r \in Seq(Word), NEW v \in Word, r \in A PROVE Append(r, v) \in A
  <2>0. r \in Seq(Nat) /\ v \in Nat /\ \A i \in 1..Len(r) : r[i] \in Word /\ r[i] \in Nat
    <3>1. \A n \in Word : n \in Nat
      BY DEF Word
    <3>2. \A i \in 1..Len(r) : r[i] \in Word
      BY ElementOfSeq
    <3>3. \A i \in 1..Len(r) : r[i] \in Nat
      BY <3>1, <3>2
    <3>4. r \in Seq(Nat)
      BY <3>3, SeqOfIts
    <3> QED BY <3>1, <3>2, <3>3, <3>4
  <2>1. PICK q \in Seq(Word) : q = Append(r, v)
    BY AppendProperties
  <2>2. PICK p \in Seq(Byte), w \in Seq(Byte) : p = Packed(r) /\ w = Varint(v)
    <3>1. v \in Nat
      BY DEF Word
    <3> QED BY <1>2, <3>1, VarintWrote DEF Wrote
  <2>3. Packed(q) = p \o w
    <3>1. \A i \in 1..Len(r) : Varint(r[i]) \in Seq(Byte)
      BY <2>0, VarintWrote DEF Wrote
    <3>2. PICK ss \in Seq(Seq(Byte)) : ss = [i \in 1..Len(r) |-> Varint(r[i])]
      <4>1. PICK N \in Nat : N = Len(r)
        BY <2>0
      <4>2. PICK ss : ss = [i \in 1..N |-> Varint(r[i])]
        OBVIOUS
      <4>3. ss \in Seq(Seq(Byte))
        BY <3>1, <4>1, <4>2
      <4> QED BY <4>1, <4>2, <4>3
    <3>3. [i \in 1..Len(q) |-> Varint(q[i])] = Append(ss, w)
      <4>1. Len(q) = Len(r) + 1 /\ q[Len(r) + 1] = v /\ \A i \in 1..Len(r) : q[i] = r[i]
        BY <2>1
      <4> QED BY <2>2, <3>2, <4>1
    <3>4. FlattenSeq(Append(ss, w)) = FlattenSeq(ss) \o w
      BY FlattenAppend
    <3> QED BY <2>2, <3>2, <3>3, <3>4 DEF Packed
  <2>4. ASSUME NEW t \in Seq(Byte) PROVE PackedBack(Packed(q) \o t, q, t)
    <3>1. (p \o w) \o t = p \o (w \o t) /\ w \o t \in Seq(Byte)
      BY BytesJoin
    <3>2. PackedBack(p \o (w \o t), r, w \o t)
      BY <1>2, <2>2, <3>1, Zenon
    <3>3. ReadVarint(w \o t) = [ok |-> TRUE, value |-> v, rest |-> t]
      BY <2>2, ReadVarintIs
    <3>4. PICK z \in Seq(Nat) : z = ReadPacked(t)
      BY ReadPackedType
    <3>5. ReadPacked(w \o t) = <<v>> \o z /\ IsPacked(w \o t) = IsPacked(t)
      <4>1. w \o t # <<>>
        <5>1. Len(w) >= 1
          BY <2>0, <2>2, VarintHasShape DEF VarintShape
        <5> QED BY <5>1
      <4>2. PICK u, y : u = w \o t /\ u \in Seq(Byte) /\ y = ReadVarint(u)
        BY <3>1
      <4>3. y.ok /\ y.value = v /\ y.rest = t
        BY <3>3, <4>2
      <4>4. ReadPacked(u) = <<y.value>> \o ReadPacked(y.rest)
        BY <4>1, <4>2, <4>3, ReadPackedIs
      <4>5. IsPacked(u) = PackedBehind(u, y, IsPacked(t)) /\ IsPacked(t) \in BOOLEAN
        BY <4>2, <4>3, IsPackedIs
      <4>6. IsPacked(u) = IsPacked(t)
        BY <4>1, <4>2, <4>3, <4>5, Zenon DEF PackedBehind
      <4> QED BY <3>4, <4>2, <4>3, <4>4, <4>6
    <3>6. r \o (<<v>> \o z) = q \o z
      <4>1. r \in Seq(Nat) /\ v \in Nat /\ z \in Seq(Nat)
        BY <2>0, <3>4
      <4>2. r \o (<<v>> \o z) = Append(r, v) \o z
        <5>1. r \in Seq(Nat)
          BY <4>1
        <5>2. v \in Nat
          BY <4>1
        <5>3. z \in Seq(Nat)
          BY <4>1
        <5> QED BY <5>1, <5>2, <5>3, AppendJoin
      <4> QED BY <2>1, <4>2
    <3>7. Packed(q) \o t = p \o (w \o t)
      BY <2>3, <3>1, Zenon
    <3> QED BY <3>2, <3>4, <3>5, <3>6, <3>7, Zenon DEF PackedBack
  <2>5. p \o w \in Seq(Byte)
    BY BytesJoin
  <2> QED BY <2>1, <2>3, <2>4, <2>5
<1> HIDE DEF A
<1>3. ns \in A
  BY <1>1, <1>2, ByAppending
<1> QED BY <1>3 DEF A
-----------------------------------------------------------------------------
(* What the bytes of an object do to another *)

\* Read behind m, the bytes s make x of it, whatever follows them.
Takes(R, C, m, s, x) ==
  /\ s \in Seq(Byte) /\ m \in C /\ x \in C
  /\ \A t \in Seq(Byte) : Run(R, C, Good(m), s \o t) = Run(R, C, Good(x), t)

\* No bytes make nothing of it.
LEMMA TakesNothing ==
  ASSUME NEW C, NEW R \in Reader(C), NEW m \in C
  PROVE  Takes(R, C, m, <<>>, m)
<1>1. <<>> \in Seq(Byte) /\ \A t \in Seq(Byte) : <<>> \o t = t
  OBVIOUS
<1> QED BY <1>1, Zenon DEF Takes

\* The bytes one after the other.
LEMMA TakesBoth ==
  ASSUME NEW C, NEW R, NEW m, NEW x, NEW y, NEW s, NEW u,
         Takes(R, C, m, s, x), Takes(R, C, x, u, y)
  PROVE  Takes(R, C, m, s \o u, y)
<1>1. s \in Seq(Byte) /\ u \in Seq(Byte) /\ m \in C /\ y \in C
  BY DEF Takes
<1>2. s \o u \in Seq(Byte)
  BY <1>1, BytesJoin
<1>3. ASSUME NEW t \in Seq(Byte)
      PROVE  Run(R, C, Good(m), (s \o u) \o t) = Run(R, C, Good(y), t)
  <2>1. (s \o u) \o t = s \o (u \o t) /\ u \o t \in Seq(Byte)
    BY <1>1, BytesJoin
  <2>2. Run(R, C, Good(m), s \o (u \o t)) = Run(R, C, Good(x), u \o t)
    BY <2>1, Zenon DEF Takes
  <2>3. Run(R, C, Good(x), u \o t) = Run(R, C, Good(y), t)
    BY Zenon DEF Takes
  <2> QED BY <2>1, <2>2, <2>3, Zenon
<1> QED BY <1>1, <1>2, <1>3, Zenon DEF Takes

\* All of a stream.
LEMMA TakesAll ==
  ASSUME NEW C, NEW R \in Reader(C), NEW m, NEW s, NEW x, Takes(R, C, m, s, x)
  PROVE  After(R, C, Good(m), Fields(s)) = Good(x)
<1>1. PICK t : t = <<>>
  OBVIOUS
<1>2. t \in Seq(Byte)
  BY <1>1
<1>3. s \o t = s
  BY <1>1 DEF Takes
<1>4. Run(R, C, Good(m), s \o t) = Run(R, C, Good(x), t)
  BY <1>2, Zenon DEF Takes
<1>5. Fields(t) = <<>>
  BY <1>1, <1>2, FieldsAre, Zenon
<1>6. Good(x) \in Outcome(C)
  BY DEF Takes, Good, Outcome
<1>7. After(R, C, Good(x), <<>>) = Good(x)
  BY <1>6, AfterNone
<1> QED BY <1>3, <1>4, <1>5, <1>7, Zenon DEF Run

\* A number, ...
LEMMA TakesWritten ==
  ASSUME NEW C, NEW R \in Reader(C), NEW m \in C, NEW x \in C, NEW number \in 1..15,
         NEW v \in Word, TakesValue(R, number, v, m, x)
  PROVE  Takes(R, C, m, Tag(number, VARINT) \o Varint(v), x)
<1>1. VARINT \in 0..7 /\ v \in Nat
  BY DEF VARINT, Word
<1>2. PICK tag, size : tag = Tag(number, VARINT) /\ size = Varint(v)
  OBVIOUS
<1>3. tag \in Seq(Byte)
  BY <1>1, <1>2, TagWrote DEF Wrote
<1>4. size \in Seq(Byte)
  BY <1>1, <1>2, VarintWrote DEF Wrote
<1>5. tag \o size \in Seq(Byte)
  BY <1>3, <1>4, BytesJoin
<1>6. ASSUME NEW t \in Seq(Byte)
      PROVE  Run(R, C, Good(m), (tag \o size) \o t) = Run(R, C, Good(x), t)
  BY <1>2, RunNumber
<1> QED BY <1>2, <1>5, <1>6, Zenon DEF Takes

\* ... or none for a 0, ...
LEMMA TakesUInt ==
  ASSUME NEW C, NEW R \in Reader(C), NEW m \in C, NEW x \in C, NEW number \in 1..15,
         NEW v \in Word, TakesNumber(R, number, v, m, x)
  PROVE  Takes(R, C, m, UInt(number, v), x)
<1>1. UInt(number, v) \in Seq(Byte)
  BY UIntWrote DEF Word, Wrote
<1>2. ASSUME NEW t \in Seq(Byte)
      PROVE  Run(R, C, Good(m), UInt(number, v) \o t) = Run(R, C, Good(x), t)
  BY RunUInt
<1> QED BY <1>1, <1>2, Zenon DEF Takes

\* ... a string ...
LEMMA TakesStr ==
  ASSUME NEW C, NEW R \in Reader(C), NEW m \in C, NEW x \in C, NEW number \in 1..15,
         NEW b \in Seq(Byte), Len(b) \in Word, TakesString(R, number, b, m, x)
  PROVE  Takes(R, C, m, Str(number, b), x)
<1>1. Str(number, b) \in Seq(Byte)
  BY StrWrote DEF Wrote
<1>2. ASSUME NEW t \in Seq(Byte)
      PROVE  Run(R, C, Good(m), Str(number, b) \o t) = Run(R, C, Good(x), t)
  BY RunStr
<1> QED BY <1>1, <1>2, Zenon DEF Takes

\* ... and what is written behind its length.
LEMMA TakesDelimited ==
  ASSUME NEW C, NEW R \in Reader(C), NEW m \in C, NEW x \in C, NEW number \in 1..15,
         NEW b \in Seq(Byte), Len(b) \in Word, TakesBytes(R, number, b, m, x)
  PROVE  Takes(R, C, m, Delimited(number, b), x)
<1>1. Delimited(number, b) \in Seq(Byte)
  <2>1. Wrote(b, Len(b))
    BY DEF Wrote
  <2>2. Wrote(Delimited(number, b), DelimitedSize(Len(b)))
    BY <2>1, DelimitedWrote
  <2> QED BY <2>2 DEF Wrote
<1>2. ASSUME NEW t \in Seq(Byte)
      PROVE  Run(R, C, Good(m), Delimited(number, b) \o t) = Run(R, C, Good(x), t)
  BY RunDelimited
<1> QED BY <1>1, <1>2, Zenon DEF Takes

\* A part of what is short enough is short enough.
LEMMA WordPart ==
  ASSUME NEW s \in Seq(Byte), NEW u \in Seq(Byte), Len(s \o u) \in Word
  PROVE  Len(s) \in Word /\ Len(u) \in Word
<1>1. Len(s) \in Nat /\ Len(u) \in Nat /\ Len(s) <= Len(s \o u) /\ Len(u) <= Len(s \o u)
  OBVIOUS
<1>2. PICK n \in Word : n = Len(s \o u)
  OBVIOUS
<1>3. PICK a \in Nat, b \in Nat : a = Len(s) /\ b = Len(u) /\ a <= n /\ b <= n
  BY <1>1, <1>2
<1>4. a \in Word /\ b \in Word
  BY <1>3, WordBelow
<1> QED BY <1>3, <1>4

\* So is what is behind a length.
LEMMA WordInside ==
  ASSUME NEW number \in 1..15, NEW b \in Seq(Byte), Len(Delimited(number, b)) \in Word
  PROVE  Len(b) \in Word
<1>1. LENGTH \in 0..7 /\ Len(b) \in Nat
  BY DEF LENGTH
<1>2. PICK p : p = Tag(number, LENGTH) \o Varint(Len(b))
  OBVIOUS
<1>3. p \in Seq(Byte)
  <2>1. Tag(number, LENGTH) \in Seq(Byte)
    BY <1>1, TagRead
  <2>2. Varint(Len(b)) \in Seq(Byte)
    BY <1>1, VarintWrote DEF Wrote
  <2> QED BY <1>2, <2>1, <2>2, BytesJoin
<1>4. Delimited(number, b) = p \o b
  BY <1>2 DEF Delimited
<1> QED BY <1>3, <1>4, WordPart

\* And a string.
LEMMA WordString ==
  ASSUME NEW number \in 1..15, NEW b \in Seq(Byte), Len(Str(number, b)) \in Word
  PROVE  Len(b) \in Word
<1>1. CASE b = <<>>
  <2>1. Str(number, b) = b
    BY <1>1 DEF Str
  <2> QED BY <2>1
<1>2. CASE b # <<>>
  BY <1>2, WordInside DEF Str
<1> QED BY <1>1, <1>2
-----------------------------------------------------------------------------
(* What is left of an object whose bytes are cut off *)

\* Read behind m, whatever there is of the bytes s, all of them excepted, makes
\* something of X of it.
CutsTo(R, C, m, s, X) ==
  \A c, d \in Seq(Byte) : (s = c \o d /\ d # <<>>) => Run(R, C, Good(m), c).msg \in X

\* Where the bytes of a sequence are that is joined of two.
Joined(u, s, n, t, k) ==
  /\ u \in Seq(Byte) /\ Len(u) = n + k
  /\ \A i \in 1..n : u[i] = s[i]
  /\ \A i \in 1..k : u[n + i] = t[i]

\* The join of two sequences, place by place.
LEMMA JoinedIs ==
  ASSUME NEW s \in Seq(Byte), NEW t \in Seq(Byte)
  PROVE  Joined(s \o t, s, Len(s), t, Len(t))
<1>1. PICK u : u = s \o t
  OBVIOUS
<1>2. u \in Seq(Byte) /\ Len(u) = Len(s) + Len(t) /\ \A i \in 1..Len(s) : u[i] = s[i]
  BY <1>1
<1>3. \A i \in 1..Len(t) : u[Len(s) + i] = t[i]
  BY <1>1
<1> QED BY <1>1, <1>2, <1>3 DEF Joined

\* Bytes with the same members are the same.
LEMMA SameBytes ==
  \A s, t \in Seq(Byte) : Len(s) = Len(t) /\ (\A i \in 1..Len(s) : s[i] = t[i]) => s = t
OBVIOUS

CutInside(c, s) == \E e \in Seq(Byte) : s = c \o e /\ e # <<>>
CutBehind(c, d, s, t) == \E e \in Seq(Byte) : c = s \o e /\ t = e \o d

\* Where s and t are cut: in s or behind it.
LEMMA CutWhere ==
  ASSUME NEW c \in Seq(Byte), NEW d \in Seq(Byte), NEW s \in Seq(Byte), NEW t \in Seq(Byte),
         c \o d = s \o t
  PROVE  CutInside(c, s) \/ CutBehind(c, d, s, t)
<1>1. PICK n \in Nat, k \in Nat, l \in Nat, j \in Nat :
            n = Len(c) /\ k = Len(d) /\ l = Len(s) /\ j = Len(t)
  OBVIOUS
<1>2. PICK u : u = c \o d
  OBVIOUS
<1>3. /\ Len(u) = n + k /\ \A i \in 1..n : u[i] = c[i]
      /\ \A i \in 1..k : u[n + i] = d[i]
  <2>1. Joined(u, c, n, d, k)
    BY <1>1, <1>2, JoinedIs, Zenon
  <2> QED BY <2>1 DEF Joined
<1>4. /\ Len(u) = l + j /\ \A i \in 1..l : u[i] = s[i]
      /\ \A i \in 1..j : u[l + i] = t[i]
  <2>1. u = s \o t
    BY <1>2
  <2> QED BY <1>1, <2>1
<1>5. CASE n < l
  <2>1. PICK e : e = SubSeq(s, n + 1, l)
    OBVIOUS
  <2>2. e \in Seq(Byte) /\ Len(e) = l - n /\ \A i \in 1..l - n : e[i] = s[n + i]
    BY <1>1, <1>5, <2>1
  <2>3. PICK w : w = c \o e
    OBVIOUS
  <2>4. /\ w \in Seq(Byte) /\ Len(w) = l /\ \A i \in 1..n : w[i] = c[i]
        /\ \A i \in 1..l - n : w[n + i] = e[i]
    BY <1>1, <2>2, <2>3
  <2>5. ASSUME NEW i \in 1..l PROVE w[i] = s[i]
    <3>1. CASE i <= n
      BY <1>1, <1>3, <1>4, <1>5, <2>4, <3>1
    <3>2. CASE i > n
      <4>1. PICK g : g = i - n
        OBVIOUS
      <4>2. g \in 1..l - n /\ i = n + g
        BY <1>5, <3>2, <4>1
      <4> QED BY <2>2, <2>4, <4>2
    <3> QED BY <1>1, <3>1, <3>2
  <2>6. w = s
    BY <1>1, <2>4, <2>5, SameBytes
  <2>7. e # <<>>
    BY <1>1, <1>5, <2>2
  <2> QED BY <2>2, <2>3, <2>6, <2>7 DEF CutInside
<1>6. CASE n >= l
  <2>1. PICK e : e = SubSeq(c, l + 1, n)
    OBVIOUS
  <2>2. e \in Seq(Byte) /\ Len(e) = n - l /\ \A i \in 1..n - l : e[i] = c[l + i]
    BY <1>1, <1>6, <2>1
  <2>3. PICK w : w = s \o e
    OBVIOUS
  <2>4. /\ w \in Seq(Byte) /\ Len(w) = n /\ \A i \in 1..l : w[i] = s[i]
        /\ \A i \in 1..n - l : w[l + i] = e[i]
    BY <1>1, <1>6, <2>2, <2>3
  <2>5. ASSUME NEW i \in 1..n PROVE w[i] = c[i]
    <3>1. CASE i <= l
      BY <1>1, <1>3, <1>4, <1>6, <2>4, <3>1
    <3>2. CASE i > l
      <4>1. PICK g : g = i - l
        OBVIOUS
      <4>2. g \in 1..n - l /\ i = l + g
        BY <1>6, <3>2, <4>1
      <4> QED BY <2>2, <2>4, <4>2
    <3> QED BY <1>1, <3>1, <3>2
  <2>6. w = c
    BY <1>1, <2>4, <2>5, SameBytes
  <2>7. PICK v : v = e \o d
    OBVIOUS
  <2>8. /\ v \in Seq(Byte) /\ Len(v) = j /\ \A i \in 1..n - l : v[i] = e[i]
        /\ \A i \in 1..k : v[n - l + i] = d[i]
    <3>1. n + k = l + j
      BY <1>3, <1>4
    <3>2. /\ v \in Seq(Byte) /\ Len(v) = (n - l) + k /\ \A i \in 1..n - l : v[i] = e[i]
          /\ \A i \in 1..k : v[(n - l) + i] = d[i]
      <4>1. Joined(v, e, n - l, d, k)
        BY <1>1, <2>2, <2>7, JoinedIs, Zenon
      <4> QED BY <4>1 DEF Joined
    <3> QED BY <3>1, <3>2
  <2>9. ASSUME NEW i \in 1..j PROVE v[i] = t[i]
    <3>0. l + i \in 1..n + k /\ t[i] = u[l + i]
      BY <1>1, <1>3, <1>4
    <3>1. CASE i <= n - l
      <4>1. i \in 1..n - l /\ l + i \in 1..n
        BY <1>1, <1>6, <3>1
      <4> QED BY <1>3, <2>2, <2>8, <3>0, <4>1
    <3>2. CASE i > n - l
      <4>1. PICK g : g = i - (n - l)
        OBVIOUS
      <4>2. n + k = l + j
        BY <1>3, <1>4
      <4>3. g \in 1..k /\ i = n - l + g /\ l + i = n + g
        BY <1>6, <3>2, <4>1, <4>2
      <4> QED BY <1>3, <2>8, <3>0, <4>3
    <3> QED BY <3>1, <3>2
  <2>10. v = t
    BY <1>1, <2>8, <2>9, SameBytes
  <2> QED BY <2>2, <2>3, <2>6, <2>7, <2>10 DEF CutBehind
<1> QED BY <1>5, <1>6

\* One after the other.
LEMMA CutBoth ==
  ASSUME NEW C, NEW R \in Reader(C), NEW m, NEW s, NEW x, NEW t \in Seq(Byte), NEW X,
         Takes(R, C, m, s, x), CutsTo(R, C, m, s, X), CutsTo(R, C, x, t, X)
  PROVE  CutsTo(R, C, m, s \o t, X)
<1>1. s \in Seq(Byte)
  BY DEF Takes
<1> SUFFICES ASSUME NEW c \in Seq(Byte), NEW d \in Seq(Byte), s \o t = c \o d, d # <<>>
             PROVE  Run(R, C, Good(m), c).msg \in X
  BY Zenon DEF CutsTo
<1>2. CutInside(c, s) \/ CutBehind(c, d, s, t)
  <2>1. c \o d = s \o t
    OBVIOUS
  <2> QED BY <1>1, <2>1, CutWhere
<1>3. CASE CutInside(c, s)
  BY <1>3, Zenon DEF CutsTo, CutInside
<1>4. CASE CutBehind(c, d, s, t)
  <2>1. PICK e \in Seq(Byte) : c = s \o e /\ t = e \o d
    BY <1>4 DEF CutBehind
  <2>2. Run(R, C, Good(m), c) = Run(R, C, Good(x), e)
    BY <2>1, Zenon DEF Takes
  <2>3. Run(R, C, Good(x), e).msg \in X
    BY <2>1, Zenon DEF CutsTo
  <2> QED BY <2>2, <2>3
<1> QED BY <1>2, <1>3, <1>4

\* There is nothing to cut off of nothing.
LEMMA CutNothing ==
  ASSUME NEW C, NEW R, NEW m, NEW X
  PROVE  CutsTo(R, C, m, <<>>, X)
<1> SUFFICES ASSUME NEW c \in Seq(Byte), NEW d \in Seq(Byte), <<>> = c \o d, d # <<>> PROVE FALSE
  BY Zenon DEF CutsTo
<1>1. PICK u : u = c \o d
  OBVIOUS
<1>2. Len(u) = Len(c) + Len(d) /\ Len(u) = 0 /\ Len(c) \in Nat /\ Len(d) \in Nat
  BY <1>1
<1>3. Len(d) = 0
  BY <1>2
<1> QED BY <1>3

\* A number that is cut off is none.
LEMMA NumberCut ==
  ASSUME NEW n \in Nat, NEW e \in Seq(Byte), NEW d \in Seq(Byte), Varint(n) = e \o d, d # <<>>
  PROVE  ReadVarint(e) = [ok |-> FALSE, value |-> 0, rest |-> <<>>]
<1>1. PICK s : s = Varint(n)
  OBVIOUS
<1>2. PICK L \in Nat, j \in Nat, i \in Nat : L = Len(s) /\ j = Len(e) /\ i = Len(d)
  <2>1. s \in Seq(Byte)
    BY <1>1, VarintHasShape DEF VarintShape
  <2> QED BY <2>1
<1>3. L = j + i /\ i > 0 /\ \A h \in 1..j : s[h] = e[h]
  BY <1>1, <1>2
<1>4. \A h \in 1..L - 1 : s[h] >= 128
  BY <1>1, <1>2, VarintHasShape DEF VarintShape
<1>5. \A h \in 1..j : ~(e[h] < 128)
  <2> SUFFICES ASSUME NEW h \in 1..j PROVE ~(e[h] < 128)
    OBVIOUS
  <2>1. s[h] >= 128 /\ s[h] = e[h]
    BY <1>2, <1>3, <1>4
  <2>2. e[h] \in Byte
    BY <1>2, ElementOfSeq
  <2>3. PICK b \in 0..255 : b = e[h]
    BY <2>2 DEF Byte
  <2>4. b >= 128
    BY <2>1, <2>3
  <2>5. ~(b < 128)
    BY <2>4
  <2> QED BY <2>3, <2>5
<1>6. PICK k : k = SelectInSeq(e, LAMBDA b : b < 128)
  OBVIOUS
<1>7. k \in 0..j /\ (k > 0 => e[k] < 128)
  BY <1>2, <1>6, SelectIs
<1>8. k = 0
  BY <1>2, <1>5, <1>7
<1>9. k \notin 1..VarintLimit
  BY <1>8 DEF VarintLimit
<1> QED BY <1>6, <1>9 DEF ReadVarint

\* Broken says that the field f of the key is not all there.
Broken(f, number, wire, b) ==
  f \in Field /\ f.key = <<number, wire>> /\ ~f.ok /\ ~f.end /\ f.bytes = b

\* A field whose number or length is cut off, ...
LEMMA FirstWithoutNumber ==
  ASSUME NEW number \in 1..15, NEW wire \in {VARINT, LENGTH}, NEW u \in Seq(Byte),
         ReadVarint(u) = [ok |-> FALSE, value |-> 0, rest |-> <<>>],
         NEW s, s = Tag(number, wire) \o u
  PROVE  s \in Seq(Byte) /\ s # <<>> /\ Broken(First(s), number, wire, <<>>)
<1>1. wire \in 0..7
  BY DEF VARINT, LENGTH
<1>2. PICK tag : tag = Tag(number, wire)
  OBVIOUS
<1>3. tag \in Seq(Byte) /\ tag # <<>>
  BY <1>1, <1>2, TagRead
<1>4. s \in Seq(Byte) /\ s # <<>>
  BY <1>2, <1>3
<1>5. PICK k \in Nat : k = 8 * number + wire
  BY <1>1
<1>6. ReadVarint(s) = [ok |-> TRUE, value |-> k, rest |-> u] /\ k \div 8 = number /\ k % 8 = wire
  BY <1>1, <1>5, TagRead
<1>7. PICK a, b : a = ReadVarint(s) /\ b = ReadVarint(u)
  OBVIOUS
<1>8. a.ok /\ a.value = k /\ a.rest = u /\ ~b.ok /\ b.value = 0 /\ b.rest = <<>>
  BY <1>6, <1>7
<1>9. PICK c : c = BodyOf(wire, b, u)
  OBVIOUS
<1>10. c.bytes = <<>>
  <2>1. CASE wire = VARINT
    <3>1. c = [ok |-> b.ok, bytes |-> <<>>, rest |-> b.rest]
      BY <1>9, <2>1 DEF BodyOf, VARINT, LENGTH, FIXED64, FIXED32
    <3> QED BY <3>1
  <2>2. CASE wire = LENGTH
    <3>1. c = Content(0, <<>>)
      BY <1>8, <1>9, <2>2 DEF BodyOf, LENGTH, FIXED64, FIXED32
    <3>2. PICK none : none = <<>>
      OBVIOUS
    <3>3. none \in Seq(Byte) /\ Len(none) = 0 /\ SubSeq(none, 1, 0) = <<>>
      BY <3>2
    <3>4. Content(0, none).bytes = SubSeq(none, 1, 0)
      BY <3>3 DEF Content
    <3> QED BY <3>1, <3>2, <3>3, <3>4
  <2> QED BY <2>1, <2>2
<1>11. First(s) = FieldOf(s, a, b, c)
  BY <1>6, <1>7, <1>8, <1>9 DEF First, FieldWith, FieldBehind
<1>12. PICK f : f = First(s)
  OBVIOUS
<1>13. /\ f.key = <<k \div 8, k % 8>> /\ f.bytes = c.bytes
       /\ f.end = (a.ok /\ k = 0)
       /\ f.ok = (/\ a.ok /\ k >= 8 /\ c.ok
                  /\ \/ k % 8 \in {VARINT, LENGTH} /\ b.ok
                     \/ k % 8 \in {FIXED64, FIXED32})
  BY <1>8, <1>11, <1>12 DEF FieldOf
<1>14. ~(k = 0) /\ k % 8 \notin {FIXED64, FIXED32}
  BY <1>1, <1>5, <1>6 DEF VARINT, LENGTH, FIXED64, FIXED32
<1>15. ~f.ok /\ ~f.end
  <2>1. ~f.end
    BY <1>13, <1>14, Zenon
  <2>2. ~f.ok
    BY <1>8, <1>13, <1>14, Zenon
  <2> QED BY <2>1, <2>2
<1>16. f \in Field
  BY <1>4, <1>12, FirstType
<1> QED BY <1>4, <1>6, <1>10, <1>12, <1>13, <1>15, <1>16 DEF Broken

\* ... and one whose content is.
LEMMA FirstCutOff ==
  ASSUME NEW number \in 1..15, NEW n \in Word, NEW p \in Seq(Byte), Len(p) < n,
         NEW s, s = Tag(number, LENGTH) \o (Varint(n) \o p)
  PROVE  s \in Seq(Byte) /\ s # <<>> /\ Broken(First(s), number, LENGTH, p)
<1>1. LENGTH \in 0..7 /\ n \in Nat
  BY DEF LENGTH, Word
<1>2. PICK tag, size : tag = Tag(number, LENGTH) /\ size = Varint(n)
  OBVIOUS
<1>3. size \in Seq(Byte)
  BY <1>1, <1>2, VarintWrote DEF Wrote
<1>4. PICK u \in Seq(Byte) : u = size \o p
  BY <1>3, BytesJoin
<1>5. tag \in Seq(Byte) /\ tag # <<>> /\ s = tag \o u
  <2>1. tag \in Seq(Byte) /\ tag # <<>>
    BY <1>1, <1>2, TagRead
  <2> QED BY <1>2, <1>4, <2>1
<1>6. s \in Seq(Byte) /\ s # <<>>
  BY <1>4, <1>5
<1>7. PICK k \in Nat : k = 8 * number + LENGTH
  BY DEF LENGTH
<1>8. ReadVarint(s) = [ok |-> TRUE, value |-> k, rest |-> u] /\ k \div 8 = number /\ k % 8 = LENGTH
  BY <1>1, <1>2, <1>5, <1>7, TagRead
<1>9. ReadVarint(u) = [ok |-> TRUE, value |-> n, rest |-> p]
  BY <1>2, <1>4, ReadVarintIs
<1>10. PICK a, b : a = ReadVarint(s) /\ b = ReadVarint(u)
  OBVIOUS
<1>11. a.ok /\ a.value = k /\ a.rest = u /\ b.ok /\ b.value = n /\ b.rest = p
  BY <1>8, <1>9, <1>10
<1>12. PICK c : c = BodyOf(LENGTH, b, u)
  OBVIOUS
<1>13. c = Content(n, p)
  BY <1>11, <1>12 DEF BodyOf, LENGTH, FIXED64, FIXED32
<1>14. ~c.ok /\ c.bytes = p
  <2>1. ~(n <= Len(p)) /\ SubSeq(p, 1, Len(p)) = p
    BY <1>1
  <2> QED BY <1>13, <2>1 DEF Content
<1>15. First(s) = FieldOf(s, a, b, c)
  BY <1>8, <1>10, <1>11, <1>12 DEF First, FieldWith, FieldBehind
<1>16. PICK f : f = First(s)
  OBVIOUS
<1>17. /\ f.key = <<k \div 8, k % 8>> /\ f.bytes = c.bytes
       /\ f.end = (a.ok /\ k = 0)
       /\ f.ok = (/\ a.ok /\ k >= 8 /\ c.ok
                  /\ \/ k % 8 \in {VARINT, LENGTH} /\ b.ok
                     \/ k % 8 \in {FIXED64, FIXED32})
  BY <1>11, <1>15, <1>16 DEF FieldOf
<1>18. ~(k = 0)
  BY <1>7 DEF LENGTH
<1>19. ~f.ok /\ ~f.end
  <2>1. ~f.end
    BY <1>17, <1>18, Zenon
  <2>2. ~f.ok
    BY <1>14, <1>17, Zenon
  <2> QED BY <2>1, <2>2
<1>20. f \in Field
  BY <1>6, <1>16, FirstType
<1> QED BY <1>6, <1>8, <1>14, <1>16, <1>17, <1>19, <1>20 DEF Broken

\* A broken field is the last that is read.
LEMMA RunsIntoBroken ==
  ASSUME NEW C, NEW R \in Reader(C), NEW m \in C, NEW s \in Seq(Byte), s # <<>>,
         NEW number, NEW wire, NEW b, Broken(First(s), number, wire, b)
  PROVE  /\ Good(m) \in Outcome(C)
         /\ Run(R, C, Good(m), s) = StepBy(R, Good(m), First(s))
<1>1. PICK f : f = First(s)
  OBVIOUS
<1>2. f \in Field /\ f.key = <<number, wire>> /\ ~f.ok /\ ~f.end
  BY <1>1 DEF Broken
<1>3. PICK none : none = <<>>
  OBVIOUS
<1>4. none \in Seq(Field) /\ <<f>> \o none = <<f>>
  BY <1>2, <1>3
<1>5. Fields(s) = <<f>>
  BY <1>1, <1>2, FieldsAre
<1>6. Good(m) \in Outcome(C)
  BY DEF Good, Outcome
<1>7. PICK x \in Outcome(C) : x = StepBy(R, Good(m), f)
  BY <1>2, <1>6, StepByType
<1>8. After(R, C, Good(m), <<f>> \o none) = After(R, C, x, none)
  BY <1>2, <1>4, <1>6, <1>7, AfterFirst
<1>9. After(R, C, x, none) = x
  BY <1>3, <1>7, AfterNone
<1>10. Run(R, C, Good(m), s) = x
  BY <1>4, <1>5, <1>8, <1>9 DEF Run
<1> QED BY <1>1, <1>6, <1>7, <1>10

\* Of it only what is there of a string or of an object is read.
LEMMA RunBroken ==
  ASSUME NEW C, NEW R \in Reader(C), NEW m \in C, NEW s \in Seq(Byte), s # <<>>,
         NEW number, NEW wire, NEW b, Broken(First(s), number, wire, b)
  PROVE  Run(R, C, Good(m), s).msg = IF wire = LENGTH THEN R[<<m, First(s)>>].msg ELSE m
<1>1. PICK f : f = First(s)
  OBVIOUS
<1>2. f \in Field /\ f.key = <<number, wire>> /\ ~f.ok /\ f.key[2] = wire
  BY <1>1 DEF Broken
<1>3. PICK x : x = StepBy(R, Good(m), f)
  OBVIOUS
<1>4. Run(R, C, Good(m), s) = x
  BY <1>1, <1>3, RunsIntoBroken
<1>5. Good(m).ok /\ Good(m).msg = m
  BY DEF Good
<1>6. CASE wire = LENGTH
  <2>1. PICK r : r = R[<<m, f>>]
    OBVIOUS
  <2>2. r \in Outcome(C)
    BY <1>2, <2>1 DEF Reader
  <2>3. x = [r EXCEPT !.ok = @ /\ f.ok]
    BY <1>2, <1>3, <1>5, <1>6, <2>1, Zenon DEF StepBy
  <2>4. x.msg = r.msg
    BY <2>2, <2>3 DEF Outcome
  <2> QED BY <1>1, <1>4, <1>6, <2>1, <2>4
<1>7. CASE wire # LENGTH
  <2>1. x = [Good(m) EXCEPT !.ok = FALSE]
    BY <1>2, <1>3, <1>7, Zenon DEF StepBy
  <2>2. x.msg = m
    BY <2>1 DEF Good
  <2> QED BY <1>4, <1>7, <2>2
<1> QED BY <1>6, <1>7

\* It is not read for good.
LEMMA BrokenIsRefused ==
  ASSUME NEW C, NEW R \in Reader(C), NEW m \in C, NEW s \in Seq(Byte), s # <<>>,
         NEW number, NEW wire, NEW b, Broken(First(s), number, wire, b)
  PROVE  ~Run(R, C, Good(m), s).ok
<1>1. PICK f : f = First(s)
  OBVIOUS
<1>2. f \in Field /\ ~f.ok
  BY <1>1 DEF Broken
<1>3. Good(m) \in Outcome(C) /\ Run(R, C, Good(m), s) = StepBy(R, Good(m), f)
  BY <1>1, RunsIntoBroken
<1>4. PICK r : r = R[<<Good(m).msg, f>>]
  OBVIOUS
<1>5. r \in Outcome(C)
  <2>1. Good(m).msg \in C
    BY DEF Good
  <2> QED BY <1>2, <1>4, <2>1 DEF Reader
<1>6. ~[r EXCEPT !.ok = @ /\ f.ok].ok
  <2>1. [r EXCEPT !.ok = @ /\ f.ok].ok = (r.ok /\ f.ok)
    BY <1>5 DEF Outcome
  <2> QED BY <1>2, <2>1
<1>7. ~[Good(m) EXCEPT !.ok = FALSE].ok
  BY DEF Good
<1> QED BY <1>3, <1>4, <1>6, <1>7, Zenon DEF StepBy

\* Nothing of a stream is read from no bytes.
LEMMA RunNothing ==
  ASSUME NEW C, NEW R \in Reader(C), NEW m \in C
  PROVE  Run(R, C, Good(m), <<>>).msg = m
<1>1. PICK t : t = <<>>
  OBVIOUS
<1>2. t \in Seq(Byte)
  BY <1>1
<1>3. Fields(t) = <<>>
  BY <1>1, <1>2, FieldsAre, Zenon
<1>4. Good(m) \in Outcome(C)
  BY DEF Good, Outcome
<1>5. After(R, C, Good(m), <<>>) = Good(m)
  BY <1>4, AfterNone
<1>6. Run(R, C, Good(m), t) = Good(m)
  BY <1>3, <1>5, Zenon DEF Run
<1> QED BY <1>1, <1>6 DEF Good

\* A tag is one byte: in it there is nothing to cut.
LEMMA TagIsByte ==
  ASSUME NEW number \in 1..15, NEW wire \in 0..7, NEW c \in Seq(Byte),
         CutInside(c, Tag(number, wire))
  PROVE  c = <<>>
<1>1. PICK e \in Seq(Byte) : Tag(number, wire) = c \o e /\ e # <<>>
  BY DEF CutInside
<1>2. PICK u : u = Tag(number, wire)
  OBVIOUS
<1>3. Len(u) = 1
  BY <1>2, TagWrote DEF Wrote
<1>4. Joined(u, c, Len(c), e, Len(e))
  BY <1>1, <1>2, JoinedIs, Zenon
<1>5. Len(u) = Len(c) + Len(e)
  BY <1>4, Zenon DEF Joined
<1>6. PICK i \in Nat, j \in Nat : i = Len(c) /\ j = Len(e) /\ j # 0
  BY <1>1
<1>7. Len(c) = 0
  <2>1. i + j = 1
    BY <1>3, <1>5, <1>6, Zenon
  <2> QED BY <1>6, <2>1
<1> QED BY <1>7

\* Of a number that is cut off nothing is read, ...
LEMMA CutNumber ==
  ASSUME NEW C, NEW R \in Reader(C), NEW m \in C, NEW number \in 1..15, NEW v \in Nat,
         NEW X, m \in X
  PROVE  CutsTo(R, C, m, Tag(number, VARINT) \o Varint(v), X)
<1>1. PICK tag, size : tag = Tag(number, VARINT) /\ size = Varint(v)
  OBVIOUS
<1>2. VARINT \in 0..7 /\ VARINT \in {VARINT, LENGTH} /\ VARINT # LENGTH
  BY DEF VARINT, LENGTH
<1>3. tag \in Seq(Byte) /\ size \in Seq(Byte)
  <2>1. tag \in Seq(Byte)
    BY <1>1, <1>2, TagWrote DEF Wrote
  <2>2. size \in Seq(Byte)
    BY <1>1, <1>2, VarintWrote DEF Wrote
  <2> QED BY <2>1, <2>2
<1> SUFFICES ASSUME NEW c \in Seq(Byte), NEW d \in Seq(Byte), tag \o size = c \o d, d # <<>>
             PROVE  Run(R, C, Good(m), c).msg \in X
  BY <1>1, Zenon DEF CutsTo
<1>4. CutInside(c, tag) \/ CutBehind(c, d, tag, size)
  <2>1. c \o d = tag \o size
    OBVIOUS
  <2> QED BY <1>3, <2>1, CutWhere
<1>5. CASE CutInside(c, tag)
  <2>1. c = <<>>
    BY <1>1, <1>2, <1>5, TagIsByte
  <2> QED BY <2>1, RunNothing
<1>6. CASE CutBehind(c, d, tag, size)
  <2>1. PICK e \in Seq(Byte) : c = tag \o e /\ size = e \o d
    BY <1>6 DEF CutBehind
  <2>2. ReadVarint(e) = [ok |-> FALSE, value |-> 0, rest |-> <<>>]
    BY <1>1, <2>1, NumberCut
  <2>3. c # <<>> /\ Broken(First(c), number, VARINT, <<>>)
    BY <1>1, <1>2, <2>1, <2>2, FirstWithoutNumber
  <2>4. Run(R, C, Good(m), c).msg = IF VARINT = LENGTH THEN R[<<m, First(c)>>].msg ELSE m
    BY <2>3, RunBroken
  <2> QED BY <1>2, <2>4
<1> QED BY <1>4, <1>5, <1>6

\* ... also when a 0 is not written.
LEMMA CutUInt ==
  ASSUME NEW C, NEW R \in Reader(C), NEW m \in C, NEW number \in 1..15, NEW v \in Word,
         NEW X, m \in X
  PROVE  CutsTo(R, C, m, UInt(number, v), X)
<1>1. CASE v = 0
  <2>1. UInt(number, v) = <<>>
    BY <1>1 DEF UInt
  <2> QED BY <2>1, CutNothing
<1>2. CASE v # 0
  <2>1. UInt(number, v) = Tag(number, VARINT) \o Varint(v)
    BY <1>2 DEF UInt
  <2>2. v \in Nat
    BY DEF Word
  <2> QED BY <2>1, <2>2, CutNumber
<1> QED BY <1>1, <1>2

\* What is there of the bytes b of the field, the reader makes something of X of.
TakesPart(R, number, b, m, X) ==
  \A f \in Field, d \in Seq(Byte) :
    (f.key = <<number, LENGTH>> /\ b = f.bytes \o d) => R[<<m, f>>].msg \in X

\* What there is of the field c, of the bytes b: nothing, or a broken field.
BrokenInside(c, number, b) ==
  c # <<>> =>
    \E p, g \in Seq(Byte) : b = p \o g /\ Broken(First(c), number, LENGTH, p)

\* It is a tag, a length and the bytes.
LEMMA DelimitedIs ==
  ASSUME NEW number \in 1..15, NEW b \in Seq(Byte)
  PROVE  Delimited(number, b) = Tag(number, LENGTH) \o (Varint(Len(b)) \o b)
<1>1. PICK tag, size, n : tag = Tag(number, LENGTH) /\ n = Len(b) /\ size = Varint(n)
  OBVIOUS
<1>2. LENGTH \in 0..7 /\ n \in Nat
  BY <1>1 DEF LENGTH
<1>3. tag \in Seq(Byte)
  BY <1>1, <1>2, TagWrote DEF Wrote
<1>4. size \in Seq(Byte)
  BY <1>1, <1>2, VarintWrote DEF Wrote
<1>5. (tag \o size) \o b = tag \o (size \o b)
  BY <1>3, <1>4, BytesJoin
<1> QED BY <1>1, <1>5 DEF Delimited

\* What is written behind its length and then cut off is such a field.
LEMMA DelimitedCut ==
  ASSUME NEW number \in 1..15, NEW b \in Seq(Byte), Len(b) \in Word,
         NEW c \in Seq(Byte), NEW d \in Seq(Byte), Delimited(number, b) = c \o d, d # <<>>
  PROVE  BrokenInside(c, number, b)
<1>1. PICK tag, size, n : tag = Tag(number, LENGTH) /\ n = Len(b) /\ size = Varint(n)
  OBVIOUS
<1>2. LENGTH \in 0..7 /\ LENGTH \in {VARINT, LENGTH} /\ n \in Nat /\ n \in Word
  BY <1>1 DEF LENGTH
<1>3. tag \in Seq(Byte) /\ size \in Seq(Byte)
  <2>1. tag \in Seq(Byte)
    BY <1>1, <1>2, TagWrote DEF Wrote
  <2>2. size \in Seq(Byte)
    BY <1>1, <1>2, VarintWrote DEF Wrote
  <2> QED BY <2>1, <2>2
<1>4. PICK u \in Seq(Byte) : u = size \o b
  BY <1>3, BytesJoin
<1>5. Delimited(number, b) = tag \o u
  BY <1>1, <1>4, DelimitedIs
<1>6. CutInside(c, tag) \/ CutBehind(c, d, tag, u)
  <2>1. c \o d = tag \o u
    BY <1>5
  <2> QED BY <1>3, <1>4, <2>1, CutWhere
<1>7. CASE CutInside(c, tag)
  <2>1. c = <<>>
    BY <1>1, <1>2, <1>7, TagIsByte
  <2> QED BY <2>1 DEF BrokenInside
<1>8. CASE CutBehind(c, d, tag, u)
  <2>1. PICK e \in Seq(Byte) : c = tag \o e /\ u = e \o d
    BY <1>8 DEF CutBehind
  <2>2. CutInside(e, size) \/ CutBehind(e, d, size, b)
    <3>1. e \o d = size \o b
      BY <1>4, <2>1
    <3> QED BY <1>3, <3>1, CutWhere
  <2>3. CASE CutInside(e, size)
    <3>1. PICK g \in Seq(Byte) : size = e \o g /\ g # <<>>
      BY <2>3 DEF CutInside
    <3>2. ReadVarint(e) = [ok |-> FALSE, value |-> 0, rest |-> <<>>]
      BY <1>1, <1>2, <3>1, NumberCut
    <3>3. Broken(First(c), number, LENGTH, <<>>)
      BY <1>1, <1>2, <2>1, <3>2, FirstWithoutNumber
    <3>4. PICK none : none = <<>>
      OBVIOUS
    <3>5. none \in Seq(Byte) /\ b = none \o b
      BY <3>4
    <3> QED BY <3>3, <3>4, <3>5, Zenon DEF BrokenInside
  <2>4. CASE CutBehind(e, d, size, b)
    <3>1. PICK p \in Seq(Byte) : e = size \o p /\ b = p \o d
      BY <2>4 DEF CutBehind
    <3>2. Len(p) < n
      <4>1. Joined(b, p, Len(p), d, Len(d))
        BY <3>1, JoinedIs, Zenon
      <4>2. n = Len(p) + Len(d) /\ Len(p) \in Nat /\ Len(d) \in Nat
        BY <1>1, <4>1 DEF Joined
      <4>3. Len(d) # 0
        OBVIOUS
      <4> QED BY <4>2, <4>3
    <3>3. Broken(First(c), number, LENGTH, p)
      BY <1>1, <1>2, <2>1, <3>1, <3>2, FirstCutOff
    <3> QED BY <3>1, <3>3, Zenon DEF BrokenInside
  <2> QED BY <2>2, <2>3, <2>4
<1> QED BY <1>6, <1>7, <1>8

\* Of such a field what there is of it is read.
LEMMA CutDelimited ==
  ASSUME NEW C, NEW R \in Reader(C), NEW m \in C, NEW number \in 1..15, NEW b \in Seq(Byte),
         Len(b) \in Word, NEW X, m \in X, TakesPart(R, number, b, m, X)
  PROVE  CutsTo(R, C, m, Delimited(number, b), X)
<1> SUFFICES ASSUME NEW c \in Seq(Byte), NEW d \in Seq(Byte), Delimited(number, b) = c \o d,
                    d # <<>>
             PROVE  Run(R, C, Good(m), c).msg \in X
  BY Zenon DEF CutsTo
<1>1. BrokenInside(c, number, b)
  BY DelimitedCut
<1>2. CASE c = <<>>
  BY <1>2, RunNothing
<1>3. CASE c # <<>>
  <2>1. PICK p \in Seq(Byte), g \in Seq(Byte) :
               b = p \o g /\ Broken(First(c), number, LENGTH, p)
    BY <1>1, <1>3, Zenon DEF BrokenInside
  <2>2. PICK f : f = First(c)
    OBVIOUS
  <2>3. f \in Field /\ f.key = <<number, LENGTH>> /\ f.bytes = p
    BY <2>1, <2>2 DEF Broken
  <2>4. R[<<m, f>>].msg \in X
    BY <2>1, <2>3 DEF TakesPart
  <2>5. Run(R, C, Good(m), c).msg = IF LENGTH = LENGTH THEN R[<<m, First(c)>>].msg ELSE m
    BY <1>3, <2>1, RunBroken
  <2> QED BY <2>2, <2>4, <2>5
<1> QED BY <1>2, <1>3

\* The object is refused that such a field is in.
LEMMA CutIsRefused ==
  ASSUME NEW C, NEW R \in Reader(C), NEW m \in C, NEW number \in 1..15, NEW b \in Seq(Byte),
         Len(b) \in Word, NEW c \in Seq(Byte), NEW d \in Seq(Byte),
         Delimited(number, b) = c \o d, d # <<>>
  PROVE  c = <<>> \/ ~Run(R, C, Good(m), c).ok
<1> SUFFICES ASSUME c # <<>> PROVE ~Run(R, C, Good(m), c).ok
  OBVIOUS
<1>1. PICK p \in Seq(Byte) : Broken(First(c), number, LENGTH, p)
  BY DelimitedCut, Zenon DEF BrokenInside
<1> QED BY <1>1, BrokenIsRefused

\* So of a string, which is not written when it is empty.
TakesStringPart(R, number, b, m, X) == b # <<>> => TakesPart(R, number, b, m, X)

\* A string that is cut off leaves one of these messages, too.
LEMMA CutStr ==
  ASSUME NEW C, NEW R \in Reader(C), NEW m \in C, NEW number \in 1..15, NEW b \in Seq(Byte),
         Len(b) \in Word, NEW X, m \in X, TakesStringPart(R, number, b, m, X)
  PROVE  CutsTo(R, C, m, Str(number, b), X)
<1>1. CASE b = <<>>
  <2>1. Str(number, b) = <<>>
    BY <1>1 DEF Str
  <2> QED BY <2>1, CutNothing
<1>2. CASE b # <<>>
  <2>1. Str(number, b) = Delimited(number, b)
    BY <1>2 DEF Str
  <2>2. TakesPart(R, number, b, m, X)
    BY <1>2 DEF TakesStringPart
  <2> QED BY <2>1, <2>2, CutDelimited
<1> QED BY <1>1, <1>2
-----------------------------------------------------------------------------
(* What is written of the classes is read *)

\* What is written is bytes.
LEMMA WrittenBytes ==
  \A number \in 1..15 :
    /\ \A v \in Nat : UInt(number, v) \in Seq(Byte)
    /\ \A s \in Seq(Byte) : Str(number, s) \in Seq(Byte) /\ Delimited(number, s) \in Seq(Byte)
<1> SUFFICES ASSUME NEW number \in 1..15
             PROVE  /\ \A v \in Nat : UInt(number, v) \in Seq(Byte)
                    /\ \A s \in Seq(Byte) : /\ Str(number, s) \in Seq(Byte)
                                            /\ Delimited(number, s) \in Seq(Byte)
  OBVIOUS
<1>1. ASSUME NEW v \in Nat PROVE UInt(number, v) \in Seq(Byte)
  BY UIntWrote DEF Wrote
<1>2. ASSUME NEW s \in Seq(Byte) PROVE Str(number, s) \in Seq(Byte)
  BY StrWrote DEF Wrote
<1>3. ASSUME NEW s \in Seq(Byte) PROVE Delimited(number, s) \in Seq(Byte)
  <2>1. Wrote(s, Len(s))
    BY DEF Wrote
  <2>2. Wrote(Delimited(number, s), DelimitedSize(Len(s)))
    BY <2>1, DelimitedWrote
  <2> QED BY <2>2 DEF Wrote
<1> QED BY <1>1, <1>2, <1>3

\* The setters' numbers can be read.
NumbersFit == Number \subseteq Word

\* What the setters may be called with, if the numbers can be read.
LEMMA SettingsFit ==
  ASSUME NumbersFit
  PROVE  Settings \subseteq Word /\ 0 \in Word /\ 1 \in Word /\ \A s \in Seq(Number) : s \in Seq(Word)
<1>1. 0 \in Word /\ 1 \in Word
  <2>1. VarintSize(0) = 1 /\ VarintSize(1) = 1
    BY VarintSizeIs
  <2> QED BY <2>1 DEF Word, VarintLimit
<1>2. ASSUME NEW s \in Seq(Number) PROVE s \in Seq(Word)
  <2>1. \A i \in 1..Len(s) : s[i] \in Number
    BY ElementOfSeq
  <2>2. \A i \in 1..Len(s) : s[i] \in Word
    BY <2>1 DEF NumbersFit
  <2> QED BY <2>2, SeqOfIts
<1> QED BY <1>1, <1>2 DEF Settings, NumbersFit

\* Packed numbers, read on their own.
LEMMA PackedIsRead ==
  ASSUME NEW ns \in Seq(Word)
  PROVE  /\ Packed(ns) \in Seq(Byte) /\ ReadPacked(Packed(ns)) = ns /\ IsPacked(Packed(ns))
         /\ Packed(ns) = <<>> => ns = <<>>
<1>1. PICK t : t = <<>>
  OBVIOUS
<1>2. t \in Seq(Byte) /\ ReadPacked(t) = t /\ IsPacked(t)
  <2>1. t \in Seq(Byte)
    BY <1>1
  <2>2. IsPacked(t)
    BY <1>1, <2>1, IsPackedIs, Zenon DEF PackedBehind
  <2> QED BY <1>1, <2>1, <2>2, ReadPackedIs
<1>3. Packed(ns) \in Seq(Byte) /\ PackedBack(Packed(ns) \o t, ns, t)
  BY <1>2, ReadPackedBack
<1>4. Packed(ns) \o t = Packed(ns) /\ ns \o t = ns
  <2>1. Packed(ns) \o t = Packed(ns)
    BY <1>1, <1>3
  <2>2. ns \o t = ns
    BY <1>1
  <2> QED BY <2>1, <2>2
<1>5. ReadPacked(Packed(ns)) = ns /\ IsPacked(Packed(ns))
  BY <1>2, <1>3, <1>4, Zenon DEF PackedBack
<1> QED BY <1>1, <1>2, <1>3, <1>5

\* What a ConfState does to another: its numbers come behind those that are there.
LEMMA ConfStateReadBack ==
  ASSUME NumbersFit, NEW m \in ConfStateClass, NEW x \in PlainConfState,
         Len(SerializeConfState(x)) \in Word
  PROVE  Takes(ConfStateReader, ConfStateClass, m, SerializeConfState(x), MergeConfState(m, x))
<1>1. PICK R, C : R = ConfStateReader /\ C = ConfStateClass
  OBVIOUS
<1>2. R \in Reader(C)
  <2>1. <<>> \in Seq(Byte)
    OBVIOUS
  <2> QED BY <1>1, <2>1, ParseConfStateIs
<1>3. x.nodes \in Seq(Word) /\ x.learners \in Seq(Word) /\ x.unknown = <<>>
  BY SettingsFit DEF PlainConfState
<1>4. PICK p, q : p = Packed(x.nodes) /\ q = Packed(x.learners)
  OBVIOUS
<1>5. /\ p \in Seq(Byte) /\ ReadPacked(p) = x.nodes /\ (p = <<>> => x.nodes = <<>>)
      /\ q \in Seq(Byte) /\ ReadPacked(q) = x.learners /\ (q = <<>> => x.learners = <<>>)
      /\ IsPacked(p) /\ IsPacked(q)
  BY <1>3, <1>4, PackedIsRead
<1>6. x.nodes \in Seq(Nat) /\ x.learners \in Seq(Nat)
  BY PlainIsOfClass DEF ConfStateClass
<1>7. PICK y : y = [m EXCEPT !.nodes = m.nodes \o x.nodes]
  OBVIOUS
<1>8. PICK z : z = [y EXCEPT !.learners = y.learners \o x.learners]
  OBVIOUS
<1>9. y \in C /\ z \in C /\ z = MergeConfState(m, x)
  <2>1. m.nodes \o x.nodes \in Seq(Nat) /\ m.learners \o x.learners \in Seq(Nat)
    BY <1>6 DEF ConfStateClass
  <2>2. m.unknown \o x.unknown = m.unknown
    BY <1>3 DEF ConfStateClass
  <2> QED BY <1>1, <1>7, <1>8, <2>1, <2>2 DEF ConfStateClass, MergeConfState
<1>10. TakesString(R, 1, p, m, y)
  <2>1. ASSUME p = <<>> PROVE y = m
    <3>1. m.nodes \o x.nodes = m.nodes
      BY <1>5, <2>1 DEF ConfStateClass
    <3> QED BY <1>7, <3>1 DEF ConfStateClass
  <2>2. ASSUME NEW f \in Field, f.key = <<1, LENGTH>>, f.bytes = p PROVE R[<<m, f>>] = Good(y)
    <3>1. R[<<m, f>>] = ReadConfState(m, f)
      BY <1>1 DEF ConfStateReader
    <3>2. ReadConfState(m, f)
            = [msg |-> [m EXCEPT !.nodes = m.nodes \o ReadPacked(f.bytes)], ok |-> IsPacked(f.bytes)]
      BY <2>2 DEF ReadConfState, LENGTH, VARINT
    <3>3. IsPacked(f.bytes) = TRUE
      BY <1>5, <2>2, IsPackedIs, Zenon
    <3>4. [m EXCEPT !.nodes = m.nodes \o ReadPacked(f.bytes)] = y
      BY <1>5, <1>7, <2>2
    <3> QED BY <3>1, <3>2, <3>3, <3>4, Zenon DEF Good
  <2> QED BY <2>1, <2>2 DEF TakesString, TakesBytes
<1>11. TakesString(R, 2, q, y, z)
  <2>1. ASSUME q = <<>> PROVE z = y
    <3>1. y.learners \o x.learners = y.learners
      BY <1>1, <1>5, <1>9, <2>1 DEF ConfStateClass
    <3> QED BY <1>1, <1>8, <1>9, <3>1 DEF ConfStateClass
  <2>2. ASSUME NEW f \in Field, f.key = <<2, LENGTH>>, f.bytes = q PROVE R[<<y, f>>] = Good(z)
    <3>1. R[<<y, f>>] = ReadConfState(y, f)
      BY <1>1, <1>9 DEF ConfStateReader
    <3>2. ReadConfState(y, f)
            = [msg |-> [y EXCEPT !.learners = y.learners \o ReadPacked(f.bytes)], ok |-> IsPacked(f.bytes)]
      BY <2>2 DEF ReadConfState, LENGTH, VARINT
    <3>3. IsPacked(f.bytes) = TRUE
      BY <1>5, <2>2, IsPackedIs, Zenon
    <3>4. [y EXCEPT !.learners = y.learners \o ReadPacked(f.bytes)] = z
      BY <1>5, <1>8, <2>2
    <3> QED BY <3>1, <3>2, <3>3, <3>4, Zenon DEF Good
  <2> QED BY <2>1, <2>2 DEF TakesString, TakesBytes
<1>12. PICK s, t : s = Str(1, p) /\ t = Str(2, q)
  OBVIOUS
<1>13. s \in Seq(Byte) /\ t \in Seq(Byte)
  BY <1>5, <1>12, StrWrote DEF Wrote
<1>14. SerializeConfState(x) = s \o t
  <2>1. SerializeConfState(x) = s \o t \o <<>>
    BY <1>3, <1>4, <1>12 DEF SerializeConfState
  <2> QED BY <1>13, <2>1
<1>15. Len(p) \in Word /\ Len(q) \in Word
  <2>1. Len(s) \in Word /\ Len(t) \in Word
    BY <1>13, <1>14, WordPart
  <2> QED BY <1>5, <1>12, <2>1, WordString
<1>16. Takes(R, C, m, s, y)
  BY <1>1, <1>2, <1>5, <1>9, <1>10, <1>12, <1>15, TakesStr
<1>17. Takes(R, C, y, t, z)
  BY <1>2, <1>5, <1>9, <1>11, <1>12, <1>15, TakesStr
<1>18. Takes(R, C, m, s \o t, z)
  BY <1>2, <1>16, <1>17, TakesBoth
<1> QED BY <1>1, <1>9, <1>14, <1>18

\* So parsing its bytes merges it.
LEMMA ConfStateParsed ==
  ASSUME NumbersFit, NEW m \in ConfStateClass, NEW x \in PlainConfState,
         Len(SerializeConfState(x)) \in Word
  PROVE  /\ ParseConfState(m, SerializeConfState(x)) = Good(MergeConfState(m, x))
         /\ MergeConfState(m, x) \in ConfStateClass
<1>1. PICK s, y : s = SerializeConfState(x) /\ y = MergeConfState(m, x)
  OBVIOUS
<1>2. Takes(ConfStateReader, ConfStateClass, m, s, y)
  BY <1>1, ConfStateReadBack, Zenon
<1>3. s \in Seq(Byte) /\ y \in ConfStateClass
  BY <1>2 DEF Takes
<1>4. /\ ConfStateReader \in Reader(ConfStateClass)
      /\ ParseConfState(m, s) = After(ConfStateReader, ConfStateClass, Good(m), Fields(s))
  BY <1>3, ParseConfStateIs
<1>5. After(ConfStateReader, ConfStateClass, Good(m), Fields(s)) = Good(y)
  BY <1>2, <1>4, TakesAll
<1> QED BY <1>1, <1>3, <1>4, <1>5

\* A number of an Entry is set unless 0 was meant.
LEMMA EntryTakesNumber ==
  ASSUME NEW m \in EntryClass, NEW v \in Nat
  PROVE  /\ TakesNumber(EntryReader, 1, v, m, [m EXCEPT !.type = Over(m.type, v, 0)])
         /\ TakesNumber(EntryReader, 2, v, m, [m EXCEPT !.term = Over(m.term, v, 0)])
         /\ TakesNumber(EntryReader, 3, v, m, [m EXCEPT !.index = Over(m.index, v, 0)])
<1>1. ASSUME v = 0
      PROVE  /\ [m EXCEPT !.type = Over(m.type, v, 0)] = m
             /\ [m EXCEPT !.term = Over(m.term, v, 0)] = m
             /\ [m EXCEPT !.index = Over(m.index, v, 0)] = m
  BY <1>1 DEF Over, EntryClass
<1>2. ASSUME v # 0, NEW f \in Field, f.value = v
      PROVE  /\ f.key = <<1, VARINT>> => EntryReader[<<m, f>>] = Good([m EXCEPT !.type = Over(m.type, v, 0)])
             /\ f.key = <<2, VARINT>> => EntryReader[<<m, f>>] = Good([m EXCEPT !.term = Over(m.term, v, 0)])
             /\ f.key = <<3, VARINT>> => EntryReader[<<m, f>>] = Good([m EXCEPT !.index = Over(m.index, v, 0)])
  <2>1. EntryReader[<<m, f>>] = ReadEntry(m, f)
    BY DEF EntryReader
  <2>2. ASSUME f.key = <<1, VARINT>> PROVE ReadEntry(m, f) = Good([m EXCEPT !.type = v])
    BY <1>2, <2>2 DEF ReadEntry, LENGTH, VARINT
  <2>3. ASSUME f.key = <<2, VARINT>> PROVE ReadEntry(m, f) = Good([m EXCEPT !.term = v])
    BY <1>2, <2>3 DEF ReadEntry, LENGTH, VARINT
  <2>4. ASSUME f.key = <<3, VARINT>> PROVE ReadEntry(m, f) = Good([m EXCEPT !.index = v])
    BY <1>2, <2>4 DEF ReadEntry, LENGTH, VARINT
  <2>20. \A old : Over(old, v, 0) = v
    BY <1>2 DEF Over
  <2> QED BY <2>1, <2>2, <2>3, <2>4, <2>20
<1>3. TakesNumber(EntryReader, 1, v, m, [m EXCEPT !.type = Over(m.type, v, 0)])
  BY <1>1, <1>2 DEF TakesNumber, TakesValue
<1>4. TakesNumber(EntryReader, 2, v, m, [m EXCEPT !.term = Over(m.term, v, 0)])
  BY <1>1, <1>2 DEF TakesNumber, TakesValue
<1>5. TakesNumber(EntryReader, 3, v, m, [m EXCEPT !.index = Over(m.index, v, 0)])
  BY <1>1, <1>2 DEF TakesNumber, TakesValue
<1> QED BY <1>3, <1>4, <1>5

\* The beginning of a string.
LEMMA PrefixIs ==
  ASSUME NEW p \in Seq(Byte), NEW d \in Seq(Byte)
  PROVE  IsPrefix(p, p \o d)
<1>1. PICK s : s = p \o d
  OBVIOUS
<1>2. Joined(s, p, Len(p), d, Len(d))
  BY <1>1, JoinedIs
<1>3. s \in Seq(Byte) /\ Len(p) <= Len(s) /\ \A i \in 1..Len(p) : s[i] = p[i]
  BY <1>2 DEF Joined
<1>4. SubSeq(p, 1, Len(p)) = SubSeq(s, 1, Len(p))
  BY <1>3
<1> QED BY <1>1, <1>3, <1>4 DEF IsPrefix

\* What may be left of an Entry `all' that is read behind `some'.
EntryParts(some, all) ==
  {e \in EntryClass :
     /\ e.type \in {some.type, all.type} /\ e.term \in {some.term, all.term}
     /\ e.index \in {some.index, all.index} /\ e.unknown \in {some.unknown, all.unknown}
     /\ e.data \in {some.data, all.data} \/ IsPrefix(e.data, all.data)}

\* An Entry whose numbers can be read.
WordEntry == [type : Word, term : Word, index : Word, data : Seq(Byte), unknown : {<<>>}]

\* An Entry made with the setters is one, and every one is an Entry.
LEMMA WordEntries ==
  /\ WordEntry \subseteq EntryClass
  /\ NumbersFit => PlainEntry \subseteq WordEntry
<1>1. <<>> \in Seq(Byte) /\ Word \subseteq Nat
  BY DEF Word
<1>2. WordEntry \subseteq EntryClass
  BY <1>1 DEF WordEntry, EntryClass
<1>3. ASSUME NumbersFit PROVE PlainEntry \subseteq WordEntry
  BY <1>3, SettingsFit DEF PlainEntry, WordEntry
<1> QED BY <1>2, <1>3

\* What an Entry does to another, and what is there of it when it is cut off.
LEMMA EntryReadBack ==
  ASSUME NEW m \in EntryClass, NEW x \in WordEntry, Len(SerializeEntry(x)) \in Word
  PROVE  /\ Takes(EntryReader, EntryClass, m, SerializeEntry(x), MergeEntry(m, x))
         /\ CutsTo(EntryReader, EntryClass, m, SerializeEntry(x), EntryParts(m, MergeEntry(m, x)))
<1>1. PICK R, C : R = EntryReader /\ C = EntryClass
  OBVIOUS
<1>2. R \in Reader(C)
  <2>1. <<>> \in Seq(Byte)
    OBVIOUS
  <2> QED BY <1>1, <2>1, ParseEntryIs
<1>3. /\ x.type \in Word /\ x.term \in Word /\ x.index \in Word
      /\ x.data \in Seq(Byte) /\ x.unknown = <<>>
  BY DEF WordEntry
<1>4. /\ x.type \in Nat /\ x.term \in Nat /\ x.index \in Nat
      /\ m.type \in Nat /\ m.term \in Nat /\ m.index \in Nat
  BY <1>3 DEF Word, EntryClass
<1>5. PICK a : a = [m EXCEPT !.type = Over(m.type, x.type, 0)]
  OBVIOUS
<1>6. a \in C
  BY <1>1, <1>4, <1>5 DEF EntryClass, Over
<1>7. PICK b : b = [a EXCEPT !.term = Over(a.term, x.term, 0)]
  OBVIOUS
<1>8. b \in C
  BY <1>1, <1>4, <1>6, <1>7 DEF EntryClass, Over
<1>9. PICK c : c = [b EXCEPT !.index = Over(b.index, x.index, 0)]
  OBVIOUS
<1>10. c \in C
  BY <1>1, <1>4, <1>8, <1>9 DEF EntryClass, Over
<1>11. PICK d : d = [c EXCEPT !.data = Over(c.data, x.data, <<>>)]
  OBVIOUS
<1>12. d \in C
  BY <1>1, <1>3, <1>10, <1>11 DEF EntryClass, Over
<1>13. d = MergeEntry(m, x)
  <2>1. m.unknown \o x.unknown = m.unknown
    BY <1>3 DEF EntryClass
  <2>2. /\ d.type = Over(m.type, x.type, 0) /\ d.term = Over(m.term, x.term, 0)
        /\ d.index = Over(m.index, x.index, 0) /\ d.data = Over(m.data, x.data, <<>>)
        /\ d.unknown = m.unknown
    BY <1>1, <1>5, <1>6, <1>7, <1>8, <1>9, <1>10, <1>11, <1>12 DEF EntryClass
  <2> QED BY <1>1, <1>12, <2>1, <2>2 DEF EntryClass, MergeEntry
<1>14. TakesNumber(R, 1, x.type, m, a)
  BY <1>1, <1>4, <1>5, EntryTakesNumber
<1>15. TakesNumber(R, 2, x.term, a, b)
  BY <1>1, <1>4, <1>6, <1>7, EntryTakesNumber
<1>16. TakesNumber(R, 3, x.index, b, c)
  BY <1>1, <1>4, <1>8, <1>9, EntryTakesNumber
<1>17. TakesString(R, 4, x.data, c, d)
  <2>1. ASSUME x.data = <<>> PROVE d = c
    BY <1>1, <1>10, <1>11, <2>1 DEF EntryClass, Over
  <2>2. ASSUME x.data # <<>>, NEW f \in Field, f.key = <<4, LENGTH>>, f.bytes = x.data
        PROVE  R[<<c, f>>] = Good(d)
    <3>1. R[<<c, f>>] = ReadEntry(c, f)
      BY <1>1, <1>10 DEF EntryReader
    <3>2. ReadEntry(c, f) = Good([c EXCEPT !.data = f.bytes])
      BY <2>2 DEF ReadEntry, LENGTH, VARINT
    <3>3. Over(c.data, x.data, <<>>) = x.data
      BY <2>2 DEF Over
    <3> QED BY <1>11, <2>2, <3>1, <3>2, <3>3
  <2> QED BY <2>1, <2>2 DEF TakesString, TakesBytes
<1>18. PICK s, t, u, w : /\ s = UInt(1, x.type) /\ t = UInt(2, x.term)
                         /\ u = UInt(3, x.index) /\ w = Str(4, x.data)
  OBVIOUS
<1>19. s \in Seq(Byte) /\ t \in Seq(Byte) /\ u \in Seq(Byte) /\ w \in Seq(Byte)
  <2>1. \A n \in {1, 2, 3, 4} : n \in 1..15
    OBVIOUS
  <2>2. UInt(1, x.type) \in Seq(Byte) /\ UInt(2, x.term) \in Seq(Byte) /\ UInt(3, x.index) \in Seq(Byte)
    BY <1>4, <2>1, WrittenBytes, Zenon
  <2>3. Str(4, x.data) \in Seq(Byte)
    BY <1>3, <2>1, WrittenBytes, Zenon
  <2> QED BY <1>18, <2>2, <2>3, Zenon
<1>20. /\ SerializeEntry(x) = ((s \o t) \o u) \o w
       /\ s \o t \in Seq(Byte) /\ (s \o t) \o u \in Seq(Byte)
  <2>1. s \o t \in Seq(Byte) /\ (s \o t) \o u \in Seq(Byte)
    BY <1>19, BytesJoin
  <2>2. ((s \o t) \o u) \o w \in Seq(Byte)
    BY <1>19, <2>1, BytesJoin
  <2>3. (((s \o t) \o u) \o w) \o <<>> = ((s \o t) \o u) \o w
    BY <2>2
  <2>4. SerializeEntry(x) = (((s \o t) \o u) \o w) \o <<>>
    BY <1>3, <1>18 DEF SerializeEntry
  <2> QED BY <2>1, <2>3, <2>4
<1>21. Len(x.data) \in Word
  <2>1. Len(w) \in Word
    BY <1>19, <1>20, WordPart
  <2> QED BY <1>3, <1>18, <2>1, WordString
<1>22. Takes(R, C, m, s, a)
  BY <1>1, <1>2, <1>3, <1>6, <1>14, <1>18, TakesUInt
<1>23. Takes(R, C, a, t, b)
  BY <1>2, <1>3, <1>6, <1>8, <1>15, <1>18, TakesUInt
<1>24. Takes(R, C, b, u, c)
  BY <1>2, <1>3, <1>8, <1>10, <1>16, <1>18, TakesUInt
<1>25. Takes(R, C, c, w, d)
  BY <1>2, <1>3, <1>10, <1>12, <1>17, <1>18, <1>21, TakesStr
<1>26. Takes(R, C, m, s \o t, b)
  BY <1>2, <1>22, <1>23, TakesBoth
<1>27. Takes(R, C, m, (s \o t) \o u, c)
  BY <1>2, <1>24, <1>26, TakesBoth
<1>28. Takes(R, C, m, ((s \o t) \o u) \o w, d)
  BY <1>2, <1>25, <1>27, TakesBoth
<1>29. PICK X : X = EntryParts(m, d)
  OBVIOUS
<1>30. m \in X /\ a \in X /\ b \in X /\ c \in X
  <2>1. /\ a.type = d.type /\ b.type = d.type /\ c.type = d.type
        /\ a.term = m.term /\ b.term = d.term /\ c.term = d.term
        /\ a.index = m.index /\ b.index = m.index /\ c.index = d.index
        /\ a.data = m.data /\ b.data = m.data /\ c.data = m.data
        /\ a.unknown = m.unknown /\ b.unknown = m.unknown /\ c.unknown = m.unknown
    BY <1>1, <1>5, <1>6, <1>7, <1>8, <1>9, <1>10, <1>11, <1>12 DEF EntryClass
  <2>2. m \in EntryClass /\ a \in EntryClass /\ b \in EntryClass /\ c \in EntryClass
    BY <1>1, <1>6, <1>8, <1>10
  <2> QED BY <1>29, <2>1, <2>2, Zenon DEF EntryParts
<1>31. CutsTo(R, C, m, s, X) /\ CutsTo(R, C, a, t, X) /\ CutsTo(R, C, b, u, X)
  <2>1. CutsTo(R, C, m, s, X)
    BY <1>1, <1>2, <1>3, <1>18, <1>30, CutUInt
  <2>2. CutsTo(R, C, a, t, X)
    BY <1>2, <1>3, <1>6, <1>18, <1>30, CutUInt
  <2>3. CutsTo(R, C, b, u, X)
    BY <1>2, <1>3, <1>8, <1>18, <1>30, CutUInt
  <2> QED BY <2>1, <2>2, <2>3
<1>32. TakesStringPart(R, 4, x.data, c, X)
  <2> SUFFICES ASSUME x.data # <<>>, NEW f \in Field, NEW g \in Seq(Byte),
                      f.key = <<4, LENGTH>>, x.data = f.bytes \o g
               PROVE  R[<<c, f>>].msg \in X
    BY Zenon DEF TakesStringPart, TakesPart
  <2>1. PICK p \in Seq(Byte) : p = f.bytes
    BY DEF Field
  <2>2. PICK y : y = [c EXCEPT !.data = p]
    OBVIOUS
  <2>3. R[<<c, f>>] = Good(y)
    <3>1. R[<<c, f>>] = ReadEntry(c, f)
      BY <1>1, <1>10 DEF EntryReader
    <3>2. ReadEntry(c, f) = Good([c EXCEPT !.data = f.bytes])
      BY DEF ReadEntry, LENGTH, VARINT
    <3> QED BY <2>1, <2>2, <3>1, <3>2
  <2>4. d.data = x.data
    BY <1>1, <1>10, <1>11 DEF EntryClass, Over
  <2>5. IsPrefix(p, d.data)
    BY <2>1, <2>4, PrefixIs
  <2>6. /\ y \in EntryClass /\ y.data = p /\ y.type = c.type /\ y.term = c.term
        /\ y.index = c.index /\ y.unknown = c.unknown
    BY <1>1, <1>10, <2>2 DEF EntryClass
  <2>7. y \in X
    BY <1>29, <1>30, <2>5, <2>6, Zenon DEF EntryParts
  <2> QED BY <2>3, <2>7 DEF Good
<1>33. CutsTo(R, C, c, w, X)
  BY <1>2, <1>3, <1>10, <1>18, <1>21, <1>30, <1>32, CutStr
<1>34. CutsTo(R, C, m, s \o t, X)
  BY <1>2, <1>19, <1>22, <1>31, CutBoth
<1>35. CutsTo(R, C, m, (s \o t) \o u, X)
  BY <1>2, <1>19, <1>26, <1>31, <1>34, CutBoth
<1>36. CutsTo(R, C, m, ((s \o t) \o u) \o w, X)
  BY <1>2, <1>19, <1>27, <1>33, <1>35, CutBoth
<1> QED BY <1>1, <1>13, <1>20, <1>28, <1>29, <1>36

\* So parsing its bytes merges it.
LEMMA EntryParsed ==
  ASSUME NEW m \in EntryClass, NEW x \in WordEntry,
         Len(SerializeEntry(x)) \in Word
  PROVE  /\ ParseEntry(m, SerializeEntry(x)) = Good(MergeEntry(m, x))
         /\ MergeEntry(m, x) \in EntryClass
<1>1. PICK s, y : s = SerializeEntry(x) /\ y = MergeEntry(m, x)
  OBVIOUS
<1>2. Takes(EntryReader, EntryClass, m, s, y)
  BY <1>1, EntryReadBack, Zenon
<1>3. s \in Seq(Byte) /\ y \in EntryClass
  BY <1>2 DEF Takes
<1>4. /\ EntryReader \in Reader(EntryClass)
      /\ ParseEntry(m, s) = After(EntryReader, EntryClass, Good(m), Fields(s))
  BY <1>3, ParseEntryIs
<1>5. After(EntryReader, EntryClass, Good(m), Fields(s)) = Good(y)
  BY <1>2, <1>4, TakesAll
<1> QED BY <1>1, <1>3, <1>4, <1>5

\* The ConfState of a SnapshotMetadata is merged into the one that is there.
LEMMA SnapshotMetadataTakesSub ==
  ASSUME NumbersFit, NEW m \in SnapshotMetadataClass, NEW c \in PlainConfState \cup {None},
         Len(Sub(1, SerializeConfState, c)) \in Word
  PROVE  Takes(SnapshotMetadataReader, SnapshotMetadataClass, m, Sub(1, SerializeConfState, c),
               [m EXCEPT !.conf_state = OverSub(MergeConfState, m.conf_state, c, NewConfState)])
<1>1. PICK R, C, b, y : /\ R = SnapshotMetadataReader /\ C = SnapshotMetadataClass /\ b = SerializeConfState(c)
                        /\ y = [m EXCEPT !.conf_state = OverSub(MergeConfState, m.conf_state, c, NewConfState)]
  OBVIOUS
<1>2. R \in Reader(C) /\ m \in C
  <2>1. <<>> \in Seq(Byte)
    OBVIOUS
  <2> QED BY <1>1, <2>1, ParseSnapshotMetadataIs
<1>3. CASE c = None
  <2>1. y = m
    BY <1>1, <1>3 DEF SnapshotMetadataClass, OverSub
  <2>2. Sub(1, SerializeConfState, c) = <<>>
    BY <1>3 DEF Sub
  <2>3. Takes(R, C, m, <<>>, m)
    BY <1>2, TakesNothing
  <2> QED BY <1>1, <2>1, <2>2, <2>3
<1>4. CASE c # None
  <2>1. c \in PlainConfState /\ 1 \in 1..15
    BY <1>4
  <2>2. b \in Seq(Byte)
    BY <1>1, <2>1, ConfStateWrote, PlainIsOfClass DEF Wrote
  <2>3. Sub(1, SerializeConfState, c) = Delimited(1, b)
    BY <1>1, <1>4 DEF Sub
  <2>4. Len(b) \in Word
    BY <2>1, <2>2, <2>3, WordInside
  <2>5. PICK old : old = Mutable(m.conf_state, NewConfState)
    OBVIOUS
  <2>6. old \in ConfStateClass
    BY <2>5, NewIsPlain, PlainIsOfClass DEF Mutable, SnapshotMetadataClass
  <2>7. PICK z : z = MergeConfState(old, c)
    OBVIOUS
  <2>8. ParseConfState(old, b) = Good(z) /\ z \in ConfStateClass
    BY <1>1, <2>1, <2>4, <2>6, <2>7, ConfStateParsed
  <2>9. y = [m EXCEPT !.conf_state = z]
    BY <1>1, <1>4, <2>5, <2>7 DEF OverSub
  <2>10. y \in C
    BY <1>1, <2>8, <2>9 DEF SnapshotMetadataClass
  <2>11. ASSUME NEW f \in Field, f.key = <<1, LENGTH>>, f.bytes = b
         PROVE  R[<<m, f>>] = Good(y)
    <3>1. R[<<m, f>>] = ReadSnapshotMetadata(m, f)
      BY <1>1 DEF SnapshotMetadataReader
    <3>2. ReadSnapshotMetadata(m, f) = Filled(m, "conf_state", ParseConfState(old, f.bytes))
      BY <2>5, <2>11 DEF ReadSnapshotMetadata, LENGTH, VARINT
    <3>3. Filled(m, "conf_state", Good(z)) = Good([m EXCEPT !.conf_state = z])
      BY DEF Filled, Good
    <3> QED BY <2>8, <2>9, <2>11, <3>1, <3>2, <3>3
  <2>12. TakesBytes(R, 1, b, m, y)
    BY <2>11 DEF TakesBytes
  <2>13. Takes(R, C, m, Delimited(1, b), y)
    BY <1>2, <2>1, <2>2, <2>4, <2>10, <2>12, TakesDelimited
  <2> QED BY <1>1, <2>3, <2>13
<1> QED BY <1>3, <1>4

\* A number of a SnapshotMetadata is set unless 0 was meant.
LEMMA SnapshotMetadataTakesNumber ==
  ASSUME NEW m \in SnapshotMetadataClass, NEW v \in Nat
  PROVE  /\ TakesNumber(SnapshotMetadataReader, 2, v, m, [m EXCEPT !.index = Over(m.index, v, 0)])
         /\ TakesNumber(SnapshotMetadataReader, 3, v, m, [m EXCEPT !.term = Over(m.term, v, 0)])
<1>1. ASSUME v = 0
      PROVE  /\ [m EXCEPT !.index = Over(m.index, v, 0)] = m
             /\ [m EXCEPT !.term = Over(m.term, v, 0)] = m
  BY <1>1 DEF Over, SnapshotMetadataClass
<1>2. ASSUME v # 0, NEW f \in Field, f.value = v
      PROVE  /\ f.key = <<2, VARINT>> => SnapshotMetadataReader[<<m, f>>] = Good([m EXCEPT !.index = Over(m.index, v, 0)])
             /\ f.key = <<3, VARINT>> => SnapshotMetadataReader[<<m, f>>] = Good([m EXCEPT !.term = Over(m.term, v, 0)])
  <2>1. SnapshotMetadataReader[<<m, f>>] = ReadSnapshotMetadata(m, f)
    BY DEF SnapshotMetadataReader
  <2>2. ASSUME f.key = <<2, VARINT>> PROVE ReadSnapshotMetadata(m, f) = Good([m EXCEPT !.index = v])
    BY <1>2, <2>2 DEF ReadSnapshotMetadata, LENGTH, VARINT
  <2>3. ASSUME f.key = <<3, VARINT>> PROVE ReadSnapshotMetadata(m, f) = Good([m EXCEPT !.term = v])
    BY <1>2, <2>3 DEF ReadSnapshotMetadata, LENGTH, VARINT
  <2>20. \A old : Over(old, v, 0) = v
    BY <1>2 DEF Over
  <2> QED BY <2>1, <2>2, <2>3, <2>20
<1>3. TakesNumber(SnapshotMetadataReader, 2, v, m, [m EXCEPT !.index = Over(m.index, v, 0)])
  BY <1>1, <1>2 DEF TakesNumber, TakesValue
<1>4. TakesNumber(SnapshotMetadataReader, 3, v, m, [m EXCEPT !.term = Over(m.term, v, 0)])
  BY <1>1, <1>2 DEF TakesNumber, TakesValue
<1> QED BY <1>3, <1>4

\* What a SnapshotMetadata does to another.
LEMMA SnapshotMetadataReadBack ==
  ASSUME NumbersFit, NEW m \in SnapshotMetadataClass, NEW x \in PlainMetadata,
         Len(SerializeSnapshotMetadata(x)) \in Word
  PROVE  Takes(SnapshotMetadataReader, SnapshotMetadataClass, m, SerializeSnapshotMetadata(x),
               MergeSnapshotMetadata(m, x))
<1>1. PICK R, C : R = SnapshotMetadataReader /\ C = SnapshotMetadataClass
  OBVIOUS
<1>2. R \in Reader(C)
  <2>1. <<>> \in Seq(Byte)
    OBVIOUS
  <2> QED BY <1>1, <2>1, ParseSnapshotMetadataIs
<1>3. /\ x.conf_state \in PlainConfState \cup {None} /\ x.index \in Word /\ x.term \in Word
      /\ x.unknown = <<>>
  BY SettingsFit DEF PlainMetadata
<1>4. x.term \in Nat /\ x.index \in Nat /\ m.term \in Nat /\ m.index \in Nat
  BY <1>3 DEF Word, SnapshotMetadataClass
<1>5. PICK s, t, u : /\ s = Sub(1, SerializeConfState, x.conf_state)
                     /\ t = UInt(2, x.index) /\ u = UInt(3, x.term)
  OBVIOUS
<1>6. s \in Seq(Byte) /\ t \in Seq(Byte) /\ u \in Seq(Byte)
  <2>1. 1 \in 1..15 /\ 2 \in 1..15 /\ 3 \in 1..15
    OBVIOUS
  <2>2. UInt(2, x.index) \in Seq(Byte) /\ UInt(3, x.term) \in Seq(Byte)
    BY <1>4, <2>1, WrittenBytes, Zenon
  <2>3. CASE x.conf_state = None
    BY <1>5, <2>2, <2>3 DEF Sub
  <2>4. CASE x.conf_state \in PlainConfState
    <3>1. SerializeConfState(x.conf_state) \in Seq(Byte)
      BY <2>4, ConfStateWrote, PlainIsOfClass DEF Wrote
    <3>2. Delimited(1, SerializeConfState(x.conf_state)) \in Seq(Byte)
      BY <2>1, <3>1, WrittenBytes, Zenon
    <3> QED BY <1>5, <2>2, <3>2 DEF Sub
  <2> QED BY <1>3, <2>3, <2>4
<1>7. /\ SerializeSnapshotMetadata(x) = (s \o t) \o u
      /\ s \o t \in Seq(Byte) /\ (s \o t) \o u \in Seq(Byte)
  <2>1. s \o t \in Seq(Byte) /\ (s \o t) \o u \in Seq(Byte)
    BY <1>6, BytesJoin
  <2>2. ((s \o t) \o u) \o <<>> = (s \o t) \o u
    BY <2>1
  <2>3. SerializeSnapshotMetadata(x) = ((s \o t) \o u) \o <<>>
    BY <1>3, <1>5 DEF SerializeSnapshotMetadata
  <2> QED BY <2>1, <2>2, <2>3
<1>8. Len(s) \in Word
  <2>1. Len(s \o t) \in Word
    BY <1>6, <1>7, WordPart
  <2> QED BY <1>6, <2>1, WordPart
<1>9. PICK a : a = [m EXCEPT !.conf_state =
                      OverSub(MergeConfState, m.conf_state, x.conf_state, NewConfState)]
  OBVIOUS
<1>10. Takes(R, C, m, s, a)
  BY <1>1, <1>3, <1>5, <1>8, <1>9, SnapshotMetadataTakesSub
<1>11. a \in C
  BY <1>10 DEF Takes
<1>12. PICK b : b = [a EXCEPT !.index = Over(a.index, x.index, 0)]
  OBVIOUS
<1>13. b \in C
  BY <1>1, <1>4, <1>11, <1>12 DEF SnapshotMetadataClass, Over
<1>14. PICK c : c = [b EXCEPT !.term = Over(b.term, x.term, 0)]
  OBVIOUS
<1>15. c \in C
  BY <1>1, <1>4, <1>13, <1>14 DEF SnapshotMetadataClass, Over
<1>16. c = MergeSnapshotMetadata(m, x)
  <2>1. m.unknown \o x.unknown = m.unknown
    BY <1>3 DEF SnapshotMetadataClass
  <2>2. PICK o : o = OverSub(MergeConfState, m.conf_state, x.conf_state, NewConfState)
    OBVIOUS
  <2>3. /\ c.conf_state = o /\ c.index = Over(m.index, x.index, 0)
        /\ c.term = Over(m.term, x.term, 0) /\ c.unknown = m.unknown
    BY <1>1, <1>9, <1>11, <1>12, <1>13, <1>14, <1>15, <2>2 DEF SnapshotMetadataClass
  <2> QED BY <1>1, <1>15, <2>1, <2>2, <2>3 DEF SnapshotMetadataClass, MergeSnapshotMetadata
<1>17. TakesNumber(R, 2, x.index, a, b)
  BY <1>1, <1>4, <1>11, <1>12, SnapshotMetadataTakesNumber
<1>18. TakesNumber(R, 3, x.term, b, c)
  BY <1>1, <1>4, <1>13, <1>14, SnapshotMetadataTakesNumber
<1>19. Takes(R, C, a, t, b)
  BY <1>2, <1>3, <1>5, <1>11, <1>13, <1>17, TakesUInt
<1>20. Takes(R, C, b, u, c)
  BY <1>2, <1>3, <1>5, <1>13, <1>15, <1>18, TakesUInt
<1>21. Takes(R, C, m, s \o t, b)
  BY <1>2, <1>10, <1>19, TakesBoth
<1>22. Takes(R, C, m, (s \o t) \o u, c)
  BY <1>2, <1>20, <1>21, TakesBoth
<1> QED BY <1>1, <1>7, <1>16, <1>22

\* So parsing its bytes merges it.
LEMMA SnapshotMetadataParsed ==
  ASSUME NumbersFit, NEW m \in SnapshotMetadataClass, NEW x \in PlainMetadata,
         Len(SerializeSnapshotMetadata(x)) \in Word
  PROVE  /\ ParseSnapshotMetadata(m, SerializeSnapshotMetadata(x)) = Good(MergeSnapshotMetadata(m, x))
         /\ MergeSnapshotMetadata(m, x) \in SnapshotMetadataClass
<1>1. PICK s, y : s = SerializeSnapshotMetadata(x) /\ y = MergeSnapshotMetadata(m, x)
  OBVIOUS
<1>2. Takes(SnapshotMetadataReader, SnapshotMetadataClass, m, s, y)
  BY <1>1, SnapshotMetadataReadBack, Zenon
<1>3. s \in Seq(Byte) /\ y \in SnapshotMetadataClass
  BY <1>2 DEF Takes
<1>4. /\ SnapshotMetadataReader \in Reader(SnapshotMetadataClass)
      /\ ParseSnapshotMetadata(m, s) = After(SnapshotMetadataReader, SnapshotMetadataClass, Good(m), Fields(s))
  BY <1>3, ParseSnapshotMetadataIs
<1>5. After(SnapshotMetadataReader, SnapshotMetadataClass, Good(m), Fields(s)) = Good(y)
  BY <1>2, <1>4, TakesAll
<1> QED BY <1>1, <1>3, <1>4, <1>5

\* The SnapshotMetadata of a Snapshot is merged into the one that is there.
LEMMA SnapshotTakesSub ==
  ASSUME NumbersFit, NEW m \in SnapshotClass, NEW c \in PlainMetadata \cup {None},
         Len(Sub(2, SerializeSnapshotMetadata, c)) \in Word
  PROVE  Takes(SnapshotReader, SnapshotClass, m, Sub(2, SerializeSnapshotMetadata, c),
               [m EXCEPT !.metadata = OverSub(MergeSnapshotMetadata, m.metadata, c, NewSnapshotMetadata)])
<1>1. PICK R, C, b, y : /\ R = SnapshotReader /\ C = SnapshotClass /\ b = SerializeSnapshotMetadata(c)
                        /\ y = [m EXCEPT !.metadata = OverSub(MergeSnapshotMetadata, m.metadata, c, NewSnapshotMetadata)]
  OBVIOUS
<1>2. R \in Reader(C) /\ m \in C
  <2>1. <<>> \in Seq(Byte)
    OBVIOUS
  <2> QED BY <1>1, <2>1, ParseSnapshotIs
<1>3. CASE c = None
  <2>1. y = m
    BY <1>1, <1>3 DEF SnapshotClass, OverSub
  <2>2. Sub(2, SerializeSnapshotMetadata, c) = <<>>
    BY <1>3 DEF Sub
  <2>3. Takes(R, C, m, <<>>, m)
    BY <1>2, TakesNothing
  <2> QED BY <1>1, <2>1, <2>2, <2>3
<1>4. CASE c # None
  <2>1. c \in PlainMetadata /\ 2 \in 1..15
    BY <1>4
  <2>2. b \in Seq(Byte)
    BY <1>1, <2>1, SnapshotMetadataWrote, PlainIsOfClass DEF Wrote
  <2>3. Sub(2, SerializeSnapshotMetadata, c) = Delimited(2, b)
    BY <1>1, <1>4 DEF Sub
  <2>4. Len(b) \in Word
    BY <2>1, <2>2, <2>3, WordInside
  <2>5. PICK old : old = Mutable(m.metadata, NewSnapshotMetadata)
    OBVIOUS
  <2>6. old \in SnapshotMetadataClass
    BY <2>5, NewIsPlain, PlainIsOfClass DEF Mutable, SnapshotClass
  <2>7. PICK z : z = MergeSnapshotMetadata(old, c)
    OBVIOUS
  <2>8. ParseSnapshotMetadata(old, b) = Good(z) /\ z \in SnapshotMetadataClass
    BY <1>1, <2>1, <2>4, <2>6, <2>7, SnapshotMetadataParsed
  <2>9. y = [m EXCEPT !.metadata = z]
    BY <1>1, <1>4, <2>5, <2>7 DEF OverSub
  <2>10. y \in C
    BY <1>1, <2>8, <2>9 DEF SnapshotClass
  <2>11. ASSUME NEW f \in Field, f.key = <<2, LENGTH>>, f.bytes = b
         PROVE  R[<<m, f>>] = Good(y)
    <3>1. R[<<m, f>>] = ReadSnapshot(m, f)
      BY <1>1 DEF SnapshotReader
    <3>2. ReadSnapshot(m, f) = Filled(m, "metadata", ParseSnapshotMetadata(old, f.bytes))
      BY <2>5, <2>11 DEF ReadSnapshot, LENGTH, VARINT
    <3>3. Filled(m, "metadata", Good(z)) = Good([m EXCEPT !.metadata = z])
      BY DEF Filled, Good
    <3> QED BY <2>8, <2>9, <2>11, <3>1, <3>2, <3>3
  <2>12. TakesBytes(R, 2, b, m, y)
    BY <2>11 DEF TakesBytes
  <2>13. Takes(R, C, m, Delimited(2, b), y)
    BY <1>2, <2>1, <2>2, <2>4, <2>10, <2>12, TakesDelimited
  <2> QED BY <1>1, <2>3, <2>13
<1> QED BY <1>3, <1>4

\* What a Snapshot does to another.
LEMMA SnapshotReadBack ==
  ASSUME NumbersFit, NEW m \in SnapshotClass, NEW x \in PlainSnapshot,
         Len(SerializeSnapshot(x)) \in Word
  PROVE  Takes(SnapshotReader, SnapshotClass, m, SerializeSnapshot(x), MergeSnapshot(m, x))
<1>1. PICK R, C : R = SnapshotReader /\ C = SnapshotClass
  OBVIOUS
<1>2. R \in Reader(C)
  <2>1. <<>> \in Seq(Byte)
    OBVIOUS
  <2> QED BY <1>1, <2>1, ParseSnapshotIs
<1>3. x.data \in Seq(Byte) /\ x.metadata \in PlainMetadata \cup {None} /\ x.unknown = <<>>
  BY DEF PlainSnapshot
<1>4. PICK s, t : s = Str(1, x.data) /\ t = Sub(2, SerializeSnapshotMetadata, x.metadata)
  OBVIOUS
<1>5. s \in Seq(Byte) /\ t \in Seq(Byte)
  <2>1. 1 \in 1..15 /\ 2 \in 1..15
    OBVIOUS
  <2>2. Str(1, x.data) \in Seq(Byte)
    BY <1>3, <2>1, WrittenBytes, Zenon
  <2>3. CASE x.metadata = None
    BY <1>4, <2>2, <2>3 DEF Sub
  <2>4. CASE x.metadata \in PlainMetadata
    <3>1. SerializeSnapshotMetadata(x.metadata) \in Seq(Byte)
      BY <2>4, SnapshotMetadataWrote, PlainIsOfClass DEF Wrote
    <3>2. Delimited(2, SerializeSnapshotMetadata(x.metadata)) \in Seq(Byte)
      BY <2>1, <3>1, WrittenBytes, Zenon
    <3> QED BY <1>4, <2>2, <3>2 DEF Sub
  <2> QED BY <1>3, <2>3, <2>4
<1>6. SerializeSnapshot(x) = s \o t
  <2>1. s \o t \in Seq(Byte)
    BY <1>5, BytesJoin
  <2>2. (s \o t) \o <<>> = s \o t
    BY <2>1
  <2>3. SerializeSnapshot(x) = (s \o t) \o <<>>
    BY <1>3, <1>4 DEF SerializeSnapshot
  <2> QED BY <2>2, <2>3
<1>7. Len(s) \in Word /\ Len(t) \in Word
  BY <1>5, <1>6, WordPart
<1>8. Len(x.data) \in Word
  BY <1>3, <1>4, <1>7, WordString
<1>9. PICK a : a = [m EXCEPT !.data = Over(m.data, x.data, <<>>)]
  OBVIOUS
<1>10. a \in C
  BY <1>1, <1>3, <1>9 DEF SnapshotClass, Over
<1>11. TakesString(R, 1, x.data, m, a)
  <2>1. ASSUME x.data = <<>> PROVE a = m
    BY <1>1, <1>9, <2>1 DEF SnapshotClass, Over
  <2>2. ASSUME x.data # <<>>, NEW f \in Field, f.key = <<1, LENGTH>>, f.bytes = x.data
        PROVE  R[<<m, f>>] = Good(a)
    <3>1. R[<<m, f>>] = ReadSnapshot(m, f)
      BY <1>1 DEF SnapshotReader
    <3>2. ReadSnapshot(m, f) = Good([m EXCEPT !.data = f.bytes])
      BY <2>2 DEF ReadSnapshot, LENGTH, VARINT
    <3>3. Over(m.data, x.data, <<>>) = x.data
      BY <2>2 DEF Over
    <3> QED BY <1>9, <2>2, <3>1, <3>2, <3>3
  <2> QED BY <2>1, <2>2 DEF TakesString, TakesBytes
<1>12. Takes(R, C, m, s, a)
  BY <1>1, <1>2, <1>3, <1>4, <1>8, <1>10, <1>11, TakesStr
<1>13. PICK b : b = [a EXCEPT !.metadata =
                      OverSub(MergeSnapshotMetadata, a.metadata, x.metadata, NewSnapshotMetadata)]
  OBVIOUS
<1>14. Takes(R, C, a, t, b)
  BY <1>1, <1>3, <1>4, <1>7, <1>10, <1>13, SnapshotTakesSub
<1>15. b = MergeSnapshot(m, x)
  <2>1. m.unknown \o x.unknown = m.unknown
    BY <1>3 DEF SnapshotClass
  <2>2. PICK o : o = OverSub(MergeSnapshotMetadata, m.metadata, x.metadata, NewSnapshotMetadata)
    OBVIOUS
  <2>3. a.metadata = m.metadata
    BY <1>1, <1>9 DEF SnapshotClass
  <2>4. b \in C /\ b = [a EXCEPT !.metadata = o]
    BY <1>13, <1>14, <2>2, <2>3 DEF Takes
  <2>5. b.data = Over(m.data, x.data, <<>>) /\ b.metadata = o /\ b.unknown = m.unknown
    BY <1>1, <1>9, <1>10, <2>4 DEF SnapshotClass
  <2> QED BY <1>1, <2>1, <2>2, <2>4, <2>5 DEF SnapshotClass, MergeSnapshot
<1>16. Takes(R, C, m, s \o t, b)
  BY <1>2, <1>12, <1>14, TakesBoth
<1> QED BY <1>1, <1>6, <1>15, <1>16

\* So parsing its bytes merges it.
LEMMA SnapshotParsed ==
  ASSUME NumbersFit, NEW m \in SnapshotClass, NEW x \in PlainSnapshot,
         Len(SerializeSnapshot(x)) \in Word
  PROVE  /\ ParseSnapshot(m, SerializeSnapshot(x)) = Good(MergeSnapshot(m, x))
         /\ MergeSnapshot(m, x) \in SnapshotClass
<1>1. PICK s, y : s = SerializeSnapshot(x) /\ y = MergeSnapshot(m, x)
  OBVIOUS
<1>2. Takes(SnapshotReader, SnapshotClass, m, s, y)
  BY <1>1, SnapshotReadBack, Zenon
<1>3. s \in Seq(Byte) /\ y \in SnapshotClass
  BY <1>2 DEF Takes
<1>4. /\ SnapshotReader \in Reader(SnapshotClass)
      /\ ParseSnapshot(m, s) = After(SnapshotReader, SnapshotClass, Good(m), Fields(s))
  BY <1>3, ParseSnapshotIs
<1>5. After(SnapshotReader, SnapshotClass, Good(m), Fields(s)) = Good(y)
  BY <1>2, <1>4, TakesAll
<1> QED BY <1>1, <1>3, <1>4, <1>5

\* The Snapshot of a Message is merged into the one that is there.
LEMMA MessageTakesSub ==
  ASSUME NumbersFit, NEW m \in MessageClass, NEW c \in PlainSnapshot \cup {None},
         Len(Sub(9, SerializeSnapshot, c)) \in Word
  PROVE  Takes(MessageReader, MessageClass, m, Sub(9, SerializeSnapshot, c),
               [m EXCEPT !.snapshot = OverSub(MergeSnapshot, m.snapshot, c, NewSnapshot)])
<1>1. PICK R, C, b, y : /\ R = MessageReader /\ C = MessageClass /\ b = SerializeSnapshot(c)
                        /\ y = [m EXCEPT !.snapshot = OverSub(MergeSnapshot, m.snapshot, c, NewSnapshot)]
  OBVIOUS
<1>2. R \in Reader(C) /\ m \in C
  <2>1. <<>> \in Seq(Byte)
    OBVIOUS
  <2> QED BY <1>1, <2>1, ParseMessageIs
<1>3. CASE c = None
  <2>1. y = m
    BY <1>1, <1>3 DEF MessageClass, OverSub
  <2>2. Sub(9, SerializeSnapshot, c) = <<>>
    BY <1>3 DEF Sub
  <2>3. Takes(R, C, m, <<>>, m)
    BY <1>2, TakesNothing
  <2> QED BY <1>1, <2>1, <2>2, <2>3
<1>4. CASE c # None
  <2>1. c \in PlainSnapshot /\ 9 \in 1..15
    BY <1>4
  <2>2. b \in Seq(Byte)
    BY <1>1, <2>1, SnapshotWrote, PlainIsOfClass DEF Wrote
  <2>3. Sub(9, SerializeSnapshot, c) = Delimited(9, b)
    BY <1>1, <1>4 DEF Sub
  <2>4. Len(b) \in Word
    BY <2>1, <2>2, <2>3, WordInside
  <2>5. PICK old : old = Mutable(m.snapshot, NewSnapshot)
    OBVIOUS
  <2>6. old \in SnapshotClass
    BY <2>5, NewIsPlain, PlainIsOfClass DEF Mutable, MessageClass
  <2>7. PICK z : z = MergeSnapshot(old, c)
    OBVIOUS
  <2>8. ParseSnapshot(old, b) = Good(z) /\ z \in SnapshotClass
    BY <1>1, <2>1, <2>4, <2>6, <2>7, SnapshotParsed
  <2>9. y = [m EXCEPT !.snapshot = z]
    BY <1>1, <1>4, <2>5, <2>7 DEF OverSub
  <2>10. y \in C
    BY <1>1, <2>8, <2>9 DEF MessageClass
  <2>11. ASSUME NEW f \in Field, f.key = <<9, LENGTH>>, f.bytes = b
         PROVE  R[<<m, f>>] = Good(y)
    <3>1. R[<<m, f>>] = ReadMessage(m, f)
      BY <1>1 DEF MessageReader
    <3>2. ReadMessage(m, f) = Filled(m, "snapshot", ParseSnapshot(old, f.bytes))
      BY <2>5, <2>11 DEF ReadMessage, LENGTH, VARINT
    <3>3. Filled(m, "snapshot", Good(z)) = Good([m EXCEPT !.snapshot = z])
      BY DEF Filled, Good
    <3> QED BY <2>8, <2>9, <2>11, <3>1, <3>2, <3>3
  <2>12. TakesBytes(R, 9, b, m, y)
    BY <2>11 DEF TakesBytes
  <2>13. Takes(R, C, m, Delimited(9, b), y)
    BY <1>2, <2>1, <2>2, <2>4, <2>10, <2>12, TakesDelimited
  <2> QED BY <1>1, <2>3, <2>13
<1> QED BY <1>3, <1>4

\* A number of a Message is set unless 0 was meant.
LEMMA MessageTakesNumber ==
  ASSUME NEW m \in MessageClass, NEW v \in Nat
  PROVE  /\ TakesNumber(MessageReader, 1, v, m, [m EXCEPT !.type = Over(m.type, v, 0)])
         /\ TakesNumber(MessageReader, 2, v, m, [m EXCEPT !.to = Over(m.to, v, 0)])
         /\ TakesNumber(MessageReader, 3, v, m, [m EXCEPT !.from = Over(m.from, v, 0)])
         /\ TakesNumber(MessageReader, 4, v, m, [m EXCEPT !.term = Over(m.term, v, 0)])
         /\ TakesNumber(MessageReader, 5, v, m, [m EXCEPT !.logterm = Over(m.logterm, v, 0)])
         /\ TakesNumber(MessageReader, 6, v, m, [m EXCEPT !.index = Over(m.index, v, 0)])
         /\ TakesNumber(MessageReader, 8, v, m, [m EXCEPT !.commit = Over(m.commit, v, 0)])
         /\ TakesNumber(MessageReader, 11, v, m, [m EXCEPT !.rejecthint = Over(m.rejecthint, v, 0)])
<1>1. ASSUME v = 0
      PROVE  /\ [m EXCEPT !.type = Over(m.type, v, 0)] = m
             /\ [m EXCEPT !.to = Over(m.to, v, 0)] = m
             /\ [m EXCEPT !.from = Over(m.from, v, 0)] = m
             /\ [m EXCEPT !.term = Over(m.term, v, 0)] = m
             /\ [m EXCEPT !.logterm = Over(m.logterm, v, 0)] = m
             /\ [m EXCEPT !.index = Over(m.index, v, 0)] = m
             /\ [m EXCEPT !.commit = Over(m.commit, v, 0)] = m
             /\ [m EXCEPT !.rejecthint = Over(m.rejecthint, v, 0)] = m
  BY <1>1 DEF Over, MessageClass
<1>2. ASSUME v # 0, NEW f \in Field, f.value = v
      PROVE  /\ f.key = <<1, VARINT>> => MessageReader[<<m, f>>] = Good([m EXCEPT !.type = Over(m.type, v, 0)])
             /\ f.key = <<2, VARINT>> => MessageReader[<<m, f>>] = Good([m EXCEPT !.to = Over(m.to, v, 0)])
             /\ f.key = <<3, VARINT>> => MessageReader[<<m, f>>] = Good([m EXCEPT !.from = Over(m.from, v, 0)])
             /\ f.key = <<4, VARINT>> => MessageReader[<<m, f>>] = Good([m EXCEPT !.term = Over(m.term, v, 0)])
             /\ f.key = <<5, VARINT>> => MessageReader[<<m, f>>] = Good([m EXCEPT !.logterm = Over(m.logterm, v, 0)])
             /\ f.key = <<6, VARINT>> => MessageReader[<<m, f>>] = Good([m EXCEPT !.index = Over(m.index, v, 0)])
             /\ f.key = <<8, VARINT>> => MessageReader[<<m, f>>] = Good([m EXCEPT !.commit = Over(m.commit, v, 0)])
             /\ f.key = <<11, VARINT>> => MessageReader[<<m, f>>] = Good([m EXCEPT !.rejecthint = Over(m.rejecthint, v, 0)])
  <2>1. MessageReader[<<m, f>>] = ReadMessage(m, f)
    BY DEF MessageReader
  <2>2. ASSUME f.key = <<1, VARINT>> PROVE ReadMessage(m, f) = Good([m EXCEPT !.type = v])
    BY <1>2, <2>2 DEF ReadMessage, LENGTH, VARINT
  <2>3. ASSUME f.key = <<2, VARINT>> PROVE ReadMessage(m, f) = Good([m EXCEPT !.to = v])
    BY <1>2, <2>3 DEF ReadMessage, LENGTH, VARINT
  <2>4. ASSUME f.key = <<3, VARINT>> PROVE ReadMessage(m, f) = Good([m EXCEPT !.from = v])
    BY <1>2, <2>4 DEF ReadMessage, LENGTH, VARINT
  <2>5. ASSUME f.key = <<4, VARINT>> PROVE ReadMessage(m, f) = Good([m EXCEPT !.term = v])
    BY <1>2, <2>5 DEF ReadMessage, LENGTH, VARINT
  <2>6. ASSUME f.key = <<5, VARINT>> PROVE ReadMessage(m, f) = Good([m EXCEPT !.logterm = v])
    BY <1>2, <2>6 DEF ReadMessage, LENGTH, VARINT
  <2>7. ASSUME f.key = <<6, VARINT>> PROVE ReadMessage(m, f) = Good([m EXCEPT !.index = v])
    BY <1>2, <2>7 DEF ReadMessage, LENGTH, VARINT
  <2>8. ASSUME f.key = <<8, VARINT>> PROVE ReadMessage(m, f) = Good([m EXCEPT !.commit = v])
    BY <1>2, <2>8 DEF ReadMessage, LENGTH, VARINT
  <2>9. ASSUME f.key = <<11, VARINT>> PROVE ReadMessage(m, f) = Good([m EXCEPT !.rejecthint = v])
    BY <1>2, <2>9 DEF ReadMessage, LENGTH, VARINT
  <2>20. \A old : Over(old, v, 0) = v
    BY <1>2 DEF Over
  <2> QED BY <2>1, <2>2, <2>3, <2>4, <2>5, <2>6, <2>7, <2>8, <2>9, <2>20
<1>3. TakesNumber(MessageReader, 1, v, m, [m EXCEPT !.type = Over(m.type, v, 0)])
  BY <1>1, <1>2 DEF TakesNumber, TakesValue
<1>4. TakesNumber(MessageReader, 2, v, m, [m EXCEPT !.to = Over(m.to, v, 0)])
  BY <1>1, <1>2 DEF TakesNumber, TakesValue
<1>5. TakesNumber(MessageReader, 3, v, m, [m EXCEPT !.from = Over(m.from, v, 0)])
  BY <1>1, <1>2 DEF TakesNumber, TakesValue
<1>6. TakesNumber(MessageReader, 4, v, m, [m EXCEPT !.term = Over(m.term, v, 0)])
  BY <1>1, <1>2 DEF TakesNumber, TakesValue
<1>7. TakesNumber(MessageReader, 5, v, m, [m EXCEPT !.logterm = Over(m.logterm, v, 0)])
  BY <1>1, <1>2 DEF TakesNumber, TakesValue
<1>8. TakesNumber(MessageReader, 6, v, m, [m EXCEPT !.index = Over(m.index, v, 0)])
  BY <1>1, <1>2 DEF TakesNumber, TakesValue
<1>9. TakesNumber(MessageReader, 8, v, m, [m EXCEPT !.commit = Over(m.commit, v, 0)])
  BY <1>1, <1>2 DEF TakesNumber, TakesValue
<1>10. TakesNumber(MessageReader, 11, v, m, [m EXCEPT !.rejecthint = Over(m.rejecthint, v, 0)])
  BY <1>1, <1>2 DEF TakesNumber, TakesValue
<1> QED BY <1>3, <1>4, <1>5, <1>6, <1>7, <1>8, <1>9, <1>10

\* So is the flag, ...
LEMMA MessageTakesReject ==
  ASSUME NEW m \in MessageClass, NEW v \in {0, 1}
  PROVE  TakesNumber(MessageReader, 10, v, m, [m EXCEPT !.reject = Over(m.reject, v, 0)])
<1>1. ASSUME v = 0 PROVE [m EXCEPT !.reject = Over(m.reject, v, 0)] = m
  BY <1>1 DEF Over, MessageClass
<1>2. ASSUME v # 0, NEW f \in Field, f.key = <<10, VARINT>>, f.value = v
      PROVE  MessageReader[<<m, f>>] = Good([m EXCEPT !.reject = Over(m.reject, v, 0)])
  <2>1. MessageReader[<<m, f>>] = ReadMessage(m, f)
    BY DEF MessageReader
  <2>2. ReadMessage(m, f) = Good([m EXCEPT !.reject = IF f.value = 0 THEN 0 ELSE 1])
    BY <1>2 DEF ReadMessage, LENGTH, VARINT
  <2>3. Over(m.reject, v, 0) = 1 /\ (IF f.value = 0 THEN 0 ELSE 1) = 1
    BY <1>2 DEF Over
  <2> QED BY <2>1, <2>2, <2>3
<1> QED BY <1>1, <1>2 DEF TakesNumber, TakesValue

\* ... and the context.
LEMMA MessageTakesContext ==
  ASSUME NEW m \in MessageClass, NEW b \in Seq(Byte)
  PROVE  TakesString(MessageReader, 12, b, m, [m EXCEPT !.context = Over(m.context, b, <<>>)])
<1>1. ASSUME b = <<>> PROVE [m EXCEPT !.context = Over(m.context, b, <<>>)] = m
  BY <1>1 DEF Over, MessageClass
<1>2. ASSUME b # <<>>, NEW f \in Field, f.key = <<12, LENGTH>>, f.bytes = b
      PROVE  MessageReader[<<m, f>>] = Good([m EXCEPT !.context = Over(m.context, b, <<>>)])
  <2>1. MessageReader[<<m, f>>] = ReadMessage(m, f)
    BY DEF MessageReader
  <2>2. ReadMessage(m, f) = Good([m EXCEPT !.context = f.bytes])
    BY <1>2 DEF ReadMessage, LENGTH, VARINT
  <2>3. Over(m.context, b, <<>>) = b
    BY <1>2 DEF Over
  <2> QED BY <1>2, <2>1, <2>2, <2>3
<1> QED BY <1>1, <1>2 DEF TakesString, TakesBytes

\* One entry more is written ...
LEMMA EachAppend ==
  ASSUME NEW number \in 1..15, NEW es \in Seq(EntryClass), NEW e \in EntryClass
  PROVE  /\ Each(number, SerializeEntry, es) \in Seq(Byte)
         /\ Each(number, SerializeEntry, Append(es, e)) =
              Each(number, SerializeEntry, es) \o Delimited(number, SerializeEntry(e))
<1> DEFINE F(d) == Delimited(number, SerializeEntry(d))
           Parts(ds) == [i \in 1..Len(ds) |-> F(ds[i])]
<1>1. ASSUME NEW d \in EntryClass PROVE F(d) \in Seq(Byte)
  <2>1. SerializeEntry(d) \in Seq(Byte)
    BY EntryWrote DEF Wrote
  <2> QED BY <2>1, WrittenBytes, Zenon
<1>2. PICK more : more = Append(es, e)
  OBVIOUS
<1>3. /\ more \in Seq(EntryClass) /\ Len(more) = Len(es) + 1 /\ Len(es) \in Nat
      /\ more[Len(es) + 1] = e /\ \A i \in 1..Len(es) : more[i] = es[i] /\ es[i] \in EntryClass
  BY <1>2
<1> HIDE DEF F
<1>4. Parts(es) \in Seq(Seq(Byte)) /\ F(e) \in Seq(Byte)
  BY <1>1, <1>3
<1>5. Parts(more) = Append(Parts(es), F(e))
  BY <1>3
<1>6. FlattenSeq(Append(Parts(es), F(e))) = FlattenSeq(Parts(es)) \o F(e)
  BY <1>4, FlattenAppend
<1>7. FlattenSeq(Parts(es)) \in Seq(Byte)
  BY <1>4, FlattenType
<1>8. /\ Each(number, SerializeEntry, es) = FlattenSeq(Parts(es))
      /\ Each(number, SerializeEntry, more) = FlattenSeq(Parts(more))
  BY DEF Each, F
<1> QED BY <1>2, <1>5, <1>6, <1>7, <1>8 DEF F

\* ... and merged.
LEMMA MergeEntriesAppend ==
  ASSUME NEW ms \in Seq(EntryClass), NEW es \in Seq(EntryClass), NEW e \in EntryClass,
         \A d \in EntryClass : MergeEntry(NewEntry, d) \in EntryClass
  PROVE  /\ MergeEntries(ms, es) \in Seq(EntryClass)
         /\ MergeEntries(ms, Append(es, e)) = Append(MergeEntries(ms, es), MergeEntry(NewEntry, e))
<1> DEFINE F(d) == MergeEntry(NewEntry, d)
           Parts(ds) == [i \in 1..Len(ds) |-> F(ds[i])]
<1>1. PICK more : more = Append(es, e)
  OBVIOUS
<1>2. /\ Len(more) = Len(es) + 1 /\ Len(es) \in Nat
      /\ more[Len(es) + 1] = e /\ \A i \in 1..Len(es) : more[i] = es[i] /\ es[i] \in EntryClass
  BY <1>1
<1>3. \A d \in EntryClass : F(d) \in EntryClass
  OBVIOUS
<1> HIDE DEF F
<1>4. Parts(es) \in Seq(EntryClass) /\ F(e) \in EntryClass
  BY <1>2, <1>3
<1>5. Parts(more) = Append(Parts(es), F(e))
  BY <1>2
<1>6. PICK p : p = Parts(es)
  OBVIOUS
<1>7. ms \o Append(p, F(e)) = Append(ms \o p, F(e)) /\ ms \o p \in Seq(EntryClass)
  BY <1>4, <1>6, AppendAssociative
<1>8. MergeEntries(ms, es) = ms \o p /\ MergeEntries(ms, more) = ms \o Parts(more)
  BY <1>6 DEF MergeEntries, F
<1> QED BY <1>1, <1>5, <1>6, <1>7, <1>8 DEF F

\* An entry merged into a new one.
LEMMA MergeEntryType ==
  \A d \in EntryClass : MergeEntry(NewEntry, d) \in EntryClass
<1> SUFFICES ASSUME NEW d \in EntryClass PROVE MergeEntry(NewEntry, d) \in EntryClass
  OBVIOUS
<1>1. NewEntry \in EntryClass
  BY NewIsPlain, PlainIsOfClass
<1>2. NewEntry.unknown \o d.unknown \in Seq(Byte)
  BY <1>1 DEF EntryClass
<1> QED BY <1>1, <1>2 DEF MergeEntry, EntryClass, Over

\* What is there of an Entry that is cut off.
LEMMA EntryPartParsed ==
  ASSUME NEW x \in WordEntry, Len(SerializeEntry(x)) \in Word,
         NEW p \in Seq(Byte), NEW g \in Seq(Byte), SerializeEntry(x) = p \o g
  PROVE  ParseEntry(NewEntry, p).msg \in EntryParts(NewEntry, MergeEntry(NewEntry, x))
<1>1. PICK new, all, s : new = NewEntry /\ all = MergeEntry(NewEntry, x) /\ s = SerializeEntry(x)
  OBVIOUS
<1>2. new \in EntryClass
  BY <1>1, NewIsPlain, PlainIsOfClass
<1>3. CASE g = <<>>
  <2>1. p = s
    BY <1>1, <1>3
  <2>2. ParseEntry(new, p) = Good(all) /\ all \in EntryClass
    BY <1>1, <1>2, <2>1, EntryParsed
  <2>3. all \in EntryParts(new, all)
    BY <2>2, Zenon DEF EntryParts
  <2> QED BY <1>1, <2>2, <2>3 DEF Good
<1>4. CASE g # <<>>
  <2>1. CutsTo(EntryReader, EntryClass, new, s, EntryParts(new, all))
    BY <1>1, <1>2, EntryReadBack
  <2>2. Run(EntryReader, EntryClass, Good(new), p).msg \in EntryParts(new, all)
    BY <1>1, <1>4, <2>1, Zenon DEF CutsTo
  <2>3. ParseEntry(new, p) = Run(EntryReader, EntryClass, Good(new), p)
    BY <1>2, ParseEntryIs, Zenon DEF Run
  <2> QED BY <1>1, <2>2, <2>3
<1> QED BY <1>3, <1>4

\* What may be left of the entries `all': some of them, the last of which is cut off.
EntriesPart(es, all) ==
  /\ es \in Seq(EntryClass) /\ Len(es) <= Len(all)
  /\ \A i \in 1..Len(es) - 1 : es[i] = all[i]
  /\ Len(es) > 0 => es[Len(es)] \in EntryParts(NewEntry, all[Len(es)])
WithPart(m, all) ==
  {y \in MessageClass : \E es : y = [m EXCEPT !.entries = es] /\ EntriesPart(es, all)}

\* What entries es that come with m make of it.
WithEntries(m, es) == [m EXCEPT !.entries = MergeEntries(m.entries, es)]
EntriesTaken(m, es) ==
  Len(Each(7, SerializeEntry, es)) \in Word =>
    /\ Takes(MessageReader, MessageClass, m, Each(7, SerializeEntry, es), WithEntries(m, es))
    /\ CutsTo(MessageReader, MessageClass, m, Each(7, SerializeEntry, es),
              WithPart(m, MergeEntries(m.entries, es)))

\* All of the entries, fewer of them, and one that is cut off behind them.
LEMMA EntriesPartIs ==
  ASSUME NEW all \in Seq(EntryClass), NEW e \in EntryClass
  PROVE  /\ EntriesPart(all, Append(all, e))
         /\ \A es : EntriesPart(es, all) => EntriesPart(es, Append(all, e))
         /\ \A d \in EntryParts(NewEntry, e) : EntriesPart(Append(all, d), Append(all, e))
<1>1. PICK more : more = Append(all, e)
  OBVIOUS
<1>2. PICK n \in Nat : n = Len(all)
  OBVIOUS
<1>3. /\ more \in Seq(EntryClass) /\ Len(more) = n + 1 /\ more[n + 1] = e
      /\ \A i \in 1..n : more[i] = all[i] /\ all[i] \in EntryClass
  BY <1>1, <1>2
<1>4. \A d \in EntryClass : d \in EntryParts(NewEntry, d)
  BY Zenon DEF EntryParts
<1>5. EntriesPart(all, more)
  <2>1. n > 0 => all[n] \in EntryParts(NewEntry, more[n])
    BY <1>2, <1>3, <1>4
  <2> QED BY <1>2, <1>3, <2>1 DEF EntriesPart
<1>6. ASSUME NEW es, EntriesPart(es, all) PROVE EntriesPart(es, more)
  <2>1. PICK k \in Nat : k = Len(es)
    BY <1>6 DEF EntriesPart
  <2>2. /\ es \in Seq(EntryClass) /\ k <= n /\ \A i \in 1..k - 1 : es[i] = all[i]
        /\ k > 0 => es[k] \in EntryParts(NewEntry, all[k])
    BY <1>2, <1>6, <2>1 DEF EntriesPart
  <2>3. /\ k <= n + 1 /\ \A i \in 1..k - 1 : es[i] = more[i]
        /\ k > 0 => es[k] \in EntryParts(NewEntry, more[k])
    BY <1>3, <2>2
  <2> QED BY <1>3, <2>1, <2>2, <2>3 DEF EntriesPart
<1>7. ASSUME NEW d \in EntryParts(NewEntry, e) PROVE EntriesPart(Append(all, d), more)
  <2>1. PICK es : es = Append(all, d)
    OBVIOUS
  <2>2. d \in EntryClass
    BY DEF EntryParts
  <2>3. /\ es \in Seq(EntryClass) /\ Len(es) = n + 1 /\ es[n + 1] = d
        /\ \A i \in 1..n : es[i] = all[i]
    BY <1>2, <2>1, <2>2
  <2>4. \A i \in 1..(n + 1) - 1 : es[i] = more[i]
    BY <1>3, <2>3
  <2>5. es[n + 1] \in EntryParts(NewEntry, more[n + 1])
    BY <1>3, <1>7, <2>3
  <2> QED BY <1>3, <2>1, <2>3, <2>4, <2>5 DEF EntriesPart
<1> QED BY <1>1, <1>5, <1>6, <1>7

\* What is made something of X is made something of more.
LEMMA CutsMore ==
  ASSUME NEW C, NEW R, NEW m, NEW s, NEW X, NEW Y, CutsTo(R, C, m, s, X), X \subseteq Y
  PROVE  CutsTo(R, C, m, s, Y)
BY Zenon DEF CutsTo

\* The entries of a Message come behind those that are there.
LEMMA MessageTakesEntries ==
  ASSUME NumbersFit, NEW m \in MessageClass, NEW es \in Seq(PlainEntry)
  PROVE  EntriesTaken(m, es)
<1> DEFINE A == {ds \in Seq(PlainEntry) : EntriesTaken(m, ds)}
<1>0. 7 \in 1..15
  OBVIOUS
<1>1. PICK R, C : R = MessageReader /\ C = MessageClass
  OBVIOUS
<1>2. R \in Reader(C) /\ m \in C
  <2>1. <<>> \in Seq(Byte)
    OBVIOUS
  <2> QED BY <1>1, <2>1, ParseMessageIs
<1>3. ASSUME NEW ds \in Seq(PlainEntry)
      PROVE  /\ ds \in Seq(EntryClass)
             /\ Each(7, SerializeEntry, ds) \in Seq(Byte)
             /\ MergeEntries(m.entries, ds) \in Seq(EntryClass) /\ WithEntries(m, ds) \in C
  <2>1. ds \in Seq(EntryClass)
    <3>1. \A i \in 1..Len(ds) : ds[i] \in PlainEntry
      BY ElementOfSeq
    <3>2. \A i \in 1..Len(ds) : ds[i] \in EntryClass
      BY <3>1, PlainIsOfClass
    <3> QED BY <3>2, SeqOfIts
  <2>2. PICK e \in EntryClass : e = NewEntry
    BY NewIsPlain, PlainIsOfClass
  <2>3. Each(7, SerializeEntry, ds) \in Seq(Byte)
    BY <1>0, <2>1, <2>2, EachAppend
  <2>4. m.entries \in Seq(EntryClass)
    BY DEF MessageClass
  <2>5. MergeEntries(m.entries, ds) \in Seq(EntryClass)
    BY <2>1, <2>2, <2>4, MergeEntryType, MergeEntriesAppend
  <2>6. WithEntries(m, ds) \in C
    BY <1>1, <2>5 DEF WithEntries, MessageClass
  <2> QED BY <2>1, <2>3, <2>5, <2>6
<1>4. <<>> \in A
  <2>1. PICK none : none = <<>>
    OBVIOUS
  <2>2. none \in Seq(PlainEntry)
    BY <2>1
  <2>3. Each(7, SerializeEntry, none) = <<>>
    <3>1. [i \in 1..Len(none) |-> Delimited(7, SerializeEntry(none[i]))] = <<>>
      BY <2>1
    <3> QED BY <3>1, FlattenEmpty DEF Each
  <2>4. MergeEntries(m.entries, none) = m.entries
    <3>1. [i \in 1..Len(none) |-> MergeEntry(NewEntry, none[i])] = <<>>
      BY <2>1
    <3>2. m.entries \in Seq(EntryClass)
      BY DEF MessageClass
    <3>3. m.entries \o <<>> = m.entries
      BY <3>2
    <3> QED BY <3>1, <3>3 DEF MergeEntries
  <2>5. WithEntries(m, none) = m
    BY <2>4 DEF WithEntries, MessageClass
  <2>6. Takes(R, C, m, <<>>, m)
    BY <1>2, TakesNothing
  <2>7. CutsTo(R, C, m, <<>>, WithPart(m, MergeEntries(m.entries, none)))
    BY CutNothing
  <2>8. EntriesTaken(m, none)
    BY <1>1, <2>3, <2>5, <2>6, <2>7 DEF EntriesTaken
  <2> QED BY <2>1, <2>2, <2>8
<1>5. ASSUME NEW ds \in Seq(PlainEntry), NEW d \in PlainEntry, ds \in A PROVE Append(ds, d) \in A
  <2>1. PICK more : more = Append(ds, d)
    OBVIOUS
  <2>2. more \in Seq(PlainEntry) /\ d \in EntryClass /\ d \in WordEntry
    BY <2>1, PlainIsOfClass, WordEntries
  <2> SUFFICES ASSUME Len(Each(7, SerializeEntry, more)) \in Word
               PROVE  /\ Takes(R, C, m, Each(7, SerializeEntry, more), WithEntries(m, more))
                      /\ CutsTo(R, C, m, Each(7, SerializeEntry, more),
                                WithPart(m, MergeEntries(m.entries, more)))
    BY <1>1, <2>1, <2>2 DEF EntriesTaken
  <2>3. PICK s, b, y, z : /\ s = Each(7, SerializeEntry, ds) /\ b = SerializeEntry(d)
                          /\ y = WithEntries(m, ds) /\ z = WithEntries(m, more)
    OBVIOUS
  <2>4. s \in Seq(Byte) /\ b \in Seq(Byte) /\ y \in C /\ z \in C
    <3>1. b \in Seq(Byte)
      BY <2>2, <2>3, EntryWrote DEF Wrote
    <3> QED BY <1>3, <2>2, <2>3, <3>1
  <2>5. Each(7, SerializeEntry, more) = s \o Delimited(7, b)
    BY <1>0, <1>3, <2>1, <2>2, <2>3, EachAppend
  <2>6. 7 \in 1..15 /\ Delimited(7, b) \in Seq(Byte)
    <3>1. 7 \in 1..15
      OBVIOUS
    <3> QED BY <2>4, <3>1, WrittenBytes, Zenon
  <2>7. Len(s) \in Word /\ Len(Delimited(7, b)) \in Word
    BY <2>4, <2>5, <2>6, WordPart
  <2>8. Len(b) \in Word
    BY <2>4, <2>6, <2>7, WordInside
  <2>9. Takes(R, C, m, s, y)
    BY <1>1, <1>5, <2>3, <2>7 DEF EntriesTaken
  <2>10. PICK e : e = MergeEntry(NewEntry, d)
    OBVIOUS
  <2>11. ParseEntry(NewEntry, b) = Good(e) /\ e \in EntryClass
    <3>1. NewEntry \in EntryClass
      BY NewIsPlain, PlainIsOfClass
    <3> QED BY <2>2, <2>3, <2>8, <2>10, <3>1, EntryParsed
  <2>12. z = [y EXCEPT !.entries = Append(y.entries, e)]
    <3>1. m.entries \in Seq(EntryClass)
      BY DEF MessageClass
    <3>2. MergeEntries(m.entries, more) = Append(MergeEntries(m.entries, ds), e)
      BY <1>3, <2>1, <2>2, <2>10, <3>1, MergeEntryType, MergeEntriesAppend
    <3>3. y.entries = MergeEntries(m.entries, ds)
      BY <2>3 DEF WithEntries, MessageClass
    <3> QED BY <2>3, <3>2, <3>3 DEF WithEntries, MessageClass
  <2>13. ASSUME NEW f \in Field, f.key = <<7, LENGTH>>, f.bytes = b PROVE R[<<y, f>>] = Good(z)
    <3>1. R[<<y, f>>] = ReadMessage(y, f)
      BY <1>1, <2>4 DEF MessageReader
    <3>2. ReadMessage(y, f) = Extended(y, ParseEntry(NewEntry, f.bytes))
      BY <2>13 DEF ReadMessage, LENGTH, VARINT
    <3>3. Extended(y, Good(e)) = Good([y EXCEPT !.entries = Append(y.entries, e)])
      BY DEF Extended, Good
    <3> QED BY <2>11, <2>12, <2>13, <3>1, <3>2, <3>3
  <2>14. TakesBytes(R, 7, b, y, z)
    BY <2>13 DEF TakesBytes
  <2>15. Takes(R, C, y, Delimited(7, b), z)
    BY <1>2, <2>4, <2>6, <2>8, <2>14, TakesDelimited
  <2>16. Takes(R, C, m, s \o Delimited(7, b), z)
    BY <1>2, <2>9, <2>15, TakesBoth
  <2>17. PICK X, all, allds : /\ X = WithPart(m, all) /\ all = MergeEntries(m.entries, more)
                              /\ allds = MergeEntries(m.entries, ds)
    OBVIOUS
  <2>18. all = Append(allds, e) /\ allds \in Seq(EntryClass)
    <3>1. m.entries \in Seq(EntryClass)
      BY DEF MessageClass
    <3> QED BY <1>3, <2>1, <2>2, <2>10, <2>17, <3>1, MergeEntryType, MergeEntriesAppend
  <2>19. CutsTo(R, C, m, s, X)
    <3>1. CutsTo(R, C, m, s, WithPart(m, allds))
      BY <1>1, <1>5, <2>3, <2>7, <2>17 DEF EntriesTaken
    <3>2. \A gs : EntriesPart(gs, allds) => EntriesPart(gs, all)
      BY <2>11, <2>18, EntriesPartIs
    <3>3. WithPart(m, allds) \subseteq X
      BY <2>17, <3>2, Zenon DEF WithPart
    <3> QED BY <3>1, <3>3, CutsMore
  <2>20. y \in X
    <3>1. EntriesPart(allds, all)
      BY <2>11, <2>18, EntriesPartIs
    <3>2. y = [m EXCEPT !.entries = allds]
      BY <2>3, <2>17, Zenon DEF WithEntries
    <3> QED BY <1>1, <2>4, <2>17, <3>1, <3>2, Zenon DEF WithPart
  <2>21. TakesPart(R, 7, b, y, X)
    <3> SUFFICES ASSUME NEW f \in Field, NEW g \in Seq(Byte), f.key = <<7, LENGTH>>,
                        b = f.bytes \o g
                 PROVE  R[<<y, f>>].msg \in X
      BY Zenon DEF TakesPart
    <3>1. PICK p \in Seq(Byte) : p = f.bytes
      BY DEF Field
    <3>2. PICK o : o = ParseEntry(NewEntry, p)
      OBVIOUS
    <3>3. o.msg \in EntryParts(NewEntry, e)
      BY <2>2, <2>3, <2>8, <2>10, <3>1, <3>2, EntryPartParsed
    <3>4. R[<<y, f>>] = ReadMessage(y, f)
      BY <1>1, <2>4 DEF MessageReader
    <3>5. ReadMessage(y, f) = Extended(y, o)
      BY <3>1, <3>2 DEF ReadMessage, LENGTH, VARINT
    <3>6. PICK z2 : z2 = [y EXCEPT !.entries = Append(y.entries, o.msg)]
      OBVIOUS
    <3>7. Extended(y, o).msg = z2
      BY <3>6 DEF Extended
    <3>8. y.entries = allds
      BY <2>3, <2>17 DEF WithEntries, MessageClass
    <3>9. z2 = [m EXCEPT !.entries = Append(allds, o.msg)]
      BY <2>3, <3>6, <3>8 DEF WithEntries, MessageClass
    <3>10. EntriesPart(Append(allds, o.msg), all)
      BY <2>11, <2>18, <3>3, EntriesPartIs
    <3>11. z2 \in C
      <4>1. o.msg \in EntryClass
        BY <3>3 DEF EntryParts
      <4>2. Append(allds, o.msg) \in Seq(EntryClass)
        BY <2>18, <4>1
      <4> QED BY <1>1, <3>9, <4>2 DEF MessageClass
    <3>12. z2 \in X
      BY <1>1, <2>17, <3>9, <3>10, <3>11, Zenon DEF WithPart
    <3> QED BY <3>4, <3>5, <3>7, <3>12
  <2>22. CutsTo(R, C, y, Delimited(7, b), X)
    BY <1>2, <2>4, <2>6, <2>8, <2>20, <2>21, CutDelimited
  <2>23. CutsTo(R, C, m, s \o Delimited(7, b), X)
    BY <1>2, <2>6, <2>9, <2>19, <2>22, CutBoth
  <2> QED BY <2>3, <2>5, <2>16, <2>17, <2>23
<1> HIDE DEF A
<1>6. es \in A
  BY <1>4, <1>5, ByAppending
<1> QED BY <1>6 DEF A

\* What may be left of a Message `all' that is read behind `some'.
MessageParts(some, all) ==
  {y \in MessageClass :
     /\ y.type \in {some.type, all.type} /\ y.to \in {some.to, all.to}
     /\ y.from \in {some.from, all.from} /\ y.term \in {some.term, all.term}
     /\ y.logterm \in {some.logterm, all.logterm} /\ y.index \in {some.index, all.index}
     /\ y.entries \in {some.entries, all.entries} \/ EntriesPart(y.entries, all.entries)
     /\ y.commit \in {some.commit, all.commit}
     /\ y.snapshot \in {some.snapshot, all.snapshot} \/ all.snapshot # None
     /\ y.reject \in {some.reject, all.reject}
     /\ y.rejecthint \in {some.rejecthint, all.rejecthint}
     /\ y.context \in {some.context, all.context} \/ IsPrefix(y.context, all.context)
     /\ y.unknown \in {some.unknown, all.unknown}}

\* What there is of a Snapshot that is cut off is a Snapshot, ...
AnySnapshot(m, c, X) ==
  c # None => \A z \in SnapshotClass : [m EXCEPT !.snapshot = z] \in X

\* A snapshot that is cut off leaves a message with some snapshot, or with none.
LEMMA MessageCutsSub ==
  ASSUME NEW m \in MessageClass, NEW c \in PlainSnapshot \cup {None},
         Len(Sub(9, SerializeSnapshot, c)) \in Word, NEW X, m \in X, AnySnapshot(m, c, X)
  PROVE  CutsTo(MessageReader, MessageClass, m, Sub(9, SerializeSnapshot, c), X)
<1>1. PICK R, C, b : R = MessageReader /\ C = MessageClass /\ b = SerializeSnapshot(c)
  OBVIOUS
<1>2. R \in Reader(C) /\ m \in C
  <2>1. <<>> \in Seq(Byte)
    OBVIOUS
  <2> QED BY <1>1, <2>1, ParseMessageIs
<1>3. CASE c = None
  <2>1. Sub(9, SerializeSnapshot, c) = <<>>
    BY <1>3 DEF Sub
  <2> QED BY <2>1, CutNothing
<1>4. CASE c # None
  <2>1. c \in PlainSnapshot /\ 9 \in 1..15
    BY <1>4
  <2>2. b \in Seq(Byte)
    BY <1>1, <2>1, SnapshotWrote, PlainIsOfClass DEF Wrote
  <2>3. Sub(9, SerializeSnapshot, c) = Delimited(9, b)
    BY <1>1, <1>4 DEF Sub
  <2>4. Len(b) \in Word
    BY <2>1, <2>2, <2>3, WordInside
  <2>5. PICK old : old = Mutable(m.snapshot, NewSnapshot)
    OBVIOUS
  <2>6. old \in SnapshotClass
    BY <2>5, NewIsPlain, PlainIsOfClass DEF Mutable, MessageClass
  <2>7. TakesPart(R, 9, b, m, X)
    <3> SUFFICES ASSUME NEW f \in Field, NEW d \in Seq(Byte), f.key = <<9, LENGTH>>, b = f.bytes \o d
                 PROVE  R[<<m, f>>].msg \in X
      BY Zenon DEF TakesPart
    <3>1. PICK z : z = ParseSnapshot(old, f.bytes)
      OBVIOUS
    <3>2. z.msg \in SnapshotClass
      <4>1. f.bytes \in Seq(Byte)
        BY DEF Field
      <4>2. z \in Outcome(SnapshotClass)
        BY <2>6, <3>1, <4>1, ParseSnapshotType
      <4> QED BY <4>2 DEF Outcome
    <3>3. R[<<m, f>>] = ReadMessage(m, f)
      BY <1>1 DEF MessageReader
    <3>4. ReadMessage(m, f) = Filled(m, "snapshot", z)
      BY <2>5, <3>1 DEF ReadMessage, LENGTH, VARINT
    <3>5. PICK w, y, k : w = z.msg /\ y = [m EXCEPT !.snapshot = w] /\ k = z.ok
      OBVIOUS
    <3>6. Filled(m, "snapshot", z).msg = [m EXCEPT !.snapshot = w]
      <4>1. Filled(m, "snapshot", z) = [msg |-> y, ok |-> k]
        BY <3>5, Zenon DEF Filled
      <4>2. [msg |-> y, ok |-> k].msg = y
        OBVIOUS
      <4> QED BY <3>5, <4>1, <4>2, Zenon
    <3>7. R[<<m, f>>].msg = [m EXCEPT !.snapshot = w]
      BY <3>3, <3>4, <3>6, Zenon
    <3> QED BY <1>4, <3>2, <3>5, <3>7 DEF AnySnapshot
  <2>8. CutsTo(R, C, m, Delimited(9, b), X)
    BY <1>2, <2>1, <2>2, <2>4, <2>7, CutDelimited
  <2> QED BY <1>1, <2>3, <2>8
<1> QED BY <1>3, <1>4

\* ... and of its context that is cut off the beginning of it.
AnyPrefix(m, b, X) ==
  \A p \in Seq(Byte) : (b # <<>> /\ IsPrefix(p, b)) => [m EXCEPT !.context = p] \in X

\* A context that is cut off leaves a prefix of it: the program takes what is there.
LEMMA MessageCutsContext ==
  ASSUME NEW m \in MessageClass, NEW b \in Seq(Byte), NEW X, AnyPrefix(m, b, X)
  PROVE  TakesStringPart(MessageReader, 12, b, m, X)
<1> SUFFICES ASSUME b # <<>>, NEW f \in Field, NEW d \in Seq(Byte), f.key = <<12, LENGTH>>,
                    b = f.bytes \o d
             PROVE  MessageReader[<<m, f>>].msg \in X
  BY Zenon DEF TakesStringPart, TakesPart
<1>1. PICK p \in Seq(Byte) : p = f.bytes
  BY DEF Field
<1>2. IsPrefix(p, b)
  BY <1>1, PrefixIs
<1>3. MessageReader[<<m, f>>] = ReadMessage(m, f)
  BY DEF MessageReader
<1>4. ReadMessage(m, f) = Good([m EXCEPT !.context = p])
  BY <1>1 DEF ReadMessage, LENGTH, VARINT
<1>5. MessageReader[<<m, f>>].msg = [m EXCEPT !.context = p]
  BY <1>3, <1>4 DEF Good
<1> QED BY <1>2, <1>5 DEF AnyPrefix

\* What a Message does to another, and what is there of it when it is cut off.
LEMMA MessageReadBack ==
  ASSUME NumbersFit, NEW m \in MessageClass, NEW x \in PlainMessage,
         Len(SerializeMessage(x)) \in Word
  PROVE  /\ Takes(MessageReader, MessageClass, m, SerializeMessage(x), MergeMessage(m, x))
         /\ CutsTo(MessageReader, MessageClass, m, SerializeMessage(x),
                   MessageParts(m, MergeMessage(m, x)))
<1>1. PICK R, C : R = MessageReader /\ C = MessageClass
  OBVIOUS
<1>2. R \in Reader(C)
  <2>1. <<>> \in Seq(Byte)
    OBVIOUS
  <2> QED BY <1>1, <2>1, ParseMessageIs
<1>3. /\ x.type \in Word /\ x.to \in Word /\ x.from \in Word /\ x.term \in Word
      /\ x.logterm \in Word /\ x.index \in Word /\ x.commit \in Word /\ x.reject \in Word
      /\ x.rejecthint \in Word
      /\ x.entries \in Seq(PlainEntry) /\ x.snapshot \in PlainSnapshot \cup {None}
      /\ x.reject \in {0, 1} /\ x.context \in Seq(Byte) /\ x.unknown = <<>>
  BY SettingsFit DEF PlainMessage
<1>4. /\ x.type \in Nat /\ x.to \in Nat /\ x.from \in Nat /\ x.term \in Nat
      /\ x.logterm \in Nat /\ x.index \in Nat /\ x.commit \in Nat /\ x.reject \in Nat
      /\ x.rejecthint \in Nat
  BY <1>3 DEF Word
<1>5. PICK s1, s2, s3, s4, s5, s6, s7, s8, s9, s10, s11, s12 :
       /\ s1 = UInt(1, x.type)
       /\ s2 = UInt(2, x.to)
       /\ s3 = UInt(3, x.from)
       /\ s4 = UInt(4, x.term)
       /\ s5 = UInt(5, x.logterm)
       /\ s6 = UInt(6, x.index)
       /\ s7 = Each(7, SerializeEntry, x.entries)
       /\ s8 = UInt(8, x.commit)
       /\ s9 = Sub(9, SerializeSnapshot, x.snapshot)
       /\ s10 = UInt(10, x.reject)
       /\ s11 = UInt(11, x.rejecthint)
       /\ s12 = Str(12, x.context)
  OBVIOUS
<1>6. /\ s1 \in Seq(Byte) /\ s2 \in Seq(Byte) /\ s3 \in Seq(Byte) /\ s4 \in Seq(Byte)
      /\ s5 \in Seq(Byte) /\ s6 \in Seq(Byte) /\ s7 \in Seq(Byte) /\ s8 \in Seq(Byte)
      /\ s9 \in Seq(Byte) /\ s10 \in Seq(Byte) /\ s11 \in Seq(Byte) /\ s12 \in Seq(Byte)
  <2>1. \A n \in {1, 2, 3, 4, 5, 6, 8, 9, 10, 11, 12} : n \in 1..15
    OBVIOUS
  <2>2. UInt(1, x.type) \in Seq(Byte)
    BY <1>4, <2>1, WrittenBytes, Zenon
  <2>3. UInt(2, x.to) \in Seq(Byte)
    BY <1>4, <2>1, WrittenBytes, Zenon
  <2>4. UInt(3, x.from) \in Seq(Byte)
    BY <1>4, <2>1, WrittenBytes, Zenon
  <2>5. UInt(4, x.term) \in Seq(Byte)
    BY <1>4, <2>1, WrittenBytes, Zenon
  <2>6. UInt(5, x.logterm) \in Seq(Byte)
    BY <1>4, <2>1, WrittenBytes, Zenon
  <2>7. UInt(6, x.index) \in Seq(Byte)
    BY <1>4, <2>1, WrittenBytes, Zenon
  <2>8. Each(7, SerializeEntry, x.entries) \in Seq(Byte)
    <3>1. \A i \in 1..Len(x.entries) : x.entries[i] \in EntryClass
      BY <1>3, PlainIsOfClass, ElementOfSeq
    <3>2. x.entries \in Seq(EntryClass)
      BY <1>3, <3>1, SeqOfIts
    <3>3. NewEntry \in EntryClass
      BY NewIsPlain, PlainIsOfClass
    <3>4. 7 \in 1..15
      OBVIOUS
    <3> QED BY <3>2, <3>3, <3>4, EachAppend
  <2>9. UInt(8, x.commit) \in Seq(Byte)
    BY <1>4, <2>1, WrittenBytes, Zenon
  <2>10. Sub(9, SerializeSnapshot, x.snapshot) \in Seq(Byte)
    <3>1. CASE x.snapshot = None
      BY <3>1 DEF Sub
    <3>2. CASE x.snapshot \in PlainSnapshot
      <4>1. SerializeSnapshot(x.snapshot) \in Seq(Byte)
        BY <3>2, SnapshotWrote, PlainIsOfClass DEF Wrote
      <4>2. Delimited(9, SerializeSnapshot(x.snapshot)) \in Seq(Byte)
        BY <2>1, <4>1, WrittenBytes, Zenon
      <4> QED BY <4>2 DEF Sub
    <3> QED BY <1>3, <3>1, <3>2
  <2>11. UInt(10, x.reject) \in Seq(Byte)
    BY <1>4, <2>1, WrittenBytes, Zenon
  <2>12. UInt(11, x.rejecthint) \in Seq(Byte)
    BY <1>4, <2>1, WrittenBytes, Zenon
  <2>13. Str(12, x.context) \in Seq(Byte)
    BY <1>3, <2>1, WrittenBytes, Zenon
  <2> QED BY <1>5, <2>2, <2>3, <2>4, <2>5, <2>6, <2>7, <2>8, <2>9, <2>10, <2>11, <2>12, <2>13, Zenon
<1>7. PICK p2, p3, p4, p5, p6, p7, p8, p9, p10, p11, p12 :
       /\ p2 = s1 \o s2 /\ p3 = p2 \o s3 /\ p4 = p3 \o s4 /\ p5 = p4 \o s5
       /\ p6 = p5 \o s6 /\ p7 = p6 \o s7 /\ p8 = p7 \o s8 /\ p9 = p8 \o s9
       /\ p10 = p9 \o s10 /\ p11 = p10 \o s11 /\ p12 = p11 \o s12
  OBVIOUS
<1>8. /\ p2 \in Seq(Byte) /\ p3 \in Seq(Byte) /\ p4 \in Seq(Byte) /\ p5 \in Seq(Byte)
      /\ p6 \in Seq(Byte) /\ p7 \in Seq(Byte) /\ p8 \in Seq(Byte) /\ p9 \in Seq(Byte)
      /\ p10 \in Seq(Byte) /\ p11 \in Seq(Byte) /\ p12 \in Seq(Byte)
  <2>1. \A p, q \in Seq(Byte) : p \o q \in Seq(Byte)
    BY BytesJoin, Zenon
  <2>2. p2 \in Seq(Byte)
    BY <1>6, <1>7, <2>1, Zenon
  <2>3. p3 \in Seq(Byte)
    BY <1>6, <1>7, <2>1, <2>2, Zenon
  <2>4. p4 \in Seq(Byte)
    BY <1>6, <1>7, <2>1, <2>3, Zenon
  <2>5. p5 \in Seq(Byte)
    BY <1>6, <1>7, <2>1, <2>4, Zenon
  <2>6. p6 \in Seq(Byte)
    BY <1>6, <1>7, <2>1, <2>5, Zenon
  <2>7. p7 \in Seq(Byte)
    BY <1>6, <1>7, <2>1, <2>6, Zenon
  <2>8. p8 \in Seq(Byte)
    BY <1>6, <1>7, <2>1, <2>7, Zenon
  <2>9. p9 \in Seq(Byte)
    BY <1>6, <1>7, <2>1, <2>8, Zenon
  <2>10. p10 \in Seq(Byte)
    BY <1>6, <1>7, <2>1, <2>9, Zenon
  <2>11. p11 \in Seq(Byte)
    BY <1>6, <1>7, <2>1, <2>10, Zenon
  <2>12. p12 \in Seq(Byte)
    BY <1>6, <1>7, <2>1, <2>11, Zenon
  <2> QED BY <2>2, <2>3, <2>4, <2>5, <2>6, <2>7, <2>8, <2>9, <2>10, <2>11, <2>12, Zenon
<1>9. SerializeMessage(x) = p12
  <2>1. p12 \o <<>> = p12
    BY <1>8
  <2>2. SerializeMessage(x) = p12 \o <<>>
    BY <1>3, <1>5, <1>7, Zenon DEF SerializeMessage
  <2> QED BY <2>1, <2>2
<1>10. Len(s7) \in Word /\ Len(s9) \in Word /\ Len(s12) \in Word
  <2>1. Len(p11) \in Word /\ Len(s12) \in Word
    <3>1. Len(p11 \o s12) \in Word
      BY <1>7, <1>9
    <3> QED BY <1>6, <1>8, <3>1, WordPart, Zenon
  <2>2. Len(p10) \in Word /\ Len(s11) \in Word
    <3>1. Len(p10 \o s11) \in Word
      BY <1>7, <2>1
    <3> QED BY <1>6, <1>8, <3>1, WordPart, Zenon
  <2>3. Len(p9) \in Word /\ Len(s10) \in Word
    <3>1. Len(p9 \o s10) \in Word
      BY <1>7, <2>2
    <3> QED BY <1>6, <1>8, <3>1, WordPart, Zenon
  <2>4. Len(p8) \in Word /\ Len(s9) \in Word
    <3>1. Len(p8 \o s9) \in Word
      BY <1>7, <2>3
    <3> QED BY <1>6, <1>8, <3>1, WordPart, Zenon
  <2>5. Len(p7) \in Word /\ Len(s8) \in Word
    <3>1. Len(p7 \o s8) \in Word
      BY <1>7, <2>4
    <3> QED BY <1>6, <1>8, <3>1, WordPart, Zenon
  <2>6. Len(p6) \in Word /\ Len(s7) \in Word
    <3>1. Len(p6 \o s7) \in Word
      BY <1>7, <2>5
    <3> QED BY <1>6, <1>8, <3>1, WordPart, Zenon
  <2> QED BY <2>1, <2>2, <2>3, <2>4, <2>5, <2>6
<1>11. Len(x.context) \in Word
  BY <1>3, <1>5, <1>10, WordString
<1>12. PICK m1 : m1 = [m EXCEPT !.type = Over(m.type, x.type, 0)]
  OBVIOUS
<1>13. m1 \in C
  <2>1. Over(m.type, x.type, 0) \in Nat
    BY <1>1, <1>3, <1>4, Zenon DEF MessageClass, Over
  <2> QED BY <1>1, <1>12, <2>1 DEF MessageClass
<1>14. Takes(R, C, m, s1, m1)
  <2>1. TakesNumber(R, 1, x.type, m, m1)
    BY <1>1, <1>4, <1>12, MessageTakesNumber
  <2> QED BY <1>1, <1>2, <1>3, <1>5, <1>13, <2>1, TakesUInt
<1>15. PICK m2 : m2 = [m1 EXCEPT !.to = Over(m1.to, x.to, 0)]
  OBVIOUS
<1>16. m2 \in C
  <2>1. Over(m1.to, x.to, 0) \in Nat
    BY <1>1, <1>3, <1>4, <1>13, Zenon DEF MessageClass, Over
  <2> QED BY <1>1, <1>13, <1>15, <2>1 DEF MessageClass
<1>17. Takes(R, C, m1, s2, m2)
  <2>1. TakesNumber(R, 2, x.to, m1, m2)
    BY <1>1, <1>4, <1>13, <1>15, MessageTakesNumber
  <2> QED BY <1>1, <1>2, <1>3, <1>5, <1>13, <1>16, <2>1, TakesUInt
<1>18. Takes(R, C, m, p2, m2)
  BY <1>2, <1>7, <1>14, <1>17, TakesBoth
<1>19. PICK m3 : m3 = [m2 EXCEPT !.from = Over(m2.from, x.from, 0)]
  OBVIOUS
<1>20. m3 \in C
  <2>1. Over(m2.from, x.from, 0) \in Nat
    BY <1>1, <1>3, <1>4, <1>16, Zenon DEF MessageClass, Over
  <2> QED BY <1>1, <1>16, <1>19, <2>1 DEF MessageClass
<1>21. Takes(R, C, m2, s3, m3)
  <2>1. TakesNumber(R, 3, x.from, m2, m3)
    BY <1>1, <1>4, <1>16, <1>19, MessageTakesNumber
  <2> QED BY <1>1, <1>2, <1>3, <1>5, <1>16, <1>20, <2>1, TakesUInt
<1>22. Takes(R, C, m, p3, m3)
  BY <1>2, <1>7, <1>18, <1>21, TakesBoth
<1>23. PICK m4 : m4 = [m3 EXCEPT !.term = Over(m3.term, x.term, 0)]
  OBVIOUS
<1>24. m4 \in C
  <2>1. Over(m3.term, x.term, 0) \in Nat
    BY <1>1, <1>3, <1>4, <1>20, Zenon DEF MessageClass, Over
  <2> QED BY <1>1, <1>20, <1>23, <2>1 DEF MessageClass
<1>25. Takes(R, C, m3, s4, m4)
  <2>1. TakesNumber(R, 4, x.term, m3, m4)
    BY <1>1, <1>4, <1>20, <1>23, MessageTakesNumber
  <2> QED BY <1>1, <1>2, <1>3, <1>5, <1>20, <1>24, <2>1, TakesUInt
<1>26. Takes(R, C, m, p4, m4)
  BY <1>2, <1>7, <1>22, <1>25, TakesBoth
<1>27. PICK m5 : m5 = [m4 EXCEPT !.logterm = Over(m4.logterm, x.logterm, 0)]
  OBVIOUS
<1>28. m5 \in C
  <2>1. Over(m4.logterm, x.logterm, 0) \in Nat
    BY <1>1, <1>3, <1>4, <1>24, Zenon DEF MessageClass, Over
  <2> QED BY <1>1, <1>24, <1>27, <2>1 DEF MessageClass
<1>29. Takes(R, C, m4, s5, m5)
  <2>1. TakesNumber(R, 5, x.logterm, m4, m5)
    BY <1>1, <1>4, <1>24, <1>27, MessageTakesNumber
  <2> QED BY <1>1, <1>2, <1>3, <1>5, <1>24, <1>28, <2>1, TakesUInt
<1>30. Takes(R, C, m, p5, m5)
  BY <1>2, <1>7, <1>26, <1>29, TakesBoth
<1>31. PICK m6 : m6 = [m5 EXCEPT !.index = Over(m5.index, x.index, 0)]
  OBVIOUS
<1>32. m6 \in C
  <2>1. Over(m5.index, x.index, 0) \in Nat
    BY <1>1, <1>3, <1>4, <1>28, Zenon DEF MessageClass, Over
  <2> QED BY <1>1, <1>28, <1>31, <2>1 DEF MessageClass
<1>33. Takes(R, C, m5, s6, m6)
  <2>1. TakesNumber(R, 6, x.index, m5, m6)
    BY <1>1, <1>4, <1>28, <1>31, MessageTakesNumber
  <2> QED BY <1>1, <1>2, <1>3, <1>5, <1>28, <1>32, <2>1, TakesUInt
<1>34. Takes(R, C, m, p6, m6)
  BY <1>2, <1>7, <1>30, <1>33, TakesBoth
<1>35. PICK m7 : m7 = [m6 EXCEPT !.entries = MergeEntries(m6.entries, x.entries)]
  OBVIOUS
<1>36. Takes(R, C, m6, s7, m7)
  BY <1>1, <1>3, <1>5, <1>10, <1>32, <1>35, MessageTakesEntries DEF EntriesTaken, WithEntries
<1>37. m7 \in C
  BY <1>36 DEF Takes
<1>38. Takes(R, C, m, p7, m7)
  BY <1>2, <1>7, <1>34, <1>36, TakesBoth
<1>39. PICK m8 : m8 = [m7 EXCEPT !.commit = Over(m7.commit, x.commit, 0)]
  OBVIOUS
<1>40. m8 \in C
  <2>1. Over(m7.commit, x.commit, 0) \in Nat
    BY <1>1, <1>3, <1>4, <1>37, Zenon DEF MessageClass, Over
  <2> QED BY <1>1, <1>37, <1>39, <2>1 DEF MessageClass
<1>41. Takes(R, C, m7, s8, m8)
  <2>1. TakesNumber(R, 8, x.commit, m7, m8)
    BY <1>1, <1>4, <1>37, <1>39, MessageTakesNumber
  <2> QED BY <1>1, <1>2, <1>3, <1>5, <1>37, <1>40, <2>1, TakesUInt
<1>42. Takes(R, C, m, p8, m8)
  BY <1>2, <1>7, <1>38, <1>41, TakesBoth
<1>43. PICK m9 : m9 = [m8 EXCEPT !.snapshot = OverSub(MergeSnapshot, m8.snapshot, x.snapshot, NewSnapshot)]
  OBVIOUS
<1>44. Takes(R, C, m8, s9, m9)
  BY <1>1, <1>3, <1>5, <1>10, <1>40, <1>43, MessageTakesSub
<1>45. m9 \in C
  BY <1>44 DEF Takes
<1>46. Takes(R, C, m, p9, m9)
  BY <1>2, <1>7, <1>42, <1>44, TakesBoth
<1>47. PICK m10 : m10 = [m9 EXCEPT !.reject = Over(m9.reject, x.reject, 0)]
  OBVIOUS
<1>48. m10 \in C
  <2>1. Over(m9.reject, x.reject, 0) \in {0, 1}
    BY <1>1, <1>3, <1>4, <1>45, Zenon DEF MessageClass, Over
  <2> QED BY <1>1, <1>45, <1>47, <2>1 DEF MessageClass
<1>49. Takes(R, C, m9, s10, m10)
  <2>1. TakesNumber(R, 10, x.reject, m9, m10)
    BY <1>1, <1>3, <1>45, <1>47, MessageTakesReject
  <2> QED BY <1>1, <1>2, <1>3, <1>5, <1>45, <1>48, <2>1, TakesUInt
<1>50. Takes(R, C, m, p10, m10)
  BY <1>2, <1>7, <1>46, <1>49, TakesBoth
<1>51. PICK m11 : m11 = [m10 EXCEPT !.rejecthint = Over(m10.rejecthint, x.rejecthint, 0)]
  OBVIOUS
<1>52. m11 \in C
  <2>1. Over(m10.rejecthint, x.rejecthint, 0) \in Nat
    BY <1>1, <1>3, <1>4, <1>48, Zenon DEF MessageClass, Over
  <2> QED BY <1>1, <1>48, <1>51, <2>1 DEF MessageClass
<1>53. Takes(R, C, m10, s11, m11)
  <2>1. TakesNumber(R, 11, x.rejecthint, m10, m11)
    BY <1>1, <1>4, <1>48, <1>51, MessageTakesNumber
  <2> QED BY <1>1, <1>2, <1>3, <1>5, <1>48, <1>52, <2>1, TakesUInt
<1>54. Takes(R, C, m, p11, m11)
  BY <1>2, <1>7, <1>50, <1>53, TakesBoth
<1>55. PICK m12 : m12 = [m11 EXCEPT !.context = Over(m11.context, x.context, <<>>)]
  OBVIOUS
<1>56. m12 \in C
  <2>1. Over(m11.context, x.context, <<>>) \in Seq(Byte)
    BY <1>1, <1>3, <1>4, <1>52, Zenon DEF MessageClass, Over
  <2> QED BY <1>1, <1>52, <1>55, <2>1 DEF MessageClass
<1>57. Takes(R, C, m11, s12, m12)
  <2>1. TakesString(R, 12, x.context, m11, m12)
    BY <1>1, <1>3, <1>52, <1>55, MessageTakesContext
  <2> QED BY <1>1, <1>2, <1>3, <1>5, <1>52, <1>56, <1>11, <2>1, TakesStr
<1>58. Takes(R, C, m, p12, m12)
  BY <1>2, <1>7, <1>54, <1>57, TakesBoth
<1>59. m12 = MergeMessage(m, x)
  <2>1. m.unknown \o x.unknown = m.unknown
    BY <1>3 DEF MessageClass
  <2>2. PICK es, o : /\ es = MergeEntries(m.entries, x.entries)
                     /\ o = OverSub(MergeSnapshot, m.snapshot, x.snapshot, NewSnapshot)
    OBVIOUS
  <2>3. /\ m6.type = Over(m.type, x.type, 0)
        /\ m6.to = Over(m.to, x.to, 0)
        /\ m6.from = Over(m.from, x.from, 0)
        /\ m6.term = Over(m.term, x.term, 0)
        /\ m6.logterm = Over(m.logterm, x.logterm, 0)
        /\ m6.index = Over(m.index, x.index, 0)
        /\ m6.entries = m.entries
        /\ m6.commit = m.commit
        /\ m6.snapshot = m.snapshot
        /\ m6.reject = m.reject
        /\ m6.rejecthint = m.rejecthint
        /\ m6.context = m.context
        /\ m6.unknown = m.unknown
    BY <1>1, <1>12, <1>13, <1>15, <1>16, <1>19, <1>20, <1>23, <1>24, <1>27, <1>28, <1>31, <1>32 DEF MessageClass
  <2>4. /\ m12.type = m6.type
        /\ m12.to = m6.to
        /\ m12.from = m6.from
        /\ m12.term = m6.term
        /\ m12.logterm = m6.logterm
        /\ m12.index = m6.index
        /\ m12.entries = es
        /\ m12.commit = Over(m.commit, x.commit, 0)
        /\ m12.snapshot = o
        /\ m12.reject = Over(m.reject, x.reject, 0)
        /\ m12.rejecthint = Over(m.rejecthint, x.rejecthint, 0)
        /\ m12.context = Over(m.context, x.context, <<>>)
        /\ m12.unknown = m6.unknown
    BY <1>1, <1>31, <1>32, <1>35, <1>37, <1>39, <1>40, <1>43, <1>45, <1>47, <1>48, <1>51, <1>52, <1>55, <1>56, <2>2, <2>3 DEF MessageClass
  <2>5. m12 \in MessageClass
    BY <1>1, <1>56
  <2> QED BY <2>1, <2>2, <2>3, <2>4, <2>5 DEF MessageClass, MergeMessage
<1>60. PICK X : X = MessageParts(m, m12)
  OBVIOUS
<1>61. /\ m \in X /\ m1 \in X /\ m2 \in X /\ m3 \in X /\ m4 \in X /\ m5 \in X /\ m6 \in X
       /\ m7 \in X /\ m8 \in X /\ m9 \in X /\ m10 \in X /\ m11 \in X
  <2>1. /\ m1.to = m.to /\ m1.from = m.from /\ m1.term = m.term /\ m1.logterm = m.logterm
        /\ m1.index = m.index /\ m1.entries = m.entries /\ m1.commit = m.commit
        /\ m1.snapshot = m.snapshot /\ m1.reject = m.reject /\ m1.rejecthint = m.rejecthint
        /\ m1.context = m.context /\ m1.unknown = m.unknown
    BY <1>1, <1>12 DEF MessageClass
  <2>2. /\ m2.from = m.from /\ m2.term = m.term /\ m2.logterm = m.logterm
        /\ m2.index = m.index /\ m2.entries = m.entries /\ m2.commit = m.commit
        /\ m2.snapshot = m.snapshot /\ m2.reject = m.reject /\ m2.rejecthint = m.rejecthint
        /\ m2.context = m.context /\ m2.unknown = m.unknown
    BY <1>1, <1>15, <1>13, <2>1 DEF MessageClass
  <2>3. /\ m3.term = m.term /\ m3.logterm = m.logterm /\ m3.index = m.index
        /\ m3.entries = m.entries /\ m3.commit = m.commit /\ m3.snapshot = m.snapshot
        /\ m3.reject = m.reject /\ m3.rejecthint = m.rejecthint /\ m3.context = m.context
        /\ m3.unknown = m.unknown
    BY <1>1, <1>19, <1>16, <2>2 DEF MessageClass
  <2>4. /\ m4.logterm = m.logterm /\ m4.index = m.index /\ m4.entries = m.entries
        /\ m4.commit = m.commit /\ m4.snapshot = m.snapshot /\ m4.reject = m.reject
        /\ m4.rejecthint = m.rejecthint /\ m4.context = m.context /\ m4.unknown = m.unknown
    BY <1>1, <1>23, <1>20, <2>3 DEF MessageClass
  <2>5. /\ m5.index = m.index /\ m5.entries = m.entries /\ m5.commit = m.commit
        /\ m5.snapshot = m.snapshot /\ m5.reject = m.reject /\ m5.rejecthint = m.rejecthint
        /\ m5.context = m.context /\ m5.unknown = m.unknown
    BY <1>1, <1>27, <1>24, <2>4 DEF MessageClass
  <2>6. /\ m6.entries = m.entries /\ m6.commit = m.commit /\ m6.snapshot = m.snapshot
        /\ m6.reject = m.reject /\ m6.rejecthint = m.rejecthint /\ m6.context = m.context
        /\ m6.unknown = m.unknown
    BY <1>1, <1>31, <1>28, <2>5 DEF MessageClass
  <2>7. /\ m7.commit = m.commit /\ m7.snapshot = m.snapshot /\ m7.reject = m.reject
        /\ m7.rejecthint = m.rejecthint /\ m7.context = m.context /\ m7.unknown = m.unknown
    BY <1>1, <1>35, <1>32, <2>6 DEF MessageClass
  <2>8. /\ m8.snapshot = m.snapshot /\ m8.reject = m.reject /\ m8.rejecthint = m.rejecthint
        /\ m8.context = m.context /\ m8.unknown = m.unknown
    BY <1>1, <1>39, <1>37, <2>7 DEF MessageClass
  <2>9. /\ m9.reject = m.reject /\ m9.rejecthint = m.rejecthint /\ m9.context = m.context
        /\ m9.unknown = m.unknown
    BY <1>1, <1>43, <1>40, <2>8 DEF MessageClass
  <2>10. /\ m10.rejecthint = m.rejecthint /\ m10.context = m.context
         /\ m10.unknown = m.unknown
    BY <1>1, <1>47, <1>45, <2>9 DEF MessageClass
  <2>11. /\ m11.context = m.context /\ m11.unknown = m.unknown
    BY <1>1, <1>51, <1>48, <2>10 DEF MessageClass
  <2>12. /\ m11.type = m12.type /\ m11.to = m12.to /\ m11.from = m12.from
        /\ m11.term = m12.term /\ m11.logterm = m12.logterm /\ m11.index = m12.index
        /\ m11.entries = m12.entries /\ m11.commit = m12.commit
        /\ m11.snapshot = m12.snapshot /\ m11.reject = m12.reject
        /\ m11.rejecthint = m12.rejecthint
    BY <1>1, <1>55, <1>52 DEF MessageClass
  <2>13. /\ m10.type = m12.type /\ m10.to = m12.to /\ m10.from = m12.from
        /\ m10.term = m12.term /\ m10.logterm = m12.logterm /\ m10.index = m12.index
        /\ m10.entries = m12.entries /\ m10.commit = m12.commit
        /\ m10.snapshot = m12.snapshot /\ m10.reject = m12.reject
    BY <1>1, <1>51, <1>48, <2>12 DEF MessageClass
  <2>14. /\ m9.type = m12.type /\ m9.to = m12.to /\ m9.from = m12.from /\ m9.term = m12.term
        /\ m9.logterm = m12.logterm /\ m9.index = m12.index /\ m9.entries = m12.entries
        /\ m9.commit = m12.commit /\ m9.snapshot = m12.snapshot
    BY <1>1, <1>47, <1>45, <2>13 DEF MessageClass
  <2>15. /\ m8.type = m12.type /\ m8.to = m12.to /\ m8.from = m12.from /\ m8.term = m12.term
        /\ m8.logterm = m12.logterm /\ m8.index = m12.index /\ m8.entries = m12.entries
        /\ m8.commit = m12.commit
    BY <1>1, <1>43, <1>40, <2>14 DEF MessageClass
  <2>16. /\ m7.type = m12.type /\ m7.to = m12.to /\ m7.from = m12.from /\ m7.term = m12.term
        /\ m7.logterm = m12.logterm /\ m7.index = m12.index /\ m7.entries = m12.entries
    BY <1>1, <1>39, <1>37, <2>15 DEF MessageClass
  <2>17. /\ m6.type = m12.type /\ m6.to = m12.to /\ m6.from = m12.from /\ m6.term = m12.term
        /\ m6.logterm = m12.logterm /\ m6.index = m12.index
    BY <1>1, <1>35, <1>32, <2>16 DEF MessageClass
  <2>18. /\ m5.type = m12.type /\ m5.to = m12.to /\ m5.from = m12.from /\ m5.term = m12.term
        /\ m5.logterm = m12.logterm
    BY <1>1, <1>31, <1>28, <2>17 DEF MessageClass
  <2>19. /\ m4.type = m12.type /\ m4.to = m12.to /\ m4.from = m12.from /\ m4.term = m12.term
    BY <1>1, <1>27, <1>24, <2>18 DEF MessageClass
  <2>20. /\ m3.type = m12.type /\ m3.to = m12.to /\ m3.from = m12.from
    BY <1>1, <1>23, <1>20, <2>19 DEF MessageClass
  <2>21. /\ m2.type = m12.type /\ m2.to = m12.to
    BY <1>1, <1>19, <1>16, <2>20 DEF MessageClass
  <2>22. /\ m1.type = m12.type
    BY <1>1, <1>15, <1>13, <2>21 DEF MessageClass
  <2>23. m \in X
    BY <1>60, Zenon DEF MessageParts
  <2>24. m1 \in X
    BY <1>1, <1>60, <1>13, <2>1, <2>22, Zenon DEF MessageParts
  <2>25. m2 \in X
    BY <1>1, <1>60, <1>16, <2>2, <2>21, Zenon DEF MessageParts
  <2>26. m3 \in X
    BY <1>1, <1>60, <1>20, <2>3, <2>20, Zenon DEF MessageParts
  <2>27. m4 \in X
    BY <1>1, <1>60, <1>24, <2>4, <2>19, Zenon DEF MessageParts
  <2>28. m5 \in X
    BY <1>1, <1>60, <1>28, <2>5, <2>18, Zenon DEF MessageParts
  <2>29. m6 \in X
    BY <1>1, <1>60, <1>32, <2>6, <2>17, Zenon DEF MessageParts
  <2>30. m7 \in X
    BY <1>1, <1>60, <1>37, <2>7, <2>16, Zenon DEF MessageParts
  <2>31. m8 \in X
    BY <1>1, <1>60, <1>40, <2>8, <2>15, Zenon DEF MessageParts
  <2>32. m9 \in X
    BY <1>1, <1>60, <1>45, <2>9, <2>14, Zenon DEF MessageParts
  <2>33. m10 \in X
    BY <1>1, <1>60, <1>48, <2>10, <2>13, Zenon DEF MessageParts
  <2>34. m11 \in X
    BY <1>1, <1>60, <1>52, <2>11, <2>12, Zenon DEF MessageParts
  <2> QED BY <2>23, <2>24, <2>25, <2>26, <2>27, <2>28, <2>29, <2>30, <2>31, <2>32, <2>33, <2>34
<1>62. CutsTo(R, C, m, s1, X)
  BY <1>2, <1>3, <1>5, <1>1, <1>61, CutUInt
<1>63. CutsTo(R, C, m1, s2, X)
  BY <1>2, <1>3, <1>5, <1>13, <1>61, CutUInt
<1>64. CutsTo(R, C, m, p2, X)
  BY <1>2, <1>6, <1>7, <1>14, <1>62, <1>63, CutBoth
<1>65. CutsTo(R, C, m2, s3, X)
  BY <1>2, <1>3, <1>5, <1>16, <1>61, CutUInt
<1>66. CutsTo(R, C, m, p3, X)
  BY <1>2, <1>6, <1>7, <1>18, <1>64, <1>65, CutBoth
<1>67. CutsTo(R, C, m3, s4, X)
  BY <1>2, <1>3, <1>5, <1>20, <1>61, CutUInt
<1>68. CutsTo(R, C, m, p4, X)
  BY <1>2, <1>6, <1>7, <1>22, <1>66, <1>67, CutBoth
<1>69. CutsTo(R, C, m4, s5, X)
  BY <1>2, <1>3, <1>5, <1>24, <1>61, CutUInt
<1>70. CutsTo(R, C, m, p5, X)
  BY <1>2, <1>6, <1>7, <1>26, <1>68, <1>69, CutBoth
<1>71. CutsTo(R, C, m5, s6, X)
  BY <1>2, <1>3, <1>5, <1>28, <1>61, CutUInt
<1>72. CutsTo(R, C, m, p6, X)
  BY <1>2, <1>6, <1>7, <1>30, <1>70, <1>71, CutBoth
<1>73. CutsTo(R, C, m6, s7, X)
  <2>1. PICK all : all = MergeEntries(m6.entries, x.entries)
    OBVIOUS
  <2>2. CutsTo(R, C, m6, s7, WithPart(m6, all))
    BY <1>1, <1>3, <1>5, <1>10, <1>32, <2>1, MessageTakesEntries DEF EntriesTaken
  <2>3. m12.entries = all
    BY <1>1, <1>32, <1>35, <1>37, <1>39, <1>40, <1>43, <1>45, <1>47, <1>48, <1>51, <1>52, <1>55, <2>1
    DEF MessageClass
  <2>4. ASSUME NEW y \in WithPart(m6, all) PROVE y \in X
    <3>1. PICK es : y = [m6 EXCEPT !.entries = es] /\ EntriesPart(es, all)
      BY DEF WithPart
    <3>2. y \in MessageClass
      BY DEF WithPart
    <3>3. /\ y.entries = es /\ y.type = m6.type /\ y.to = m6.to /\ y.from = m6.from
          /\ y.term = m6.term /\ y.logterm = m6.logterm /\ y.index = m6.index
          /\ y.commit = m6.commit /\ y.snapshot = m6.snapshot /\ y.reject = m6.reject
          /\ y.rejecthint = m6.rejecthint /\ y.context = m6.context /\ y.unknown = m6.unknown
      BY <1>1, <1>32, <3>1 DEF MessageClass
    <3> QED BY <1>60, <1>61, <2>3, <3>1, <3>2, <3>3, Zenon DEF MessageParts
  <2> QED BY <2>2, <2>4, CutsMore
<1>74. CutsTo(R, C, m, p7, X)
  BY <1>2, <1>6, <1>7, <1>34, <1>72, <1>73, CutBoth
<1>75. CutsTo(R, C, m7, s8, X)
  BY <1>2, <1>3, <1>5, <1>37, <1>61, CutUInt
<1>76. CutsTo(R, C, m, p8, X)
  BY <1>2, <1>6, <1>7, <1>38, <1>74, <1>75, CutBoth
<1>77. CutsTo(R, C, m8, s9, X)
  <2>1. ASSUME x.snapshot # None PROVE m12.snapshot # None
    <3>1. x.snapshot \in PlainSnapshot /\ 9 \in 1..15
      BY <1>3, <2>1
    <3>2. PICK b : b = SerializeSnapshot(x.snapshot)
      OBVIOUS
    <3>3. b \in Seq(Byte)
      BY <3>1, <3>2, SnapshotWrote, PlainIsOfClass DEF Wrote
    <3>4. s9 = Delimited(9, b)
      BY <1>5, <2>1, <3>2 DEF Sub
    <3>5. Len(b) \in Word
      BY <1>10, <3>1, <3>3, <3>4, WordInside
    <3>6. PICK old \in SnapshotClass : old = Mutable(m8.snapshot, NewSnapshot)
      BY <1>1, <1>40, NewIsPlain, PlainIsOfClass DEF Mutable, MessageClass
    <3>7. PICK z \in SnapshotClass : z = MergeSnapshot(old, x.snapshot)
      BY <3>1, <3>2, <3>5, SnapshotParsed
    <3>8. m9 = [m8 EXCEPT !.snapshot = z]
      BY <1>43, <2>1, <3>6, <3>7 DEF OverSub
    <3>9. m12.snapshot = z
      BY <1>1, <1>40, <1>45, <1>47, <1>48, <1>51, <1>52, <1>55, <3>8 DEF MessageClass
    <3> QED BY <3>9, NoneAssumption
  <2>2. AnySnapshot(m8, x.snapshot, X)
    <3> SUFFICES ASSUME x.snapshot # None, NEW z \in SnapshotClass
                 PROVE  [m8 EXCEPT !.snapshot = z] \in X
      BY Zenon DEF AnySnapshot
    <3>1. PICK y : y = [m8 EXCEPT !.snapshot = z]
      OBVIOUS
    <3>2. y \in MessageClass
      BY <1>1, <1>40, <3>1 DEF MessageClass
    <3>3. /\ y.type = m8.type /\ y.to = m8.to /\ y.from = m8.from /\ y.term = m8.term
          /\ y.logterm = m8.logterm /\ y.index = m8.index /\ y.entries = m8.entries
          /\ y.commit = m8.commit /\ y.reject = m8.reject /\ y.rejecthint = m8.rejecthint
          /\ y.context = m8.context /\ y.unknown = m8.unknown
      BY <1>1, <1>40, <3>1 DEF MessageClass
    <3> QED BY <1>60, <1>61, <2>1, <3>1, <3>2, <3>3, Zenon DEF MessageParts
  <2> QED BY <1>1, <1>3, <1>5, <1>10, <1>40, <1>61, <2>2, MessageCutsSub
<1>78. CutsTo(R, C, m, p9, X)
  BY <1>2, <1>6, <1>7, <1>42, <1>76, <1>77, CutBoth
<1>79. CutsTo(R, C, m9, s10, X)
  BY <1>2, <1>3, <1>5, <1>45, <1>61, CutUInt
<1>80. CutsTo(R, C, m, p10, X)
  BY <1>2, <1>6, <1>7, <1>46, <1>78, <1>79, CutBoth
<1>81. CutsTo(R, C, m10, s11, X)
  BY <1>2, <1>3, <1>5, <1>48, <1>61, CutUInt
<1>82. CutsTo(R, C, m, p11, X)
  BY <1>2, <1>6, <1>7, <1>50, <1>80, <1>81, CutBoth
<1>83. CutsTo(R, C, m11, s12, X)
  <2>1. AnyPrefix(m11, x.context, X)
    <3> SUFFICES ASSUME NEW p \in Seq(Byte), x.context # <<>>, IsPrefix(p, x.context)
                 PROVE  [m11 EXCEPT !.context = p] \in X
      BY Zenon DEF AnyPrefix
    <3>1. PICK y : y = [m11 EXCEPT !.context = p]
      OBVIOUS
    <3>2. y \in MessageClass
      BY <1>1, <1>52, <3>1 DEF MessageClass
    <3>3. /\ y.context = p /\ y.type = m11.type /\ y.to = m11.to /\ y.from = m11.from
          /\ y.term = m11.term /\ y.logterm = m11.logterm /\ y.index = m11.index
          /\ y.entries = m11.entries /\ y.commit = m11.commit /\ y.snapshot = m11.snapshot
          /\ y.reject = m11.reject /\ y.rejecthint = m11.rejecthint /\ y.unknown = m11.unknown
      BY <1>1, <1>52, <3>1 DEF MessageClass
    <3>4. m12.context = x.context
      BY <1>1, <1>52, <1>55 DEF MessageClass, Over
    <3>5. IsPrefix(y.context, m12.context)
      BY <3>3, <3>4
    <3> QED BY <1>60, <1>61, <3>1, <3>2, <3>3, <3>5, Zenon DEF MessageParts
  <2>2. TakesStringPart(R, 12, x.context, m11, X)
    BY <1>1, <1>3, <1>52, <2>1, MessageCutsContext
  <2> QED BY <1>2, <1>3, <1>5, <1>11, <1>52, <1>61, <2>2, CutStr
<1>84. CutsTo(R, C, m, p12, X)
  BY <1>2, <1>6, <1>7, <1>54, <1>82, <1>83, CutBoth
<1> QED BY <1>1, <1>9, <1>58, <1>59, <1>60, <1>84

\* So parsing its bytes merges it.
LEMMA MessageParsed ==
  ASSUME NumbersFit, NEW m \in MessageClass, NEW x \in PlainMessage,
         Len(SerializeMessage(x)) \in Word
  PROVE  /\ ParseMessage(m, SerializeMessage(x)) = Good(MergeMessage(m, x))
         /\ MergeMessage(m, x) \in MessageClass
<1>1. PICK s, y : s = SerializeMessage(x) /\ y = MergeMessage(m, x)
  OBVIOUS
<1>2. Takes(MessageReader, MessageClass, m, s, y)
  BY <1>1, MessageReadBack, Zenon
<1>3. s \in Seq(Byte) /\ y \in MessageClass
  BY <1>2 DEF Takes
<1>4. /\ MessageReader \in Reader(MessageClass)
      /\ ParseMessage(m, s) = After(MessageReader, MessageClass, Good(m), Fields(s))
  BY <1>3, ParseMessageIs
<1>5. After(MessageReader, MessageClass, Good(m), Fields(s)) = Good(y)
  BY <1>2, <1>4, TakesAll
<1> QED BY <1>1, <1>3, <1>4, <1>5

\* What is left of a Message is so field by field.
LEMMA PartsAreCut ==
  ASSUME NEW some, NEW all, NEW y \in MessageParts(some, all)
  PROVE  Cut(y, some, all)
<1>1. CutField("entries", y, some, all)
  <2>1. CASE y.entries \in {some.entries, all.entries}
    BY <2>1 DEF CutField
  <2>2. CASE EntriesPart(y.entries, all.entries)
    <3>1. PICK es, n : es = y.entries /\ n = Len(es)
      OBVIOUS
    <3>2. PICK ds : ds = all.entries
      OBVIOUS
    <3>3. /\ n <= Len(ds) /\ \A i \in 1..n - 1 : es[i] = ds[i]
          /\ n > 0 => es[n] \in EntryParts(NewEntry, ds[n])
      BY <2>2, <3>1, <3>2 DEF EntriesPart
    <3>4. ASSUME n > 0, NEW g \in DOMAIN NewEntry
          PROVE  \/ es[n][g] \in {NewEntry[g], ds[n][g]}
                 \/ g = "data" /\ IsPrefix(es[n][g], ds[n][g])
      <4>1. PICK e, d : e = es[n] /\ d = ds[n]
        OBVIOUS
      <4>2. /\ e.type \in {NewEntry.type, d.type} /\ e.term \in {NewEntry.term, d.term}
            /\ e.index \in {NewEntry.index, d.index}
            /\ e.unknown \in {NewEntry.unknown, d.unknown}
            /\ e.data \in {NewEntry.data, d.data} \/ IsPrefix(e.data, d.data)
        BY <3>3, <3>4, <4>1, Zenon DEF EntryParts
      <4>3. g \in {"type", "term", "index", "data", "unknown"}
        BY DEF NewEntry
      <4>4. e[g] \in {NewEntry[g], d[g]} \/ (g = "data" /\ IsPrefix(e[g], d[g]))
        BY <4>2, <4>3, Zenon
      <4> QED BY <4>1, <4>4
    <3> QED BY <3>1, <3>2, <3>3, <3>4, Zenon DEF CutField
  <2> QED BY <2>1, <2>2, Zenon DEF MessageParts
<1>2. CutField("context", y, some, all)
  BY Zenon DEF CutField, MessageParts
<1>3. CutField("snapshot", y, some, all)
  BY Zenon DEF CutField, MessageParts
<1>4. /\ CutField("type", y, some, all) /\ CutField("to", y, some, all)
      /\ CutField("from", y, some, all) /\ CutField("term", y, some, all)
      /\ CutField("logterm", y, some, all) /\ CutField("index", y, some, all)
      /\ CutField("commit", y, some, all) /\ CutField("reject", y, some, all)
      /\ CutField("rejecthint", y, some, all) /\ CutField("unknown", y, some, all)
  BY Zenon DEF CutField, MessageParts
<1>5. ASSUME NEW f \in DOMAIN NewMessage PROVE CutField(f, y, some, all)
  <2>1. f \in {"type", "to", "from", "term", "logterm", "index", "entries", "commit",
               "snapshot", "reject", "rejecthint", "context", "unknown"}
    BY DEF NewMessage
  <2> QED BY <1>1, <1>2, <1>3, <1>4, <2>1, Zenon
<1> QED BY <1>5, Zenon DEF Cut
-----------------------------------------------------------------------------
(* The messages of a stream *)

\* h is what AsOne(i, j) is made of.
Merging(h, i, j) ==
  h = [k \in i - 1..j |-> IF k = i - 1 THEN NewMessage ELSE MergeMessage(h[k - 1], sent[k])]
MergesTo(h, i, j) ==
  h[i - 1] = NewMessage /\ \A k \in i..j : h[k] = MergeMessage(h[k - 1], sent[k])

\* What is sent are messages of the class that can be merged into any other.
SentMerges == \A n \in 1..Len(sent) : \A m \in MessageClass : MergeMessage(m, sent[n]) \in MessageClass

\* There is such a function.
LEMMA MergingExists ==
  ASSUME sent \in Seq(PlainMessage), SentMerges,
         NEW i \in 1..Len(sent), NEW j \in i - 1..Len(sent)
  PROVE  \E h : Merging(h, i, j)
<1> DEFINE N == j - (i - 1)
           D == [n \in 1..N |-> [m \in MessageClass |-> MergeMessage(m, sent[n + (i - 1)])]]
<1>1. Len(sent) \in Nat
  OBVIOUS
<1>2. N \in Nat
  BY <1>1
<1>3. D \in [1..N -> [MessageClass -> MessageClass]]
  <2>1. ASSUME NEW n \in 1..N, NEW m \in MessageClass
        PROVE  MergeMessage(m, sent[n + (i - 1)]) \in MessageClass
    <3>1. PICK k : k = n + (i - 1)
      OBVIOUS
    <3>2. k \in 1..Len(sent)
      BY <1>1, <3>1
    <3> QED BY <3>1, <3>2, Zenon DEF SentMerges
  <2> QED BY <2>1
<1>4. NewMessage \in MessageClass
  BY NewIsPlain, PlainIsOfClass
<1>5. PICK f \in [0..N -> MessageClass] : Recurs(f, NewMessage, N, D)
  <2> HIDE DEF N, D
  <2> QED BY <1>2, <1>3, <1>4, RecursionExists
<1> DEFINE h == [k \in i - 1..j |-> f[k - (i - 1)]]
<1>6. h[i - 1] = NewMessage
  <2>1. i - 1 \in i - 1..j /\ (i - 1) - (i - 1) = 0
    BY <1>1
  <2> QED BY <1>5, <2>1 DEF Recurs
<1>7. ASSUME NEW k \in i..j PROVE h[k] = MergeMessage(h[k - 1], sent[k])
  <2>1. PICK n : n = k - (i - 1)
    OBVIOUS
  <2>2. /\ n \in 1..N /\ n - 1 \in 0..N /\ n + (i - 1) = k /\ k \in i - 1..j /\ k - 1 \in i - 1..j
        /\ (k - 1) - (i - 1) = n - 1
    BY <1>1, <2>1
  <2>3. h[k] = f[n] /\ h[k - 1] = f[n - 1]
    BY <2>1, <2>2
  <2>4. f[n - 1] \in MessageClass
    BY <2>2
  <2>5. f[n] = D[n][f[n - 1]]
    <3> HIDE DEF D, N
    <3> QED BY <1>5, <2>2, Zenon DEF Recurs
  <2>6. D[n][f[n - 1]] = MergeMessage(f[n - 1], sent[n + (i - 1)])
    <3> HIDE DEF N
    <3> QED BY <2>2, <2>4, Zenon
  <2> QED BY <2>2, <2>3, <2>5, <2>6
<1>8. h = [k \in i - 1..j |-> h[k]]
  OBVIOUS
<1> HIDE DEF h, N, D
<1>9. ASSUME NEW k \in i - 1..j
      PROVE  h[k] = IF k = i - 1 THEN NewMessage ELSE MergeMessage(h[k - 1], sent[k])
  <2>1. CASE k = i - 1
    BY <1>6, <2>1
  <2>2. CASE k # i - 1
    <3>1. k \in i..j
      BY <1>1, <2>2
    <3> QED BY <1>7, <2>2, <3>1
  <2> QED BY <2>1, <2>2
<1>10. h = [k \in i - 1..j |-> IF k = i - 1 THEN NewMessage ELSE MergeMessage(h[k - 1], sent[k])]
  BY <1>8, <1>9
<1> QED BY <1>10 DEF Merging

\* It goes on from message to message.
LEMMA MergingIs ==
  ASSUME NEW i \in Nat, NEW j \in i - 1..Len(sent), Len(sent) \in Nat, NEW h, Merging(h, i, j)
  PROVE  MergesTo(h, i, j)
<1>1. h[i - 1] = NewMessage
  BY DEF Merging
<1>2. ASSUME NEW k \in i..j PROVE h[k] = MergeMessage(h[k - 1], sent[k])
  <2>1. k \in i - 1..j /\ k # i - 1
    OBVIOUS
  <2> QED BY <2>1 DEF Merging
<1> QED BY <1>1, <1>2 DEF MergesTo

\* One message more is merged into the others.
LEMMA AsOneIs ==
  ASSUME sent \in Seq(PlainMessage), SentMerges, NEW i \in 1..Len(sent)
  PROVE  /\ AsOne(i, i - 1) = NewMessage
         /\ \A j \in i..Len(sent) : AsOne(i, j) = MergeMessage(AsOne(i, j - 1), sent[j])
<1>1. Len(sent) \in Nat
  OBVIOUS
<1>2. ASSUME NEW j \in i - 1..Len(sent)
      PROVE  \E h : MergesTo(h, i, j) /\ AsOne(i, j) = h[j]
  <2> DEFINE h == CHOOSE g : Merging(g, i, j)
  <2>1. Merging(h, i, j)
    BY MergingExists, Zenon
  <2>2. AsOne(i, j) = h[j]
    BY Zenon DEF AsOne, Merging
  <2> HIDE DEF h
  <2>3. MergesTo(h, i, j)
    BY <1>1, <2>1, MergingIs
  <2> QED BY <2>2, <2>3
<1>3. AsOne(i, i - 1) = NewMessage
  <2>1. PICK k : k = i - 1
    OBVIOUS
  <2>2. k \in i - 1..Len(sent)
    BY <1>1, <2>1
  <2>3. PICK h : MergesTo(h, i, k) /\ AsOne(i, k) = h[k]
    BY <1>2, <2>2
  <2> QED BY <2>1, <2>3 DEF MergesTo
<1>4. ASSUME NEW j \in i..Len(sent) PROVE AsOne(i, j) = MergeMessage(AsOne(i, j - 1), sent[j])
  <2>1. PICK k : k = j - 1
    OBVIOUS
  <2>2. k \in i - 1..Len(sent) /\ j \in i - 1..Len(sent) /\ k \in Nat
    BY <1>1, <2>1
  <2>3. PICK h : MergesTo(h, i, j) /\ AsOne(i, j) = h[j]
    BY <1>2, <2>2
  <2>4. PICK g : MergesTo(g, i, k) /\ AsOne(i, k) = g[k]
    BY <1>2, <2>2
  <2> DEFINE S == {n \in 0..k - (i - 1) : h[n + (i - 1)] = g[n + (i - 1)]}
             N == k - (i - 1)
  <2>5. 0 \in S
    <3>1. 0 \in 0..k - (i - 1) /\ 0 + (i - 1) = i - 1
      BY <2>2
    <3> QED BY <2>3, <2>4, <3>1 DEF MergesTo
  <2>6. ASSUME NEW n \in 0..N - 1, n \in S PROVE n + 1 \in S
    <3>1. PICK c : c = (n + 1) + (i - 1)
      OBVIOUS
    <3>2. c - 1 = n + (i - 1) /\ c \in i..k /\ c \in i..j /\ n + 1 \in 0..N
      BY <2>1, <2>2, <3>1
    <3>3. h[c - 1] = g[c - 1]
      BY <2>6, <3>2
    <3>4. h[c] = MergeMessage(h[c - 1], sent[c]) /\ g[c] = MergeMessage(g[c - 1], sent[c])
      BY <2>3, <2>4, <3>2, Zenon DEF MergesTo
    <3>5. h[c] = g[c]
      BY <3>3, <3>4
    <3> QED BY <3>1, <3>2, <3>5
  <2>7. N \in Nat /\ N + (i - 1) = k
    BY <2>2
  <2>8. N \in S
    <3> HIDE DEF S, N
    <3>1. \A n \in 0..N : n \in S
      BY <2>5, <2>6, <2>7, UpTo
    <3> QED BY <2>7, <3>1
  <2>9. h[k] = g[k]
    BY <2>7, <2>8
  <2>10. h[j] = MergeMessage(h[j - 1], sent[j])
    <3>1. j \in i..j
      BY <1>1
    <3> QED BY <2>3, <3>1, Zenon DEF MergesTo
  <2> QED BY <2>1, <2>3, <2>4, <2>9, <2>10
<1> QED BY <1>3, <1>4

\* The bytes of the first n messages.
Begun(n) == FlattenSeq([k \in 1..n |-> SerializeMessage(sent[k])])

\* A message more.
LEMMA BegunNext ==
  ASSUME sent \in Seq(PlainMessage), NEW n \in 0..Len(sent) - 1
  PROVE  /\ SerializeMessage(sent[n + 1]) \in Seq(Byte)
         /\ Begun(n) \in Seq(Byte)
         /\ Begun(n + 1) = Begun(n) \o SerializeMessage(sent[n + 1])
<1> DEFINE Ser(k) == SerializeMessage(sent[k])
           f == [k \in 1..n |-> Ser(k)]
           g == [k \in 1..n + 1 |-> Ser(k)]
<1>1. ASSUME NEW k \in 1..Len(sent) PROVE Ser(k) \in Seq(Byte)
  <2>1. sent[k] \in MessageClass
    BY PlainIsOfClass
  <2> QED BY <2>1, MessageWrote DEF Wrote
<1>2. n \in Nat /\ n + 1 \in 1..Len(sent) /\ \A k \in 1..n : k \in 1..Len(sent)
  OBVIOUS
<1> HIDE DEF Ser
<1>3. f \in Seq(Seq(Byte)) /\ Len(f) = n /\ Ser(n + 1) \in Seq(Byte)
  BY <1>1, <1>2
<1>4. g = Append(f, Ser(n + 1))
  BY <1>2, <1>3
<1>5. FlattenSeq(Append(f, Ser(n + 1))) = FlattenSeq(f) \o Ser(n + 1)
  <2> HIDE DEF f
  <2> QED BY <1>3, FlattenAppend
<1>6. FlattenSeq(f) \in Seq(Byte)
  <2> HIDE DEF f
  <2> QED BY <1>3, FlattenType
<1> QED BY <1>3, <1>4, <1>5, <1>6 DEF Begun, Ser

\* As many as EndOf() says.
LEMMA BegunIs ==
  ASSUME sent \in Seq(PlainMessage), NEW n \in 0..Len(sent)
  PROVE  Begun(n) \in Seq(Byte) /\ Len(Begun(n)) = EndOf(n) /\ EndOf(n) \in Nat
<1> DEFINE ss == [k \in 1..n |-> SerializeMessage(sent[k])]
<1>1. ASSUME NEW k \in 1..n
      PROVE  Wrote(SerializeMessage(sent[k]), SizeOfMessage(sent[k]))
  <2>1. sent[k] \in MessageClass
    BY PlainIsOfClass
  <2> QED BY <2>1, MessageWrote
<1>2. n \in Nat
  OBVIOUS
<1>3. ss \in Seq(Seq(Byte)) /\ Len(ss) = n
  BY <1>1, <1>2 DEF Wrote
<1>4. Lens(ss) = [k \in 1..n |-> SizeOfMessage(sent[k])]
  BY <1>1, <1>3 DEF Lens, Wrote
<1> HIDE DEF ss
<1>5. Wrote(FlattenSeq(ss), Total(Lens(ss)))
  BY <1>3, AllWrote DEF LineUp
<1>6. FlattenSeq(ss) = Begun(n) /\ Total(Lens(ss)) = EndOf(n)
  BY <1>4 DEF Begun, EndOf, ss
<1> QED BY <1>5, <1>6 DEF Wrote

\* The bytes of all of them begin with those of the first.
LEMMA BegunPart ==
  ASSUME sent \in Seq(PlainMessage), NEW n \in 0..Len(sent)
  PROVE  \E t \in Seq(Byte) : Begun(Len(sent)) = Begun(n) \o t
<1> DEFINE N == Len(sent)
           S == {k \in 0..N : \E t \in Seq(Byte) : Begun(N) = Begun(N - k) \o t}
<1>1. N \in Nat
  OBVIOUS
<1>2. 0 \in S
  <2>1. PICK t : t = <<>>
    OBVIOUS
  <2>2. Begun(N) \in Seq(Byte)
    <3>1. N \in 0..Len(sent)
      BY <1>1
    <3> QED BY <3>1, BegunIs
  <2>3. t \in Seq(Byte) /\ Begun(N) = Begun(N) \o t /\ N - 0 = N /\ 0 \in 0..N
    BY <1>1, <2>1, <2>2
  <2> QED BY <2>3
<1>3. ASSUME NEW k \in 0..N - 1, k \in S PROVE k + 1 \in S
  <2>1. PICK t \in Seq(Byte) : Begun(N) = Begun(N - k) \o t
    BY <1>3
  <2>2. PICK c : c = N - (k + 1)
    OBVIOUS
  <2>3. c \in 0..Len(sent) - 1 /\ c + 1 = N - k /\ k + 1 \in 0..N
    BY <1>1, <2>2
  <2>4. PICK p, b : p = Begun(c) /\ b = SerializeMessage(sent[c + 1])
    OBVIOUS
  <2>5. p \in Seq(Byte) /\ b \in Seq(Byte) /\ Begun(N - k) = p \o b
    BY <2>3, <2>4, BegunNext
  <2>6. (p \o b) \o t = p \o (b \o t) /\ b \o t \in Seq(Byte)
    BY <2>5, BytesJoin
  <2>7. Begun(N) = Begun(N - (k + 1)) \o (b \o t)
    BY <2>1, <2>2, <2>4, <2>5, <2>6
  <2> QED BY <2>3, <2>6, <2>7
<1> HIDE DEF S
<1>4. \A k \in 0..N : k \in S
  <2> HIDE DEF N
  <2> QED BY <1>1, <1>2, <1>3, UpTo
<1>5. PICK k : k = N - n
  OBVIOUS
<1>6. k \in 0..N /\ N - k = n
  BY <1>1, <1>5
<1>7. k \in S
  BY <1>4, <1>6
<1> QED BY <1>6, <1>7 DEF S

\* What is sent, and short enough that every length in it can be said.
SentShort ==
  sent \in Seq(PlainMessage) /\ stream = Begun(Len(sent)) /\ Len(stream) \in Word

\* So is every message of it, which can be merged into any other.
LEMMA SentShortMerges ==
  ASSUME NumbersFit, SentShort
  PROVE  /\ \A n \in 1..Len(sent) : Len(SerializeMessage(sent[n])) \in Word
         /\ SentMerges
<1>1. sent \in Seq(PlainMessage) /\ Len(sent) \in Nat
  BY DEF SentShort
<1>2. ASSUME NEW n \in 1..Len(sent) PROVE Len(SerializeMessage(sent[n])) \in Word
  <2>1. PICK c : c = n - 1
    OBVIOUS
  <2>2. c \in 0..Len(sent) - 1 /\ c + 1 = n /\ n \in 0..Len(sent)
    BY <1>1, <2>1
  <2>3. PICK p, b : p = Begun(c) /\ b = SerializeMessage(sent[n])
    OBVIOUS
  <2>4. p \in Seq(Byte) /\ b \in Seq(Byte) /\ Begun(n) = p \o b
    BY <1>1, <2>2, <2>3, BegunNext
  <2>5. PICK t \in Seq(Byte) : Begun(Len(sent)) = Begun(n) \o t
    BY <1>1, <2>2, BegunPart
  <2>6. p \o b \in Seq(Byte)
    BY <2>4, BytesJoin
  <2>7. Len((p \o b) \o t) \in Word
    BY <2>4, <2>5 DEF SentShort
  <2>8. Len(p \o b) \in Word
    BY <2>6, <2>7, WordPart
  <2> QED BY <2>3, <2>4, <2>8, WordPart
<1>3. ASSUME NEW n \in 1..Len(sent), NEW m \in MessageClass
      PROVE  MergeMessage(m, sent[n]) \in MessageClass
  <2>1. PICK x \in PlainMessage : x = sent[n]
    BY <1>1
  <2>2. Len(SerializeMessage(x)) \in Word
    BY <1>2, <2>1
  <2> QED BY <2>1, <2>2, MessageParsed
<1> QED BY <1>2, <1>3 DEF SentMerges

\* The bytes s are those of messages i to j, which they make of a new one.
Between(i, j, s) ==
  /\ Begun(j) = Begun(i - 1) \o s
  /\ Takes(MessageReader, MessageClass, NewMessage, s, AsOne(i, j))

\* What lies between two messages is such a part of the stream.
LEMMA BetweenIs ==
  ASSUME NumbersFit, SentShort, NEW i \in 1..Len(sent), NEW j \in i - 1..Len(sent)
  PROVE  \E s \in Seq(Byte) : Between(i, j, s)
<1> DEFINE N == Len(sent) - (i - 1)
           S == {n \in 0..N : \E s \in Seq(Byte) : Between(i, n + (i - 1), s)}
<1>1. sent \in Seq(PlainMessage) /\ Len(sent) \in Nat
  BY DEF SentShort
<1>2. N \in Nat /\ i - 1 \in 0..Len(sent)
  BY <1>1
<1>3. SentMerges /\ \A n \in 1..Len(sent) : Len(SerializeMessage(sent[n])) \in Word
  BY SentShortMerges
<1>4. NewMessage \in MessageClass /\ MessageReader \in Reader(MessageClass)
  <2>1. NewMessage \in MessageClass /\ <<>> \in Seq(Byte)
    BY NewIsPlain, PlainIsOfClass
  <2> QED BY <2>1, ParseMessageIs
<1>5. 0 \in S
  <2>1. PICK s, k : s = <<>> /\ k = i - 1
    OBVIOUS
  <2>2. Begun(k) \in Seq(Byte)
    BY <1>1, <1>2, <2>1, BegunIs
  <2>3. s \in Seq(Byte) /\ Begun(k) = Begun(k) \o s
    BY <2>1, <2>2
  <2>4. AsOne(i, k) = NewMessage
    BY <1>1, <1>3, <2>1, AsOneIs
  <2>5. Takes(MessageReader, MessageClass, NewMessage, s, NewMessage)
    BY <1>4, <2>1, TakesNothing
  <2>6. Between(i, k, s)
    BY <2>1, <2>3, <2>4, <2>5 DEF Between
  <2>7. 0 \in 0..N /\ 0 + (i - 1) = k
    BY <1>2, <2>1
  <2> QED BY <2>3, <2>6, <2>7
<1>6. ASSUME NEW n \in 0..N - 1, n \in S PROVE n + 1 \in S
  <2>1. PICK k : k = n + (i - 1)
    OBVIOUS
  <2>2. /\ k \in 0..Len(sent) - 1 /\ k + 1 = (n + 1) + (i - 1) /\ n + 1 \in 0..N
        /\ k + 1 \in i..Len(sent) /\ (k + 1) - 1 = k /\ k + 1 \in 1..Len(sent)
    BY <1>1, <1>2, <2>1
  <2>3. PICK s \in Seq(Byte) : Between(i, k, s)
    BY <1>6, <2>1
  <2>4. PICK x \in PlainMessage : x = sent[k + 1]
    BY <1>1, <2>2
  <2>5. PICK p, q, b : p = Begun(i - 1) /\ q = Begun(k) /\ b = SerializeMessage(x)
    OBVIOUS
  <2>6. /\ p \in Seq(Byte) /\ q \in Seq(Byte) /\ b \in Seq(Byte) /\ Begun(k + 1) = q \o b
    BY <1>1, <1>2, <2>2, <2>4, <2>5, BegunNext, BegunIs
  <2>7. q = p \o s /\ Takes(MessageReader, MessageClass, NewMessage, s, AsOne(i, k))
    BY <2>3, <2>5 DEF Between
  <2>8. (p \o s) \o b = p \o (s \o b) /\ s \o b \in Seq(Byte)
    <3>1. p \in Seq(Byte) /\ s \in Seq(Byte) /\ b \in Seq(Byte)
      BY <2>6
    <3> QED BY <3>1, BytesJoin, Zenon
  <2>9. AsOne(i, k) \in MessageClass
    BY <2>7 DEF Takes
  <2>10. Len(b) \in Word
    BY <1>3, <2>2, <2>4, <2>5
  <2>11. Takes(MessageReader, MessageClass, AsOne(i, k), b, MergeMessage(AsOne(i, k), x))
    BY <2>5, <2>9, <2>10, MessageReadBack
  <2>12. AsOne(i, k + 1) = MergeMessage(AsOne(i, k), x)
    BY <1>1, <1>3, <2>2, <2>4, AsOneIs
  <2>13. Takes(MessageReader, MessageClass, NewMessage, s \o b, AsOne(i, k + 1))
    BY <2>7, <2>11, <2>12, TakesBoth
  <2>14. Between(i, k + 1, s \o b)
    BY <2>5, <2>6, <2>7, <2>8, <2>13 DEF Between
  <2> QED BY <2>2, <2>8, <2>14
<1> HIDE DEF S
<1>7. \A n \in 0..N : n \in S
  <2> HIDE DEF N
  <2> QED BY <1>2, <1>5, <1>6, UpTo
<1>8. PICK n : n = j - (i - 1)
  OBVIOUS
<1>9. n \in 0..N /\ n + (i - 1) = j
  BY <1>1, <1>8
<1>10. n \in S
  BY <1>7, <1>9
<1> QED BY <1>9, <1>10 DEF S

\* A piece of a sequence.
LEMMA PieceIs ==
  ASSUME NEW a \in Seq(Byte), NEW s \in Seq(Byte), NEW t \in Seq(Byte)
  PROVE  SubSeq((a \o s) \o t, Len(a) + 1, Len(a) + Len(s)) = s
<1>1. PICK u, v : u = a \o s /\ v = u \o t
  OBVIOUS
<1>2. Joined(u, a, Len(a), s, Len(s)) /\ u \in Seq(Byte)
  BY <1>1, JoinedIs, BytesJoin
<1>3. Joined(v, u, Len(u), t, Len(t))
  BY <1>1, <1>2, JoinedIs
<1>4. PICK k \in Nat, n \in Nat : k = Len(a) /\ n = Len(s)
  OBVIOUS
<1>5. /\ v \in Seq(Byte) /\ Len(u) = k + n /\ Len(v) >= k + n
      /\ \A i \in 1..k + n : v[i] = u[i]
      /\ \A i \in 1..n : u[k + i] = s[i]
  <2>1. PICK l \in Nat : l = Len(t)
    OBVIOUS
  <2>2. Len(u) = k + n /\ \A i \in 1..n : u[k + i] = s[i]
    BY <1>2, <1>4, Zenon DEF Joined
  <2>3. Joined(v, u, k + n, t, l)
    BY <1>3, <2>1, <2>2
  <2>4. v \in Seq(Byte) /\ Len(v) = (k + n) + l /\ \A i \in 1..k + n : v[i] = u[i]
    BY <2>3, Zenon DEF Joined
  <2>5. (k + n) + l >= k + n
    BY <1>4, <2>1
  <2>6. Len(v) >= k + n
    BY <2>4, <2>5
  <2> QED BY <2>2, <2>4, <2>6
<1>6. PICK w : w = SubSeq(v, k + 1, k + n)
  OBVIOUS
<1>7. w \in Seq(Byte) /\ Len(w) = n /\ \A i \in 1..n : w[i] = v[k + i]
  BY <1>4, <1>5, <1>6
<1>8. ASSUME NEW i \in 1..n PROVE w[i] = s[i]
  <2>1. k + i \in 1..k + n
    BY <1>4
  <2> QED BY <1>5, <1>7, <2>1
<1>9. w = s
  BY <1>4, <1>7, <1>8, SameBytes
<1> QED BY <1>1, <1>4, <1>6, <1>9

AreHalves(s, k, c, d) ==
  /\ c \in Seq(Byte) /\ d \in Seq(Byte)
  /\ s = c \o d /\ Len(c) = k /\ Len(d) = Len(s) - k
Halves(s, k) == \E c, d \in Seq(Byte) : s = c \o d /\ Len(c) = k /\ Len(d) = Len(s) - k

\* The beginning of a sequence and what is left of it.
LEMMA SubSeqsCut ==
  ASSUME NEW s \in Seq(Byte), NEW k \in 0..Len(s),
         NEW c, c = SubSeq(s, 1, k), NEW d, d = SubSeq(s, k + 1, Len(s))
  PROVE  AreHalves(s, k, c, d)
<1>2. PICK n \in Nat : n = Len(s)
  OBVIOUS
<1>3. c \in Seq(Byte) /\ Len(c) = k /\ \A i \in 1..k : c[i] = s[i]
  OBVIOUS
<1>4. d \in Seq(Byte) /\ Len(d) = n - k /\ \A i \in 1..n - k : d[i] = s[k + i]
  BY <1>2
<1>5. PICK u : u = c \o d
  OBVIOUS
<1>6. Joined(u, c, k, d, n - k)
  BY <1>3, <1>4, <1>5, JoinedIs
<1>7. ASSUME NEW i \in 1..n PROVE s[i] = u[i]
  <2>1. CASE i \in 1..k
    BY <1>3, <1>6, <2>1 DEF Joined
  <2>2. CASE i \notin 1..k
    <3>1. PICK j : j = i - k
      OBVIOUS
    <3>2. j \in 1..n - k /\ k + j = i
      BY <1>2, <2>2, <3>1
    <3> QED BY <1>4, <1>6, <3>2 DEF Joined
  <2> QED BY <2>1, <2>2
<1>8. Len(u) = n /\ u \in Seq(Byte)
  BY <1>2, <1>6 DEF Joined
<1>9. s = u
  BY <1>2, <1>7, <1>8, SameBytes
<1>10. c \in Seq(Byte) /\ d \in Seq(Byte) /\ s = c \o d /\ Len(c) = k /\ Len(d) = Len(s) - k
  BY <1>2, <1>3, <1>4, <1>5, <1>9
<1> QED BY <1>10 DEF AreHalves

\* So it can be cut at any place.
LEMMA CutAt ==
  ASSUME NEW s \in Seq(Byte), NEW k \in 0..Len(s)
  PROVE  Halves(s, k)
<1>1. PICK c, d : c = SubSeq(s, 1, k) /\ d = SubSeq(s, k + 1, Len(s))
  OBVIOUS
<1>2. AreHalves(s, k, c, d)
  BY <1>1, SubSeqsCut
<1> QED BY <1>2, Zenon DEF AreHalves, Halves

\* A piece of any length and what is behind it.
LEMMA ContentHalves ==
  ASSUME NEW s \in Seq(Byte), NEW k \in Nat, NEW p, p = Content(k, s)
  PROVE  p.bytes \in Seq(Byte) /\ p.rest \in Seq(Byte) /\ p.bytes \o p.rest = s
<1>1. PICK n \in Nat : n = Len(s)
  OBVIOUS
<1>2. PICK j \in 0..n : j = IF k <= n THEN k ELSE n
  <2>1. (IF k <= n THEN k ELSE n) \in 0..n
    BY <1>1
  <2> QED BY <2>1
<1>3. PICK c, d : c = SubSeq(s, 1, j) /\ d = SubSeq(s, j + 1, n)
  OBVIOUS
<1>4. c \in Seq(Byte) /\ d \in Seq(Byte) /\ c \o d = s
  <2>1. AreHalves(s, j, c, d)
    BY <1>1, <1>2, <1>3, SubSeqsCut
  <2> QED BY <2>1 DEF AreHalves
<1>5. p.bytes = c
  BY <1>1, <1>2, <1>3 DEF Content
<1>6. p.rest = SubSeq(s, k + 1, n)
  BY <1>1 DEF Content
<1>7. SubSeq(s, k + 1, n) = d
  <2>1. CASE k <= n
    BY <1>2, <1>3, <2>1
  <2>2. CASE ~(k <= n)
    <3>1. SubSeq(s, k + 1, n) = <<>> /\ SubSeq(s, n + 1, n) = <<>>
      BY <1>1, <2>2
    <3> QED BY <1>2, <1>3, <2>2, <3>1
  <2> QED BY <2>1, <2>2
<1> QED BY <1>4, <1>5, <1>6, <1>7

Regrouped(a, s, c, d, t) == ((a \o s) \o (c \o d)) \o t = (a \o (s \o c)) \o (d \o t)

\* Where bytes are joined makes no difference.
LEMMA JoinThree ==
  ASSUME NEW a \in Seq(Byte), NEW s \in Seq(Byte), NEW c \in Seq(Byte)
  PROVE  a \o s \in Seq(Byte) /\ (a \o s) \o c = a \o (s \o c)
BY BytesJoin

\* So of five pieces.
LEMMA RegroupedIs ==
  ASSUME NEW a \in Seq(Byte), NEW s \in Seq(Byte), NEW c \in Seq(Byte), NEW d \in Seq(Byte),
         NEW t \in Seq(Byte)
  PROVE  Regrouped(a, s, c, d, t)
<1>1. PICK p : p = a \o s
  OBVIOUS
<1>2. p \in Seq(Byte)
  BY <1>1, BytesJoin
<1>3. PICK q : q = p \o c
  OBVIOUS
<1>4. q \in Seq(Byte) /\ p \o (c \o d) = q \o d
  <2>1. p \o c \in Seq(Byte) /\ (p \o c) \o d = p \o (c \o d)
    BY <1>2, JoinThree
  <2> QED BY <1>3, <2>1
<1>5. q = a \o (s \o c)
  <2>1. a \o s \in Seq(Byte) /\ (a \o s) \o c = a \o (s \o c)
    BY JoinThree
  <2> QED BY <1>1, <1>3, <2>1
<1>6. (q \o d) \o t = q \o (d \o t)
  BY <1>4, BytesJoin
<1> QED BY <1>1, <1>4, <1>5, <1>6 DEF Regrouped

\* What parsing bytes of the stream into a new message makes of it.
ParsedFrom(from, to) == ParseMessage(NewMessage, SubSeq(stream, from, to)).msg

\* Messages are read as the messages merged into one, ...
LEMMA WholeIsMerged ==
  ASSUME NumbersFit, SentShort, NEW i \in 1..Len(sent), NEW j \in i - 1..Len(sent)
  PROVE  ParsedFrom(EndOf(i - 1) + 1, EndOf(j)) = AsOne(i, j)
<1>1. sent \in Seq(PlainMessage) /\ Len(sent) \in Nat /\ stream = Begun(Len(sent))
  BY DEF SentShort
<1>2. i - 1 \in 0..Len(sent) /\ j \in 0..Len(sent)
  BY <1>1
<1>3. PICK s \in Seq(Byte) : Between(i, j, s)
  BY BetweenIs
<1>4. PICK t \in Seq(Byte) : stream = Begun(j) \o t
  BY <1>1, <1>2, BegunPart
<1>5. PICK a \in Seq(Byte) : a = Begun(i - 1) /\ Len(a) = EndOf(i - 1)
  BY <1>1, <1>2, BegunIs
<1>6. Begun(j) = a \o s /\ Takes(MessageReader, MessageClass, NewMessage, s, AsOne(i, j))
  BY <1>3, <1>5 DEF Between
<1>7. EndOf(j) = Len(a) + Len(s)
  <2>1. Len(Begun(j)) = EndOf(j)
    BY <1>1, <1>2, BegunIs
  <2>2. Len(a \o s) = Len(a) + Len(s)
    OBVIOUS
  <2> QED BY <1>6, <2>1, <2>2
<1>8. SubSeq(stream, EndOf(i - 1) + 1, EndOf(j)) = s
  BY <1>4, <1>5, <1>6, <1>7, PieceIs
<1>9. NewMessage \in MessageClass
  BY NewIsPlain, PlainIsOfClass
<1>10. /\ MessageReader \in Reader(MessageClass)
       /\ ParseMessage(NewMessage, s) = After(MessageReader, MessageClass, Good(NewMessage), Fields(s))
  BY <1>9, ParseMessageIs
<1>11. After(MessageReader, MessageClass, Good(NewMessage), Fields(s)) = Good(AsOne(i, j))
  BY <1>6, <1>10, TakesAll
<1>12. Good(AsOne(i, j)).msg = AsOne(i, j)
  BY DEF Good
<1> QED BY <1>8, <1>10, <1>11, <1>12, Zenon DEF ParsedFrom

\* ... and what there is of one more as a part of it.
LEMMA CutIsCut ==
  ASSUME NumbersFit, SentShort, NEW i \in 1..Len(sent), NEW j \in i - 1..Len(sent) - 1,
         NEW to \in Nat, EndOf(j) < to, to < EndOf(j + 1)
  PROVE  Cut(ParsedFrom(EndOf(i - 1) + 1, to), AsOne(i, j), AsOne(i, j + 1))
<1>1. sent \in Seq(PlainMessage) /\ Len(sent) \in Nat /\ stream = Begun(Len(sent))
  BY DEF SentShort
<1>2. /\ i - 1 \in 0..Len(sent) /\ j \in 0..Len(sent) /\ j \in 0..Len(sent) - 1
      /\ j + 1 \in 0..Len(sent) /\ j \in i - 1..Len(sent) /\ j + 1 \in i..Len(sent)
      /\ j + 1 \in 1..Len(sent) /\ (j + 1) - 1 = j
  BY <1>1
<1>3. PICK s \in Seq(Byte) : Between(i, j, s)
  BY <1>2, BetweenIs
<1>4. PICK t \in Seq(Byte) : stream = Begun(j + 1) \o t
  BY <1>1, <1>2, BegunPart
<1>5. PICK a \in Seq(Byte) : a = Begun(i - 1) /\ Len(a) = EndOf(i - 1)
  BY <1>1, <1>2, BegunIs
<1>6. Begun(j) = a \o s /\ Takes(MessageReader, MessageClass, NewMessage, s, AsOne(i, j))
  BY <1>3, <1>5 DEF Between
<1>7. PICK x \in PlainMessage : x = sent[j + 1]
  BY <1>1, <1>2
<1>8. PICK b \in Seq(Byte) : b = SerializeMessage(x) /\ Begun(j + 1) = Begun(j) \o b
  BY <1>1, <1>2, <1>7, BegunNext
<1>9. PICK k \in Nat, n \in Nat, l \in Nat : k = Len(a) /\ n = Len(s) /\ l = Len(b)
  OBVIOUS
<1>10. EndOf(j) = k + n /\ EndOf(j + 1) = k + n + l
  <2>1. PICK q \in Seq(Byte) : q = Begun(j) /\ Len(q) = EndOf(j)
    BY <1>1, <1>2, BegunIs
  <2>2. Len(Begun(j + 1)) = EndOf(j + 1)
    BY <1>1, <1>2, BegunIs
  <2>3. Len(a \o s) = Len(a) + Len(s)
    OBVIOUS
  <2>4. Len(q \o b) = Len(q) + Len(b)
    OBVIOUS
  <2> QED BY <1>6, <1>8, <1>9, <2>1, <2>2, <2>3, <2>4
<1>11. PICK m \in Nat : m = to - (k + n) /\ 0 < m /\ m < l
  BY <1>10
<1>12. PICK c \in Seq(Byte), d \in Seq(Byte) : b = c \o d /\ Len(c) = m /\ Len(d) = l - m
  <2>1. m \in 0..Len(b)
    BY <1>9, <1>11
  <2>2. Halves(b, m)
    BY <2>1, CutAt
  <2> QED BY <1>9, <2>2 DEF Halves
<1>13. SubSeq(stream, EndOf(i - 1) + 1, to) = s \o c
  <2>1. PICK e \in Seq(Byte) : e = d \o t
    BY BytesJoin
  <2>2. PICK r \in Seq(Byte) : r = s \o c
    BY BytesJoin
  <2>3. stream = (a \o r) \o e
    <3>1. stream = ((a \o s) \o (c \o d)) \o t
      BY <1>4, <1>6, <1>8, <1>12
    <3>2. Regrouped(a, s, c, d, t)
      BY RegroupedIs
    <3> QED BY <2>1, <2>2, <3>1, <3>2 DEF Regrouped
  <2>4. to = Len(a) + Len(r)
    <3>1. Len(r) = Len(s) + Len(c)
      BY <2>2
    <3> QED BY <1>9, <1>11, <1>12, <3>1
  <2>5. SubSeq((a \o r) \o e, Len(a) + 1, Len(a) + Len(r)) = r
    BY PieceIs
  <2> QED BY <1>5, <2>2, <2>3, <2>4, <2>5
<1>14. NewMessage \in MessageClass
  BY NewIsPlain, PlainIsOfClass
<1>15. PICK y : y = AsOne(i, j)
  OBVIOUS
<1>16. y \in MessageClass
  BY <1>6, <1>15 DEF Takes
<1>17. ParsedFrom(EndOf(i - 1) + 1, to) = Run(MessageReader, MessageClass, Good(NewMessage), s \o c).msg
  <2>1. s \o c \in Seq(Byte)
    BY BytesJoin
  <2> QED BY <1>13, <1>14, <2>1, ParseMessageIs, Zenon DEF ParsedFrom, Run
<1>18. Run(MessageReader, MessageClass, Good(NewMessage), s \o c) = Run(MessageReader, MessageClass, Good(y), c)
  BY <1>6, <1>15, Zenon DEF Takes
<1>19. Run(MessageReader, MessageClass, Good(y), c).msg \in MessageParts(y, MergeMessage(y, x))
  <2>1. d # <<>>
    BY <1>11, <1>12
  <2>2. Len(SerializeMessage(x)) \in Word
    BY <1>2, <1>7, SentShortMerges
  <2>3. CutsTo(MessageReader, MessageClass, y, b, MessageParts(y, MergeMessage(y, x)))
    BY <1>8, <1>16, <2>2, MessageReadBack
  <2> QED BY <1>12, <2>1, <2>3, Zenon DEF CutsTo
<1>20. AsOne(i, j + 1) = MergeMessage(y, x)
  <2>1. SentMerges
    BY SentShortMerges
  <2> QED BY <1>1, <1>2, <1>7, <1>15, <2>1, AsOneIs
<1> QED BY <1>15, <1>17, <1>18, <1>19, <1>20, PartsAreCut

\* What was sent, and what was received of it.
Piece == [from : Nat \ {0}, to : Nat, msg : MessageClass]
OnTheWire ==
  /\ MsgIsPlain
  /\ sent \in Seq(PlainMessage)
  /\ stream = Begun(Len(sent)) /\ stream \in Seq(Byte)
  /\ received \in Seq(Piece)
  /\ \A n \in 1..Len(received) : received[n].msg = ParsedFrom(received[n].from, received[n].to)

\* At first nothing is sent, and nothing received.
LEMMA InitOnTheWire == Init => OnTheWire
<1> SUFFICES ASSUME Init PROVE OnTheWire
  OBVIOUS
<1>1. sent = <<>> /\ stream = <<>> /\ received = <<>>
  BY DEF Init, WireInit
<1>2. sent \in Seq(PlainMessage) /\ received \in Seq(Piece) /\ Len(sent) = 0 /\ Len(received) = 0
  BY <1>1
<1>3. Begun(0) = <<>>
  <2>1. [k \in 1..0 |-> SerializeMessage(sent[k])] = <<>>
    OBVIOUS
  <2> QED BY <2>1, FlattenEmpty DEF Begun
<1>4. stream = Begun(Len(sent)) /\ stream \in Seq(Byte)
  BY <1>1, <1>2, <1>3
<1>5. \A n \in 1..Len(received) : received[n].msg = ParsedFrom(received[n].from, received[n].to)
  BY <1>2
<1> QED BY <1>2, <1>4, <1>5, InitMsgPlain DEF OnTheWire

\* A step keeps it.
LEMMA NextKeepsOnTheWire ==
  ASSUME OnTheWire, [Next]_vars
  PROVE  OnTheWire'
<1>1. MsgIsPlain'
  BY NextKeepsMsgPlain DEF OnTheWire
<1>2. CASE UNCHANGED <<sent, stream, received>>
  BY <1>1, <1>2 DEF OnTheWire, Begun, ParsedFrom
<1>3. CASE PopSendbuf
  <2>1. /\ sent' = Append(sent, msg) /\ stream' = stream \o SerializeMessage(msg)
        /\ received = <<>> /\ received' = received
    BY <1>3 DEF PopSendbuf, Swap
  <2>2. PICK N \in Nat : N = Len(sent)
    BY DEF OnTheWire
  <2>3. /\ sent \in Seq(PlainMessage) /\ msg \in PlainMessage /\ sent' \in Seq(PlainMessage)
        /\ Len(sent') = N + 1 /\ sent'[N + 1] = msg /\ \A k \in 1..N : sent'[k] = sent[k]
    BY <2>1, <2>2 DEF OnTheWire, MsgIsPlain
  <2>4. PICK b \in Seq(Byte) : b = SerializeMessage(msg)
    BY <2>3, MessageWrote, PlainIsOfClass DEF Wrote
  <2> DEFINE f == [k \in 1..N |-> SerializeMessage(sent[k])]
             g == [k \in 1..N + 1 |-> SerializeMessage(sent'[k])]
  <2>5. f \in Seq(Seq(Byte)) /\ Len(f) = N
    <3>1. ASSUME NEW k \in 1..N PROVE SerializeMessage(sent[k]) \in Seq(Byte)
      <4>1. sent[k] \in MessageClass
        BY <2>2, <2>3, PlainIsOfClass
      <4> QED BY <4>1, MessageWrote DEF Wrote
    <3> QED BY <2>2, <3>1
  <2>6. g = Append(f, b)
    BY <2>2, <2>3, <2>4, <2>5
  <2>7. FlattenSeq(Append(f, b)) = FlattenSeq(f) \o b /\ FlattenSeq(f) \in Seq(Byte)
    <3> HIDE DEF f
    <3> QED BY <2>4, <2>5, FlattenAppend, FlattenType
  <2>8. FlattenSeq(f) = stream /\ stream \in Seq(Byte)
    BY <2>2 DEF OnTheWire, Begun
  <2>9. stream' = FlattenSeq(g) /\ stream' \in Seq(Byte)
    BY <2>1, <2>4, <2>6, <2>7, <2>8, BytesJoin
  <2>10. stream' = Begun(Len(sent))'
    BY <2>3, <2>9 DEF Begun
  <2>11. received' \in Seq(Piece) /\ Len(received') = 0
    BY <2>1
  <2> QED BY <1>1, <2>3, <2>9, <2>10, <2>11 DEF OnTheWire
<1>4. CASE PushRecvbuf
  <2>1. PICK k \in Unread..Len(stream) :
          received' = Append(received, [from |-> Unread, to |-> k, msg |-> ParsedFrom(Unread, k)])
    BY <1>4 DEF PushRecvbuf, ParsedFrom
  <2>2. UNCHANGED <<sent, stream>>
    BY <1>4 DEF PushRecvbuf
  <2>3. Unread \in Nat \ {0}
    <3>1. CASE received = <<>>
      BY <3>1 DEF Unread
    <3>2. CASE received # <<>>
      <4>1. Last(received) \in Piece
        BY <3>2 DEF OnTheWire, Last
      <4>2. Last(received).to \in Nat
        BY <4>1 DEF Piece
      <4> QED BY <3>2, <4>2 DEF Unread
    <3> QED BY <3>1, <3>2
  <2>4. PICK from, y : from \in Nat \ {0} /\ from = Unread /\ y = ParsedFrom(from, k)
    BY <2>3
  <2>5. k \in Nat /\ k <= Len(stream)
    BY <2>1, <2>4 DEF OnTheWire
  <2>6. y \in MessageClass
    <3>1. SubSeq(stream, from, k) \in Seq(Byte)
      BY <2>4, <2>5 DEF OnTheWire
    <3>2. NewMessage \in MessageClass
      BY NewIsPlain, PlainIsOfClass
    <3>3. ParseMessage(NewMessage, SubSeq(stream, from, k)) \in Outcome(MessageClass)
      BY <3>1, <3>2, ParseMessageType
    <3> QED BY <2>4, <3>3 DEF ParsedFrom, Outcome
  <2>7. PICK r \in Piece : r = [from |-> from, to |-> k, msg |-> y]
    BY <2>4, <2>5, <2>6 DEF Piece
  <2>8. received' = Append(received, r)
    BY <2>1, <2>4, <2>7
  <2>9. PICK N \in Nat : N = Len(received)
    BY DEF OnTheWire
  <2>10. /\ received' \in Seq(Piece) /\ Len(received') = N + 1 /\ received'[N + 1] = r
         /\ \A n \in 1..N : received'[n] = received[n]
    BY <2>8, <2>9 DEF OnTheWire
  <2>11. ASSUME NEW n \in 1..N + 1
         PROVE  received'[n].msg = ParsedFrom(received'[n].from, received'[n].to)
    <3>1. CASE n = N + 1
      BY <2>4, <2>7, <2>10, <3>1
    <3>2. CASE n # N + 1
      <4>1. n \in 1..N
        BY <2>9, <3>2
      <4> QED BY <2>9, <2>10, <4>1 DEF OnTheWire
    <3> QED BY <3>1, <3>2
  <2>12. /\ sent' \in Seq(PlainMessage) /\ (stream = Begun(Len(sent)))' /\ stream' \in Seq(Byte)
    BY <2>2 DEF OnTheWire, Begun
  <2> QED BY <1>1, <2>2, <2>10, <2>11, <2>12 DEF OnTheWire, ParsedFrom
<1>5. UNCHANGED <<sent, stream, received>> \/ PopSendbuf \/ PushRecvbuf
  BY Zenon DEF Next, WireNext, Edit, vars, wireVars
<1> QED BY <1>2, <1>3, <1>4, <1>5

\* What is received of what is sent is what was meant.
LEMMA OnTheWireMerges ==
  ASSUME OnTheWire, Len(stream) \in Word
  PROVE  ParsedIsMerged
<1>1. NumbersFit
  BY RaftPbAssumption DEF NumbersFit, Word
<1>2. SentShort /\ Len(sent) \in Nat
  BY DEF OnTheWire, SentShort
<1>3. ASSUME NEW r \in Range(received)
      PROVE  r.msg \in MessageClass /\ r.to \in Nat /\ r.msg = ParsedFrom(r.from, r.to)
  <2>1. PICK n \in 1..Len(received) : r = received[n]
    BY DEF OnTheWire, Range
  <2>2. received[n] \in Piece
    BY DEF OnTheWire
  <2>3. r.msg = ParsedFrom(r.from, r.to)
    BY <2>1 DEF OnTheWire
  <2> QED BY <2>1, <2>2, <2>3 DEF Piece
<1>4. ASSUME NEW r \in Range(received), NEW i \in 1..Len(sent), r.from = EndOf(i - 1) + 1,
             NEW j \in i - 1..Len(sent), r.to = EndOf(j)
      PROVE  r.msg = AsOne(i, j)
  <2>1. ParsedFrom(EndOf(i - 1) + 1, EndOf(j)) = AsOne(i, j)
    BY <1>1, <1>2, WholeIsMerged
  <2> QED BY <1>3, <1>4, <2>1
<1>5. ASSUME NEW r \in Range(received), NEW i \in 1..Len(sent), r.from = EndOf(i - 1) + 1,
             NEW j \in i - 1..Len(sent), EndOf(j) < r.to, j < Len(sent), r.to < EndOf(j + 1)
      PROVE  Cut(r.msg, AsOne(i, j), AsOne(i, j + 1))
  <2>1. PICK to : to = r.to
    OBVIOUS
  <2>2. to \in Nat /\ EndOf(j) < to /\ to < EndOf(j + 1) /\ j \in i - 1..Len(sent) - 1
    BY <1>2, <1>3, <1>5, <2>1
  <2>3. Cut(ParsedFrom(EndOf(i - 1) + 1, to), AsOne(i, j), AsOne(i, j + 1))
    BY <1>1, <1>2, <2>2, CutIsCut
  <2> QED BY <1>3, <1>5, <2>1, <2>3
<1> QED BY <1>3, <1>4, <1>5, Zenon DEF ParsedIsMerged

\* Whatever handlers fill in and send, and wherever the bytes are split that are
\* received: whole messages are read as these messages merged into one, part of
\* one more leaves every field as it was or as it was meant, and what comes of any
\* other piece is an object of the class (tryPushRecvbuf(), which looks at no
\* result).  That a length can be written at all is the one condition.
THEOREM WholeOrCut == Spec => [](Len(stream) \in Word => ParsedIsMerged)
<1>1. OnTheWire => (Len(stream) \in Word => ParsedIsMerged)
  BY OnTheWireMerges
<1>2. OnTheWire /\ [Next]_vars => OnTheWire'
  BY NextKeepsOnTheWire
<1> QED BY <1>1, <1>2, InitOnTheWire, PTL DEF Spec
-----------------------------------------------------------------------------
(* The sample programs *)

\* Reading a field of the sample's class.
LEMMA ReadhelloworldType ==
  ASSUME NEW m \in helloworldClass, NEW f \in Field
  PROVE  Readhelloworld(m, f) \in Outcome(helloworldClass)
<1>1. f.value \in Nat /\ f.bytes \in Seq(Byte)
  BY DEF Field
<1>2. ASSUME NEW e \in helloworldClass PROVE Good(e) \in Outcome(helloworldClass)
  BY DEF Good, Outcome
<1>3. /\ [m EXCEPT !.id = f.value] \in helloworldClass
      /\ [m EXCEPT !.name = f.bytes] \in helloworldClass
      /\ [m EXCEPT !.email = f.bytes] \in helloworldClass
  BY <1>1 DEF helloworldClass
<1>4. Unknown(m, f) \in Outcome(helloworldClass)
  <2>1. PICK u : u = m.unknown \o (IF f.key[2] = LENGTH THEN Delimited(f.key[1], f.bytes) ELSE f.raw)
    OBVIOUS
  <2>2. u \in Seq(Byte)
    BY <2>1, UnknownKept DEF helloworldClass
  <2>3. [m EXCEPT !.unknown = u] \in helloworldClass
    BY <2>2 DEF helloworldClass
  <2> QED BY <1>2, <2>1, <2>3 DEF Unknown
<1> QED BY <1>2, <1>3, <1>4, Zenon DEF Readhelloworld

helloworldReader == [p \in helloworldClass \X Field |-> Readhelloworld(p[1], p[2])]

\* Parsing is reading field after field with this reader.
LEMMA MergedhelloworldIs ==
  ASSUME NEW m \in helloworldClass, NEW s \in Seq(Byte)
  PROVE  /\ helloworldReader \in Reader(helloworldClass)
         /\ Good(m) \in Outcome(helloworldClass) /\ Fields(s) \in Seq(Field)
         /\ Merged(Readhelloworld, m, s) = After(helloworldReader, helloworldClass, Good(m), Fields(s))
<1> DEFINE N == Len(Fields(s))
           T == Outcome(helloworldClass)
           Step(st, f) ==
             IF ~st.ok \/ (~f.ok /\ f.key[2] # LENGTH) THEN [st EXCEPT !.ok = FALSE]
             ELSE [Readhelloworld(st.msg, f) EXCEPT !.ok = @ /\ f.ok]
           Right(g) == g = [n \in 0..N |-> IF n = 0 THEN [msg |-> m, ok |-> TRUE]
                                           ELSE Step(g[n - 1], Fields(s)[n])]
           h == CHOOSE g : Right(g)
<1>1. Merged(Readhelloworld, m, s) = h[N]
  BY DEF Merged, MergedFields, MergedField
<1>2. Fields(s) \in Seq(Field) /\ N \in Nat /\ \A n \in 1..N : Fields(s)[n] \in Field
  BY FieldsType
<1>3. helloworldReader \in Reader(helloworldClass)
  BY ReadhelloworldType DEF helloworldReader, Reader
<1>4. Good(m) \in T /\ Good(m) = [msg |-> m, ok |-> TRUE]
  BY DEF Good, Outcome
<1>5. ASSUME NEW st \in T, NEW f \in Field PROVE Step(st, f) = StepBy(helloworldReader, st, f)
  <2>1. st.msg \in helloworldClass
    BY DEF Outcome
  <2>2. helloworldReader[<<st.msg, f>>] = Readhelloworld(st.msg, f)
    BY <2>1 DEF helloworldReader
  <2> QED BY <2>2, Zenon DEF StepBy
<1> HIDE DEF Step, N, T
<1>6. PICK g : Reads(g, helloworldReader, helloworldClass, Good(m), Fields(s))
  BY <1>2, <1>3, <1>4, ReadsExists DEF T
<1>7. ASSUME NEW n \in 1..N PROVE g[n - 1] \in T /\ g[n] = Step(g[n - 1], Fields(s)[n])
  <2>1. n - 1 \in 0..N
    BY <1>2
  <2>2. g[n - 1] \in T
    BY <1>6, <2>1 DEF Reads, N, T
  <2>3. g[n] = StepBy(helloworldReader, g[n - 1], Fields(s)[n])
    BY <1>6 DEF Reads, N
  <2> QED BY <1>2, <1>5, <2>2, <2>3
<1>8. g = [n \in 0..N |-> g[n]] /\ g[0] = [msg |-> m, ok |-> TRUE]
  BY <1>4, <1>6 DEF Reads, N
<1>9. Right(g)
  <2>1. ASSUME NEW n \in 0..N
        PROVE  g[n] = IF n = 0 THEN [msg |-> m, ok |-> TRUE] ELSE Step(g[n - 1], Fields(s)[n])
    <3>1. CASE n = 0
      BY <1>8, <3>1, Zenon
    <3>2. CASE n # 0
      <4>1. n \in 1..N
        BY <1>2, <3>2
      <4> QED BY <1>7, <3>2, <4>1, Zenon
    <3> QED BY <3>1, <3>2
  <2> QED BY <1>8, <2>1, Zenon
<1>10. Right(h)
  <2> HIDE DEF Right
  <2> QED BY <1>9, Zenon
<1> HIDE DEF h
<1>11. h[0] = Good(m)
  BY <1>2, <1>4, <1>10
<1>12. ASSUME NEW n \in 1..N, h[n - 1] \in T
       PROVE  h[n] = StepBy(helloworldReader, h[n - 1], Fields(s)[n])
  <2>1. n \in 0..N /\ n # 0
    BY <1>2
  <2>2. h[n] = Step(h[n - 1], Fields(s)[n])
    BY <1>10, <2>1, Zenon
  <2> QED BY <1>2, <1>5, <1>12, <2>2
<1>13. h[N] = After(helloworldReader, helloworldClass, Good(m), Fields(s))
  BY <1>2, <1>3, <1>4, <1>11, <1>12, ReadsUnique DEF N, T
<1> QED BY <1>1, <1>2, <1>3, <1>4, <1>13 DEF T

\* A message with the two required fields, which is all that write.cc sets.
Greeting(m) ==
  /\ m \in helloworldClass /\ IsInitialized(m)
  /\ m.id \in Word /\ m.name \in Seq(Byte) /\ Len(m.name) \in Word
  /\ m.email = None /\ m.unknown = <<>>

\* reader.cc takes the outcome o for no message.
Refused(o) == ~(o.ok /\ IsInitialized(o.msg))

\* The bytes of such a message.
LEMMA GreetingBytes ==
  ASSUME NEW m, Greeting(m)
  PROVE  Serializehelloworld(m) = (Tag(1, VARINT) \o Varint(m.id)) \o Delimited(2, m.name)
<1>1. PICK a, b : a = Tag(1, VARINT) \o Varint(m.id) /\ b = Delimited(2, m.name)
  OBVIOUS
<1>2. m.id # None /\ m.name # None /\ m.email = None /\ m.unknown = <<>>
  BY DEF Greeting, IsInitialized
<1>3. Serializehelloworld(m) = ((a \o b) \o <<>>) \o <<>>
  BY <1>1, <1>2, Zenon DEF Serializehelloworld
<1>4. a \in Seq(Byte)
  <2>1. VARINT \in 0..7 /\ m.id \in Nat /\ 1 \in 1..15
    BY DEF VARINT, Greeting, Word
  <2>2. Tag(1, VARINT) \in Seq(Byte)
    BY <2>1, TagWrote DEF Wrote
  <2>3. Varint(m.id) \in Seq(Byte)
    BY <2>1, VarintWrote DEF Wrote
  <2> QED BY <1>1, <2>2, <2>3, BytesJoin
<1>5. b \in Seq(Byte)
  <2>1. 2 \in 1..15
    OBVIOUS
  <2> QED BY <1>1, <2>1, WrittenBytes DEF Greeting
<1>6. (a \o b) \o <<>> = a \o b /\ a \o b \in Seq(Byte)
  <2>1. a \o b \in Seq(Byte)
    BY <1>4, <1>5, BytesJoin
  <2>2. PICK u \in Seq(Byte) : u = a \o b
    BY <2>1
  <2>3. u \o <<>> = u
    OBVIOUS
  <2> QED BY <2>1, <2>2, <2>3
<1> QED BY <1>1, <1>3, <1>6

\* A new message with the number and then the name of a greeting is that greeting.
LEMMA NamedIsGreeting ==
  ASSUME NEW m, Greeting(m),
         NEW x, x = [id |-> m.id, name |-> None, email |-> None, unknown |-> <<>>]
  PROVE  [x EXCEPT !.name = m.name] = m
<1>1. PICK v, s, w : v = m.id /\ s = m.name /\ w = <<>>
  OBVIOUS
<1>2. m = [id |-> v, name |-> s, email |-> None, unknown |-> w]
  <2>1. m = [id |-> m.id, name |-> m.name, email |-> m.email, unknown |-> m.unknown]
    BY DEF Greeting, helloworldClass
  <2>2. m.email = None /\ m.unknown = w
    BY <1>1 DEF Greeting
  <2> QED BY <1>1, <2>1, <2>2, Zenon
<1>3. x = [id |-> v, name |-> None, email |-> None, unknown |-> w]
  BY <1>1, Zenon
<1>4. [x EXCEPT !.name = s] = [id |-> v, name |-> s, email |-> None, unknown |-> w]
  BY <1>3
<1> QED BY <1>1, <1>2, <1>4, Zenon

\* What reading a greeting makes of a new message, in two steps.
LEMMA GreetingTakes ==
  ASSUME NEW m, Greeting(m), NEW x, x = [Newhelloworld EXCEPT !.id = m.id]
  PROVE  /\ Newhelloworld \in helloworldClass /\ x \in helloworldClass
         /\ Takes(helloworldReader, helloworldClass, Newhelloworld,
                  Tag(1, VARINT) \o Varint(m.id), x)
         /\ Takes(helloworldReader, helloworldClass, x, Delimited(2, m.name), m)
<1>1. PICK R, C, v, b : R = helloworldReader /\ C = helloworldClass /\ v = m.id /\ b = m.name
  OBVIOUS
<1>2. R \in Reader(C)
  <2>1. Newhelloworld \in helloworldClass /\ <<>> \in Seq(Byte)
    BY DEF Newhelloworld, helloworldClass
  <2> QED BY <1>1, <2>1, MergedhelloworldIs
<1>3. m \in C /\ v \in Word /\ v \in Nat /\ b \in Seq(Byte) /\ Len(b) \in Word
  BY <1>1 DEF Greeting, Word
<1>4. Newhelloworld \in C /\ x \in C
  <2>1. \A w \in Nat \cup {None} :
          [id |-> w, name |-> None, email |-> None, unknown |-> <<>>] \in helloworldClass
    BY DEF helloworldClass
  <2>2. x = [id |-> v, name |-> None, email |-> None, unknown |-> <<>>]
    BY <1>1 DEF Newhelloworld
  <2>3. v \in Nat \cup {None} /\ None \in Nat \cup {None}
    BY <1>3
  <2> QED BY <1>1, <2>1, <2>2, <2>3 DEF Newhelloworld
<1>5. TakesValue(R, 1, v, Newhelloworld, x)
  <2> SUFFICES ASSUME NEW f \in Field, f.key = <<1, VARINT>>, f.value = v
               PROVE  R[<<Newhelloworld, f>>] = Good(x)
    BY DEF TakesValue
  <2>1. R[<<Newhelloworld, f>>] = Readhelloworld(Newhelloworld, f)
    BY <1>1, <1>4 DEF helloworldReader
  <2>2. Readhelloworld(Newhelloworld, f) = Good([Newhelloworld EXCEPT !.id = v])
    BY DEF Readhelloworld, VARINT, LENGTH
  <2> QED BY <1>1, <2>1, <2>2
<1>6. TakesBytes(R, 2, b, x, m)
  <2> SUFFICES ASSUME NEW f \in Field, f.key = <<2, LENGTH>>, f.bytes = b
               PROVE  R[<<x, f>>] = Good(m)
    BY DEF TakesBytes
  <2>1. R[<<x, f>>] = Readhelloworld(x, f)
    BY <1>1, <1>4 DEF helloworldReader
  <2>2. Readhelloworld(x, f) = Good([x EXCEPT !.name = b])
    BY DEF Readhelloworld, VARINT, LENGTH
  <2>3. [x EXCEPT !.name = b] = m
    <3>1. x = [id |-> m.id, name |-> None, email |-> None, unknown |-> <<>>]
      BY <1>1 DEF Newhelloworld
    <3> QED BY <1>1, <3>1, NamedIsGreeting
  <2> QED BY <2>1, <2>2, <2>3
<1>7. 1 \in 1..15 /\ 2 \in 1..15
  OBVIOUS
<1>8. Takes(R, C, Newhelloworld, Tag(1, VARINT) \o Varint(v), x)
  BY <1>2, <1>3, <1>4, <1>5, <1>7, TakesWritten
<1>9. Takes(R, C, x, Delimited(2, b), m)
  BY <1>2, <1>3, <1>4, <1>6, <1>7, TakesDelimited
<1> QED BY <1>1, <1>4, <1>8, <1>9

\* What reader.cc makes of the first bytes of a greeting.
ReadSoFar(c) == Run(helloworldReader, helloworldClass, Good(Newhelloworld), c)

\* A greeting that is cut off is refused: it lacks the name, or breaks off in it.
LEMMA GreetingCut ==
  ASSUME NEW m, Greeting(m), NEW c \in Seq(Byte), NEW d \in Seq(Byte),
         Serializehelloworld(m) = c \o d, d # <<>>
  PROVE  Refused(ReadSoFar(c))
<1>1. PICK R, C, a, b : /\ R = helloworldReader /\ C = helloworldClass
                        /\ a = Tag(1, VARINT) \o Varint(m.id) /\ b = Delimited(2, m.name)
  OBVIOUS
<1>2. PICK x : x = [Newhelloworld EXCEPT !.id = m.id]
  OBVIOUS
<1>3. /\ Newhelloworld \in C /\ x \in C /\ Takes(R, C, Newhelloworld, a, x)
      /\ Takes(R, C, x, b, m)
  BY <1>1, <1>2, GreetingTakes
<1>4. R \in Reader(C)
  <2>1. Newhelloworld \in helloworldClass /\ <<>> \in Seq(Byte)
    BY DEF Newhelloworld, helloworldClass
  <2> QED BY <1>1, <2>1, MergedhelloworldIs
<1>5. a \in Seq(Byte) /\ b \in Seq(Byte)
  BY <1>3 DEF Takes
<1>6. m.id \in Nat /\ m.name \in Seq(Byte) /\ Len(m.name) \in Word /\ 1 \in 1..15 /\ 2 \in 1..15
  BY DEF Greeting, Word
<1>7. CutInside(c, a) \/ CutBehind(c, d, a, b)
  <2>1. c \o d = a \o b
    BY <1>1, GreetingBytes
  <2> QED BY <1>5, <2>1, CutWhere
<1>8. Newhelloworld.id = None /\ x.name = None
  BY <1>2 DEF Newhelloworld
<1>9. CASE CutInside(c, a)
  <2>1. PICK e \in Seq(Byte) : a = c \o e /\ e # <<>>
    BY <1>9 DEF CutInside
  <2>2. CutsTo(R, C, Newhelloworld, a, {Newhelloworld})
    BY <1>1, <1>3, <1>4, <1>6, CutNumber
  <2>3. Run(R, C, Good(Newhelloworld), c).msg = Newhelloworld
    BY <2>1, <2>2, Zenon DEF CutsTo
  <2> QED BY <1>1, <1>8, <2>3 DEF Refused, ReadSoFar, IsInitialized
<1>10. CASE CutBehind(c, d, a, b)
  <2>1. PICK e \in Seq(Byte) : c = a \o e /\ b = e \o d
    BY <1>10 DEF CutBehind
  <2>2. Run(R, C, Good(Newhelloworld), c) = Run(R, C, Good(x), e)
    BY <1>3, <2>1, Zenon DEF Takes
  <2>3. e = <<>> \/ ~Run(R, C, Good(x), e).ok
    BY <1>1, <1>3, <1>4, <1>6, <2>1, CutIsRefused
  <2>4. CASE e = <<>>
    <3>1. Run(R, C, Good(x), e).msg = x
      BY <1>3, <1>4, <2>4, RunNothing
    <3> QED BY <1>1, <1>8, <2>2, <3>1 DEF Refused, ReadSoFar, IsInitialized
  <2>5. CASE ~Run(R, C, Good(x), e).ok
    BY <1>1, <2>2, <2>5 DEF Refused, ReadSoFar
  <2> QED BY <2>3, <2>4, <2>5
<1> QED BY <1>7, <1>9, <1>10

\* A whole one is read as it is.
LEMMA GreetingRead ==
  ASSUME NEW m, Greeting(m), NEW c, c = Serializehelloworld(m)
  PROVE  ReadSoFar(c) = Good(m)
<1>1. PICK R, C, a, b : /\ R = helloworldReader /\ C = helloworldClass
                        /\ a = Tag(1, VARINT) \o Varint(m.id) /\ b = Delimited(2, m.name)
  OBVIOUS
<1>2. PICK x : x = [Newhelloworld EXCEPT !.id = m.id]
  OBVIOUS
<1>3. /\ Newhelloworld \in C /\ Takes(R, C, Newhelloworld, a, x)
      /\ Takes(R, C, x, b, m)
  BY <1>1, <1>2, GreetingTakes
<1>4. R \in Reader(C)
  <2>1. Newhelloworld \in helloworldClass /\ <<>> \in Seq(Byte)
    BY DEF Newhelloworld, helloworldClass
  <2> QED BY <1>1, <2>1, MergedhelloworldIs
<1>5. Takes(R, C, Newhelloworld, a \o b, m)
  BY <1>3, TakesBoth
<1>6. c = a \o b
  BY <1>1, GreetingBytes
<1>7. After(R, C, Good(Newhelloworld), Fields(c)) = Good(m)
  BY <1>4, <1>5, <1>6, TakesAll
<1> QED BY <1>1, <1>7 DEF ReadSoFar, Run

\* The message of write.cc is such a greeting.
LEMMA HelloIsGreeting == Greeting(Hello)
<1>1. PICK m, s : m = Hello /\ s = HelloName
  OBVIOUS
<1>2. m.id = 1 /\ m.name = s /\ m.email = None /\ m.unknown = <<>>
  BY <1>1 DEF Hello, Newhelloworld
<1>3. s \in Seq(Byte) /\ Len(s) \in Word
  <2>1. s \in Seq(Byte) /\ VarintSize(Len(s)) <= VarintLimit
    BY <1>1, NameAssumption
  <2> QED BY <2>1 DEF Word
<1>4. 1 \in Word
  <2>1. VarintSize(1) = 1
    BY VarintSizeIs
  <2> QED BY <2>1 DEF Word, VarintLimit
<1>5. s # None /\ 1 # None
  <2>1. 1 # None
    BY RaftPbAssumption
  <2> QED BY <1>1, <2>1, NameAssumption
<1> QED BY <1>1, <1>2, <1>3, <1>4, <1>5, HelloType, Zenon DEF Greeting, IsInitialized

\* The first bytes of others, and of what write.cc writes.
IsBegun(c, w) == \E d \in Seq(Byte) : c \in Seq(Byte) /\ c \o d = w
Begins(c) == IsBegun(c, Serializehelloworld(Hello))

\* The file is the first bytes, what is in the stream of write.cc the rest, if it has
\* been opened; what reader.cc has are first bytes, too.
HelloOnItsWay ==
  /\ log \in Seq(Byte) /\ pending \in Seq(Byte)
  /\ \/ log = <<>> /\ pending = <<>>
     \/ log \o pending = Serializehelloworld(Hello)
  /\ got # None => Begins(got)

\* The bytes of the message of write.cc.
LEMMA HelloBytes == Serializehelloworld(Hello) \in Seq(Byte)
BY HelloType, helloworldWrote DEF Wrote

\* It is so at first, ...
LEMMA InitHelloOnItsWay == Init => HelloOnItsWay
<1> SUFFICES ASSUME Init PROVE HelloOnItsWay
  OBVIOUS
<1>1. log = <<>> /\ pending = <<>> /\ got = None
  BY DEF Init, HelloInit
<1>2. <<>> \in Seq(Byte)
  OBVIOUS
<1> QED BY <1>1, <1>2 DEF HelloOnItsWay

\* What one has taken and what it lacks are the same bytes as what another has written
\* and what it has left.
OneStream(w, c, d, l, p) ==
  /\ c \in Seq(Byte) /\ d \in Seq(Byte) /\ l \in Seq(Byte) /\ p \in Seq(Byte)
  /\ w \in Seq(Byte) /\ w = c \o d /\ w = l \o p

\* The next bytes of what has been written, up to the k-th.
More(c, l, k, e) == k \in Len(c) + 1..Len(l) /\ e = SubSeq(l, Len(c) + 1, k)

\* ... reader.cc goes on where it was in first bytes, with first bytes, ...
LEMMA ReadsOn ==
  ASSUME NEW w, NEW c, NEW d, NEW l, NEW p, OneStream(w, c, d, l, p),
         NEW k, NEW e, More(c, l, k, e)
  PROVE  IsBegun(c \o e, w)
<1> USE DEF OneStream, More
<1>1. PICK n \in Nat, h \in Nat : n = Len(c) /\ h = Len(l)
  OBVIOUS
<1>2. k \in Nat /\ n < k /\ k <= h /\ k - n \in Nat
  BY <1>1
<1>3. e \in Seq(Byte) /\ Len(e) = k - n /\ \A i \in 1..k - n : e[i] = l[n + i]
  BY <1>1, <1>2
<1>4. Len(w) \in Nat /\ k <= Len(w) /\ \A i \in 1..h : w[i] = l[i]
  <2>1. Joined(w, l, h, p, Len(p))
    BY <1>1, JoinedIs
  <2> QED BY <1>2, <2>1 DEF Joined
<1>5. \A i \in 1..n : w[i] = c[i]
  <2>1. Joined(w, c, n, d, Len(d))
    BY <1>1, JoinedIs
  <2> QED BY <2>1 DEF Joined
<1>6. PICK u : u = c \o e
  OBVIOUS
<1>7. /\ u \in Seq(Byte) /\ Len(u) = k /\ \A i \in 1..n : u[i] = c[i]
      /\ \A i \in 1..k - n : u[n + i] = e[i]
  <2>1. Joined(u, c, n, e, k - n)
    BY <1>1, <1>3, <1>6, JoinedIs
  <2>2. n + (k - n) = k
    BY <1>2
  <2> QED BY <2>1, <2>2, Zenon DEF Joined
<1>8. ASSUME NEW i \in 1..k PROVE u[i] = w[i]
  <2>1. CASE i <= n
    <3>1. i \in 1..n
      BY <2>1
    <3> QED BY <1>5, <1>7, <3>1
  <2>2. CASE ~(i <= n)
    <3>1. PICK j : j = i - n
      OBVIOUS
    <3>2. j \in 1..k - n /\ i = n + j /\ i \in 1..h
      BY <1>2, <2>2, <3>1
    <3> QED BY <1>3, <1>4, <1>7, <3>2
  <2> QED BY <2>1, <2>2
<1>9. PICK q, r : q = SubSeq(w, 1, k) /\ r = SubSeq(w, k + 1, Len(w))
  OBVIOUS
<1>10. k \in 0..Len(w)
  BY <1>2, <1>4
<1>11. q \in Seq(Byte) /\ r \in Seq(Byte) /\ w = q \o r /\ Len(q) = k
  <2>1. AreHalves(w, k, q, r)
    BY <1>9, <1>10, SubSeqsCut
  <2> QED BY <2>1 DEF AreHalves
<1>12. u = q
  <2>1. \A i \in 1..k : q[i] = w[i]
    BY <1>2, <1>4, <1>9
  <2> QED BY <1>7, <1>8, <1>11, <2>1, SameBytes
<1> QED BY <1>6, <1>7, <1>11, <1>12 DEF IsBegun

\* ... which is what both programs have at every step.
LEMMA NextKeepsHelloOnItsWay ==
  ASSUME HelloOnItsWay, [Next]_vars
  PROVE  HelloOnItsWay'
<1>1. PICK w : w = Serializehelloworld(Hello)
  OBVIOUS
<1>2. w \in Seq(Byte) /\ <<>> \in Seq(Byte) /\ <<>> \o w = w
  BY <1>1, HelloBytes
<1>3. /\ log \in Seq(Byte) /\ pending \in Seq(Byte)
      /\ (log = <<>> /\ pending = <<>>) \/ log \o pending = w
      /\ got # None => Begins(got)
  BY <1>1, Zenon DEF HelloOnItsWay
<1>4. ASSUME log' \in Seq(Byte), pending' \in Seq(Byte),
             (log' = <<>> /\ pending' = <<>>) \/ log' \o pending' = w,
             got' # None => Begins(got')
      PROVE  HelloOnItsWay'
  <2>1. w = Serializehelloworld(Hello)'
    BY <1>1, Zenon DEF Hello, Serializehelloworld
  <2> QED BY <1>4, <2>1, Zenon DEF HelloOnItsWay, Begins
<1>5. CASE WriteMain
  BY <1>1, <1>2, <1>3, <1>4, <1>5, Zenon DEF WriteMain
<1>6. CASE WritePiece
  <2>1. PICK piece, s, t : piece = Content(StreamSize, pending) /\ s = piece.bytes /\ t = piece.rest
    OBVIOUS
  <2>2. log' = log \o s /\ pending' = t /\ got' = got /\ pending # <<>>
    BY <1>6, <2>1 DEF WritePiece
  <2>3. s \in Seq(Byte) /\ t \in Seq(Byte) /\ s \o t = pending
    BY <1>3, <2>1, ContentHalves, StreamAssumption
  <2>4. (log \o s) \o t = log \o (s \o t) /\ log \o s \in Seq(Byte)
    <3>1. log \in Seq(Byte)
      BY <1>3
    <3>2. s \in Seq(Byte)
      BY <2>3
    <3>3. t \in Seq(Byte)
      BY <2>3
    <3> QED BY <3>1, <3>2, <3>3, BytesJoin, Zenon
  <2>5. log' \o pending' = w
    BY <1>3, <2>2, <2>3, <2>4, Zenon
  <2> QED BY <1>3, <1>4, <2>2, <2>3, <2>4, <2>5, Zenon
<1>7. CASE ReadMain
  <2>1. got' = <<>> /\ log' = log /\ pending' = pending
    BY <1>7 DEF ReadMain
  <2>2. Begins(<<>>)
    BY <1>1, <1>2, Zenon DEF Begins, IsBegun
  <2> QED BY <1>3, <1>4, <2>1, <2>2, Zenon
<1>8. CASE ReadPiece
  <2>1. PICK k \in Len(got) + 1..Len(log) : got' = got \o SubSeq(log, Len(got) + 1, k)
    BY <1>8 DEF ReadPiece
  <2>2. got # None /\ log' = log /\ pending' = pending
    BY <1>8 DEF ReadPiece
  <2>3. PICK c \in Seq(Byte), d \in Seq(Byte) : c = got /\ c \o d = w
    BY <1>1, <1>3, <2>2, Zenon DEF Begins, IsBegun
  <2>4. PICK e : e = SubSeq(log, Len(c) + 1, k)
    OBVIOUS
  <2>5. log \o pending = w
    <3>1. Len(c) \in Nat
      BY <2>3
    <3>2. log # <<>>
      BY <2>1, <2>3, <3>1
    <3> QED BY <1>3, <3>2
  <2>6. IsBegun(c \o e, w)
    <3>1. PICK l \in Seq(Byte), p \in Seq(Byte) : l = log /\ p = pending
      BY <1>3
    <3>2. OneStream(w, c, d, l, p)
      BY <1>2, <2>3, <2>5, <3>1 DEF OneStream
    <3>3. More(c, l, k, e)
      BY <2>1, <2>3, <2>4, <3>1 DEF More
    <3> QED BY <3>2, <3>3, ReadsOn, Zenon
  <2>7. Begins(c \o e) /\ got' = c \o e
    BY <1>1, <2>1, <2>3, <2>4, <2>6, Zenon DEF Begins
  <2> QED BY <1>3, <1>4, <2>2, <2>7, Zenon
<1>9. CASE ReadEnd
  BY <1>3, <1>4, <1>9, Zenon DEF ReadEnd
<1>10. CASE UNCHANGED helloVars
  BY <1>3, <1>4, <1>10, Zenon DEF helloVars
<1> QED BY <1>5, <1>6, <1>7, <1>8, <1>9, <1>10, Zenon DEF Next, HelloNext, vars

\* So reader.cc takes the whole message, or none.
LEMMA ReadsWholeOrNone ==
  ASSUME HelloOnItsWay, ReadEnd, read' # None
  PROVE  read' = Hello
<1>1. PICK o : o = ReadSoFar(got)
  OBVIOUS
<1>2. PICK d \in Seq(Byte) : got \in Seq(Byte) /\ got \o d = Serializehelloworld(Hello)
  BY DEF HelloOnItsWay, ReadEnd, Begins, IsBegun
<1>3. Newhelloworld \in helloworldClass
  BY DEF Newhelloworld, helloworldClass
<1>4. Merged(Readhelloworld, Newhelloworld, got) = o
  BY <1>1, <1>2, <1>3, MergedhelloworldIs DEF ReadSoFar, Run
<1>5. read' = IF o.ok /\ IsInitialized(o.msg) THEN o.msg ELSE None
  BY <1>4 DEF ReadEnd
<1>6. ~Refused(o) /\ read' = o.msg
  BY <1>5 DEF Refused
<1>7. CASE d = <<>>
  <2>1. got \o d = got
    BY <1>2, <1>7
  <2>2. o = Good(Hello)
    BY <1>1, <1>2, <2>1, HelloIsGreeting, GreetingRead
  <2> QED BY <1>6, <2>2 DEF Good
<1>8. CASE d # <<>>
  <2>1. Refused(o)
    BY <1>1, <1>2, <1>8, HelloIsGreeting, GreetingCut
  <2> QED BY <1>6, <2>1
<1> QED BY <1>7, <1>8

\* However write.cc and reader.cc take turns, each in any number of pieces, and
\* although the file may be emptied and written again under the reader: what it takes
\* for good is the whole message, for every run of write.cc writes the same bytes, and
\* it refuses what does not have both required fields to their end (reader.cc:14).
THEOREM GreetingIsTakenWhole == Spec => ReaderTakesWhole
<1>1. HelloOnItsWay /\ [Next]_vars => [ReadEnd /\ read' # None => read' = Hello]_helloVars
  BY ReadsWholeOrNone
<1>2. HelloOnItsWay /\ [Next]_vars => HelloOnItsWay'
  BY NextKeepsHelloOnItsWay
<1> QED BY <1>1, <1>2, InitHelloOnItsWay, PTL DEF Spec, ReaderTakesWhole
-----------------------------------------------------------------------------
(* The entries of the log file come back *)

\* A new Entry takes over all of another.
LEMMA MergeNewEntry ==
  \A e \in EntryClass : MergeEntry(NewEntry, e) = e
<1> SUFFICES ASSUME NEW e \in EntryClass PROVE MergeEntry(NewEntry, e) = e
  OBVIOUS
<1>1. <<>> \o e.unknown = e.unknown
  BY DEF EntryClass
<1> QED BY <1>1 DEF MergeEntry, NewEntry, EntryClass, Over

\* A Storage with nothing but entries.
Holding(es) == [NewStorage EXCEPT !.entries = es]
EntriesStored(es) ==
  Len(Each(3, SerializeEntry, es)) \in Word =>
    Takes(StorageReader, StorageClass, NewStorage, Each(3, SerializeEntry, es), Holding(es))

\* It is of the class.
LEMMA HoldingIs ==
  /\ NewStorage \in StorageClass /\ Holding(<<>>) = NewStorage
  /\ \A es \in Seq(EntryClass) : Holding(es) \in StorageClass /\ Holding(es).entries = es
<1>1. NewStorage \in StorageClass /\ Holding(<<>>) = NewStorage
  BY DEF NewStorage, StorageClass, Holding
<1>2. ASSUME NEW es \in Seq(EntryClass)
      PROVE  Holding(es) \in StorageClass /\ Holding(es).entries = es
  BY <1>1 DEF Holding, StorageClass
<1> QED BY <1>1, <1>2

\* What is written of entries is read as these entries.
LEMMA StorageTakesEntries ==
  ASSUME NEW es \in Seq(WordEntry)
  PROVE  EntriesStored(es)
<1> DEFINE A == {ds \in Seq(WordEntry) : EntriesStored(ds)}
<1>0. 3 \in 1..15
  OBVIOUS
<1>1. PICK R, C : R = StorageReader /\ C = StorageClass
  OBVIOUS
<1>2. R \in Reader(C) /\ NewStorage \in C
  <2>1. <<>> \in Seq(Byte)
    OBVIOUS
  <2> QED BY <1>1, <2>1, HoldingIs, ParseStorageIs
<1>3. ASSUME NEW ds \in Seq(WordEntry)
      PROVE  /\ ds \in Seq(EntryClass) /\ Holding(ds) \in C
             /\ Each(3, SerializeEntry, ds) \in Seq(Byte)
  <2>1. ds \in Seq(EntryClass)
    <3>1. \A i \in 1..Len(ds) : ds[i] \in WordEntry
      BY ElementOfSeq
    <3>2. \A i \in 1..Len(ds) : ds[i] \in EntryClass
      BY <3>1, WordEntries
    <3> QED BY <3>2, SeqOfIts
  <2>2. NewEntry \in EntryClass
    BY NewIsPlain, PlainIsOfClass
  <2>3. Each(3, SerializeEntry, ds) \in Seq(Byte)
    BY <1>0, <2>1, <2>2, EachAppend
  <2> QED BY <1>1, <2>1, <2>3, HoldingIs
<1>4. <<>> \in A
  <2>1. PICK none : none = <<>>
    OBVIOUS
  <2>2. none \in Seq(WordEntry)
    BY <2>1
  <2>3. Each(3, SerializeEntry, none) = <<>>
    <3>1. [i \in 1..Len(none) |-> Delimited(3, SerializeEntry(none[i]))] = <<>>
      BY <2>1
    <3> QED BY <3>1, FlattenEmpty DEF Each
  <2>4. Takes(R, C, NewStorage, <<>>, NewStorage)
    BY <1>2, TakesNothing
  <2>5. EntriesStored(none)
    BY <1>1, <2>1, <2>3, <2>4, HoldingIs DEF EntriesStored
  <2> QED BY <2>1, <2>2, <2>5
<1>5. ASSUME NEW ds \in Seq(WordEntry), NEW d \in WordEntry, ds \in A PROVE Append(ds, d) \in A
  <2>1. PICK more : more = Append(ds, d)
    OBVIOUS
  <2>2. more \in Seq(WordEntry) /\ d \in EntryClass
    BY <2>1, WordEntries
  <2> SUFFICES ASSUME Len(Each(3, SerializeEntry, more)) \in Word
               PROVE  Takes(R, C, NewStorage, Each(3, SerializeEntry, more), Holding(more))
    BY <1>1, <2>1, <2>2 DEF EntriesStored
  <2>3. PICK s, b, y, z : /\ s = Each(3, SerializeEntry, ds) /\ b = SerializeEntry(d)
                          /\ y = Holding(ds) /\ z = Holding(more)
    OBVIOUS
  <2>4. s \in Seq(Byte) /\ b \in Seq(Byte) /\ y \in C /\ z \in C
    <3>1. b \in Seq(Byte)
      BY <2>2, <2>3, EntryWrote DEF Wrote
    <3> QED BY <1>3, <2>2, <2>3, <3>1
  <2>5. Each(3, SerializeEntry, more) = s \o Delimited(3, b)
    BY <1>0, <1>3, <2>1, <2>2, <2>3, EachAppend
  <2>6. Delimited(3, b) \in Seq(Byte)
    BY <1>0, <2>4, WrittenBytes, Zenon
  <2>7. Len(s) \in Word /\ Len(Delimited(3, b)) \in Word
    BY <2>4, <2>5, <2>6, WordPart
  <2>8. Len(b) \in Word
    BY <1>0, <2>4, <2>7, WordInside
  <2>9. Takes(R, C, NewStorage, s, y)
    BY <1>1, <1>5, <2>3, <2>7 DEF EntriesStored
  <2>10. ParseEntry(NewEntry, b) = Good(d)
    <3>1. NewEntry \in EntryClass
      BY NewIsPlain, PlainIsOfClass
    <3> QED BY <2>2, <2>3, <2>8, <3>1, EntryParsed, MergeNewEntry
  <2>11. z = [y EXCEPT !.entries = Append(y.entries, d)]
    <3>1. y.entries = ds
      BY <1>3, <2>3, HoldingIs
    <3> QED BY <2>1, <2>3, <3>1 DEF Holding, NewStorage
  <2>12. ASSUME NEW f \in Field, f.key = <<3, LENGTH>>, f.bytes = b PROVE R[<<y, f>>] = Good(z)
    <3>1. R[<<y, f>>] = ReadStorage(y, f)
      BY <1>1, <2>4 DEF StorageReader
    <3>2. ReadStorage(y, f) = Extended(y, ParseEntry(NewEntry, f.bytes))
      BY <2>12 DEF ReadStorage, LENGTH, VARINT
    <3>3. Extended(y, Good(d)) = Good([y EXCEPT !.entries = Append(y.entries, d)])
      BY DEF Extended, Good
    <3> QED BY <2>10, <2>11, <2>12, <3>1, <3>2, <3>3
  <2>13. TakesBytes(R, 3, b, y, z)
    BY <2>12 DEF TakesBytes
  <2>14. Takes(R, C, y, Delimited(3, b), z)
    BY <1>0, <1>2, <2>4, <2>8, <2>13, TakesDelimited
  <2>15. Takes(R, C, NewStorage, s \o Delimited(3, b), z)
    BY <2>9, <2>14, TakesBoth
  <2> QED BY <2>3, <2>5, <2>15
<1> HIDE DEF A
<1>6. es \in A
  BY <1>4, <1>5, ByAppending
<1> QED BY <1>6 DEF A

\* Append() writes the entries and nothing else, and copying them again changes nothing.
LEMMA AppendBytesIs ==
  ASSUME NEW es \in Seq(WordEntry)
  PROVE  /\ es \in Seq(EntryClass)
         /\ Copies(es) = es
         /\ AppendBytes(es) = Each(3, SerializeEntry, es)
         /\ AppendBytes(es) \in Seq(Byte)
<1>1. \A i \in 1..Len(es) : es[i] \in WordEntry
  BY ElementOfSeq
<1>2. es \in Seq(EntryClass)
  <2>1. \A i \in 1..Len(es) : es[i] \in EntryClass
    BY <1>1, WordEntries
  <2> QED BY <2>1, SeqOfIts
<1>3. Copies(es) = es
  <2>1. ASSUME NEW i \in 1..Len(es) PROVE [es[i] EXCEPT !.unknown = <<>>] = es[i]
    <3>1. PICK e \in WordEntry : e = es[i]
      BY <1>1
    <3>2. [e EXCEPT !.unknown = <<>>] = e
      BY DEF WordEntry
    <3> QED BY <3>1, <3>2
  <2>2. Copies(es) = [i \in 1..Len(es) |-> es[i]]
    BY <2>1 DEF Copies
  <2>3. es = [i \in 1..Len(es) |-> es[i]]
    OBVIOUS
  <2> QED BY <2>2, <2>3
<1>4. AddEntries(NewStorage, es) = Holding(es)
  <2>1. <<>> \o es = es
    OBVIOUS
  <2> QED BY <2>1 DEF AddEntries, Holding, NewStorage
<1>5. PICK b : b = Each(3, SerializeEntry, es)
  OBVIOUS
<1>6. b \in Seq(Byte)
  <2>1. NewEntry \in EntryClass /\ 3 \in 1..15
    BY NewIsPlain, PlainIsOfClass
  <2> QED BY <1>2, <1>5, <2>1, EachAppend
<1>7. SerializeStorage(Holding(es)) = b
  <2>1. SerializeStorage(Holding(es)) = <<>> \o <<>> \o b \o <<>> \o <<>>
    BY <1>5 DEF SerializeStorage, Holding, NewStorage, UInt, Sub
  <2>2. <<>> \o <<>> \o b \o <<>> \o <<>> = b
    BY <1>6
  <2> QED BY <2>1, <2>2
<1> QED BY <1>2, <1>3, <1>4, <1>5, <1>6, <1>7 DEF AppendBytes

\* A string up to its first NUL is all of it if it has none, and only then.
LEMMA CStringIs ==
  ASSUME NEW s \in Seq(Byte)
  PROVE  CString(s) = s <=> \A i \in 1..Len(s) : s[i] # 0
<1> DEFINE I == {i \in 1..Len(s) : s[i] = 0}
<1>1. PICK k : k = SelectInSeq(s, LAMBDA b : b = 0)
  OBVIOUS
<1>2. k = IF I # {} THEN Min(I) ELSE 0
  BY <1>1 DEF SelectInSeq
<1>3. CString(s) = IF k = 0 THEN s ELSE SubSeq(s, 1, k - 1)
  BY <1>1 DEF CString
<1>4. CASE I = {}
  BY <1>2, <1>3, <1>4
<1>5. CASE I # {}
  <2>1. I \in SUBSET Nat
    OBVIOUS
  <2>2. \E i \in I : \A j \in I : i <= j
    BY <1>5, <2>1, LeastOf
  <2>3. k = CHOOSE i \in I : \A j \in I : i <= j
    BY <1>2, <1>5 DEF Min
  <2>4. k \in I
    BY <2>2, <2>3
  <2>5. Len(SubSeq(s, 1, k - 1)) # Len(s)
    BY <2>4
  <2> QED BY <1>3, <2>4, <2>5
<1> QED BY <1>4, <1>5

\* Of a file that fits a reader gets all, and then what was on the stack.
LEMMA RdataIs ==
  ASSUME file \in Seq(Byte), Fits, NEW left \in Seq(Byte), \A i \in 1..Len(left) : left[i] # 0
  PROVE  Rdata(left) = file \o left
<1>1. PICK s \in Seq(Byte) : s = file
  OBVIOUS
<1>2. Len(s) <= BufferSize /\ BufferSize \in Nat /\ Len(s) \in Nat
  BY <1>1, LogFileAssumption DEF Fits
<1>3. Content(BufferSize, s).bytes = s
  <2>1. SubSeq(s, 1, Len(s)) = s
    OBVIOUS
  <2>2. BufferSize <= Len(s) => BufferSize = Len(s)
    BY <1>2
  <2> QED BY <2>1, <2>2 DEF Content
<1>4. \A i \in 1..Len(s) : s[i] # 0
  BY <1>1, CStringIs DEF Fits
<1>5. PICK t : t = s \o left
  OBVIOUS
<1>6. Joined(t, s, Len(s), left, Len(left))
  BY <1>5, JoinedIs
<1>7. t \in Seq(Byte) /\ \A i \in 1..Len(t) : t[i] # 0
  <2>1. PICK n \in Nat, k \in Nat : n = Len(s) /\ k = Len(left)
    OBVIOUS
  <2>2. /\ t \in Seq(Byte) /\ Len(t) = n + k
        /\ \A i \in 1..n : t[i] = s[i]
        /\ \A i \in 1..k : t[n + i] = left[i]
    BY <1>6, <2>1 DEF Joined
  <2>3. ASSUME NEW i \in 1..n + k PROVE t[i] # 0
    <3>1. CASE i <= n
      BY <1>4, <2>1, <2>2, <3>1
    <3>2. CASE i > n
      <4>1. PICK j : j = i - n
        OBVIOUS
      <4>2. j \in 1..k /\ n + j = i
        BY <3>2, <4>1
      <4>3. t[i] = left[j]
        BY <2>2, <4>2
      <4> QED BY <2>1, <4>2, <4>3
    <3> QED BY <3>1, <3>2
  <2> QED BY <2>2, <2>3
<1> QED BY <1>1, <1>3, <1>5, <1>7, CStringIs DEF Rdata

\* What is read behind entries es, in terms of what is read behind nothing.
Behind(es, m) == [m EXCEPT !.entries = es \o m.entries]
Lifted(es, o) == [msg |-> Behind(es, o.msg), ok |-> o.ok]

\* It is of the class.
LEMMA BehindType ==
  ASSUME NEW es \in Seq(EntryClass)
  PROVE  /\ \A m \in StorageClass : Behind(es, m) \in StorageClass
         /\ \A o \in Outcome(StorageClass) : Lifted(es, o) \in Outcome(StorageClass)
<1>1. ASSUME NEW m \in StorageClass PROVE Behind(es, m) \in StorageClass
  <2>1. es \o m.entries \in Seq(EntryClass)
    BY DEF StorageClass
  <2> QED BY <2>1 DEF Behind, StorageClass
<1> QED BY <1>1 DEF Lifted, Outcome

\* The reader of a Storage never looks at the entries that are there.
LEMMA ReadBehind ==
  ASSUME NEW es \in Seq(EntryClass), NEW m \in StorageClass, NEW f \in Field
  PROVE  ReadStorage(Behind(es, m), f) = Lifted(es, ReadStorage(m, f))
<1>1. PICK y : y = Behind(es, m)
  OBVIOUS
<1>2. /\ y = [m EXCEPT !.entries = es \o m.entries]
      /\ y.offset = m.offset /\ y.snap = m.snap /\ y.hardstate = m.hardstate
      /\ y.unknown = m.unknown /\ y.entries = es \o m.entries
  BY <1>1 DEF Behind, StorageClass
<1>3. [y EXCEPT !.offset = f.value] = Behind(es, [m EXCEPT !.offset = f.value])
  BY <1>2 DEF Behind, StorageClass
<1>4. \A u : [y EXCEPT !.unknown = u] = Behind(es, [m EXCEPT !.unknown = u])
  BY <1>2 DEF Behind, StorageClass
<1>5. \A u : [y EXCEPT !.snap = u] = Behind(es, [m EXCEPT !.snap = u])
  BY <1>2 DEF Behind, StorageClass
<1>6. \A u : [y EXCEPT !.hardstate = u] = Behind(es, [m EXCEPT !.hardstate = u])
  BY <1>2 DEF Behind, StorageClass
<1>7. \A e \in EntryClass : [y EXCEPT !.entries = Append(y.entries, e)]
                            = Behind(es, [m EXCEPT !.entries = Append(m.entries, e)])
  <2> SUFFICES ASSUME NEW e \in EntryClass
               PROVE  [y EXCEPT !.entries = Append(y.entries, e)]
                      = Behind(es, [m EXCEPT !.entries = Append(m.entries, e)])
    OBVIOUS
  <2>1. Append(es \o m.entries, e) = es \o Append(m.entries, e)
    <3>1. PICK t \in Seq(EntryClass) : t = m.entries
      BY DEF StorageClass
    <3>2. es \o Append(t, e) = Append(es \o t, e)
      BY AppendAssociative
    <3> QED BY <3>1, <3>2
  <2> QED BY <1>2, <2>1 DEF Behind, StorageClass
<1>8. CASE f.key = <<1, VARINT>>
  <2>1. /\ ReadStorage(y, f) = Good([y EXCEPT !.offset = f.value])
        /\ ReadStorage(m, f) = Good([m EXCEPT !.offset = f.value])
    BY <1>8 DEF ReadStorage, VARINT, LENGTH
  <2>2. Good([y EXCEPT !.offset = f.value]) = Lifted(es, Good([m EXCEPT !.offset = f.value]))
    BY <1>3 DEF Good, Lifted
  <2> QED BY <1>1, <2>1, <2>2
<1>9. CASE f.key = <<2, LENGTH>>
  <2>1. PICK o : o = ParseSnapshot(Mutable(m.snap, NewSnapshot), f.bytes)
    OBVIOUS
  <2>2. /\ ReadStorage(y, f) = Filled(y, "snap", o)
        /\ ReadStorage(m, f) = Filled(m, "snap", o)
    BY <1>2, <1>9, <2>1 DEF ReadStorage, VARINT, LENGTH
  <2>3. Filled(y, "snap", o) = Lifted(es, Filled(m, "snap", o))
    BY <1>5 DEF Filled, Lifted
  <2> QED BY <1>1, <2>2, <2>3
<1>10. CASE f.key = <<3, LENGTH>>
  <2>1. PICK o : o = ParseEntry(NewEntry, f.bytes)
    OBVIOUS
  <2>2. /\ ReadStorage(y, f) = Extended(y, o)
        /\ ReadStorage(m, f) = Extended(m, o)
    BY <1>10, <2>1 DEF ReadStorage, VARINT, LENGTH
  <2>3. o \in Outcome(EntryClass)
    <3>1. NewEntry \in EntryClass /\ f.bytes \in Seq(Byte)
      BY NewIsPlain, PlainIsOfClass DEF Field
    <3> QED BY <2>1, <3>1, ParseEntryType
  <2>4. o.msg \in EntryClass
    BY <2>3 DEF Outcome
  <2>5. Extended(y, o) = Lifted(es, Extended(m, o))
    BY <1>7, <2>4 DEF Extended, Lifted
  <2> QED BY <1>1, <2>2, <2>5
<1>11. CASE f.key = <<4, LENGTH>>
  <2>1. PICK o : o = ParseHardState(Mutable(m.hardstate, NewHardState), f.bytes)
    OBVIOUS
  <2>2. /\ ReadStorage(y, f) = Filled(y, "hardstate", o)
        /\ ReadStorage(m, f) = Filled(m, "hardstate", o)
    BY <1>2, <1>11, <2>1 DEF ReadStorage, VARINT, LENGTH
  <2>3. Filled(y, "hardstate", o) = Lifted(es, Filled(m, "hardstate", o))
    BY <1>6 DEF Filled, Lifted
  <2> QED BY <1>1, <2>2, <2>3
<1>12. CASE ~(\/ f.key = <<1, VARINT>> \/ f.key = <<2, LENGTH>>
             \/ f.key = <<3, LENGTH>> \/ f.key = <<4, LENGTH>>)
  <2>1. ReadStorage(y, f) = Unknown(y, f) /\ ReadStorage(m, f) = Unknown(m, f)
    BY <1>12, Zenon DEF ReadStorage
  <2>2. Unknown(y, f) = Lifted(es, Unknown(m, f))
    BY <1>2, <1>4 DEF Unknown, Good, Lifted
  <2> QED BY <1>1, <2>1, <2>2
<1> QED BY <1>8, <1>9, <1>10, <1>11, <1>12

\* So reading goes on behind them as it would behind nothing.
LEMMA AfterBehind ==
  ASSUME NEW es \in Seq(EntryClass), NEW m \in StorageClass, NEW s \in Seq(Byte)
  PROVE  Run(StorageReader, StorageClass, Good(Behind(es, m)), s)
           = Lifted(es, Run(StorageReader, StorageClass, Good(m), s))
<1>1. PICK R, C, T, fs : /\ R = StorageReader /\ C = StorageClass /\ T = Outcome(StorageClass)
                         /\ fs = Fields(s)
  OBVIOUS
<1>2. R \in Reader(C) /\ Good(m) \in T /\ fs \in Seq(Field)
  BY <1>1, ParseStorageIs
<1>3. Good(Behind(es, m)) = Lifted(es, Good(m)) /\ Lifted(es, Good(m)) \in T
  BY <1>1, <1>2, BehindType DEF Good, Lifted
<1>4. PICK N \in Nat : N = Len(fs)
  BY <1>2
<1>5. PICK g : Reads(g, R, C, Good(m), fs)
  BY <1>1, <1>2, ReadsExists
<1>6. /\ g[0] = Good(m)
      /\ \A n \in 0..N : g[n] \in T
      /\ \A n \in 1..N : g[n] = StepBy(R, g[n - 1], fs[n]) /\ fs[n] \in Field
  <2>1. \A n \in 1..N : fs[n] \in Field
    BY <1>2, <1>4
  <2>2. g \in [0..N -> T] /\ g[0] = Good(m) /\ \A n \in 1..N : g[n] = StepBy(R, g[n - 1], fs[n])
    BY <1>1, <1>4, <1>5, Zenon DEF Reads
  <2> QED BY <2>1, <2>2
<1>7. g[N] = After(R, C, Good(m), fs)
  BY <1>1, <1>2, <1>4, <1>6, ReadsUnique
<1>8. ASSUME NEW st \in T, NEW f \in Field
      PROVE  StepBy(R, Lifted(es, st), f) = Lifted(es, StepBy(R, st, f))
  <2>1. st.msg \in StorageClass /\ Behind(es, st.msg) \in StorageClass
    BY <1>1, BehindType DEF Outcome
  <2>2. /\ R[<<st.msg, f>>] = ReadStorage(st.msg, f)
        /\ R[<<Behind(es, st.msg), f>>] = ReadStorage(Behind(es, st.msg), f)
    BY <1>1, <2>1 DEF StorageReader
  <2>3. R[<<Behind(es, st.msg), f>>] = Lifted(es, R[<<st.msg, f>>])
    BY <2>1, <2>2, ReadBehind
  <2>4. PICK o : o = R[<<st.msg, f>>]
    OBVIOUS
  <2>5. o \in T
    BY <1>1, <2>1, <2>2, <2>4, ReadStorageType
  <2>6. [Lifted(es, o) EXCEPT !.ok = @ /\ f.ok] = Lifted(es, [o EXCEPT !.ok = @ /\ f.ok])
    BY <1>1, <2>5 DEF Lifted, Outcome
  <2>7. [Lifted(es, st) EXCEPT !.ok = FALSE] = Lifted(es, [st EXCEPT !.ok = FALSE])
    <3>1. PICK v \in BOOLEAN : v = FALSE
      OBVIOUS
    <3>2. [Lifted(es, st) EXCEPT !.ok = v] = Lifted(es, [st EXCEPT !.ok = v])
      BY <1>1 DEF Lifted, Outcome
    <3> QED BY <3>1, <3>2
  <2>8. Lifted(es, st).ok = st.ok /\ Lifted(es, st).msg = Behind(es, st.msg)
    BY DEF Lifted
  <2> QED BY <2>3, <2>4, <2>6, <2>7, <2>8, Zenon DEF StepBy
<1>9. PICK h : h = [n \in 0..N |-> Lifted(es, g[n])]
  OBVIOUS
<1>10. h[0] = Good(Behind(es, m)) /\ h[N] = Lifted(es, g[N])
  BY <1>3, <1>4, <1>6, <1>9
<1>11. ASSUME NEW n \in 1..N PROVE h[n] = StepBy(R, h[n - 1], fs[n])
  <2>1. PICK k \in 0..N : k = n - 1
    BY <1>4
  <2>2. g[k] \in T /\ g[n] = StepBy(R, g[k], fs[n]) /\ fs[n] \in Field
    BY <1>6, <2>1
  <2>3. h[k] = Lifted(es, g[k]) /\ h[n] = Lifted(es, g[n])
    BY <1>9, <2>1
  <2> QED BY <1>8, <2>1, <2>2, <2>3
<1>12. h[N] = After(R, C, Good(Behind(es, m)), fs)
  BY <1>1, <1>2, <1>3, <1>4, <1>10, <1>11, ReadsUnique
<1> QED BY <1>1, <1>7, <1>10, <1>12 DEF Run

\* Merged into a new one, sub-messages are taken over as they are.
LEMMA MergeNewSubs ==
  /\ \A c \in ConfStateClass : MergeConfState(NewConfState, c) = c
  /\ \A d \in SnapshotMetadataClass : MergeSnapshotMetadata(NewSnapshotMetadata, d) = d
  /\ \A p \in SnapshotClass : MergeSnapshot(NewSnapshot, p) = p
  /\ \A h \in HardStateClass : MergeHardState(NewHardState, h) = h
<1>1. ASSUME NEW c \in ConfStateClass PROVE MergeConfState(NewConfState, c) = c
  <2>1. <<>> \o c.nodes = c.nodes /\ <<>> \o c.learners = c.learners /\ <<>> \o c.unknown = c.unknown
    BY DEF ConfStateClass
  <2> QED BY <2>1 DEF MergeConfState, NewConfState, ConfStateClass
<1>2. ASSUME NEW d \in SnapshotMetadataClass
      PROVE  MergeSnapshotMetadata(NewSnapshotMetadata, d) = d
  <2>1. <<>> \o d.unknown = d.unknown
    BY DEF SnapshotMetadataClass
  <2>2. OverSub(MergeConfState, None, d.conf_state, NewConfState) = d.conf_state
    BY <1>1 DEF OverSub, Mutable, SnapshotMetadataClass
  <2> QED BY <2>1, <2>2 DEF MergeSnapshotMetadata, NewSnapshotMetadata, SnapshotMetadataClass, Over
<1>3. ASSUME NEW p \in SnapshotClass PROVE MergeSnapshot(NewSnapshot, p) = p
  <2>1. <<>> \o p.unknown = p.unknown
    BY DEF SnapshotClass
  <2>2. OverSub(MergeSnapshotMetadata, None, p.metadata, NewSnapshotMetadata) = p.metadata
    BY <1>2 DEF OverSub, Mutable, SnapshotClass
  <2> QED BY <2>1, <2>2 DEF MergeSnapshot, NewSnapshot, SnapshotClass, Over
<1>4. ASSUME NEW h \in HardStateClass PROVE MergeHardState(NewHardState, h) = h
  <2>1. <<>> \o h.unknown = h.unknown
    BY DEF HardStateClass
  <2> QED BY <2>1 DEF MergeHardState, NewHardState, HardStateClass, Over
<1> QED BY <1>1, <1>2, <1>3, <1>4

\* What is merged into a Storage with nothing but entries comes behind these.
LEMMA MergeBehind ==
  ASSUME NEW es \in Seq(EntryClass), NEW x \in StorageClass
  PROVE  MergeStorage(Holding(es), x) = Behind(es, x)
<1>1. MergeEntries(es, x.entries) = es \o x.entries
  <2>1. PICK t \in Seq(EntryClass) : t = x.entries
    BY DEF StorageClass
  <2>2. [i \in 1..Len(t) |-> MergeEntry(NewEntry, t[i])] = t
    <3>1. \A i \in 1..Len(t) : MergeEntry(NewEntry, t[i]) = t[i]
      BY MergeNewEntry
    <3>2. t = [i \in 1..Len(t) |-> t[i]]
      OBVIOUS
    <3> QED BY <3>1, <3>2
  <2> QED BY <2>1, <2>2 DEF MergeEntries
<1>2. <<>> \o x.unknown = x.unknown
  BY DEF StorageClass
<1>3. OverSub(MergeSnapshot, None, x.snap, NewSnapshot) = x.snap
  BY MergeNewSubs DEF OverSub, Mutable, StorageClass
<1>4. OverSub(MergeHardState, None, x.hardstate, NewHardState) = x.hardstate
  BY MergeNewSubs DEF OverSub, Mutable, StorageClass
<1>5. Over(0, x.offset, 0) = x.offset
  BY DEF Over
<1>6. PICK y : y = Holding(es)
  OBVIOUS
<1>7. /\ y.offset = 0 /\ y.snap = None /\ y.entries = es /\ y.hardstate = None
      /\ y.unknown = <<>>
  BY <1>6 DEF Holding, NewStorage
<1>8. MergeStorage(y, x) = [offset |-> x.offset, snap |-> x.snap, entries |-> es \o x.entries,
                            hardstate |-> x.hardstate, unknown |-> x.unknown]
  BY <1>1, <1>2, <1>3, <1>4, <1>5, <1>7 DEF MergeStorage
<1>9. Behind(es, x) = [offset |-> x.offset, snap |-> x.snap, entries |-> es \o x.entries,
                       hardstate |-> x.hardstate, unknown |-> x.unknown]
  <2>1. PICK t : t = es \o x.entries
    OBVIOUS
  <2>2. [x EXCEPT !.entries = t] = [offset |-> x.offset, snap |-> x.snap, entries |-> t,
                                    hardstate |-> x.hardstate, unknown |-> x.unknown]
    BY DEF StorageClass
  <2> QED BY <2>1, <2>2 DEF Behind
<1> QED BY <1>6, <1>8, <1>9, Zenon

\* What a reader makes of a file with entries es that fits, and of the stack behind it.
LEMMA StoredIs ==
  ASSUME NEW es \in Seq(WordEntry), file # None, file = AppendBytes(es), Fits,
         NEW left \in Seq(Byte), \A i \in 1..Len(left) : left[i] # 0
  PROVE  Stored(left) = Behind(es, ParseStorage(NewStorage, left).msg)
<1>1. PICK R, C : R = StorageReader /\ C = StorageClass
  OBVIOUS
<1>2. /\ es \in Seq(EntryClass) /\ file \in Seq(Byte)
      /\ file = Each(3, SerializeEntry, es)
  BY AppendBytesIs
<1>3. Len(file) \in Word
  <2>1. PICK n \in Nat : n = Len(file)
    BY <1>2
  <2>2. BufferSize \in Word /\ n <= BufferSize
    BY <2>1, LogFileAssumption DEF Word, Fits
  <2> QED BY <2>1, <2>2, WordBelow
<1>4. Takes(R, C, NewStorage, file, Holding(es))
  BY <1>1, <1>2, <1>3, StorageTakesEntries DEF EntriesStored
<1>5. file \o left \in Seq(Byte)
  BY <1>2, BytesJoin
<1>6. Stored(left) = ParseStorage(NewStorage, file \o left).msg
  BY <1>2, RdataIs DEF Stored
<1>7. /\ ParseStorage(NewStorage, file \o left) = Run(R, C, Good(NewStorage), file \o left)
      /\ ParseStorage(NewStorage, left) = Run(R, C, Good(NewStorage), left)
  BY <1>1, <1>5, HoldingIs, ParseStorageIs, Zenon DEF Run
<1>8. Run(R, C, Good(NewStorage), file \o left) = Run(R, C, Good(Holding(es)), left)
  BY <1>4, Zenon DEF Takes
<1>9. Holding(es) = Behind(es, NewStorage)
  <2>1. es \o <<>> = es
    OBVIOUS
  <2> QED BY <2>1 DEF Holding, Behind, NewStorage
<1>10. Run(R, C, Good(Behind(es, NewStorage)), left) = Lifted(es, Run(R, C, Good(NewStorage), left))
  BY <1>1, <1>2, HoldingIs, AfterBehind
<1> QED BY <1>6, <1>7, <1>8, <1>9, <1>10 DEF Lifted

\* With nothing on the stack these are the entries.
LEMMA StoredAlone ==
  ASSUME NEW es \in Seq(WordEntry), file # None, file = AppendBytes(es), Fits
  PROVE  Stored(<<>>) = Holding(es)
<1>0. <<>> \in Seq(Byte)
  OBVIOUS
<1>1. PICK left \in Seq(Byte) : left = <<>>
  BY <1>0
<1>2. \A i \in 1..Len(left) : left[i] # 0
  BY <1>1
<1>3. Stored(left) = Behind(es, ParseStorage(NewStorage, left).msg)
  BY <1>2, StoredIs
<1>4. ParseStorage(NewStorage, left) = Run(StorageReader, StorageClass, Good(NewStorage), left)
      /\ StorageReader \in Reader(StorageClass)
  BY HoldingIs, ParseStorageIs, Zenon DEF Run
<1>5. Run(StorageReader, StorageClass, Good(NewStorage), left).msg = NewStorage
  BY <1>1, <1>4, HoldingIs, RunNothing
<1>6. Behind(es, NewStorage) = Holding(es)
  <2>1. es \o <<>> = es
    OBVIOUS
  <2> QED BY <2>1 DEF Holding, Behind, NewStorage
<1> QED BY <1>1, <1>3, <1>4, <1>5, <1>6

\* The terms of the entries are found at their indexes.
LEMMA TermsAreFound ==
  ASSUME NEW es \in Seq(EntryClass), NEW i \in 1..Len(es) - 1
  PROVE  TermOfEntry(i, Holding(es), LastIndex(Holding(es))) = es[i + 1].term
<1>1. PICK m : m = Holding(es)
  OBVIOUS
<1>2. m.entries = es /\ m.offset = 0
  BY <1>1 DEF Holding, NewStorage
<1>3. PICK n \in Nat : n = Len(es)
  OBVIOUS
<1>4. es # <<>> /\ LastIndex(m) = n - 1
  <2>1. es # <<>>
    BY <1>3
  <2> QED BY <1>2, <1>3, <2>1 DEF LastIndex
<1>5. ~(i < m.offset) /\ n - 1 # 0 /\ ~(i > n - 1) /\ i - m.offset + 1 = i + 1
  BY <1>2, <1>3
<1> QED BY <1>1, <1>2, <1>4, <1>5 DEF TermOfEntry

\* Some entries are the beginning of them and others.
LEMMA EntriesPrefix ==
  ASSUME NEW es \in Seq(EntryClass), NEW ds \in Seq(EntryClass)
  PROVE  IsPrefix(es, es \o ds)
<1>1. PICK s : s = es \o ds
  OBVIOUS
<1>2. s \in Seq(EntryClass) /\ Len(es) <= Len(s) /\ \A i \in 1..Len(es) : s[i] = es[i]
  BY <1>1
<1>3. SubSeq(es, 1, Len(es)) = SubSeq(s, 1, Len(es))
  BY <1>2
<1> QED BY <1>1, <1>2, <1>3 DEF IsPrefix

\* What was appended last can be read.
BatchIsShort == appended \in Seq(WordEntry) /\ FileIsBytes

\* It is so in the beginning, ...
LEMMA InitBatchIsShort == Init => BatchIsShort
<1> SUFFICES ASSUME Init PROVE BatchIsShort
  OBVIOUS
<1>1. appended = <<>> /\ file = None
  BY DEF Init, FileInit
<1>2. <<>> \in Seq(WordEntry)
  OBVIOUS
<1> QED BY <1>1, <1>2 DEF BatchIsShort, FileIsBytes

\* ... and whoever writes keeps it.
LEMMA NextKeepsBatchShort ==
  ASSUME BatchIsShort, [Next]_vars
  PROVE  BatchIsShort'
<1>1. FileIsBytes'
  BY NextKeepsFile DEF BatchIsShort
<1>2. ASSUME NEW ents \in Logs PROVE Copies(ents) \in Seq(WordEntry)
  <2>1. ents \in Seq(EntryClass)
    BY LogFileAssumption
  <2>2. ASSUME NEW i \in 1..Len(ents) PROVE [ents[i] EXCEPT !.unknown = <<>>] \in WordEntry
    <3>1. PICK e \in EntryClass : e = ents[i]
      BY <2>1
    <3>2. \A n \in {e.type, e.term, e.index} : VarintSize(n) <= VarintLimit
      BY <3>1, LogFileAssumption
    <3>3. e.type \in Word /\ e.term \in Word /\ e.index \in Word
      BY <3>2 DEF EntryClass, Word
    <3>4. [e EXCEPT !.unknown = <<>>] \in WordEntry
      BY <3>3 DEF WordEntry, EntryClass
    <3> QED BY <3>1, <3>4
  <2> QED BY <2>1, <2>2 DEF Copies
<1>3. appended' \in Seq(WordEntry)
  <2>1. CASE FileAppend
    BY <1>2, <2>1 DEF FileAppend
  <2>2. CASE UNCHANGED appended
    BY <2>2 DEF BatchIsShort
  <2>3. CASE ApplySnapshot
    BY <2>2, <2>3 DEF ApplySnapshot
  <2>4. CASE SetHardState
    BY <2>2, <2>4 DEF SetHardState
  <2>5. CASE UNCHANGED fileVars
    BY <2>2, <2>5 DEF fileVars
  <2> QED BY <2>1, <2>3, <2>4, <2>5, Zenon DEF Next, FileNext, vars
<1> QED BY <1>1, <1>3 DEF BatchIsShort

\* A batch that is still in the file as it was written is read back.
LEMMA BatchComesBack ==
  ASSUME BatchIsShort, file # None, file = AppendBytes(appended)
  PROVE  EntriesReadBack
<1> SUFFICES ASSUME Fits
             PROVE  /\ \A left \in Leftover :
                         /\ Stored(left) \in StorageClass
                         /\ IsPrefix(appended, Entries(left))
                         /\ Stored(left) = MergeStorage(Stored(<<>>), ParseStorage(NewStorage, left).msg)
                    /\ \A i \in 1..Len(appended) - 1 :
                         TermOfEntry(i, Stored(<<>>), LastIndex(Stored(<<>>))) = appended[i + 1].term
  BY DEF EntriesReadBack
<1>1. PICK es : es = appended
  OBVIOUS
<1>2. es \in Seq(WordEntry) /\ es \in Seq(EntryClass) /\ file = AppendBytes(es) /\ FileIsBytes
  BY <1>1, AppendBytesIs DEF BatchIsShort
<1>3. Stored(<<>>) = Holding(es)
  BY <1>2, StoredAlone
<1>4. ASSUME NEW left \in Leftover
      PROVE  /\ Stored(left) \in StorageClass
             /\ IsPrefix(es, Entries(left))
             /\ Stored(left) = MergeStorage(Holding(es), ParseStorage(NewStorage, left).msg)
  <2>1. left \in Seq(Byte) /\ \A i \in 1..Len(left) : left[i] # 0
    <3>1. PICK B : B = Byte \ {0}
      OBVIOUS
    <3>2. left \in Seq(B) /\ \A b \in B : b \in Byte /\ b # 0
      BY <3>1, LogFileAssumption
    <3> QED BY <3>2
  <2>2. PICK x : x = ParseStorage(NewStorage, left).msg
    OBVIOUS
  <2>3. x \in StorageClass
    <3>1. ParseStorage(NewStorage, left) \in Outcome(StorageClass)
      BY <2>1, HoldingIs, ParseStorageType
    <3> QED BY <2>2, <3>1 DEF Outcome
  <2>4. Stored(left) = Behind(es, x)
    BY <1>2, <2>1, <2>2, StoredIs
  <2>5. MergeStorage(Holding(es), x) = Behind(es, x)
    BY <1>2, <2>3, MergeBehind
  <2>6. IsPrefix(es, Entries(left))
    <3>1. PICK ds \in Seq(EntryClass) : ds = x.entries
      BY <2>3 DEF StorageClass
    <3>2. Entries(left) = es \o ds
      BY <2>3, <2>4, <3>1 DEF Entries, Behind, StorageClass
    <3> QED BY <1>2, <3>2, EntriesPrefix
  <2>7. Stored(left) \in StorageClass
    BY <1>2, StoredType
  <2> QED BY <2>2, <2>4, <2>5, <2>6, <2>7
<1>5. ASSUME NEW i \in 1..Len(es) - 1
      PROVE  TermOfEntry(i, Stored(<<>>), LastIndex(Stored(<<>>))) = es[i + 1].term
  BY <1>2, <1>3, TermsAreFound
<1> QED BY <1>1, <1>3, <1>4, <1>5

\* While the file is what the last Append() has made of it, every reader gets the
\* entries of this call in front of whatever the stack adds, and Term() finds their
\* terms, as long as the file fits into the array and has no NUL in it: for any
\* entries and any stack (storage.cc:54, storage.cc:215).
THEOREM BatchReadBack ==
  Spec => [](file # None /\ file = AppendBytes(appended) => EntriesReadBack)
<1>1. BatchIsShort => (file # None /\ file = AppendBytes(appended) => EntriesReadBack)
  BY BatchComesBack
<1>2. BatchIsShort /\ [Next]_vars => BatchIsShort'
  BY NextKeepsBatchShort
<1> QED BY <1>1, <1>2, InitBatchIsShort, PTL DEF Spec
=============================================================================
