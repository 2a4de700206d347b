--------------------------- MODULE RecursionLemmas ---------------------------
(***************************************************************************)
(* What proofs about recursive functions need.  Induction is stated with a *)
(* set of numbers in place of a predicate, and one step of a recursion     *)
(* with a function in place of an operator, so that both can be cited.     *)
(***************************************************************************)
EXTENDS SequencesExt, SequenceTheorems, NaturalsInduction, WellFoundedInduction, TLAPS

-----------------------------------------------------------------------------
(* Induction *)

\* A set of numbers that is not empty has a least member.
LEMMA LeastOf ==
  ASSUME NEW S \in SUBSET Nat, S # {}
  PROVE  \E i \in S : \A j \in S : i <= j
<1>1. PICK i \in S : \A j \in S : <<j, i>> \notin OpToRel(<, Nat)
  BY NatLessThanWellFounded, WFMin, Zenon
<1>2. \A j \in S : ~(j < i)
  BY <1>1, Zenon DEF OpToRel
<1> QED BY <1>2

\* Induction up to a number.
LEMMA UpTo ==
  ASSUME NEW N \in Nat, NEW S, 0 \in S,
         \A n \in 0..N - 1 : n \in S => n + 1 \in S
  PROVE  \A n \in 0..N : n \in S
<1> DEFINE bad == {n \in 0..N : n \notin S}
<1> SUFFICES ASSUME bad # {} PROVE FALSE
  OBVIOUS
<1>1. bad \in SUBSET Nat
  OBVIOUS
<1>2. PICK i \in bad : \A j \in bad : i <= j
  BY <1>1, LeastOf
<1>3. i # 0
  OBVIOUS
<1>4. i - 1 \in 0..N - 1 /\ i - 1 \notin bad
  BY <1>2, <1>3
<1>5. i - 1 \in S
  BY <1>4
<1>6. (i - 1) + 1 \in S
  BY <1>4, <1>5
<1> QED BY <1>6

\* Induction over all numbers.
LEMMA AllNumbers ==
  ASSUME NEW S, \A n \in Nat : (\A m \in 0..n - 1 : m \in S) => n \in S
  PROVE  \A n \in Nat : n \in S
<1> DEFINE bad == {n \in Nat : n \notin S}
<1> SUFFICES ASSUME bad # {} PROVE FALSE
  OBVIOUS
<1>1. PICK i \in bad : \A j \in bad : i <= j
  BY LeastOf
<1>2. \A m \in 0..i - 1 : m \in S
  BY <1>1
<1> QED BY <1>2
\* Induction over sequences, from an empty one by appending.
LEMMA ByAppending ==
  ASSUME NEW T, NEW A, <<>> \in A,
         \A s \in Seq(T), x \in T : s \in A => Append(s, x) \in A
  PROVE  \A s \in Seq(T) : s \in A
<1> SUFFICES ASSUME NEW s \in Seq(T) PROVE s \in A
  OBVIOUS
<1> DEFINE N == Len(s)
           S == {n \in 0..N : SubSeq(s, 1, n) \in A}
<1>0. N \in Nat
  OBVIOUS
<1>1. 0 \in S
  <2>1. SubSeq(s, 1, 0) = <<>> /\ 0 \in 0..N
    BY <1>0
  <2> QED BY <2>1, Zenon
<1>2. \A n \in 0..N - 1 : n \in S => n + 1 \in S
  <2> SUFFICES ASSUME NEW n \in 0..N - 1, n \in S PROVE n + 1 \in S
    OBVIOUS
  <2>1. SubSeq(s, 1, n) \in Seq(T) /\ s[n + 1] \in T
        /\ SubSeq(s, 1, n + 1) = Append(SubSeq(s, 1, n), s[n + 1])
    BY <1>0
  <2>2. SubSeq(s, 1, n + 1) \in A
    BY <2>1
  <2> QED BY <2>2, <1>0
<1> HIDE DEF S
<1>3. N \in S
  <2>1. \A n \in 0..N : n \in S
    BY <1>0, <1>1, <1>2, UpTo
  <2> QED BY <2>1, <1>0
<1>4. SubSeq(s, 1, N) = s
  BY <1>0
<1> QED BY <1>3, <1>4 DEF S

\* Two sequences in a row.
LEMMA ConcatIs ==
  ASSUME NEW S, NEW s \in Seq(S), NEW t \in Seq(S)
  PROVE  /\ s \o t \in Seq(S) /\ Len(s \o t) = Len(s) + Len(t)
         /\ \A i \in 1..Len(s) : (s \o t)[i] = s[i]
         /\ \A i \in 1..Len(t) : (s \o t)[Len(s) + i] = t[i]
OBVIOUS

\* What is appended to the second of two sequences is appended to both.
LEMMA AppendAssociative ==
  ASSUME NEW S, NEW s \in Seq(S), NEW t \in Seq(S), NEW x \in S
  PROVE  /\ s \o Append(t, x) = Append(s \o t, x)
         /\ s \o t \in Seq(S) /\ Append(t, x) \in Seq(S)
  OBVIOUS
\* A pair is the concatenation of its members.
LEMMA PairIsConcat ==
  ASSUME NEW S, NEW x \in S, NEW y \in S
  PROVE  <<x>> \o <<y>> = <<x, y>> /\ <<x>> \in Seq(S)
<1> DEFINE s == <<x>>
           p == <<x, y>>
<1>1. s \in Seq(S) /\ Len(s) = 1 /\ s[1] = x
      /\ p \in Seq(S) /\ Len(p) = 2 /\ p[1] = x /\ p[2] = y
  OBVIOUS
<1> HIDE DEF s, p
<1>2. PICK t : t = Append(s, y)
  OBVIOUS
<1>3. t \in Seq(S) /\ Len(t) = 2 /\ t[1] = x /\ t[2] = y
  <2>1. /\ t \in Seq(S) /\ Len(t) = Len(s) + 1
        /\ \A i \in 1..Len(s) : t[i] = s[i]
        /\ t[Len(s) + 1] = y
    BY <1>1, <1>2, AppendProperties
  <2>2. Len(s) + 1 = 2 /\ 1 \in 1..Len(s)
    BY <1>1
  <2> QED BY <2>1, <2>2, <1>1
<1>4. t = p
  BY <1>1, <1>3, SeqEqual
<1>5. t = s \o <<y>>
  BY <1>1, <1>2, AppendIsConcat
<1> QED BY <1>1, <1>4, <1>5 DEF s, p
-----------------------------------------------------------------------------
(* Recursion *)

\* f goes on from b by the steps D.
Recurs(f, b, N, D) == f[0] = b /\ \A n \in 1..N : f[n] = D[n][f[n - 1]]

\* There is such a function.
LEMMA RecursionExists ==
  ASSUME NEW T, NEW b \in T, NEW N \in Nat, NEW D \in [1..N -> [T -> T]]
  PROVE  \E f \in [0..N -> T] : Recurs(f, b, N, D)
<1> DEFINE Right(f, m) == f[0] = b /\ \A n \in 1..m : f[n] = D[n][f[n - 1]]
           S == {m \in 0..N : \E f \in [0..m -> T] : Right(f, m)}
<1>1. 0 \in S
  <2> DEFINE g == [k \in 0..0 |-> b]
  <2>1. g \in [0..0 -> T] /\ Right(g, 0)
    OBVIOUS
  <2> HIDE DEF g, Right
  <2> QED BY <2>1
<1>2. \A m \in 0..N - 1 : m \in S => m + 1 \in S
  <2> SUFFICES ASSUME NEW m \in 0..N - 1, m \in S PROVE m + 1 \in S
    OBVIOUS
  <2>1. PICK f \in [0..m -> T] : Right(f, m)
    OBVIOUS
  <2> DEFINE g == [k \in 0..m + 1 |-> IF k = m + 1 THEN D[m + 1][f[m]] ELSE f[k]]
  <2>2. D[m + 1][f[m]] \in T
    OBVIOUS
  <2>3. g \in [0..m + 1 -> T]
    BY <2>2
  <2>4. g[0] = b /\ g[m + 1] = D[m + 1][g[m]]
    BY <2>1
  <2>5. \A n \in 1..m : g[n] = D[n][g[n - 1]]
    BY <2>1
  <2>6. Right(g, m + 1)
    <3>1. \A n \in 1..m + 1 : n = m + 1 \/ n \in 1..m
      OBVIOUS
    <3> HIDE DEF g
    <3> QED BY <3>1, <2>4, <2>5
  <2> HIDE DEF g, Right
  <2> QED BY <2>3, <2>6
<1> HIDE DEF S
<1>3. N \in S
  <2>1. \A m \in 0..N : m \in S
    BY <1>1, <1>2, UpTo
  <2> QED BY <2>1
<1> USE DEF S
<1> QED BY <1>3 DEF Recurs

\* There is only one.
LEMMA RecursionUnique ==
  ASSUME NEW N \in Nat, NEW D, NEW f, NEW g, f[0] = g[0],
         \A n \in 1..N : f[n] = D[n][f[n - 1]],
         \A n \in 1..N : g[n] = D[n][g[n - 1]]
  PROVE  \A n \in 0..N : f[n] = g[n]
<1> DEFINE S == {n \in 0..N : f[n] = g[n]}
<1>1. 0 \in S
  OBVIOUS
<1>2. \A n \in 0..N - 1 : n \in S => n + 1 \in S
  <2> SUFFICES ASSUME NEW n \in 0..N - 1, n \in S PROVE n + 1 \in S
    OBVIOUS
  <2>1. f[n + 1] = D[n + 1][f[n]] /\ g[n + 1] = D[n + 1][g[n]]
    OBVIOUS
  <2> QED BY <2>1
<1> HIDE DEF S
<1>3. \A n \in 0..N : n \in S
  BY <1>1, <1>2, UpTo
<1> USE DEF S
<1> QED BY <1>3
-----------------------------------------------------------------------------
(* FlattenSeq *)

\* The members are taken up one after the other.
LEMMA FlattenRecursion ==
  ASSUME NEW S, NEW s \in Seq(Seq(S))
  PROVE  \E f \in [0..Len(s) -> Seq(S)] :
           /\ f[0] = <<>>
           /\ \A n \in 1..Len(s) : f[n] = f[n - 1] \o s[n]
           /\ f[Len(s)] = FlattenSeq(s)
<1> DEFINE N == Len(s)
           D == [n \in 1..N |-> [t \in Seq(S) |-> t \o s[n]]]
<1>0. N \in Nat /\ s \in [1..N -> Seq(S)]
  OBVIOUS
<1>1. D \in [1..N -> [Seq(S) -> Seq(S)]]
  BY <1>0
<1>2. <<>> \in Seq(S)
  OBVIOUS
<1>3. PICK f \in [0..N -> Seq(S)] : f[0] = <<>> /\ \A n \in 1..N : f[n] = D[n][f[n - 1]]
  <2>1. PICK T : T = Seq(S)
    OBVIOUS
  <2>2. PICK M : M = N
    OBVIOUS
  <2>3. PICK E : E = D
    OBVIOUS
  <2> HIDE DEF D, N
  <2>4. M \in Nat /\ <<>> \in T /\ E \in [1..M -> [T -> T]]
    BY <2>1, <2>2, <2>3, <1>0, <1>1, <1>2, Zenon
  <2>5. \E f \in [0..M -> T] : Recurs(f, <<>>, M, E)
    BY <2>4, RecursionExists
  <2> QED BY <2>1, <2>2, <2>3, <2>5, Zenon DEF Recurs
<1>4. \A n \in 1..N : f[n - 1] \in Seq(S) /\ f[n] = f[n - 1] \o s[n]
  <2> SUFFICES ASSUME NEW n \in 1..N PROVE f[n - 1] \in Seq(S) /\ f[n] = f[n - 1] \o s[n]
    OBVIOUS
  <2>1. n - 1 \in 0..N
    BY <1>0
  <2>2. f[n - 1] \in Seq(S)
    BY <2>1, <1>3
  <2>3. D[n][f[n - 1]] = f[n - 1] \o s[n]
    BY <2>2, Zenon
  <2>4. f[n] = D[n][f[n - 1]]
    BY <1>3
  <2> QED BY <2>2, <2>3, <2>4
<1>5. f[N] = FlattenSeq(s)
  <2>1. CASE N = 0
    <3>1. s = <<>>
      BY <2>1
    <3> QED BY <2>1, <3>1, <1>3 DEF FlattenSeq
  <2>2. CASE N # 0
    <3> DEFINE Right(fl) == fl = [i \in 1..N |-> IF i = 1 THEN s[i] ELSE fl[i - 1] \o s[i]]
               F == [i \in 1..N |-> f[i]]
               fl == CHOOSE g : Right(g)
               g == [i \in 0..N |-> IF i = 0 THEN <<>> ELSE fl[i]]
    <3>1. FlattenSeq(s) = fl[N]
      BY <2>2 DEF FlattenSeq
    <3>2. \A i \in 1..N : F[i] = IF i = 1 THEN s[i] ELSE F[i - 1] \o s[i]
      <4> SUFFICES ASSUME NEW i \in 1..N PROVE F[i] = IF i = 1 THEN s[i] ELSE F[i - 1] \o s[i]
        OBVIOUS
      <4>1. CASE i = 1
        <5>1. f[1] = <<>> \o s[1]
          <6>1. 1 \in 1..N /\ 1 - 1 = 0
            BY <4>1
          <6> QED BY <6>1, <1>4, <1>3
        <5>2. s[1] \in Seq(S)
          BY <1>0, <4>1
        <5>3. <<>> \o s[1] = s[1]
          BY <5>2
        <5> QED BY <5>1, <5>3, <4>1
      <4>2. CASE i # 1
        <5>1. i - 1 \in 1..N
          BY <4>2, <1>0
        <5> QED BY <5>1, <4>2, <1>4
      <4> QED BY <4>1, <4>2
    <3>3. Right(F)
      <4> HIDE DEF N
      <4>1. F = [i \in 1..N |-> F[i]]
        OBVIOUS
      <4> HIDE DEF F
      <4> QED BY <4>1, <3>2
    <3> HIDE DEF F
    <3>4. Right(fl)
      BY <3>3, Zenon
    <3> HIDE DEF fl
    <3>5. \A i \in 1..N : fl[i] = IF i = 1 THEN s[i] ELSE fl[i - 1] \o s[i]
      BY <3>4
    <3>6. \A n \in 1..N : g[n] = g[n - 1] \o s[n]
      <4> SUFFICES ASSUME NEW n \in 1..N PROVE g[n] = g[n - 1] \o s[n]
        OBVIOUS
      <4>1. CASE n = 1
        <5>1. s[1] \in Seq(S)
          BY <1>0, <4>1
        <5>2. <<>> \o s[1] = s[1]
          BY <5>1
        <5>3. g[1] = fl[1] /\ g[0] = <<>>
          BY <1>0, <4>1
        <5>4. fl[1] = s[1]
          BY <3>5, <4>1
        <5>5. g[n] = s[n] /\ g[n - 1] = <<>>
          BY <5>3, <5>4, <4>1
        <5> HIDE DEF g
        <5> QED BY <5>2, <5>5, <4>1
      <4>2. CASE n # 1
        <5>1. n - 1 \in 1..N
          BY <4>2, <1>0
        <5>2. g[n] = fl[n] /\ g[n - 1] = fl[n - 1]
          BY <5>1, <1>0
        <5>3. fl[n] = fl[n - 1] \o s[n]
          BY <3>5, <4>2
        <5> QED BY <5>2, <5>3
      <4> QED BY <4>1, <4>2
    <3>7. \A n \in 1..N : f[n] = f[n - 1] \o s[n]
      BY <1>4
    <3>8. f[0] = g[0]
      BY <1>3, <1>0
    <3> DEFINE S2 == {n \in 0..N : f[n] = g[n]}
    <3>9. \A n \in 0..N : n \in S2
      <4>1. 0 \in S2
        BY <3>8, <1>0
      <4>2. \A n \in 0..N - 1 : n \in S2 => n + 1 \in S2
        <5> SUFFICES ASSUME NEW n \in 0..N - 1, n \in S2 PROVE n + 1 \in S2
          OBVIOUS
        <5> DEFINE m == n + 1
        <5>1. m \in 1..N /\ m - 1 = n /\ m \in 0..N
          BY <1>0
        <5> HIDE DEF m, g
        <5>2. f[m] = f[n] \o s[m] /\ g[m] = g[n] \o s[m]
          BY <5>1, <3>6, <3>7
        <5>3. f[n] = g[n]
          OBVIOUS
        <5>4. f[m] = g[m]
          BY <5>2, <5>3
        <5> QED BY <5>4, <5>1 DEF m
      <4> HIDE DEF S2
      <4> QED BY <4>1, <4>2, <1>0, UpTo
    <3>10. f[N] = g[N]
      BY <3>9, <1>0
    <3> QED BY <3>10, <3>1, <2>2, <1>0
  <2> QED BY <2>1, <2>2
<1>6. f[0] = <<>>
  BY <1>3
<1> HIDE DEF D
<1> QED BY <1>3, <1>4, <1>5, <1>6

\* Whatever takes up the members one after the other ends with FlattenSeq.
LEMMA FlattenUnique ==
  ASSUME NEW S, NEW s \in Seq(Seq(S)), NEW g, g[0] = <<>>,
         \A n \in 1..Len(s) : g[n] = g[n - 1] \o s[n]
  PROVE  g[Len(s)] = FlattenSeq(s)
<1> DEFINE N == Len(s)
<1>0. N \in Nat
  OBVIOUS
<1>1. PICK f \in [0..N -> Seq(S)] : /\ f[0] = <<>>
                                    /\ \A n \in 1..N : f[n] = f[n - 1] \o s[n]
                                    /\ f[N] = FlattenSeq(s)
  BY FlattenRecursion, Zenon
<1> DEFINE A == {n \in 0..N : f[n] = g[n]}
<1>2. 0 \in A
  BY <1>1, <1>0
<1>3. \A n \in 0..N - 1 : n \in A => n + 1 \in A
  <2> SUFFICES ASSUME NEW n \in 0..N - 1, n \in A PROVE n + 1 \in A
    OBVIOUS
  <2> DEFINE m == n + 1
  <2>1. m \in 1..N /\ m - 1 = n /\ m \in 0..N
    BY <1>0
  <2> HIDE DEF m
  <2>2. f[m] = f[n] \o s[m] /\ g[m] = g[n] \o s[m]
    BY <2>1, <1>1
  <2>3. f[m] = g[m]
    BY <2>2
  <2> QED BY <2>3, <2>1 DEF m
<1> HIDE DEF A
<1>4. N \in A
  <2>1. \A n \in 0..N : n \in A
    BY <1>2, <1>3, <1>0, UpTo
  <2> QED BY <2>1, <1>0
<1>5. f[N] = g[N]
  BY <1>4 DEF A
<1> QED BY <1>5, <1>1

\* FlattenSeq() of sequences is a sequence.
LEMMA FlattenType ==
  ASSUME NEW S, NEW s \in Seq(Seq(S))
  PROVE  FlattenSeq(s) \in Seq(S)
<1>1. PICK f \in [0..Len(s) -> Seq(S)] : f[Len(s)] = FlattenSeq(s)
  BY FlattenRecursion, Zenon
<1>2. Len(s) \in 0..Len(s)
  OBVIOUS
<1> QED BY <1>1, <1>2

\* FlattenSeq() of nothing.
LEMMA FlattenEmpty == FlattenSeq(<<>>) = <<>>
  BY DEF FlattenSeq

\* One member more.
LEMMA FlattenAppend ==
  ASSUME NEW S, NEW s \in Seq(Seq(S)), NEW x \in Seq(S)
  PROVE  FlattenSeq(Append(s, x)) = FlattenSeq(s) \o x
<1> DEFINE t == Append(s, x)
           N == Len(s)
<1>1. t \in Seq(Seq(S)) /\ Len(t) = N + 1 /\ t[N + 1] = x
      /\ N \in Nat /\ \A n \in 1..N : t[n] = s[n]
  OBVIOUS
<1> HIDE DEF t
<1>2. PICK f \in [0..Len(t) -> Seq(S)] : /\ f[0] = <<>>
                                         /\ \A n \in 1..Len(t) : f[n] = f[n - 1] \o t[n]
                                         /\ f[Len(t)] = FlattenSeq(t)
  BY <1>1, FlattenRecursion, Zenon
<1>3. \A n \in 1..N : f[n] = f[n - 1] \o s[n]
  <2> SUFFICES ASSUME NEW n \in 1..N PROVE f[n] = f[n - 1] \o s[n]
    OBVIOUS
  <2>1. n \in 1..Len(t) /\ t[n] = s[n]
    BY <1>1
  <2> QED BY <2>1, <1>2
<1>4. f[N] = FlattenSeq(s)
  BY <1>2, <1>3, FlattenUnique, Zenon
<1>5. f[N + 1] = f[N] \o x
  <2> DEFINE m == N + 1
  <2>1. m \in 1..Len(t) /\ m - 1 = N /\ t[m] = x
    BY <1>1
  <2> HIDE DEF m, N
  <2>2. f[m] = f[m - 1] \o t[m]
    BY <2>1, <1>2
  <2> QED BY <2>1, <2>2 DEF m
<1> QED BY <1>1, <1>2, <1>4, <1>5 DEF t

\* FlattenSeq() of one member.
LEMMA FlattenOne ==
  ASSUME NEW S, NEW x \in Seq(S)
  PROVE  FlattenSeq(<<x>>) = x
<1>1. FlattenSeq(Append(<<>>, x)) = FlattenSeq(<<>>) \o x
  <2>1. <<>> \in Seq(Seq(S))
    OBVIOUS
  <2> QED BY <2>1, FlattenAppend, Zenon
<1>2. Append(<<>>, x) = <<x>> /\ <<>> \o x = x
  OBVIOUS
<1> QED BY <1>1, <1>2, FlattenEmpty

\* FlattenSeq() of two sequences of members.
LEMMA FlattenConcat ==
  ASSUME NEW S, NEW s \in Seq(Seq(S)), NEW t \in Seq(Seq(S))
  PROVE  FlattenSeq(s \o t) = FlattenSeq(s) \o FlattenSeq(t)
<1> DEFINE Fs == FlattenSeq(s)
           A == {u \in Seq(Seq(S)) : FlattenSeq(s \o u) = Fs \o FlattenSeq(u)}
<1>1. Fs \in Seq(S)
  BY FlattenType
<1>2. <<>> \in A
  <2>1. s \o <<>> = s /\ Fs \o <<>> = Fs /\ <<>> \in Seq(Seq(S))
    BY <1>1
  <2> QED BY <2>1, FlattenEmpty
<1>3. \A u \in Seq(Seq(S)), x \in Seq(S) : u \in A => Append(u, x) \in A
  <2> SUFFICES ASSUME NEW u \in Seq(Seq(S)), NEW x \in Seq(S), u \in A PROVE Append(u, x) \in A
    OBVIOUS
  <2> DEFINE su == s \o u
             fu == FlattenSeq(u)
  <2>1. s \o Append(u, x) = Append(su, x) /\ su \in Seq(Seq(S)) /\ Append(u, x) \in Seq(Seq(S))
    BY AppendAssociative
  <2>2. fu \in Seq(S) /\ FlattenSeq(su) = Fs \o fu
    BY FlattenType
  <2> HIDE DEF su, fu, Fs
  <2>3. FlattenSeq(Append(su, x)) = (Fs \o fu) \o x
    BY <2>1, <2>2, FlattenAppend, Zenon
  <2>4. FlattenSeq(Append(u, x)) = fu \o x
    BY FlattenAppend, Zenon DEF fu
  <2>5. (Fs \o fu) \o x = Fs \o (fu \o x)
    BY <1>1, <2>2, ConcatAssociative
  <2>6. FlattenSeq(s \o Append(u, x)) = Fs \o FlattenSeq(Append(u, x))
    BY <2>1, <2>3, <2>4, <2>5, Zenon
  <2> QED BY <2>1, <2>6, Zenon
<1>4. \A u \in Seq(Seq(S)) : u \in A
  <2> DEFINE T == Seq(S)
  <2> HIDE DEF A, T
  <2>1. <<>> \in A /\ \A u \in Seq(T), x \in T : u \in A => Append(u, x) \in A
    BY <1>2, <1>3, Zenon DEF T
  <2>2. \A u \in Seq(T) : u \in A
    BY <2>1, ByAppending, Zenon
  <2> QED BY <2>2, Zenon DEF T
<1> QED BY <1>4, Zenon

\* What the members of a sequence stand for, one after the other.
Spread(f, s) == FlattenSeq([i \in DOMAIN s |-> f[s[i]]])
SeqMap(P, S) == [P -> Seq(S)]

SpreadGrows(f, s, x, S) ==
  Spread(f, s) \in Seq(S) /\ Spread(f, Append(s, x)) = Spread(f, s) \o f[x]

\* One member more.
LEMMA SpreadAppend ==
  ASSUME NEW S, NEW P, NEW f \in SeqMap(P, S), NEW s \in Seq(P), NEW x \in P
  PROVE  SpreadGrows(f, s, x, S)
<1> DEFINE more == Append(s, x)
           m == [i \in DOMAIN s |-> f[s[i]]]
           m2 == [i \in DOMAIN more |-> f[more[i]]]
<1>0. f \in [P -> Seq(S)]
  BY DEF SeqMap
<1>1. DOMAIN s = 1..Len(s) /\ \A i \in 1..Len(s) : f[s[i]] \in Seq(S)
  BY <1>0
<1>2. m \in Seq(Seq(S)) /\ Len(m) = Len(s)
  <2>1. m \in [1..Len(s) -> Seq(S)]
    BY <1>1
  <2> QED BY <2>1
<1>3. f[x] \in Seq(S) /\ Len(s) \in Nat
  BY <1>0
<1>4. DOMAIN more = 1..Len(s) + 1 /\ more[Len(s) + 1] = x /\ \A i \in 1..Len(s) : more[i] = s[i]
  OBVIOUS
<1>5. PICK t : t = Append(m, f[x])
  OBVIOUS
<1> HIDE DEF more
<1>6. /\ t \in Seq(Seq(S)) /\ DOMAIN t = 1..Len(s) + 1 /\ t[Len(s) + 1] = f[x]
      /\ \A i \in 1..Len(s) : t[i] = m[i]
  <2> HIDE DEF m
  <2> QED BY <1>2, <1>3, <1>5
<1>7. m2 = t
  <2>1. DOMAIN m2 = 1..Len(s) + 1
    BY <1>4
  <2>2. ASSUME NEW i \in 1..Len(s) + 1 PROVE m2[i] = t[i]
    <3>1. CASE i = Len(s) + 1
      BY <1>4, <1>6, <3>1
    <3>2. CASE i \in 1..Len(s)
      BY <1>4, <1>6, <1>1, <3>2
    <3> QED BY <1>3, <3>1, <3>2
  <2>3. m2 = [i \in 1..Len(s) + 1 |-> m2[i]] /\ t = [i \in 1..Len(s) + 1 |-> t[i]]
    BY <1>4, <1>6
  <2> QED BY <2>2, <2>3
<1> HIDE DEF m, m2
<1>8. FlattenSeq(t) = FlattenSeq(m) \o f[x] /\ FlattenSeq(m) \in Seq(S)
  BY <1>2, <1>3, <1>5, FlattenAppend, FlattenType
<1> QED BY <1>7, <1>8 DEF m, m2, more, Spread, SpreadGrows

\* f goes on from B in E, and elsewhere by the step D from the value at P.
Descends(f, X, E, B, P, D) ==
  /\ \A x \in E : f[x] = B[x]
  /\ \A x \in X \ E : f[x] = D[x][f[P[x]]]

\* There is such a function when P leads downwards.
LEMMA DescentExists ==
  ASSUME NEW X, NEW T, NEW M \in [X -> Nat], NEW E \in SUBSET X, NEW B \in [E -> T],
         NEW P \in [X \ E -> X], NEW D \in [X \ E -> [T -> T]],
         \A x \in X \ E : M[P[x]] < M[x]
  PROVE  \E f \in [X -> T] : Descends(f, X, E, B, P, D)
<1> DEFINE Up(n) == {x \in X : M[x] <= n}
           Right(g, n) == /\ \A x \in Up(n) : x \in E => g[x] = B[x]
                          /\ \A x \in Up(n) : x \notin E => g[x] = D[x][g[P[x]]]
           S == {n \in Nat : \E g \in [Up(n) -> T] : Right(g, n)}
<1>0. \A x \in X : x \notin E => P[x] \in X /\ M[P[x]] < M[x] /\ M[P[x]] \in Nat /\ M[x] \in Nat
  OBVIOUS
<1>1. \A n \in Nat : (\A m \in 0..n - 1 : m \in S) => n \in S
  <2> SUFFICES ASSUME NEW n \in Nat, \A m \in 0..n - 1 : m \in S PROVE n \in S
    OBVIOUS
  <2>1. CASE n = 0
    <3> DEFINE g == [x \in Up(n) |-> B[x]]
    <3>1. \A x \in Up(n) : x \in E
      BY <1>0, <2>1
    <3>2. g \in [Up(n) -> T] /\ Right(g, n)
      BY <3>1
    <3> HIDE DEF g, Right
    <3> QED BY <3>2
  <2>2. CASE n # 0
    <3>1. PICK m \in Nat : n = m + 1
      <4>1. n - 1 \in Nat /\ n = (n - 1) + 1
        BY <2>2
      <4> QED BY <4>1
    <3>2. PICK g \in [Up(m) -> T] : Right(g, m)
      <4>1. m \in 0..n - 1
        BY <3>1
      <4> HIDE DEF Right
      <4> QED BY <4>1
    <3>3. \A x \in Up(n) : x \notin E => P[x] \in Up(m)
      BY <1>0, <3>1
    <3> DEFINE h == [x \in Up(n) |-> IF x \in E THEN B[x] ELSE D[x][g[P[x]]]]
    <3>4. \A x \in Up(n) : x \notin E => D[x][g[P[x]]] \in T
      <4> HIDE DEF Up, Right
      <4>1. \A x \in Up(n) : x \in X
        BY DEF Up
      <4> QED BY <3>3, <4>1
    <3>5. h \in [Up(n) -> T]
      <4>1. \A x \in Up(n) : x \in E => B[x] \in T
        OBVIOUS
      <4> HIDE DEF Up
      <4> QED BY <3>4, <4>1
    <3>6. \A x \in Up(m) : h[x] = g[x]
      <4>1. \A x \in Up(m) : x \in Up(n)
        BY <3>1
      <4> HIDE DEF Up
      <4> QED BY <3>2, <4>1
    <3>7. Right(h, n)
      <4> HIDE DEF Up
      <4>1. \A x \in Up(n) : x \in E => h[x] = B[x]
        OBVIOUS
      <4>2. \A x \in Up(n) : x \notin E => h[x] = D[x][h[P[x]]]
        BY <3>3, <3>6
      <4> HIDE DEF h
      <4> QED BY <4>1, <4>2
    <3> HIDE DEF h, Right, Up
    <3> QED BY <3>5, <3>7
  <2> QED BY <2>1, <2>2
<1> HIDE DEF S
<1>2. \A n \in Nat : n \in S
  BY <1>1, AllNumbers
<1> DEFINE G == [n \in Nat |-> CHOOSE g \in [Up(n) -> T] : Right(g, n)]
<1> HIDE DEF Up, Right
<1>3. \A n \in Nat : G[n] \in [Up(n) -> T] /\ Right(G[n], n)
  <2> SUFFICES ASSUME NEW n \in Nat PROVE G[n] \in [Up(n) -> T] /\ Right(G[n], n)
    OBVIOUS
  <2>1. \E g \in [Up(n) -> T] : Right(g, n)
    BY <1>2 DEF S
  <2> QED BY <2>1, Zenon
<1> HIDE DEF G
<1>4. \A n \in Nat : \A x \in X : x \in Up(n) <=> M[x] <= n
  BY DEF Up
<1> DEFINE A == {k \in Nat : \A x \in X : M[x] = k => \A n \in Nat : k <= n => G[n][x] = G[k][x]}
<1>5. \A k \in Nat : (\A m \in 0..k - 1 : m \in A) => k \in A
  <2> SUFFICES ASSUME NEW k \in Nat, \A m \in 0..k - 1 : m \in A,
                      NEW x \in X, M[x] = k, NEW n \in Nat, k <= n
               PROVE  G[n][x] = G[k][x]
    OBVIOUS
  <2>1. x \in Up(n) /\ x \in Up(k)
    BY <1>4
  <2>2. CASE x \in E
    <3>1. Right(G[n], n) /\ Right(G[k], k)
      BY <1>3
    <3>2. G[n][x] = B[x] /\ G[k][x] = B[x]
      BY <2>1, <2>2, <3>1, Zenon DEF Right
    <3> QED BY <3>2
  <2>3. CASE x \notin E
    <3>1. G[n][x] = D[x][G[n][P[x]]] /\ G[k][x] = D[x][G[k][P[x]]]
      BY <1>3, <2>1, <2>3, Zenon DEF Right
    <3>2. PICK m \in Nat : m = M[P[x]]
      BY <1>0, <2>3
    <3>3. m \in 0..k - 1 /\ m <= n /\ m <= k
      BY <1>0, <2>3, <3>2
    <3>4. P[x] \in X
      BY <1>0, <2>3
    <3>5. m \in A
      BY <3>3
    <3>6. G[n][P[x]] = G[m][P[x]] /\ G[k][P[x]] = G[m][P[x]]
      BY <3>2, <3>3, <3>4, <3>5
    <3> QED BY <3>1, <3>6
  <2> QED BY <2>2, <2>3
<1> HIDE DEF A
<1>6. \A k \in Nat : k \in A
  BY <1>5, AllNumbers
<1> DEFINE f == [x \in X |-> G[M[x]][x]]
<1>7. \A x \in X : f[x] \in T /\ x \in Up(M[x]) /\ Right(G[M[x]], M[x])
  <2> SUFFICES ASSUME NEW x \in X PROVE f[x] \in T /\ x \in Up(M[x]) /\ Right(G[M[x]], M[x])
    OBVIOUS
  <2>1. M[x] \in Nat
    OBVIOUS
  <2>2. x \in Up(M[x])
    BY <1>4, <2>1
  <2>3. G[M[x]] \in [Up(M[x]) -> T] /\ Right(G[M[x]], M[x])
    BY <1>3, <2>1
  <2> QED BY <2>2, <2>3
<1>8. \A x \in E : f[x] = B[x]
  <2>1. \A x \in E : G[M[x]][x] = B[x]
    BY <1>7, Zenon DEF Right
  <2> QED BY <2>1
<1>9. \A x \in X \ E : f[x] = D[x][f[P[x]]]
  <2> SUFFICES ASSUME NEW x \in X, x \notin E PROVE f[x] = D[x][f[P[x]]]
    OBVIOUS
  <2>1. G[M[x]][x] = D[x][G[M[x]][P[x]]]
    BY <1>7, Zenon DEF Right
  <2>2. PICK m \in Nat : m = M[P[x]]
    BY <1>0
  <2>3. m <= M[x] /\ P[x] \in X /\ M[x] \in Nat
    BY <1>0, <2>2
  <2>4. G[M[x]][P[x]] = G[m][P[x]]
    BY <1>6, <2>2, <2>3 DEF A
  <2> QED BY <2>1, <2>2, <2>3, <2>4
<1>10. f \in [X -> T]
  BY <1>7
<1> HIDE DEF f
<1> QED BY <1>8, <1>9, <1>10 DEF Descends
=============================================================================
