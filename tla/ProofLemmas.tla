---------------------------- MODULE ProofLemmas ----------------------------
(***************************************************************************)
(* What several proofs need of the naturals, of functions defined by        *)
(* recursion and of sequences.                                              *)
(***************************************************************************)
EXTENDS Naturals, Sequences, SequencesExt, SequenceTheorems, WellFoundedInduction, TLAPS

(* Any set of naturals with an element has a least one.                     *)
LEMMA LeastNatural ==
    ASSUME NEW T \in SUBSET Nat, T # {}
    PROVE  \E x \in T : \A y \in T : x <= y
<1>1. IsWellFoundedOn(OpToRel(<, Nat), Nat)
  BY NatLessThanWellFounded
<1>2. PICK x \in T : \A y \in T : ~(<<y, x>> \in OpToRel(<, Nat))
  BY <1>1, WFMin
<1>3. \A y \in T : ~(y < x)
  BY <1>2 DEF OpToRel
<1> QED BY <1>3

(* Induction over the naturals, for a set in place of a predicate.          *)
LEMMA InductionOnNat ==
    ASSUME NEW T, 0 \in T, \A n \in Nat : n \in T => n + 1 \in T
    PROVE  Nat \subseteq T
<1> SUFFICES ASSUME Nat \ T # {} PROVE FALSE
  OBVIOUS
<1>1. PICK x \in Nat \ T : \A y \in Nat \ T : x <= y
  <2>1. Nat \ T \in SUBSET Nat
    OBVIOUS
  <2> QED BY <2>1, LeastNatural
<1>2. x # 0 /\ x - 1 \in Nat /\ ~(x <= x - 1) /\ (x - 1) + 1 = x
  BY <1>1
<1> QED BY <1>1, <1>2

(* Dividing by d leaves what is left of the multiples of d.                 *)
LEMMA DivisionIs ==
    ASSUME NEW n \in Nat, NEW d \in Nat \ {0}
    PROVE  n \div d \in Nat /\ d * (n \div d) <= n /\ n < d * (n \div d) + d
OBVIOUS

(* The quotient and the remainder.                                          *)
LEMMA DivisionIsUnique ==
    ASSUME NEW d \in Nat \ {0}, NEW q \in Nat, NEW r \in Nat, r < d
    PROVE  (d * q + r) \div d = q /\ (d * q + r) % d = r
<1> DEFINE n == d * q + r
           x == n \div d
<1>1. n \in Nat
  OBVIOUS
<1>2. x \in Nat /\ d * x <= n /\ n < d * x + d
  BY <1>1, DivisionIs
<1>3. n = d * q + r /\ d \in Nat \ {0} /\ q \in Nat /\ r \in Nat /\ r < d
  OBVIOUS
<1>5. n % d = n - d * x
  BY <1>1
<1> HIDE DEF n, x
<1>4. x = q
  <2>1. ~(x < q)
    <3>1. ASSUME x + 1 <= q PROVE FALSE
      <4>1. d * (x + 1) <= d * q
        BY <1>2, <1>3, <3>1
      <4> QED BY <4>1, <1>2, <1>3
    <3> QED BY <3>1, <1>2, <1>3
  <2>2. ~(q < x)
    <3>1. ASSUME q + 1 <= x PROVE FALSE
      <4>1. d * (q + 1) <= d * x
        BY <1>2, <1>3, <3>1
      <4> QED BY <4>1, <1>2, <1>3
    <3> QED BY <3>1, <1>2, <1>3
  <2> QED BY <2>1, <2>2, <1>2, <1>3
<1>6. n % d = r
  BY <1>3, <1>4, <1>5
<1> QED BY <1>4, <1>6 DEF n, x

(* Dividing by a and then by b divides by their product.                    *)
LEMMA DivisionTwice ==
    ASSUME NEW n \in Nat, NEW a \in Nat \ {0}, NEW b \in Nat \ {0}
    PROVE  (n \div a) \div b = n \div (a * b)
<1> DEFINE x == n \div a
           y == x \div b
           r == n - a * x
           t == x - b * y
<1>1. x \in Nat /\ a * x <= n /\ n < a * x + a
  BY DivisionIs
<1>2. y \in Nat /\ b * y <= x /\ x < b * y + b
  BY <1>1, DivisionIs
<1>3. r \in Nat /\ r < a /\ n = a * x + r
  BY <1>1
<1>4. t \in Nat /\ t <= b - 1 /\ x = b * y + t
  BY <1>1, <1>2
<1> HIDE DEF x, y, r, t
<1>5. n = (a * b) * y + (a * t + r)
  <2>1. a * x = (a * b) * y + a * t
    BY <1>1, <1>2, <1>4
  <2>2. a * x \in Nat /\ (a * b) * y \in Nat /\ a * t \in Nat
    BY <1>1, <1>2, <1>4
  <2> QED BY <2>1, <2>2, <1>3
<1>6. a * t + r \in Nat /\ a * t + r < a * b /\ a * b \in Nat \ {0}
  <2>1. a * t <= a * (b - 1)
    BY <1>4
  <2>2. a * (b - 1) = a * b - a
    OBVIOUS
  <2> QED BY <2>1, <2>2, <1>3, <1>4
<1>7. n \div (a * b) = y
  <2> DEFINE c == a * b
             e == a * t + r
  <2>1. c \in Nat \ {0} /\ e \in Nat /\ e < c /\ n = c * y + e
    BY <1>5, <1>6
  <2> HIDE DEF c, e
  <2>2. n \div c = y
    BY <2>1, <1>2, DivisionIsUnique
  <2> QED BY <2>2 DEF c
<1> QED BY <1>7 DEF x, y

(* What each value of a function inherits from the one before it.           *)
LEMMA Inherits ==
    ASSUME NEW n \in Nat, NEW X, NEW f, f[0] \in X[0],
           \A i \in 1 .. n : f[i - 1] \in X[i - 1] => f[i] \in X[i]
    PROVE  \A i \in 0 .. n : f[i] \in X[i]
<1> DEFINE T == {i \in Nat : i <= n => f[i] \in X[i]}
<1>1. 0 \in T
  OBVIOUS
<1>2. ASSUME NEW i \in Nat, i \in T PROVE i + 1 \in T
  <2> SUFFICES ASSUME i + 1 <= n PROVE f[i + 1] \in X[i + 1]
    OBVIOUS
  <2>1. i + 1 \in 1 .. n /\ (i + 1) - 1 = i /\ i <= n
    OBVIOUS
  <2> QED BY <1>2, <2>1
<1>3. Nat \subseteq T
  <2> HIDE DEF T
  <2> QED BY <1>1, <1>2, InductionOnNat
<1> QED BY <1>3

(* A recursive function exists: f[i] is a at 0, and after it what the       *)
(* function G[i] makes of f[i - 1].                                         *)
IsRun(f, n, a, G) == f = [i \in 0 .. n |-> IF i = 0 THEN a ELSE G[i][f[i - 1]]]

LEMMA Iterates ==
    ASSUME NEW n \in Nat, NEW G, NEW a
    PROVE  \E f : IsRun(f, n, a, G)
<1> DEFINE T == {m \in Nat : \E f : IsRun(f, m, a, G)}
<1>1. 0 \in T
  <2> DEFINE g == [i \in 0 .. 0 |-> a]
  <2>1. g = [i \in 0 .. 0 |-> IF i = 0 THEN a ELSE G[i][g[i - 1]]]
    OBVIOUS
  <2> QED BY <2>1 DEF IsRun
<1>2. ASSUME NEW m \in Nat, m \in T PROVE m + 1 \in T
  <2>1. PICK g : IsRun(g, m, a, G)
    BY <1>2
  <2> DEFINE h == [i \in 0 .. m + 1 |-> IF i <= m THEN g[i] ELSE G[m + 1][g[m]]]
             Step(f, i) == IF i = 0 THEN a ELSE G[i][f[i - 1]]
  <2>2. \A i \in 0 .. m : g[i] = Step(g, i)
    BY <2>1 DEF IsRun
  <2>3. \A i \in 0 .. m : h[i] = g[i]
    OBVIOUS
  <2>4. h[m + 1] = G[m + 1][g[m]]
    OBVIOUS
  <2>5. h = [i \in 0 .. m + 1 |-> h[i]]
    OBVIOUS
  <2> HIDE DEF h
  <2>6. ASSUME NEW i \in 0 .. m + 1 PROVE h[i] = Step(h, i)
    <3>1. CASE i = 0
      BY <2>2, <2>3, <3>1
    <3>2. CASE i \in 1 .. m
      <4>1. i - 1 \in 0 .. m /\ i \in 0 .. m /\ i # 0
        BY <3>2
      <4> QED BY <2>2, <2>3, <4>1
    <3>3. CASE i = m + 1
      <4>1. i - 1 = m /\ m \in 0 .. m /\ i # 0
        BY <3>3
      <4> QED BY <2>3, <2>4, <3>3, <4>1
    <3> QED BY <3>1, <3>2, <3>3
  <2>7. h = [i \in 0 .. m + 1 |-> Step(h, i)]
    BY <2>5, <2>6
  <2> QED BY <2>7 DEF IsRun
<1>3. Nat \subseteq T
  <2> HIDE DEF T
  <2> QED BY <1>1, <1>2, InductionOnNat
<1> QED BY <1>3

(* Such a function with its values in a set X[i] each.                      *)
IsRunIn(f, n, a, G, X) ==
    /\ f = [i \in 0 .. n |-> f[i]]
    /\ f[0] = a /\ \A i \in 1 .. n : f[i] = G[i][f[i - 1]]
    /\ \A i \in 0 .. n : f[i] \in X[i]

LEMMA IteratesIn ==
    ASSUME NEW n \in Nat, NEW G, NEW X, NEW a \in X[0],
           \A i \in 1 .. n : \A x \in X[i - 1] : G[i][x] \in X[i]
    PROVE  \E f : IsRunIn(f, n, a, G, X)
<1>1. PICK f : IsRun(f, n, a, G)
  BY Iterates
<1>2. \A i \in 0 .. n : f[i] = IF i = 0 THEN a ELSE G[i][f[i - 1]]
  BY <1>1 DEF IsRun
<1>3. f[0] = a /\ \A i \in 1 .. n : f[i] = G[i][f[i - 1]]
  <2>1. 0 \in 0 .. n /\ \A i \in 1 .. n : i \in 0 .. n /\ i # 0
    OBVIOUS
  <2> QED BY <1>2, <2>1
<1>4. \A i \in 0 .. n : f[i] \in X[i]
  BY <1>3, Inherits
<1>5. f = [i \in 0 .. n |-> f[i]]
  BY <1>1 DEF IsRun
<1> QED BY <1>3, <1>4, <1>5 DEF IsRunIn

(* A sequence without its k-th element, position by position.               *)
LEMMA RemoveAtIs ==
    ASSUME NEW S, NEW s \in Seq(S), NEW k \in 1 .. Len(s)
    PROVE  /\ RemoveAt(s, k) \in Seq(S) /\ Len(RemoveAt(s, k)) = Len(s) - 1
           /\ \A i \in 1 .. Len(s) - 1 : RemoveAt(s, k)[i] = IF i < k THEN s[i] ELSE s[i + 1]
<1> DEFINE l == SubSeq(s, 1, k - 1)
           r == SubSeq(s, k + 1, Len(s))
<1>1. l \in Seq(S) /\ Len(l) = k - 1 /\ \A i \in 1 .. k - 1 : l[i] = s[i]
  OBVIOUS
<1>2. r \in Seq(S) /\ Len(r) = Len(s) - k /\ \A i \in 1 .. Len(s) - k : r[i] = s[k + i]
  OBVIOUS
<1>3. Len(s) \in Nat
  OBVIOUS
<1> HIDE DEF l, r
<1>4. Len(l) + Len(r) = Len(s) - 1 /\ Len(l) = k - 1 /\ k \in Nat /\ k <= Len(s)
  BY <1>1, <1>2, <1>3
<1>5. /\ l \o r \in Seq(S) /\ Len(l \o r) = Len(l) + Len(r)
      /\ \A i \in 1 .. Len(l) + Len(r) : (l \o r)[i] = IF i <= Len(l) THEN l[i] ELSE r[i - Len(l)]
  BY <1>1, <1>2, ConcatProperties
<1>6. /\ l \o r \in Seq(S) /\ Len(l \o r) = Len(s) - 1
      /\ \A i \in 1 .. Len(s) - 1 : (l \o r)[i] = IF i <= k - 1 THEN l[i] ELSE r[i - (k - 1)]
  BY <1>4, <1>5
<1>7. ASSUME NEW i \in 1 .. Len(s) - 1
      PROVE  (l \o r)[i] = IF i < k THEN s[i] ELSE s[i + 1]
  <2>1. CASE i < k
    <3>1. i \in 1 .. k - 1 /\ i <= k - 1
      BY <2>1, <1>3, <1>4
    <3> QED BY <1>1, <1>6, <2>1, <3>1
  <2>2. CASE i >= k
    <3>1. i - (k - 1) \in 1 .. Len(s) - k /\ k + (i - (k - 1)) = i + 1 /\ ~(i <= k - 1)
      BY <2>2, <1>3, <1>4
    <3>2. r[i - (k - 1)] = s[i + 1]
      BY <1>2, <3>1
    <3> QED BY <1>4, <1>6, <2>2, <3>1, <3>2
  <2> QED BY <1>3, <1>4, <2>1, <2>2
<1> QED BY <1>6, <1>7 DEF l, r, RemoveAt

(* What FlattenSeq computes, from the first sequence on.                    *)
LEMMA FlattenSeqIs ==
    ASSUME NEW S, NEW seqs \in Seq(Seq(S))
    PROVE  \E f : /\ f[0] = <<>> /\ \A i \in 1 .. Len(seqs) : f[i] = f[i - 1] \o seqs[i]
                  /\ \A i \in 0 .. Len(seqs) : f[i] \in Seq(S)
                  /\ FlattenSeq(seqs) = f[Len(seqs)]
<1> DEFINE n == Len(seqs)
           G == [i \in 1 .. n |-> [t \in Seq(S) |-> t \o seqs[i]]]
           X == [i \in 0 .. n |-> Seq(S)]
           K(f) == f = [i \in 1 .. n |-> IF i = 1 THEN seqs[i] ELSE f[i - 1] \o seqs[i]]
<1>0. n \in Nat /\ \A i \in 1 .. n : seqs[i] \in Seq(S) /\ i - 1 \in 0 .. n /\ i \in 0 .. n
  OBVIOUS
<1>1. <<>> \in Seq(S)
  BY EmptySeq
<1>2. CASE n = 0
  <2>1. seqs = <<>>
    BY <1>2, EmptySeq
  <2>2. FlattenSeq(seqs) = <<>>
    BY <1>2, <2>1 DEF FlattenSeq
  <2> DEFINE f == [i \in {0} |-> <<>>]
  <2>3. f[0] = <<>> /\ f[0] \in Seq(S) /\ 1 .. n = {} /\ 0 .. n = {0}
    BY <1>1, <1>2
  <2> HIDE DEF f
  <2>4. /\ f[0] = <<>> /\ \A i \in 1 .. n : f[i] = f[i - 1] \o seqs[i]
        /\ \A i \in 0 .. n : f[i] \in Seq(S)
        /\ FlattenSeq(seqs) = f[n]
    BY <1>2, <2>2, <2>3
  <2> QED BY <2>4
<1>3. CASE n # 0
  <2>10. PICK f : IsRunIn(f, n, <<>>, G, X)
    <3>1. <<>> \in X[0]
      BY <1>0, <1>1
    <3>2. \A i \in 1 .. n : \A t \in X[i - 1] : G[i][t] \in X[i]
      <4> TAKE i \in 1 .. n
      <4> TAKE t \in X[i - 1]
      <4>1. t \in Seq(S) /\ X[i] = Seq(S)
        BY <1>0
      <4>2. G[i][t] = t \o seqs[i]
        BY <4>1
      <4>3. t \o seqs[i] \in Seq(S)
        BY <1>0, <4>1, ConcatProperties
      <4> QED BY <4>1, <4>2, <4>3
    <3> HIDE DEF X, G, n
    <3> QED BY <1>0, <3>1, <3>2, IteratesIn
  <2>1. f[0] = <<>> /\ (\A i \in 1 .. n : f[i] = G[i][f[i - 1]]) /\ \A i \in 0 .. n : f[i] \in X[i]
    <3> HIDE DEF X, G, n
    <3> QED BY <2>10 DEF IsRunIn
  <2>2. \A i \in 0 .. n : f[i] \in Seq(S)
    <3>1. \A i \in 0 .. n : X[i] = Seq(S)
      OBVIOUS
    <3> HIDE DEF X
    <3> QED BY <2>1, <3>1
  <2>3. \A i \in 1 .. n : f[i] = f[i - 1] \o seqs[i]
    <3> TAKE i \in 1 .. n
    <3>1. f[i - 1] \in Seq(S)
      BY <1>0, <2>2
    <3>2. G[i][f[i - 1]] = f[i - 1] \o seqs[i]
      BY <3>1
    <3> HIDE DEF G
    <3> QED BY <2>1, <3>2
  <2> DEFINE g == [i \in 1 .. n |-> f[i]]
  <2>4. K(g)
    <3>1. \A i \in 1 .. n : g[i] = IF i = 1 THEN seqs[i] ELSE g[i - 1] \o seqs[i]
      <4> TAKE i \in 1 .. n
      <4>1. CASE i = 1
        <5>1. f[i] = <<>> \o seqs[i]
          <6>1. i - 1 = 0
            BY <4>1
          <6> HIDE DEF G, X
          <6> QED BY <2>1, <2>3, <6>1
        <5>2. <<>> \o seqs[i] = seqs[i]
          BY <1>0, ConcatEmptySeq
        <5> QED BY <4>1, <5>1, <5>2
      <4>2. CASE i # 1
        <5>1. i - 1 \in 1 .. n
          BY <4>2
        <5> QED BY <2>3, <4>2, <5>1
      <4> QED BY <4>1, <4>2
    <3>2. g = [i \in 1 .. n |-> g[i]]
      OBVIOUS
    <3> HIDE DEF g
    <3> QED BY <3>1, <3>2
  <2> DEFINE k == CHOOSE h : K(h)
  <2>5. K(k)
    <3> HIDE DEF g, K
    <3> QED BY <2>4
  <2>6. FlattenSeq(seqs) = k[n]
    BY <1>3, Zenon DEF FlattenSeq
  <2> HIDE DEF k
  <2>7. \A i \in 1 .. n : k[i] = IF i = 1 THEN seqs[i] ELSE k[i - 1] \o seqs[i]
    BY <2>5
  <2> DEFINE h == [i \in 0 .. n |-> IF i = 0 THEN <<>> ELSE k[i]]
  <2>8. h[0] = <<>> /\ \A i \in 1 .. n : h[i] = h[i - 1] \o seqs[i]
    <3>1. h[0] = <<>>
      BY <1>0
    <3>2. ASSUME NEW i \in 1 .. n PROVE h[i] = h[i - 1] \o seqs[i]
      <4>1. CASE i = 1
        <5>1. h[i] = seqs[i] /\ h[i - 1] = <<>>
          BY <1>0, <2>7, <4>1
        <5>2. <<>> \o seqs[i] = seqs[i]
          BY <1>0, ConcatEmptySeq
        <5> HIDE DEF h
        <5> QED BY <5>1, <5>2
      <4>2. CASE i # 1
        <5>1. i - 1 # 0 /\ i # 0 /\ i \in 0 .. n /\ i - 1 \in 0 .. n
          BY <4>2
        <5> QED BY <2>7, <4>2, <5>1
      <4> QED BY <4>1, <4>2
    <3> QED BY <3>1, <3>2
  <2>9. h[n] = k[n]
    BY <1>0, <1>3
  <2>11. \A i \in 0 .. n : h[i] \in X[i]
    <3>1. X[0] = Seq(S) /\ \A i \in 1 .. n : X[i - 1] = Seq(S) /\ X[i] = Seq(S)
      BY <1>0
    <3> HIDE DEF h, X, n
    <3>2. h[0] \in X[0]
      BY <1>1, <2>8, <3>1
    <3>3. ASSUME NEW i \in 1 .. n, h[i - 1] \in X[i - 1] PROVE h[i] \in X[i]
      <4>1. h[i - 1] \in Seq(S) /\ seqs[i] \in Seq(S)
        BY <1>0, <3>1, <3>3
      <4>2. h[i - 1] \o seqs[i] \in Seq(S)
        BY <4>1, ConcatProperties
      <4> QED BY <2>8, <3>1, <4>2
    <3> QED BY <1>0, <3>2, <3>3, Inherits
  <2>12. \A i \in 0 .. n : h[i] \in Seq(S)
    <3>1. \A i \in 0 .. n : X[i] = Seq(S)
      OBVIOUS
    <3> HIDE DEF h, X, n
    <3> QED BY <2>11, <3>1
  <2> HIDE DEF h
  <2> QED BY <2>6, <2>8, <2>9, <2>12
<1> QED BY <1>2, <1>3

(* Concatenation associates.                                                *)
AreSeqs(S, x, y, z) == x \in Seq(S) /\ y \in Seq(S) /\ z \in Seq(S)

Associate(x, y, z) == (x \o y) \o z = x \o (y \o z)

LEMMA Associates == \A S, x, y, z : AreSeqs(S, x, y, z) => Associate(x, y, z)
<1> TAKE S, x, y, z
<1> SUFFICES ASSUME x \in Seq(S), y \in Seq(S), z \in Seq(S) PROVE Associate(x, y, z)
  BY DEF AreSeqs
<1> QED BY ConcatAssociative DEF Associate

(* The parts of a concatenation.                                            *)
LEMMA ConcatParts ==
    ASSUME NEW S, NEW s \in Seq(S), NEW t \in Seq(S)
    PROVE  /\ \A q \in 0 .. Len(s) : SubSeq(s \o t, 1, q) = SubSeq(s, 1, q)
           /\ SubSeq(s \o t, Len(s) + 1, Len(s \o t)) = t
<1> DEFINE w == s \o t
           n == Len(s)
<1>1. /\ w \in Seq(S) /\ Len(w) = n + Len(t) /\ n \in Nat /\ Len(t) \in Nat
      /\ \A i \in 1 .. n + Len(t) : w[i] = IF i <= n THEN s[i] ELSE t[i - n]
  BY ConcatProperties, LenProperties
<1>2. ASSUME NEW q \in 0 .. n PROVE SubSeq(w, 1, q) = SubSeq(s, 1, q)
  <2>1. CASE q = 0
    BY <2>1, SubSeqEmpty
  <2>2. CASE q # 0
    <3>1. 1 \in 1 .. n /\ q \in 1 .. n
      BY <1>1, <2>2
    <3> QED BY <3>1, SubSeqOfConcat1
  <2> QED BY <2>1, <2>2
<1>3. SubSeq(w, n + 1, Len(w)) = t
  <2> DEFINE u == SubSeq(w, n + 1, Len(w))
  <2> HIDE DEF w
  <2>1. n + 1 \in Int /\ Len(w) \in Int /\ \A i \in n + 1 .. Len(w) : w[i] \in S
    BY <1>1, ElementOfSeq
  <2>2. /\ u \in Seq(S) /\ Len(u) = (IF n + 1 <= Len(w) THEN Len(w) - (n + 1) + 1 ELSE 0)
        /\ \A i \in 1 .. Len(w) - (n + 1) + 1 : u[i] = w[n + 1 + i - 1]
    BY <2>1, SubSeqProperties
  <2> HIDE DEF u, n
  <2>3. Len(u) = Len(t)
    BY <1>1, <2>2
  <2>4. ASSUME NEW i \in 1 .. Len(t) PROVE u[i] = t[i]
    <3>1. i \in 1 .. Len(w) - (n + 1) + 1 /\ n + 1 + i - 1 \in 1 .. n + Len(t)
          /\ ~(n + 1 + i - 1 <= n) /\ (n + 1 + i - 1) - n = i
      BY <1>1
    <3> QED BY <1>1, <2>2, <3>1
  <2>5. u = t
    BY <2>2, <2>3, <2>4, SeqEqual
  <2> QED BY <2>5 DEF u
<1> QED BY <1>2, <1>3

(* A sequence t that starts as s does, up to k, and goes on with r; h is to *)
(* replace what it has from q to k.                                         *)
Spliceable(S, s, h, r, q, k, t) ==
    /\ s \in Seq(S) /\ h \in Seq(S) /\ r \in Seq(S)
    /\ q \in Nat /\ k \in Nat /\ q <= k /\ k <= Len(s)
    /\ t = SubSeq(s, 1, k) \o r

Spliced(s, h, r, q, k, t) ==
    (SubSeq(t, 1, q) \o h) \o SubSeq(t, k + 1, Len(t)) = SubSeq(s, 1, q) \o (h \o r)

LEMMA Splice ==
    \A S, s, h, r, q, k, t : Spliceable(S, s, h, r, q, k, t) => Spliced(s, h, r, q, k, t)
<1> TAKE S, s, h, r, q, k, t
<1>8. SUFFICES ASSUME Spliceable(S, s, h, r, q, k, t)
               PROVE  Spliced(s, h, r, q, k, t)
  OBVIOUS
<1>7. /\ s \in Seq(S) /\ h \in Seq(S) /\ r \in Seq(S)
      /\ q \in Nat /\ k \in Nat /\ q <= k /\ k <= Len(s)
      /\ t = SubSeq(s, 1, k) \o r
  BY <1>8 DEF Spliceable
<1> DEFINE a == SubSeq(s, 1, k)
           b == SubSeq(s, 1, q)
<1>0. Len(s) \in Nat /\ \A i \in 1 .. Len(s) : s[i] \in S
  BY <1>7, LenProperties
<1>1. a \in Seq(S) /\ Len(a) = k
  <2>1. 1 \in Int /\ k \in Int /\ \A i \in 1 .. k : s[i] \in S
    BY <1>0, <1>7
  <2>2. a \in Seq(S) /\ Len(a) = IF 1 <= k THEN k - 1 + 1 ELSE 0
    BY <2>1, SubSeqProperties
  <2> QED BY <1>7, <2>2
<1>2. b \in Seq(S)
  <2>1. 1 \in Int /\ q \in Int /\ \A i \in 1 .. q : s[i] \in S
    BY <1>0, <1>7
  <2> QED BY <2>1, SubSeqProperties
<1>3. SubSeq(a, 1, q) = b
  <2>1. CASE q = 0
    BY <2>1, SubSeqEmpty
  <2>2. CASE q # 0
    <3>1. 1 \in 1 .. Len(s) /\ k \in 1 .. Len(s) /\ 1 \in 1 .. k - 1 + 1 /\ q \in 1 .. k - 1 + 1
          /\ 1 + 1 - 1 = 1 /\ 1 + q - 1 = q
      BY <1>0, <1>7, <2>2
    <3>2. SubSeq(SubSeq(s, 1, k), 1, q) = SubSeq(s, 1 + 1 - 1, 1 + q - 1)
      BY <1>7, <3>1, SubSeqOfSubSeq
    <3> QED BY <3>1, <3>2
  <2> QED BY <2>1, <2>2
<1> HIDE DEF a, b
<1>4. t = a \o r
  BY <1>7 DEF a
<1>5. SubSeq(t, 1, q) = b /\ SubSeq(t, k + 1, Len(t)) = r
  <2>1. q \in 0 .. Len(a)
    BY <1>1, <1>7
  <2>2. SubSeq(a \o r, 1, q) = SubSeq(a, 1, q) /\ SubSeq(a \o r, Len(a) + 1, Len(a \o r)) = r
    BY <1>1, <1>7, <2>1, ConcatParts
  <2> QED BY <1>1, <1>3, <1>4, <2>2
<1>6. Associate(b, h, r)
  <2>1. AreSeqs(S, b, h, r)
    BY <1>2, <1>7 DEF AreSeqs
  <2> QED BY <2>1, Associates
<1>9. (SubSeq(t, 1, q) \o h) \o SubSeq(t, k + 1, Len(t)) = b \o (h \o r)
  BY Zenon, <1>5, <1>6 DEF Associate
<1> QED BY Zenon, <1>9 DEF b, Spliced
=============================================================================
