----------------------------- MODULE ListLemmas -----------------------------
(***************************************************************************)
(* Facts about numbers, sequences and linked lists that the proofs about   *)
(* the server's data structures share.                                     *)
(***************************************************************************)
EXTENDS Integers, Sequences, SequencesExt, SequenceTheorems, WellFoundedInduction, TLAPS

(* A non-empty set of natural numbers has a least element. *)
LEMMA LeastElement ==
  ASSUME NEW T, T \subseteq Nat, T # {}
  PROVE  \E x \in T : \A y \in T : x <= y
<1> DEFINE R == OpToRel(<, Nat)
<1>1. IsWellFoundedOn(R, Nat)
  BY NatLessThanWellFounded
<1>2. \A x, y \in T : y < x => << y, x >> \in R
  BY DEF OpToRel
<1> HIDE DEF R
<1>3. \E x \in T : \A y \in T : ~(<< y, x >> \in R)
  BY <1>1, WFMin
<1>4. PICK x \in T : \A y \in T : ~(<< y, x >> \in R)
  BY <1>3
<1>5. ASSUME NEW y \in T PROVE x <= y
  <2>1. x \in Nat /\ y \in Nat
    OBVIOUS
  <2>2. ~(y < x)
    BY <1>2, <1>4, Zenon
  <2> QED BY <2>1, <2>2
<1> QED BY <1>5

(* s lists n entries from b along the links p. *)
Chain(n, b, p, s) == s = [i \in 1..n |-> IF i = 1 THEN b ELSE p[s[i - 1]]]

(* A list is determined by its length, its first entry and its links. *)
LEMMA ChainUnique ==
  ASSUME NEW n \in Nat, NEW b, NEW p, NEW s, NEW w,
         Chain(n, b, p, s), Chain(n, b, p, w)
  PROVE  w = s
<1> DEFINE T == {i \in 1..n : w[i] # s[i]}
<1>1. ASSUME NEW i \in 1..n
      PROVE  /\ s[i] = IF i = 1 THEN b ELSE p[s[i - 1]]
             /\ w[i] = IF i = 1 THEN b ELSE p[w[i - 1]]
  BY DEF Chain
<1>2. T = {}
  <2> SUFFICES ASSUME T # {} PROVE FALSE
    OBVIOUS
  <2>1. T \subseteq Nat
    OBVIOUS
  <2>2. PICK i \in T : \A j \in T : i <= j
    <3> HIDE DEF T
    <3> QED BY LeastElement, <2>1
  <2>3. i \in 1..n /\ w[i] # s[i]
    BY <2>2
  <2>4. i # 1
    BY <1>1, <2>3
  <2>5. i - 1 \in 1..n /\ ~(i <= i - 1)
    BY <2>3, <2>4
  <2>6. w[i - 1] = s[i - 1]
    BY <2>2, <2>5
  <2>7. s[i] = p[s[i - 1]] /\ w[i] = p[w[i - 1]]
    BY <1>1, <2>3, <2>4
  <2> QED BY <2>3, <2>6, <2>7
<1>3. \A i \in 1..n : w[i] = s[i]
  BY <1>2
<1>4. /\ s = [i \in 1..n |-> s[i]]
      /\ w = [i \in 1..n |-> w[i]]
  BY DEF Chain
<1> HIDE DEF T
<1> QED BY <1>3, <1>4

-----------------------------------------------------------------------------
(* Recursive functions *)

(* Induction up to n, with the set of numbers for which a fact holds *)
LEMMA Reaches ==
  ASSUME NEW n \in Nat, NEW T, 0 \in T, \A i \in 1..n : i - 1 \in T => i \in T
  PROVE  \A i \in 0..n : i \in T
<1> DEFINE D == {i \in 0..n : i \notin T}
<1>1. D = {}
  <2> SUFFICES ASSUME D # {} PROVE FALSE
    OBVIOUS
  <2>1. D \subseteq Nat
    OBVIOUS
  <2>2. PICK i \in D : \A j \in D : i <= j
    <3> HIDE DEF D
    <3> QED BY LeastElement, <2>1
  <2>3. i \in 1..n /\ i \notin T
    BY <2>2
  <2>4. i - 1 \in 0..n /\ ~(i <= i - 1)
    BY <2>3
  <2>5. i - 1 \in T
    BY <2>2, <2>4
  <2> QED BY <2>3, <2>5
<1> QED BY <1>1

(* f starts with b and takes m steps of g. *)
Iterates(b, g, m, f) ==
  /\ f = [i \in 0..m |-> f[i]]
  /\ f[0] = b
  /\ \A i \in 1..m : f[i] = g[i][f[i - 1]]

(* The n steps of g, of which the i-th leads from S[i - 1] to S[i], can be *)
(* taken.                                                                  *)
LEMMA IterationExists ==
  ASSUME NEW n \in Nat, NEW S, NEW b, NEW g, b \in S[0],
         \A i \in 1..n : \A x \in S[i - 1] : g[i][x] \in S[i]
  PROVE  \E f : Iterates(b, g, n, f) /\ \A i \in 0..n : f[i] \in S[i]
<1> DEFINE P(m) == \E f : Iterates(b, g, m, f) /\ \A i \in 0..m : f[i] \in S[i]
           T == {m \in 0..n : P(m)}
<1>1. P(0)
  <2>1. PICK f : f = [i \in 0..0 |-> b]
    OBVIOUS
  <2>2. \A i \in 0..0 : i = 0 /\ f[i] = b
    BY <2>1
  <2>3. f = [i \in 0..0 |-> f[i]] /\ f[0] = b
    BY <2>1
  <2>4. Iterates(b, g, 0, f)
    BY <2>3 DEF Iterates
  <2> QED BY <2>2, <2>4
<1>2. ASSUME NEW m \in 1..n, P(m - 1) PROVE P(m)
  <2>1. PICK f : Iterates(b, g, m - 1, f) /\ \A i \in 0..(m - 1) : f[i] \in S[i]
    BY <1>2
  <2>2. PICK h : h = [i \in 0..m |-> IF i = m THEN g[m][f[m - 1]] ELSE f[i]]
    OBVIOUS
  <2>3. h = [i \in 0..m |-> h[i]] /\ h[m] = g[m][f[m - 1]]
    BY <2>2
  <2>4. \A i \in 0..(m - 1) : h[i] = f[i]
    BY <2>2
  <2>5. h[0] = b
    BY <2>1, <2>4 DEF Iterates
  <2>6. ASSUME NEW i \in 1..m PROVE h[i] = g[i][h[i - 1]]
    <3>1. i - 1 \in 0..(m - 1) /\ h[i - 1] = f[i - 1]
      BY <2>4
    <3>2. CASE i = m
      BY <3>1, <3>2, <2>3
    <3>3. CASE i # m
      <4>1. i \in 1..(m - 1) /\ i \in 0..(m - 1)
        BY <3>3
      <4>2. f[i] = g[i][f[i - 1]]
        BY <4>1, <2>1 DEF Iterates
      <4> QED BY <4>1, <4>2, <3>1, <2>4
    <3> QED BY <3>2, <3>3
  <2>7. ASSUME NEW i \in 0..m PROVE h[i] \in S[i]
    <3>1. CASE i = m
      <4>1. m - 1 \in 0..(m - 1)
        OBVIOUS
      <4>2. f[m - 1] \in S[m - 1]
        BY <4>1, <2>1
      <4> QED BY <3>1, <4>2, <2>3
    <3>2. CASE i # m
      <4>1. i \in 0..(m - 1)
        BY <3>2
      <4> QED BY <4>1, <2>1, <2>4
    <3> QED BY <3>1, <3>2
  <2>8. Iterates(b, g, m, h)
    BY <2>3, <2>5, <2>6 DEF Iterates
  <2> QED BY <2>7, <2>8
<1>3. \A i \in 0..n : i \in T
  <2>1. 0 \in T
    BY <1>1
  <2>2. ASSUME NEW i \in 1..n, i - 1 \in T PROVE i \in T
    BY <2>2, <1>2
  <2> HIDE DEF T
  <2> QED BY <2>1, <2>2, Reaches
<1>4. n \in T
  BY <1>3
<1> QED BY <1>4

-----------------------------------------------------------------------------
(* Sequences *)

(* Nothing is in s twice. *)
Different(s) == \A i, j \in 1..Len(s) : s[i] = s[j] => i = j

LEMMA ConcatContains ==
  ASSUME NEW S, NEW s \in Seq(S), NEW t \in Seq(S), NEW x
  PROVE  Contains(s \o t, x) <=> Contains(s, x) \/ Contains(t, x)
<1> DEFINE r == s \o t
<1>1. /\ Len(s) \in Nat /\ Len(t) \in Nat /\ Len(r) = Len(s) + Len(t)
      /\ \A i \in 1 .. Len(s) + Len(t) : r[i] = IF i <= Len(s) THEN s[i] ELSE t[i - Len(s)]
  BY ConcatProperties
<1> HIDE DEF r
<1>2. ASSUME Contains(r, x) PROVE Contains(s, x) \/ Contains(t, x)
  <2>1. PICK i \in 1 .. Len(s) + Len(t) : r[i] = x
    BY <1>1, <1>2 DEF Contains
  <2>2. CASE i <= Len(s)
    BY <2>1, <2>2, <1>1 DEF Contains
  <2>3. CASE ~(i <= Len(s))
    <3>1. i - Len(s) \in 1 .. Len(t) /\ t[i - Len(s)] = x
      BY <2>1, <2>3, <1>1
    <3> QED BY <3>1 DEF Contains
  <2> QED BY <2>2, <2>3
<1>3. ASSUME Contains(s, x) PROVE Contains(r, x)
  <2>1. PICK i \in 1 .. Len(s) : s[i] = x
    BY <1>3 DEF Contains
  <2>2. i \in 1 .. Len(r) /\ r[i] = x
    BY <2>1, <1>1
  <2> QED BY <2>2 DEF Contains
<1>4. ASSUME Contains(t, x) PROVE Contains(r, x)
  <2>1. PICK i \in 1 .. Len(t) : t[i] = x
    BY <1>4 DEF Contains
  <2>2. PICK j \in 1 .. Len(s) + Len(t) : j = i + Len(s)
    BY <1>1
  <2>3. ~(j <= Len(s)) /\ j - Len(s) = i
    BY <2>2, <1>1
  <2>4. r[j] = x
    BY <2>1, <2>3, <1>1
  <2> QED BY <2>4, <1>1 DEF Contains
<1> QED BY <1>2, <1>3, <1>4 DEF r

LEMMA ConcatDifferent ==
  ASSUME NEW S, NEW s \in Seq(S), NEW t \in Seq(S), Different(s), Different(t),
         \A x \in S : ~(Contains(s, x) /\ Contains(t, x))
  PROVE  Different(s \o t)
<1> DEFINE r == s \o t
<1>1. /\ Len(s) \in Nat /\ Len(t) \in Nat /\ Len(r) = Len(s) + Len(t)
      /\ \A i \in 1 .. Len(s) + Len(t) : r[i] = IF i <= Len(s) THEN s[i] ELSE t[i - Len(s)]
  BY ConcatProperties
<1> HIDE DEF r
<1>2. ASSUME NEW i \in 1 .. Len(s), NEW j \in 1 .. Len(t) PROVE s[i] # t[j]
  <2>1. s[i] \in S
    OBVIOUS
  <2>2. Contains(s, s[i])
    BY DEF Contains
  <2>3. ~Contains(t, s[i])
    BY <2>1, <2>2
  <2> QED BY <2>3 DEF Contains
<1>3. ASSUME NEW i \in 1 .. Len(r), NEW j \in 1 .. Len(r), r[i] = r[j] PROVE i = j
  <2>1. CASE i <= Len(s) /\ j <= Len(s)
    <3>1. i \in 1 .. Len(s) /\ j \in 1 .. Len(s) /\ s[i] = s[j]
      BY <2>1, <1>1, <1>3
    <3> QED BY <3>1 DEF Different
  <2>2. CASE i <= Len(s) /\ ~(j <= Len(s))
    <3>1. i \in 1 .. Len(s) /\ j - Len(s) \in 1 .. Len(t) /\ s[i] = t[j - Len(s)]
      BY <2>2, <1>1, <1>3
    <3> QED BY <3>1, <1>2
  <2>3. CASE ~(i <= Len(s)) /\ j <= Len(s)
    <3>1. j \in 1 .. Len(s) /\ i - Len(s) \in 1 .. Len(t) /\ s[j] = t[i - Len(s)]
      BY <2>3, <1>1, <1>3
    <3> QED BY <3>1, <1>2
  <2>4. CASE ~(i <= Len(s)) /\ ~(j <= Len(s))
    <3>1. i - Len(s) \in 1 .. Len(t) /\ j - Len(s) \in 1 .. Len(t) /\ t[i - Len(s)] = t[j - Len(s)]
      BY <2>4, <1>1, <1>3
    <3>2. i - Len(s) = j - Len(s)
      BY <3>1 DEF Different
    <3> QED BY <3>2, <1>1
  <2> QED BY <2>1, <2>2, <2>3, <2>4
<1>4. Different(r)
  BY <1>3 DEF Different
<1> QED BY <1>4 DEF r

LEMMA AppendContains ==
  ASSUME NEW S, NEW s \in Seq(S), NEW y \in S, NEW x
  PROVE  Contains(Append(s, y), x) <=> Contains(s, x) \/ x = y
<1> DEFINE r == Append(s, y)
<1>1. /\ Len(s) \in Nat /\ Len(r) = Len(s) + 1 /\ r[Len(s) + 1] = y
      /\ \A i \in 1 .. Len(s) : r[i] = s[i]
  BY AppendProperties
<1> HIDE DEF r
<1>2. ASSUME Contains(r, x) PROVE Contains(s, x) \/ x = y
  <2>1. PICK i \in 1 .. Len(s) + 1 : r[i] = x
    BY <1>1, <1>2 DEF Contains
  <2>2. CASE i = Len(s) + 1
    BY <2>1, <2>2, <1>1
  <2>3. CASE i # Len(s) + 1
    <3>1. i \in 1 .. Len(s) /\ s[i] = x
      BY <2>1, <2>3, <1>1
    <3> QED BY <3>1 DEF Contains
  <2> QED BY <2>2, <2>3
<1>3. ASSUME Contains(s, x) PROVE Contains(r, x)
  <2>1. PICK i \in 1 .. Len(s) : s[i] = x
    BY <1>3 DEF Contains
  <2>2. i \in 1 .. Len(r) /\ r[i] = x
    BY <2>1, <1>1
  <2> QED BY <2>2 DEF Contains
<1>4. ASSUME x = y PROVE Contains(r, x)
  <2>1. Len(s) + 1 \in 1 .. Len(r) /\ r[Len(s) + 1] = x
    BY <1>1, <1>4
  <2> QED BY <2>1 DEF Contains
<1> QED BY <1>2, <1>3, <1>4 DEF r

LEMMA AppendDifferent ==
  ASSUME NEW S, NEW s \in Seq(S), NEW y \in S, Different(s), ~Contains(s, y)
  PROVE  Different(Append(s, y))
<1> DEFINE r == Append(s, y)
<1>1. /\ Len(s) \in Nat /\ Len(r) = Len(s) + 1 /\ r[Len(s) + 1] = y
      /\ \A i \in 1 .. Len(s) : r[i] = s[i]
  BY AppendProperties
<1> HIDE DEF r
<1>2. \A i \in 1 .. Len(s) : r[i] # y
  BY <1>1 DEF Contains
<1>3. ASSUME NEW i \in 1 .. Len(s), NEW j \in 1 .. Len(s), r[i] = r[j] PROVE i = j
  BY <1>1, <1>3 DEF Different
<1>4. ASSUME NEW i \in 1 .. Len(r), NEW j \in 1 .. Len(r), r[i] = r[j] PROVE i = j
  <2>1. (i \in 1 .. Len(s) \/ i = Len(s) + 1) /\ (j \in 1 .. Len(s) \/ j = Len(s) + 1)
    BY <1>1
  <2> QED BY <2>1, <1>1, <1>2, <1>3, <1>4
<1>5. Different(r)
  BY <1>4 DEF Different
<1> QED BY <1>5 DEF r

LEMMA HeadContains ==
  ASSUME NEW S, NEW s \in Seq(S), s # << >>, NEW x
  PROVE  Contains(s, x) <=> x = Head(s) \/ Contains(Tail(s), x)
<1> DEFINE r == Tail(s)
<1>1. /\ Len(s) \in Nat /\ Len(r) = Len(s) - 1 /\ Head(s) = s[1] /\ Len(s) # 0
      /\ \A i \in 1 .. Len(r) : r[i] = s[i + 1]
  BY HeadTailProperties
<1> HIDE DEF r
<1>2. ASSUME Contains(s, x) PROVE x = Head(s) \/ Contains(r, x)
  <2>1. PICK i \in 1 .. Len(s) : s[i] = x
    BY <1>2 DEF Contains
  <2>2. CASE i # 1
    <3>1. i - 1 \in 1 .. Len(r) /\ (i - 1) + 1 = i
      BY <2>2, <1>1
    <3>2. r[i - 1] = s[i]
      BY <3>1, <1>1
    <3> QED BY <2>1, <3>1, <3>2 DEF Contains
  <2> QED BY <2>1, <2>2, <1>1
<1>3. ASSUME x = Head(s) PROVE Contains(s, x)
  BY <1>1, <1>3 DEF Contains
<1>4. ASSUME Contains(r, x) PROVE Contains(s, x)
  <2>1. PICK i \in 1 .. Len(r) : r[i] = x
    BY <1>4 DEF Contains
  <2>2. i + 1 \in 1 .. Len(s) /\ s[i + 1] = x
    BY <2>1, <1>1
  <2> QED BY <2>2 DEF Contains
<1> QED BY <1>2, <1>3, <1>4 DEF r

LEMMA TailDifferent ==
  ASSUME NEW S, NEW s \in Seq(S), s # << >>, Different(s)
  PROVE  Different(Tail(s)) /\ ~Contains(Tail(s), Head(s))
<1> DEFINE r == Tail(s)
<1>1. /\ Len(s) \in Nat /\ Len(r) = Len(s) - 1 /\ Head(s) = s[1] /\ Len(s) # 0
      /\ \A i \in 1 .. Len(r) : r[i] = s[i + 1]
  BY HeadTailProperties
<1> HIDE DEF r
<1>2. ASSUME NEW i \in 1 .. Len(r), NEW j \in 1 .. Len(r), r[i] = r[j] PROVE i = j
  <2>1. i + 1 \in 1 .. Len(s) /\ j + 1 \in 1 .. Len(s) /\ s[i + 1] = s[j + 1]
    BY <1>1, <1>2
  <2>2. i + 1 = j + 1
    BY <2>1 DEF Different
  <2> QED BY <2>2, <1>1
<1>3. ASSUME NEW i \in 1 .. Len(r) PROVE r[i] # Head(s)
  <2>1. i + 1 \in 1 .. Len(s) /\ 1 \in 1 .. Len(s) /\ r[i] = s[i + 1]
    BY <1>1
  <2>2. i + 1 # 1
    BY <1>1
  <2>3. s[i + 1] # s[1]
    BY <2>1, <2>2 DEF Different
  <2> QED BY <2>1, <2>3, <1>1
<1> QED BY <1>2, <1>3 DEF Different, Contains, r
=============================================================================
