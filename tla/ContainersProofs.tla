-------------------------- MODULE ContainersProofs --------------------------
(***************************************************************************)
(* Proofs about the containers.                                            *)
(***************************************************************************)
EXTENDS Containers, ListLemmas, FiniteSetTheorems

-----------------------------------------------------------------------------
(* Sequences that list a set *)

(* s has every element of S once, and nothing else. *)
Lists(s, S) == s \in Seq(S) /\ Different(s) /\ \A x \in S : Contains(s, x)

(* AttrAt() finds the first entry with the key. *)
LEMMA KeyAt ==
  ASSUME NEW S, NEW s \in Seq(S), NEW k
  PROVE  \/ AttrAt(s, k) = 0 /\ \A i \in 1 .. Len(s) : s[i].key # k
         \/ AttrAt(s, k) \in 1 .. Len(s) /\ s[AttrAt(s, k)].key = k
<1> DEFINE I == {i \in 1 .. Len(s) : s[i].key = k}
<1>1. AttrAt(s, k) = IF I # {} THEN Min(I) ELSE 0
  BY DEF AttrAt, SelectInSeq
<1>2. Len(s) \in Nat
  OBVIOUS
<1>3. CASE I # {}
  <2>1. I \subseteq Nat
    OBVIOUS
  <2>2. PICK x \in I : \A y \in I : x <= y
    <3> HIDE DEF I
    <3> QED BY <2>1, <1>3, LeastElement
  <2>3. Min(I) \in I
    <3> HIDE DEF I
    <3> QED BY <2>2 DEF Min
  <2> QED BY <1>1, <1>3, <2>3
<1>4. CASE I = {}
  BY <1>1, <1>4
<1> QED BY <1>3, <1>4

LEMMA ReverseLists ==
  ASSUME NEW S, NEW s, Lists(s, S)
  PROVE  Lists(Reverse(s), S)
<1> DEFINE n == Len(s)
           r == Reverse(s)
<1>1. n \in Nat /\ s \in [1 .. n -> S] /\ s \in Seq(S)
  BY DEF Lists
<1>2. \A i \in 1 .. n : n - i + 1 \in 1 .. n
  BY <1>1
<1>3. r \in [1 .. n -> S] /\ \A i \in 1 .. n : r[i] = s[n - i + 1]
  BY <1>1, <1>2 DEF Reverse
<1> HIDE DEF r, n
<1>4. r \in Seq(S) /\ Len(r) = n
  BY <1>1, <1>3
<1>5. ASSUME NEW i \in 1 .. n, NEW j \in 1 .. n, r[i] = r[j] PROVE i = j
  <2>1. n - i + 1 \in 1 .. n /\ n - j + 1 \in 1 .. n
    BY <1>2
  <2>2. s[n - i + 1] = s[n - j + 1]
    BY <1>3, <1>5
  <2>3. n - i + 1 = n - j + 1
    BY <2>1, <2>2 DEF Lists, Different, n
  <2> QED BY <2>3, <1>1
<1>6. ASSUME NEW x \in S PROVE Contains(r, x)
  <2>1. PICK i \in 1 .. n : s[i] = x
    BY DEF Lists, Contains, n
  <2>2. n - i + 1 \in 1 .. n /\ n - (n - i + 1) + 1 = i
    BY <1>1, <1>2
  <2>3. r[n - i + 1] = x
    BY <2>1, <2>2, <1>3
  <2> QED BY <2>2, <2>3, <1>4 DEF Contains
<1>7. Lists(r, S)
  BY <1>4, <1>5, <1>6 DEF Lists, Different
<1> QED BY <1>7 DEF r

LEMMA AppendLists ==
  ASSUME NEW S, NEW s, Lists(s, S), NEW y, y \notin S
  PROVE  Lists(Append(s, y), S \cup {y})
<1> DEFINE T == S \cup {y}
<1>1. s \in Seq(T) /\ s \in Seq(S) /\ y \in T
  BY DEF Lists
<1>2. ~Contains(s, y)
  BY <1>1 DEF Contains
<1>3. Append(s, y) \in Seq(T)
  BY <1>1
<1> HIDE DEF T
<1>4. Different(Append(s, y))
  BY <1>1, <1>2, AppendDifferent DEF Lists
<1>5. ASSUME NEW x \in T PROVE Contains(Append(s, y), x)
  BY <1>1, AppendContains DEF Lists, T
<1> QED BY <1>3, <1>4, <1>5 DEF Lists, T

LEMMA ListsCardinality ==
  ASSUME NEW S, NEW s, Lists(s, S)
  PROVE  IsFiniteSet(S) /\ Cardinality(S) = Len(s) /\ ToSet(s) = S
<1> DEFINE n == Len(s)
<1>1. n \in Nat /\ s \in [1 .. n -> S] /\ DOMAIN s = 1 .. n
  BY DEF Lists
<1>2. \A x \in S : \E i \in 1 .. n : s[i] = x
  BY DEF Lists, Contains
<1>3. \A i, j \in 1 .. n : s[i] = s[j] => i = j
  BY DEF Lists, Different
<1> HIDE DEF n
<1>4. s \in Bijection(1 .. n, S)
  BY <1>1, <1>2, <1>3 DEF Bijection, Injection, Surjection, IsInjective
<1>5. ExistsBijection(1 .. n, S)
  BY <1>4 DEF ExistsBijection
<1>6. IsFiniteSet(1 .. n)
  BY <1>1, FS_Interval
<1>7. IsFiniteSet(S) /\ Cardinality(S) = n
  BY <1>1, <1>5, <1>6, FS_Bijection, FS_CountingElements
<1>8. ToSet(s) = S
  BY <1>1, <1>2 DEF ToSet
<1> QED BY <1>7, <1>8 DEF n

LEMMA RemoveAtFacts ==
  ASSUME NEW S, NEW s \in Seq(S), NEW p \in 1 .. Len(s)
  PROVE  /\ RemoveAt(s, p) \in Seq(S) /\ Len(RemoveAt(s, p)) = Len(s) - 1
         /\ \A i \in 1 .. Len(s) - 1 : RemoveAt(s, p)[i] = IF i < p THEN s[i] ELSE s[i + 1]
<1> DEFINE n == Len(s)
           a == SubSeq(s, 1, p - 1)
           b == SubSeq(s, p + 1, n)
<1>1. n \in Nat /\ p \in 1 .. n /\ \A i \in 1 .. n : s[i] \in S
  OBVIOUS
<1>2. /\ a \in Seq(S) /\ Len(a) = p - 1
      /\ \A i \in 1 .. p - 1 : a[i] = s[i]
  <2>1. \A i \in 1 .. p - 1 : s[i] \in S
    BY <1>1
  <2>2. /\ a \in Seq(S) /\ Len(a) = IF 1 <= p - 1 THEN (p - 1) - 1 + 1 ELSE 0
        /\ \A i \in 1 .. (p - 1) - 1 + 1 : a[i] = s[1 + i - 1]
    BY <2>1, SubSeqProperties
  <2> QED BY <2>2
<1>3. /\ b \in Seq(S) /\ Len(b) = n - p
      /\ \A i \in 1 .. n - p : b[i] = s[p + i]
  <2>1. \A i \in p + 1 .. n : s[i] \in S
    BY <1>1
  <2>2. /\ b \in Seq(S) /\ Len(b) = IF p + 1 <= n THEN n - (p + 1) + 1 ELSE 0
        /\ \A i \in 1 .. n - (p + 1) + 1 : b[i] = s[(p + 1) + i - 1]
    BY <1>1, <2>1, SubSeqProperties
  <2>3. n - (p + 1) + 1 = n - p /\ (~(p + 1 <= n) => n - p = 0)
    BY <1>1
  <2>4. ASSUME NEW i \in 1 .. n - p PROVE b[i] = s[p + i]
    <3>1. (p + 1) + i - 1 = p + i
      BY <1>1
    <3> QED BY <2>2, <2>3, <3>1
  <2> HIDE DEF b
  <2> QED BY <2>2, <2>3, <2>4
<1>4. RemoveAt(s, p) = a \o b
  BY DEF RemoveAt
<1> HIDE DEF a, b, n
<1>5. /\ a \o b \in Seq(S) /\ Len(a \o b) = n - 1
      /\ \A i \in 1 .. n - 1 : (a \o b)[i] = IF i <= p - 1 THEN a[i] ELSE b[i - (p - 1)]
  BY <1>1, <1>2, <1>3, ConcatProperties
<1>6. ASSUME NEW i \in 1 .. n - 1
      PROVE  (a \o b)[i] = IF i < p THEN s[i] ELSE s[i + 1]
  <2>1. CASE i < p
    <3>1. i \in 1 .. p - 1
      BY <2>1, <1>1
    <3> QED BY <1>2, <1>5, <2>1, <3>1
  <2>2. CASE ~(i < p)
    <3>1. i - (p - 1) \in 1 .. n - p /\ p + (i - (p - 1)) = i + 1 /\ ~(i <= p - 1)
      BY <1>1, <2>2
    <3>2. b[i - (p - 1)] = s[i + 1]
      BY <3>1, <1>3
    <3> QED BY <1>5, <2>2, <3>1, <3>2
  <2> QED BY <2>1, <2>2
<1> QED BY <1>4, <1>5, <1>6 DEF n

LEMMA RemoveLists ==
  ASSUME NEW S, NEW s, Lists(s, S), NEW p \in 1 .. Len(s)
  PROVE  Lists(RemoveAt(s, p), S \ {s[p]})
<1> DEFINE n == Len(s)
           r == RemoveAt(s, p)
           T == S \ {s[p]}
<1>1. n \in Nat /\ p \in 1 .. n /\ s \in Seq(S) /\ \A i \in 1 .. n : s[i] \in S
  BY DEF Lists
<1>2. /\ r \in Seq(S) /\ Len(r) = n - 1
      /\ \A i \in 1 .. n - 1 : r[i] = IF i < p THEN s[i] ELSE s[i + 1]
  BY <1>1, RemoveAtFacts
<1> HIDE DEF r, n
<1>3. \A i, j \in 1 .. n : s[i] = s[j] => i = j
  BY DEF Lists, Different, n
<1>4. ASSUME NEW i \in 1 .. n - 1 PROVE r[i] \in T
  <2>1. i \in 1 .. n /\ i + 1 \in 1 .. n
    BY <1>1
  <2> QED BY <2>1, <1>1, <1>2, <1>3
<1>5. r \in Seq(T)
  <2>1. r \in [1 .. n - 1 -> T] /\ n - 1 \in Nat
    BY <1>1, <1>2, <1>4
  <2> HIDE DEF T
  <2> QED BY <2>1
<1>6. ASSUME NEW i \in 1 .. n - 1, NEW j \in 1 .. n - 1, r[i] = r[j] PROVE i = j
  <2>1. i \in 1 .. n /\ i + 1 \in 1 .. n /\ j \in 1 .. n /\ j + 1 \in 1 .. n
    BY <1>1
  <2> QED BY <2>1, <1>1, <1>2, <1>3, <1>6
<1>7. ASSUME NEW x \in T PROVE Contains(r, x)
  <2>1. PICK i \in 1 .. n : s[i] = x
    BY DEF Lists, Contains, n
  <2>2. i # p
    BY <2>1
  <2>3. CASE i < p
    <3>1. i \in 1 .. n - 1 /\ r[i] = x
      BY <1>1, <1>2, <2>1, <2>3
    <3> QED BY <3>1, <1>2 DEF Contains
  <2>4. CASE i > p
    <3>1. i - 1 \in 1 .. n - 1 /\ ~(i - 1 < p) /\ (i - 1) + 1 = i
      BY <1>1, <2>4
    <3>2. r[i - 1] = x
      BY <1>2, <2>1, <3>1
    <3> QED BY <3>1, <3>2, <1>2 DEF Contains
  <2> QED BY <2>2, <2>3, <2>4, <1>1
<1> HIDE DEF T
<1>8. Lists(r, T)
  BY <1>2, <1>5, <1>6, <1>7 DEF Lists, Different
<1> QED BY <1>8 DEF r, T

LEMMA ReplaceLists ==
  ASSUME NEW S, NEW s, Lists(s, S), NEW p \in 1 .. Len(s), NEW y, y \notin S \ {s[p]}
  PROVE  Lists([s EXCEPT ![p] = y], (S \ {s[p]}) \cup {y})
<1> DEFINE n == Len(s)
           r == [s EXCEPT ![p] = y]
           T == (S \ {s[p]}) \cup {y}
<1>1. n \in Nat /\ p \in 1 .. n /\ s \in [1 .. n -> S]
  BY DEF Lists
<1>2. \A i, j \in 1 .. n : s[i] = s[j] => i = j
  BY DEF Lists, Different
<1>3. r = [i \in 1 .. n |-> IF i = p THEN y ELSE s[i]]
  BY <1>1
<1> HIDE DEF r, n
<1>4. \A i \in 1 .. n : r[i] = (IF i = p THEN y ELSE s[i]) /\ r[i] \in T
  BY <1>1, <1>2, <1>3
<1>5. r \in [1 .. n -> T]
  BY <1>3, <1>4
<1>6. r \in Seq(T) /\ Len(r) = n
  <2> HIDE DEF T
  <2> QED BY <1>1, <1>5
<1>7. ASSUME NEW i \in 1 .. n, NEW j \in 1 .. n, r[i] = r[j] PROVE i = j
  <2>1. \A l \in 1 .. n : l # p => s[l] \in S \ {s[p]}
    BY <1>1, <1>2
  <2> QED BY <2>1, <1>1, <1>2, <1>4, <1>7
<1>8. ASSUME NEW x \in T PROVE \E i \in 1 .. n : r[i] = x
  <2>1. CASE x = y
    BY <2>1, <1>1, <1>4
  <2>2. CASE x # y
    <3>1. x \in S /\ x # s[p]
      BY <2>2
    <3>2. PICK i \in 1 .. n : s[i] = x
      BY <3>1 DEF Lists, Contains, n
    <3> QED BY <3>1, <3>2, <1>4
  <2> QED BY <2>1, <2>2
<1> HIDE DEF T
<1>9. Lists(r, T)
  BY <1>6, <1>7, <1>8 DEF Lists, Different, Contains
<1> QED BY <1>9 DEF r, T

(* Picked() leaves what is in T. *)
LEMMA PickedLists ==
  ASSUME NEW S, NEW s, Lists(s, S), NEW T
  PROVE  Lists(Picked(s, T), S \cap T)
<1> DEFINE n == Len(s)
           W(h) == [i \in 0 .. n |-> IF i = 0 THEN << >> ELSE IF s[i] \in T THEN Append(h[i - 1], s[i]) ELSE h[i - 1]]
           f == CHOOSE h : h = W(h)
           g == [i \in 1 .. n |-> [q \in Seq(S) |-> IF s[i] \in T THEN Append(q, s[i]) ELSE q]]
           U == [i \in 0 .. n |-> Seq(S)]
<1>1. n \in Nat /\ s \in Seq(S) /\ \A i \in 1 .. n : s[i] \in S
  BY DEF Lists
<1>2. Picked(s, T) = f[n]
  BY DEF Picked
<1>3. f = W(f)
  <2>1. << >> \in U[0]
    BY <1>1
  <2>2. \A i \in 1 .. n : \A q \in U[i - 1] : g[i][q] \in U[i]
    <3>1. \A i \in 0 .. n : U[i] = Seq(S)
      OBVIOUS
    <3>2. \A i \in 1 .. n : i - 1 \in 0 .. n /\ i \in 0 .. n
      BY <1>1
    <3>3. \A i \in 1 .. n : \A q \in Seq(S) : g[i][q] \in Seq(S)
      BY <1>1
    <3> HIDE DEF U, g
    <3> QED BY <3>1, <3>2, <3>3
  <2>3. PICK h : Iterates(<< >>, g, n, h) /\ \A i \in 0 .. n : h[i] \in U[i]
    <3> HIDE DEF U, g
    <3> QED BY <1>1, <2>1, <2>2, IterationExists
  <2>4. ASSUME NEW i \in 1 .. n PROVE h[i] = IF s[i] \in T THEN Append(h[i - 1], s[i]) ELSE h[i - 1]
    <3>1. i - 1 \in 0 .. n
      BY <1>1
    <3>2. h[i - 1] \in Seq(S)
      BY <2>3, <3>1
    <3>3. h[i] = g[i][h[i - 1]]
      BY <2>3 DEF Iterates
    <3> QED BY <3>2, <3>3
  <2>5. h = [i \in 0 .. n |-> h[i]] /\ h[0] = << >>
    BY <2>3 DEF Iterates
  <2>6. h = W(h)
    <3>1. ASSUME NEW i \in 0 .. n
          PROVE  h[i] = IF i = 0 THEN << >> ELSE IF s[i] \in T THEN Append(h[i - 1], s[i]) ELSE h[i - 1]
      <4>1. i = 0 \/ i \in 1 .. n
        BY <1>1
      <4> QED BY <4>1, <2>4, <2>5
    <3>2. [i \in 0 .. n |-> h[i]] = W(h)
      BY <3>1
    <3> QED BY <3>2, <2>5
  <2> HIDE DEF W
  <2> QED BY <2>6
<1>4. ASSUME NEW i \in 0 .. n
      PROVE  f[i] = IF i = 0 THEN << >> ELSE IF s[i] \in T THEN Append(f[i - 1], s[i]) ELSE f[i - 1]
  <2> HIDE DEF f
  <2>1. W(f)[i] = IF i = 0 THEN << >> ELSE IF s[i] \in T THEN Append(f[i - 1], s[i]) ELSE f[i - 1]
    OBVIOUS
  <2> HIDE DEF W
  <2> QED BY <2>1, <1>3
<1> HIDE DEF f
<1> DEFINE D(i) == {s[j] : j \in 1 .. i} \cap T
           I == {i \in 0 .. n : Lists(f[i], D(i))}
<1>5. 0 \in I
  <2>1. f[0] = << >> /\ D(0) = {} /\ 0 \in 0 .. n
    BY <1>1, <1>4
  <2>2. Lists(<< >>, {})
    BY DEF Lists, Different
  <2> QED BY <2>1, <2>2
<1>6. ASSUME NEW i \in 1 .. n, i - 1 \in I PROVE i \in I
  <2>1. i \in 0 .. n /\ i # 0 /\ Lists(f[i - 1], D(i - 1))
    BY <1>1, <1>6
  <2>2. 1 .. i = (1 .. i - 1) \cup {i}
    BY <1>1
  <2>3. CASE s[i] \in T
    <3>1. D(i) = D(i - 1) \cup {s[i]}
      BY <2>2, <2>3
    <3>2. ASSUME NEW j \in 1 .. i - 1 PROVE s[j] # s[i]
      <4>1. j \in 1 .. n /\ j # i
        BY <1>1
      <4> QED BY <4>1 DEF Lists, Different
    <3>3. s[i] \notin D(i - 1)
      BY <3>2
    <3> HIDE DEF D
    <3>4. Lists(Append(f[i - 1], s[i]), D(i - 1) \cup {s[i]})
      BY <2>1, <3>3, AppendLists
    <3> QED BY <2>1, <2>3, <3>1, <3>4, <1>4
  <2>4. CASE s[i] \notin T
    <3>1. D(i) = D(i - 1)
      BY <2>2, <2>4
    <3> HIDE DEF D
    <3> QED BY <2>1, <2>4, <3>1, <1>4
  <2> QED BY <2>3, <2>4
<1>7. n \in I
  <2>1. \A i \in 0 .. n : i \in I
    <3> HIDE DEF I
    <3> QED BY <1>1, <1>5, <1>6, Reaches
  <2> HIDE DEF I
  <2> QED BY <2>1, <1>1
<1>8. D(n) = S \cap T
  <2>1. \A x \in S : \E j \in 1 .. n : x = s[j]
    BY DEF Lists, Contains
  <2> QED BY <2>1, <1>1
<1> HIDE DEF D
<1> QED BY <1>2, <1>7, <1>8

-----------------------------------------------------------------------------
(* The hash table *)

(* What the map m stands for, as the entries of a container *)
Entries(m) == {HashNode(k, m[k]) : k \in DOMAIN m}

(* The entries of m that belong into bucket b of n *)
InBucket(m, n, b) == {x \in Entries(m) : Bucket(x.key, n) = b}

(* The tables of size z that count n and have the chains d *)
HashTable(z, n, d) == [kind : {"hash"}, size : {z}, num : {n}, nodes : {d}]

LEMMA HashTableFields ==
  ASSUME NEW z, NEW n, NEW d, NEW h \in HashTable(z, n, d)
  PROVE  h.kind = "hash" /\ h.size = z /\ h.num = n /\ h.nodes = d
  BY DEF HashTable

LEMMA HashTableGrows ==
  ASSUME NEW z, NEW n, NEW d, NEW h \in HashTable(z, n, d), NEW y, NEW e
  PROVE  [h EXCEPT !.size = y, !.nodes = e] \in HashTable(y, n, e)
  BY DEF HashTable

LEMMA HashTableCounts ==
  ASSUME NEW z, NEW n, NEW d, NEW h \in HashTable(z, n, d), NEW y, NEW e
  PROVE  [h EXCEPT !.nodes = e, !.num = y] \in HashTable(z, y, e)
  BY DEF HashTable

(* Each chain lists the entries of m that belong into its bucket. *)
HashKeeps(h, m) ==
  /\ DOMAIN m \subseteq KeySet
  /\ h \in HashTable(h.size, h.num, h.nodes)
  /\ h.size \in Nat \ {0} /\ h.num \in Nat
  /\ h.nodes = [b \in 1 .. h.size |-> h.nodes[b]]
  /\ \A b \in 1 .. h.size : Lists(h.nodes[b], InBucket(m, h.size, b))
  /\ Cardinality(DOMAIN m) <= h.num

HashInv(h, m) == HashKeeps(h, m) /\ h.num < h.size

LEMMA EntryFacts ==
  ASSUME NEW m, NEW x \in Entries(m)
  PROVE  x.key \in DOMAIN m /\ x.value = m[x.key] /\ x = HashNode(x.key, m[x.key])
  BY DEF Entries, HashNode

LEMMA KeysFinite ==
  ASSUME NEW m, DOMAIN m \subseteq KeySet
  PROVE  IsFiniteSet(DOMAIN m) /\ Cardinality(DOMAIN m) \in Nat
  BY ContainersAssumption, FS_Subset, FS_CardinalityType

LEMMA BucketFacts ==
  ASSUME NEW k \in KeySet, NEW n \in Nat \ {0}
  PROVE  Hash[k] \in Nat /\ Bucket(k, n) \in 1 .. n
<1>1. Hash[k] \in Nat
  BY ContainersAssumption
<1>2. Hash[k] % n \in 0 .. n - 1
  BY <1>1
<1> QED BY <1>1, <1>2 DEF Bucket

LEMMA Multiples ==
  ASSUME NEW n \in Nat \ {0}, NEW d \in Int
  PROVE  (d <= -1 => n * d <= -n) /\ (d >= 2 => n * d >= 2 * n)
  OBVIOUS

LEMMA Division ==
  ASSUME NEW k \in Nat, NEW n \in Nat \ {0}
  PROVE  k % n \in 0 .. n - 1 /\ k \div n \in Nat /\ k = n * (k \div n) + (k % n)
  OBVIOUS

(* When the table doubles a key keeps its bucket or goes as far up as the  *)
(* table was large.                                                        *)
LEMMA BucketDoubles ==
  ASSUME NEW k \in KeySet, NEW n \in Nat \ {0}
  PROVE  Bucket(k, n * 2) = Bucket(k, n) \/ Bucket(k, n * 2) = Bucket(k, n) + n
<1> DEFINE x == Hash[k]
<1>0. x \in Nat /\ n * 2 \in Nat \ {0} /\ n * 2 = 2 * n
  BY BucketFacts
<1> HIDE DEF x
<1>1. PICK q \in Nat : q = x \div n
  BY <1>0, Division
<1>2. PICK r \in 0 .. n - 1 : r = x % n
  BY <1>0, Division
<1>3. PICK Q \in Nat : Q = x \div (n * 2)
  BY <1>0, Division
<1>4. PICK R \in 0 .. 2 * n - 1 : R = x % (n * 2)
  BY <1>0, Division
<1>5. x = n * q + r
  BY <1>0, <1>1, <1>2, Division
<1>6. x = (2 * n) * Q + R
  BY <1>0, <1>3, <1>4, Division
<1>7. PICK d \in Int : d = q - 2 * Q
  OBVIOUS
<1>8. n * d = n * q - (2 * n) * Q
  BY <1>7
<1>9. n * d = R - r
  BY <1>5, <1>6, <1>8
<1>10. d = 0 \/ d = 1
  <2>1. ~(d <= -1)
     BY <1>9, Multiples
  <2>2. ~(d >= 2)
     BY <1>9, Multiples
  <2> QED BY <2>1, <2>2
<1>11. R = r \/ R = r + n
  <2>1. CASE d = 0
    BY <2>1, <1>9
  <2>2. CASE d = 1
    BY <2>2, <1>9
  <2> QED BY <1>10, <2>1, <2>2
<1> QED BY <1>2, <1>4, <1>11 DEF Bucket, x

(* _hash_lookup_node() finds the node of a key if there is one. *)
LEMMA Lookup ==
  ASSUME NEW h, NEW m, HashKeeps(h, m), NEW k \in KeySet, NEW b, b = Bucket(k, h.size)
  PROVE  /\ b \in 1 .. h.size /\ Lists(h.nodes[b], InBucket(m, h.size, b))
         /\ \/ hash_lookup_node(h, k) = 0 /\ k \notin DOMAIN m
            \/ /\ k \in DOMAIN m /\ hash_lookup_node(h, k) \in 1 .. Len(h.nodes[b])
               /\ h.nodes[b][hash_lookup_node(h, k)] = HashNode(k, m[k])
<1> DEFINE c == h.nodes[b]
           S == InBucket(m, h.size, b)
<1>1. b \in 1 .. h.size /\ Lists(c, S)
  BY BucketFacts DEF HashKeeps
<1>2. hash_lookup_node(h, k) = AttrAt(c, k)
  BY DEF hash_lookup_node, AttrAt
<1>3. c \in Seq(S) /\ \A i \in 1 .. Len(c) : c[i] \in S
  BY <1>1 DEF Lists
<1>4. \/ AttrAt(c, k) = 0 /\ \A i \in 1 .. Len(c) : c[i].key # k
      \/ AttrAt(c, k) \in 1 .. Len(c) /\ c[AttrAt(c, k)].key = k
  BY <1>3, KeyAt
<1>5. ASSUME k \in DOMAIN m, \A i \in 1 .. Len(c) : c[i].key # k PROVE FALSE
  <2>1. HashNode(k, m[k]) \in S /\ HashNode(k, m[k]).key = k
    BY <1>5 DEF InBucket, Entries, HashNode
  <2>2. PICK i \in 1 .. Len(c) : c[i] = HashNode(k, m[k])
    BY <1>1, <2>1 DEF Lists, Contains
  <2> QED BY <2>1, <2>2, <1>5
<1>6. ASSUME NEW i \in 1 .. Len(c), c[i].key = k PROVE k \in DOMAIN m /\ c[i] = HashNode(k, m[k])
  <2>1. c[i] \in Entries(m)
    BY <1>3 DEF InBucket
  <2> QED BY <2>1, <1>6, EntryFacts
<1> HIDE DEF c, S
<1>7. \/ AttrAt(c, k) = 0 /\ k \notin DOMAIN m
      \/ /\ k \in DOMAIN m /\ AttrAt(c, k) \in 1 .. Len(c)
         /\ c[AttrAt(c, k)] = HashNode(k, m[k])
  BY <1>4, <1>5, <1>6
<1> QED BY <1>1, <1>2, <1>7 DEF c, S

(* _hash_resize() keeps the map. *)
LEMMA ResizeKeeps ==
  ASSUME NEW h, NEW m, HashKeeps(h, m), h.num <= h.size
  PROVE  HashInv(hash_resize(h), m)
<1> DEFINE n == h.size
           stay(b) == {x \in ToSet(h.nodes[b]) : Bucket(x.key, n * 2) = b}
           low(b)  == Picked(h.nodes[b], stay(b))
           high(b) == Reverse(Picked(h.nodes[b], ToSet(h.nodes[b]) \ stay(b)))
           nodes == [b \in 1 .. n * 2 |-> IF b <= n THEN low(b) ELSE high(b - n)]
           g == [h EXCEPT !.size = n * 2, !.nodes = nodes]
<1>0. n \in Nat \ {0} /\ h.num \in Nat /\ DOMAIN m \subseteq KeySet
  BY DEF HashKeeps
<1>1. CASE h.size > h.num
  BY <1>0, <1>1 DEF hash_resize, HashInv
<1>2. CASE ~(h.size > h.num)
  <2>1. hash_resize(h) = g
    BY <1>2 DEF hash_resize
  <2>2. g \in HashTable(n * 2, h.num, nodes)
    <3> HIDE DEF nodes
    <3> QED BY HashTableGrows DEF HashKeeps
  <2>3. ASSUME NEW b \in 1 .. n
        PROVE  /\ Lists(h.nodes[b], InBucket(m, n, b))
               /\ ToSet(h.nodes[b]) = InBucket(m, n, b)
               /\ InBucket(m, n, b) \cap stay(b) = InBucket(m, n * 2, b)
               /\ InBucket(m, n, b) \cap (ToSet(h.nodes[b]) \ stay(b)) = InBucket(m, n * 2, b + n)
    <3>1. Lists(h.nodes[b], InBucket(m, n, b))
      BY DEF HashKeeps
    <3>2. ToSet(h.nodes[b]) = InBucket(m, n, b)
      BY <3>1, ListsCardinality
    <3>3. ASSUME NEW x \in Entries(m)
          PROVE  /\ Bucket(x.key, n) \in 1 .. n
                 /\ Bucket(x.key, n * 2) = Bucket(x.key, n) \/ Bucket(x.key, n * 2) = Bucket(x.key, n) + n
      <4>1. x.key \in KeySet
        BY EntryFacts, <1>0
      <4> QED BY <4>1, <1>0, BucketFacts, BucketDoubles
    <3>4. ASSUME NEW x \in Entries(m)
          PROVE  /\ Bucket(x.key, n * 2) = b <=> Bucket(x.key, n) = b /\ Bucket(x.key, n * 2) = b
                 /\ Bucket(x.key, n * 2) = b + n <=> Bucket(x.key, n) = b /\ Bucket(x.key, n * 2) # b
      BY <3>3, <1>0
    <3> QED BY <3>1, <3>2, <3>4 DEF InBucket
  <2>4. ASSUME NEW b \in 1 .. n PROVE Lists(low(b), InBucket(m, n * 2, b))
    BY <2>3, PickedLists
  <2>5. ASSUME NEW b \in 1 .. n PROVE Lists(high(b), InBucket(m, n * 2, b + n))
    <3>1. Lists(Picked(h.nodes[b], ToSet(h.nodes[b]) \ stay(b)), InBucket(m, n * 2, b + n))
      BY <2>3, PickedLists
    <3> QED BY <3>1, ReverseLists
  <2> HIDE DEF low, high
  <2>6. ASSUME NEW b \in 1 .. n * 2 PROVE Lists(nodes[b], InBucket(m, n * 2, b))
    <3>1. CASE b <= n
      <4>1. b \in 1 .. n /\ nodes[b] = low(b)
        BY <3>1, <1>0
      <4> HIDE DEF nodes
      <4> QED BY <4>1, <2>4
    <3>2. CASE ~(b <= n)
      <4>1. b - n \in 1 .. n /\ nodes[b] = high(b - n) /\ (b - n) + n = b
        BY <3>2, <1>0
      <4> HIDE DEF nodes
      <4>2. Lists(high(b - n), InBucket(m, n * 2, (b - n) + n))
        BY <4>1, <2>5
      <4> QED BY <4>1, <4>2
    <3> QED BY <3>1, <3>2
  <2>7. nodes = [b \in 1 .. n * 2 |-> nodes[b]]
    OBVIOUS
  <2> HIDE DEF nodes, g
  <2>8. g.size = n * 2 /\ g.num = h.num /\ g.nodes = nodes
    BY <2>2, HashTableFields
  <2>9. n * 2 \in Nat \ {0} /\ h.num < n * 2
    BY <1>0
  <2>10. g \in HashTable(g.size, g.num, g.nodes)
    BY <2>2, <2>8
  <2>11. HashInv(g, m)
    <3>1. Cardinality(DOMAIN m) <= g.num
      BY <2>8 DEF HashKeeps
    <3> HIDE DEF n
    <3> QED BY <1>0, <2>6, <2>7, <2>8, <2>9, <2>10, <3>1 DEF HashInv, HashKeeps
  <2> QED BY <2>1, <2>11
<1> QED BY <1>1, <1>2

(* A map with one key set or taken away *)
LEMMA EntriesSet ==
  ASSUME NEW m, NEW k, NEW v
  PROVE  Entries(WithKey(m, k, v)) = {x \in Entries(m) : x.key # k} \cup {HashNode(k, v)}
<1> DEFINE w == WithKey(m, k, v)
<1>1. DOMAIN w = DOMAIN m \cup {k} /\ \A j \in DOMAIN w : w[j] = IF j = k THEN v ELSE m[j]
  BY DEF WithKey
<1> HIDE DEF w
<1>2. Entries(w) = {x \in Entries(m) : x.key # k} \cup {HashNode(k, v)}
  BY <1>1 DEF Entries, HashNode
<1> QED BY <1>2 DEF w

LEMMA EntriesDrop ==
  ASSUME NEW m, NEW k
  PROVE  Entries(WithoutKey(m, k)) = {x \in Entries(m) : x.key # k}
<1> DEFINE w == WithoutKey(m, k)
<1>1. DOMAIN w = DOMAIN m \ {k} /\ \A j \in DOMAIN w : w[j] = m[j]
  BY DEF WithoutKey
<1> HIDE DEF w
<1>2. Entries(w) = {x \in Entries(m) : x.key # k}
  BY <1>1 DEF Entries, HashNode
<1> QED BY <1>2 DEF w

(* The same bucket by bucket *)
LEMMA SetBucket ==
  ASSUME NEW m, NEW k, NEW v, NEW n, NEW b
  PROVE  InBucket(WithKey(m, k, v), n, b) =
           IF Bucket(k, n) = b THEN {x \in InBucket(m, n, b) : x.key # k} \cup {HashNode(k, v)}
           ELSE InBucket(m, n, b)
<1> DEFINE w == WithKey(m, k, v)
<1>1. Entries(w) = {x \in Entries(m) : x.key # k} \cup {HashNode(k, v)}
  BY EntriesSet
<1>2. \A x \in Entries(m) : x.key = k => Bucket(x.key, n) = Bucket(k, n)
  OBVIOUS
<1>3. HashNode(k, v).key = k
  BY DEF HashNode
<1> HIDE DEF w
<1>4. InBucket(w, n, b) =
        IF Bucket(k, n) = b THEN {x \in InBucket(m, n, b) : x.key # k} \cup {HashNode(k, v)}
        ELSE InBucket(m, n, b)
  BY <1>1, <1>2, <1>3 DEF InBucket
<1> QED BY <1>4 DEF w

LEMMA DropBucket ==
  ASSUME NEW m, NEW k, NEW n, NEW b
  PROVE  InBucket(WithoutKey(m, k), n, b) =
           IF Bucket(k, n) = b THEN {x \in InBucket(m, n, b) : x.key # k} ELSE InBucket(m, n, b)
<1> DEFINE w == WithoutKey(m, k)
<1>1. Entries(w) = {x \in Entries(m) : x.key # k}
  BY EntriesDrop
<1>2. \A x \in Entries(m) : x.key = k => Bucket(x.key, n) = Bucket(k, n)
  OBVIOUS
<1> HIDE DEF w
<1>3. InBucket(w, n, b) =
        IF Bucket(k, n) = b THEN {x \in InBucket(m, n, b) : x.key # k} ELSE InBucket(m, n, b)
  BY <1>1, <1>2 DEF InBucket
<1> QED BY <1>3 DEF w

(* The entries with other keys than that of one of them *)
LEMMA OtherKeys ==
  ASSUME NEW m, NEW n, NEW b, NEW k \in DOMAIN m, HashNode(k, m[k]) \in InBucket(m, n, b)
  PROVE  {x \in InBucket(m, n, b) : x.key # k} = InBucket(m, n, b) \ {HashNode(k, m[k])}
<1>1. ASSUME NEW x \in InBucket(m, n, b) PROVE x.key = k <=> x = HashNode(k, m[k])
  <2>1. x \in Entries(m)
    BY DEF InBucket
  <2>2. HashNode(k, m[k]).key = k
    BY DEF HashNode
  <2> QED BY <2>1, <2>2, EntryFacts
<1> QED BY <1>1

(* ne_hash_insert() and ne_hash_remove() keep the map. *)
LEMMA InsertKeeps ==
  ASSUME HashInv(box, means), NEW k \in KeySet, NEW v \in Items, ne_hash_insert(k, v)
  PROVE  HashInv(box', means')
<1> DEFINE n == box.size
           b == Bucket(k, n)
           i == hash_lookup_node(box, k)
           old == box.nodes[b]
           new == IF i # 0 THEN [old EXCEPT ![i] = HashNode(k, v)] ELSE Append(old, HashNode(k, v))
           d == [box.nodes EXCEPT ![b] = new]
           h == [box EXCEPT !.nodes = d, !.num = box.num + 1]
           w == WithKey(means, k, v)
<1>1. box' = hash_resize(h) /\ means' = w
  BY DEF ne_hash_insert
<1>2. HashKeeps(box, means) /\ box.num < n /\ n \in Nat \ {0} /\ box.num \in Nat /\ DOMAIN means \subseteq KeySet
  BY DEF HashInv, HashKeeps
<1>3. /\ b \in 1 .. n /\ Lists(old, InBucket(means, n, b))
      /\ \/ i = 0 /\ k \notin DOMAIN means
         \/ k \in DOMAIN means /\ i \in 1 .. Len(old) /\ old[i] = HashNode(k, means[k])
  BY <1>2, Lookup
<1>4. InBucket(w, n, b) = {x \in InBucket(means, n, b) : x.key # k} \cup {HashNode(k, v)}
  BY SetBucket
<1>5. Lists(new, InBucket(w, n, b))
  <2>1. HashNode(k, v).key = k
    BY DEF HashNode
  <2>2. CASE i = 0
    <3>1. \A x \in InBucket(means, n, b) : x.key # k
      BY <1>3, <2>2, EntryFacts DEF InBucket
    <3>2. HashNode(k, v) \notin InBucket(means, n, b)
      BY <2>1, <3>1
    <3>3. InBucket(w, n, b) = InBucket(means, n, b) \cup {HashNode(k, v)}
      BY <1>4, <3>1
    <3>4. new = Append(old, HashNode(k, v))
      BY <2>2
    <3> HIDE DEF old, new, i, b, w, n
    <3> QED BY <1>3, <3>2, <3>3, <3>4, AppendLists
  <2>3. CASE i # 0
    <3>1. k \in DOMAIN means /\ i \in 1 .. Len(old) /\ old[i] = HashNode(k, means[k]) /\ old[i] \in InBucket(means, n, b)
      BY <1>3, <2>3 DEF Lists
    <3>2. {x \in InBucket(means, n, b) : x.key # k} = InBucket(means, n, b) \ {old[i]}
      BY <3>1, OtherKeys
    <3>3. HashNode(k, v) \notin InBucket(means, n, b) \ {old[i]}
      BY <2>1, <3>2
    <3>4. new = [old EXCEPT ![i] = HashNode(k, v)]
      BY <2>3
    <3>5. InBucket(w, n, b) = (InBucket(means, n, b) \ {old[i]}) \cup {HashNode(k, v)}
      BY <1>4, <3>2
    <3>6. PICK S : S = InBucket(means, n, b)
      OBVIOUS
    <3>7. PICK y : y = HashNode(k, v)
      OBVIOUS
    <3> HIDE DEF old, new, i, b, w, n
    <3>8. Lists([old EXCEPT ![i] = y], (S \ {old[i]}) \cup {y})
      BY <1>3, <3>1, <3>3, <3>6, <3>7, ReplaceLists
    <3> QED BY <3>4, <3>5, <3>6, <3>7, <3>8
  <2> QED BY <2>2, <2>3
<1> HIDE DEF new, old, i
<1>6. d = [c \in 1 .. n |-> IF c = b THEN new ELSE box.nodes[c]]
  BY <1>2, <1>3 DEF HashKeeps
<1>7. h \in HashTable(n, box.num + 1, d)
  <2> HIDE DEF d
  <2> QED BY <1>2, HashTableCounts DEF HashKeeps
<1> HIDE DEF d, h
<1>8. h.size = n /\ h.num = box.num + 1 /\ h.nodes = d
  BY <1>7, HashTableFields
<1>9. ASSUME NEW c \in 1 .. n PROVE Lists(d[c], InBucket(w, n, c))
  <2>1. CASE c = b
    BY <1>5, <1>6, <2>1
  <2>2. CASE c # b
    <3>1. InBucket(w, n, c) = InBucket(means, n, c)
      BY <2>2, SetBucket
    <3>2. d[c] = box.nodes[c]
      BY <1>6, <2>2
    <3> HIDE DEF w
    <3> QED BY <1>2, <3>1, <3>2 DEF HashKeeps
  <2> QED BY <2>1, <2>2
<1>10. DOMAIN w = DOMAIN means \cup {k} /\ DOMAIN w \subseteq KeySet
  BY <1>2 DEF WithKey
<1>11. Cardinality(DOMAIN w) <= box.num + 1
  <2>1. IsFiniteSet(DOMAIN means) /\ Cardinality(DOMAIN means) \in Nat
    BY <1>2, KeysFinite
  <2>2. Cardinality(DOMAIN means) <= box.num
    BY <1>2 DEF HashKeeps
  <2>3. \/ Cardinality(DOMAIN means \cup {k}) = Cardinality(DOMAIN means)
        \/ Cardinality(DOMAIN means \cup {k}) = Cardinality(DOMAIN means) + 1
    BY <2>1, FS_AddElement
  <2> HIDE DEF w
  <2> QED BY <1>2, <1>10, <2>1, <2>2, <2>3
<1>12. d = [c \in 1 .. n |-> d[c]]
  BY <1>6
<1> HIDE DEF w, n
<1>13. HashKeeps(h, w) /\ h.num <= h.size
  BY <1>2, <1>7, <1>8, <1>9, <1>10, <1>11, <1>12 DEF HashKeeps
<1> QED BY <1>1, <1>13, ResizeKeeps

LEMMA RemoveKeeps ==
  ASSUME HashInv(box, means), NEW k \in KeySet, ne_hash_remove(k)
  PROVE  HashInv(box', means')
<1> DEFINE n == box.size
           b == Bucket(k, n)
           i == hash_lookup_node(box, k)
           old == box.nodes[b]
           d == [box.nodes EXCEPT ![b] = RemoveAt(old, i)]
           h == [box EXCEPT !.nodes = d, !.num = box.num - 1]
           w == WithoutKey(means, k)
<1>1. box' = h /\ means' = w /\ i # 0
  BY DEF ne_hash_remove
<1>2. HashKeeps(box, means) /\ box.num < n /\ n \in Nat \ {0} /\ box.num \in Nat /\ DOMAIN means \subseteq KeySet
  BY DEF HashInv, HashKeeps
<1>3. /\ b \in 1 .. n /\ Lists(old, InBucket(means, n, b))
      /\ k \in DOMAIN means /\ i \in 1 .. Len(old) /\ old[i] = HashNode(k, means[k])
  BY <1>1, <1>2, Lookup
<1>4. InBucket(w, n, b) = InBucket(means, n, b) \ {old[i]}
  <2>1. InBucket(w, n, b) = {x \in InBucket(means, n, b) : x.key # k}
    BY DropBucket
  <2>2. old[i] \in InBucket(means, n, b)
    BY <1>3 DEF Lists
  <2> QED BY <1>3, <2>1, <2>2, OtherKeys
<1>5. Lists(RemoveAt(old, i), InBucket(w, n, b))
  <2> HIDE DEF old, i, b, w, n
  <2> QED BY <1>3, <1>4, RemoveLists
<1> HIDE DEF old, i
<1>6. d = [c \in 1 .. n |-> IF c = b THEN RemoveAt(old, i) ELSE box.nodes[c]]
  BY <1>2, <1>3 DEF HashKeeps
<1>7. h \in HashTable(n, box.num - 1, d)
  <2> HIDE DEF d
  <2> QED BY <1>2, HashTableCounts DEF HashKeeps
<1> HIDE DEF d, h
<1>8. h.size = n /\ h.num = box.num - 1 /\ h.nodes = d
  BY <1>7, HashTableFields
<1>9. ASSUME NEW c \in 1 .. n PROVE Lists(d[c], InBucket(w, n, c))
  <2>1. CASE c = b
    BY <1>5, <1>6, <2>1
  <2>2. CASE c # b
    <3>1. InBucket(w, n, c) = InBucket(means, n, c)
      BY <2>2, DropBucket
    <3>2. d[c] = box.nodes[c]
      BY <1>6, <2>2
    <3> HIDE DEF w
    <3> QED BY <1>2, <3>1, <3>2 DEF HashKeeps
  <2> QED BY <2>1, <2>2
<1>10. DOMAIN w = DOMAIN means \ {k} /\ DOMAIN w \subseteq KeySet
  BY <1>2 DEF WithoutKey
<1>11. Cardinality(DOMAIN w) <= box.num - 1 /\ box.num - 1 \in Nat
  <2>1. IsFiniteSet(DOMAIN means) /\ Cardinality(DOMAIN means) \in Nat
    BY <1>2, KeysFinite
  <2>2. Cardinality(DOMAIN means) <= box.num
    BY <1>2 DEF HashKeeps
  <2>3. Cardinality(DOMAIN means \ {k}) = Cardinality(DOMAIN means) - 1
    BY <1>3, <2>1, FS_RemoveElement
  <2>4. Cardinality(DOMAIN w) \in Nat
    BY <1>10, KeysFinite
  <2> HIDE DEF w
  <2> QED BY <1>2, <1>10, <2>1, <2>2, <2>3, <2>4
<1>12. d = [c \in 1 .. n |-> d[c]]
  BY <1>6
<1> HIDE DEF w, n
<1>13. HashKeeps(h, w) /\ h.num < h.size
  BY <1>2, <1>7, <1>8, <1>9, <1>10, <1>11, <1>12 DEF HashKeeps
<1> QED BY <1>1, <1>13 DEF HashInv

LEMMA EmptyHash == HashInv(ne_hash_init, EmptyMap)
<1> DEFINE d == [b \in 1 .. HashSize |-> << >>]
           h == ne_hash_init
<1>1. h \in HashTable(HashSize, 0, d)
  BY DEF ne_hash_init, HashTable
<1>2. DOMAIN EmptyMap = {} /\ Cardinality(DOMAIN EmptyMap) = 0
  BY FS_EmptySet DEF EmptyMap
<1>3. \A b \in 1 .. HashSize : d[b] = << >>
  OBVIOUS
<1>4. d = [b \in 1 .. HashSize |-> d[b]]
  OBVIOUS
<1>5. \A b : InBucket(EmptyMap, HashSize, b) = {}
  BY <1>2 DEF InBucket, Entries
<1>6. Lists(<< >>, {})
  BY DEF Lists, Different
<1> HIDE DEF d, h
<1>7. h.size = HashSize /\ h.num = 0 /\ h.nodes = d
  BY <1>1, HashTableFields
<1>8. \A b \in 1 .. h.size : Lists(h.nodes[b], InBucket(EmptyMap, h.size, b))
  BY <1>3, <1>5, <1>6, <1>7
<1>9. h.size \in Nat \ {0} /\ h.num \in Nat /\ h.num < h.size
  BY <1>7, ContainersAssumption
<1>10. h \in HashTable(h.size, h.num, h.nodes)
  BY <1>1, <1>7
<1>11. HashInv(h, EmptyMap)
  BY <1>2, <1>4, <1>7, <1>8, <1>9, <1>10 DEF HashInv, HashKeeps
<1> QED BY <1>11 DEF h

(* The keys in the buckets before b, and those up to place i of bucket b *)
Before(h, b) == {k \in KeySet : \E c \in 1 .. h.size : c < b /\ \E j \in 1 .. Len(h.nodes[c]) : h.nodes[c][j].key = k}
UpTo(h, b, i) == Before(h, b) \cup {h.nodes[b][j].key : j \in 1 .. i}

(* Each key is at one place. *)
Placed(h, m) ==
  /\ h.size \in Nat \ {0} /\ DOMAIN m \subseteq KeySet
  /\ \A c \in 1 .. h.size : h.nodes[c] \in Seq(Entries(m)) /\ Len(h.nodes[c]) \in Nat
  /\ \A c \in 1 .. h.size : \A j \in 1 .. Len(h.nodes[c]) :
       /\ h.nodes[c][j].key \in DOMAIN m /\ h.nodes[c][j].key \in KeySet
       /\ Bucket(h.nodes[c][j].key, h.size) = c
       /\ \A i \in 1 .. Len(h.nodes[c]) : h.nodes[c][i].key = h.nodes[c][j].key => i = j
  /\ \A k \in DOMAIN m : \E c \in 1 .. h.size : \E j \in 1 .. Len(h.nodes[c]) : h.nodes[c][j].key = k

LEMMA Places ==
  ASSUME NEW h, NEW m, HashKeeps(h, m)
  PROVE  Placed(h, m)
<1>1. h.size \in Nat \ {0} /\ DOMAIN m \subseteq KeySet
  BY DEF HashKeeps
<1>2. ASSUME NEW c \in 1 .. h.size
      PROVE  /\ Lists(h.nodes[c], InBucket(m, h.size, c)) /\ h.nodes[c] \in Seq(Entries(m)) /\ Len(h.nodes[c]) \in Nat
             /\ \A j \in 1 .. Len(h.nodes[c]) : h.nodes[c][j] \in InBucket(m, h.size, c)
  <2>1. Lists(h.nodes[c], InBucket(m, h.size, c))
    BY DEF HashKeeps
  <2>2. InBucket(m, h.size, c) \subseteq Entries(m)
    BY DEF InBucket
  <2>3. h.nodes[c] \in Seq(InBucket(m, h.size, c))
    BY <2>1 DEF Lists
  <2> QED BY <2>1, <2>2, <2>3
<1>3. ASSUME NEW c \in 1 .. h.size, NEW j \in 1 .. Len(h.nodes[c])
      PROVE  /\ h.nodes[c][j].key \in DOMAIN m /\ h.nodes[c][j].key \in KeySet
             /\ Bucket(h.nodes[c][j].key, h.size) = c
             /\ \A i \in 1 .. Len(h.nodes[c]) : h.nodes[c][i].key = h.nodes[c][j].key => i = j
  <2>1. \A i \in 1 .. Len(h.nodes[c]) : h.nodes[c][i] \in Entries(m) /\ Bucket(h.nodes[c][i].key, h.size) = c
    BY <1>2 DEF InBucket
  <2>2. \A i \in 1 .. Len(h.nodes[c]) : h.nodes[c][i].key = h.nodes[c][j].key => h.nodes[c][i] = h.nodes[c][j]
    BY <2>1, EntryFacts
  <2>3. \A i \in 1 .. Len(h.nodes[c]) : h.nodes[c][i] = h.nodes[c][j] => i = j
    BY <1>2 DEF Lists, Different
  <2>4. h.nodes[c][j].key \in DOMAIN m
    BY <2>1, EntryFacts
  <2> QED BY <1>1, <2>1, <2>2, <2>3, <2>4, ContainersAssumption
<1>4. ASSUME NEW k \in DOMAIN m
      PROVE  \E c \in 1 .. h.size : \E j \in 1 .. Len(h.nodes[c]) : h.nodes[c][j].key = k
  <2>1. HashNode(k, m[k]) \in Entries(m) /\ HashNode(k, m[k]).key = k
    BY DEF Entries, HashNode
  <2>2. PICK c \in 1 .. h.size : c = Bucket(k, h.size)
    BY <1>1, BucketFacts
  <2>3. HashNode(k, m[k]) \in InBucket(m, h.size, c)
    BY <2>1, <2>2 DEF InBucket
  <2>4. PICK j \in 1 .. Len(h.nodes[c]) : h.nodes[c][j] = HashNode(k, m[k])
    BY <1>2, <2>3 DEF Lists, Contains
  <2> QED BY <2>1, <2>4
<1> QED BY <1>1, <1>2, <1>3, <1>4 DEF Placed

(* The key k follows the keys in S. *)
Follows(h, S, k) ==
  \E c \in 1 .. h.size : \E j \in 1 .. Len(h.nodes[c]) :
    k = h.nodes[c][j].key /\ k \notin S /\ UpTo(h, c, j) = S \cup {k}

LEMMA FirstFollows ==
  ASSUME NEW h, NEW m, HashKeeps(h, m), NEW b \in 1 .. h.size + 1
  PROVE  \/ FirstFrom(h, b) = << >> /\ Before(h, b) = DOMAIN m
         \/ \E k : FirstFrom(h, b) = << k >> /\ Follows(h, Before(h, b), k)
<1> DEFINE full == {c \in b .. h.size : h.nodes[c] # << >>}
<1>0. Placed(h, m)
  BY Places
<1>1. /\ h.size \in Nat /\ b \in Nat /\ b >= 1 /\ DOMAIN m \subseteq KeySet
      /\ \A c \in 1 .. h.size : h.nodes[c] \in Seq(Entries(m)) /\ Len(h.nodes[c]) \in Nat
  BY <1>0 DEF Placed
<1>2. CASE full = {}
  <2>1. FirstFrom(h, b) = << >>
    BY <1>2 DEF FirstFrom
  <2>2. ASSUME NEW c \in 1 .. h.size, NEW j \in 1 .. Len(h.nodes[c]) PROVE c < b
    <3>1. h.nodes[c] # << >>
      BY <1>1
    <3> QED BY <1>1, <1>2, <3>1
  <2>3. ASSUME NEW k \in DOMAIN m PROVE k \in Before(h, b)
    <3>1. k \in KeySet /\ \E c \in 1 .. h.size : \E j \in 1 .. Len(h.nodes[c]) : h.nodes[c][j].key = k
      BY <1>0 DEF Placed
    <3> QED BY <2>2, <3>1 DEF Before
  <2>4. ASSUME NEW k \in Before(h, b) PROVE k \in DOMAIN m
    BY <1>0 DEF Before, Placed
  <2> QED BY <2>1, <2>3, <2>4
<1>3. CASE full # {}
  <2> DEFINE c == CHOOSE x \in full : \A y \in full : x <= y
  <2>1. FirstFrom(h, b) = << h.nodes[c][1].key >>
    BY <1>3 DEF FirstFrom
  <2>2. c \in full /\ \A y \in full : c <= y
    <3>1. full \subseteq Nat
      BY <1>1
    <3> HIDE DEF full
    <3>2. \E x \in full : \A y \in full : x <= y
      BY <1>3, <3>1, LeastElement
    <3> QED BY <3>2
  <2> HIDE DEF c
  <2>3. c \in 1 .. h.size /\ c >= b /\ Len(h.nodes[c]) \in Nat /\ 1 \in 1 .. Len(h.nodes[c])
    BY <1>1, <2>2
  <2> DEFINE k == h.nodes[c][1].key
  <2>4. k \in KeySet /\ Bucket(k, h.size) = c
    BY <2>3, <1>0 DEF Placed
  <2>5. Before(h, c) = Before(h, b)
    <3>1. ASSUME NEW a \in 1 .. h.size, NEW j \in 1 .. Len(h.nodes[a]), a < c PROVE a < b
      <4>1. h.nodes[a] # << >>
        BY <1>1
      <4>2. a \notin full
        BY <2>2, <2>3, <3>1
      <4> QED BY <1>1, <4>1, <4>2
    <3>2. \A a \in 1 .. h.size : a < b => a < c
      BY <1>1, <2>3
    <3> QED BY <3>1, <3>2 DEF Before
  <2>6. k \notin Before(h, b)
    <3>1. ASSUME NEW a \in 1 .. h.size, a < b, NEW j \in 1 .. Len(h.nodes[a]), h.nodes[a][j].key = k PROVE FALSE
      <4>1. Bucket(k, h.size) = a
        BY <3>1, <1>0 DEF Placed
      <4> QED BY <4>1, <2>3, <2>4, <3>1, <1>1
    <3> QED BY <3>1 DEF Before
  <2>7. {h.nodes[c][j].key : j \in 1 .. 1} = {k}
    OBVIOUS
  <2>8. UpTo(h, c, 1) = Before(h, b) \cup {k}
    BY <2>5, <2>7 DEF UpTo
  <2>9. Follows(h, Before(h, b), k)
    BY <2>3, <2>6, <2>8 DEF Follows
  <2> QED BY <2>1, <2>9
<1> QED BY <1>2, <1>3

LEMMA NextFollows ==
  ASSUME NEW h, NEW m, HashKeeps(h, m), NEW b \in 1 .. h.size, NEW i \in 1 .. Len(h.nodes[b]),
         NEW k, k = h.nodes[b][i].key, k # NULL
  PROVE  \/ ne_hash_next(h, k) = << >> /\ UpTo(h, b, i) = DOMAIN m
         \/ \E l : ne_hash_next(h, k) = << l >> /\ Follows(h, UpTo(h, b, i), l)
<1>0. Placed(h, m)
  BY Places
<1>1. /\ h.size \in Nat \ {0} /\ Len(h.nodes[b]) \in Nat
      /\ k \in KeySet /\ k \in DOMAIN m /\ Bucket(k, h.size) = b
  BY <1>0 DEF Placed
<1>2. hash_lookup_node(h, k) = i
  <2>1. hash_lookup_node(h, k) \in 1 .. Len(h.nodes[b]) /\ h.nodes[b][hash_lookup_node(h, k)] = HashNode(k, m[k])
    BY <1>1, Lookup
  <2>2. h.nodes[b][hash_lookup_node(h, k)].key = k
    BY <2>1 DEF HashNode
  <2> QED BY <2>1, <2>2, <1>0 DEF Placed
<1>3. ne_hash_next(h, k) = IF i < Len(h.nodes[b]) THEN << h.nodes[b][i + 1].key >> ELSE FirstFrom(h, b + 1)
  BY <1>1, <1>2 DEF ne_hash_next
<1>4. CASE i < Len(h.nodes[b])
  <2> DEFINE l == h.nodes[b][i + 1].key
  <2>1. i + 1 \in 1 .. Len(h.nodes[b]) /\ 1 .. i + 1 = (1 .. i) \cup {i + 1}
    BY <1>1, <1>4
  <2>2. Bucket(l, h.size) = b
    BY <2>1, <1>0 DEF Placed
  <2>3. ASSUME NEW j \in 1 .. i PROVE h.nodes[b][j].key # l
    <3>1. j \in 1 .. Len(h.nodes[b]) /\ j # i + 1
      BY <1>1
    <3> QED BY <3>1, <2>1, <1>0 DEF Placed
  <2>4. l \notin Before(h, b)
    <3>1. ASSUME NEW a \in 1 .. h.size, a < b, NEW j \in 1 .. Len(h.nodes[a]), h.nodes[a][j].key = l PROVE FALSE
      <4>1. Bucket(l, h.size) = a
        BY <3>1, <1>0 DEF Placed
      <4> QED BY <4>1, <2>2, <3>1, <1>1
    <3> QED BY <3>1 DEF Before
  <2>5. l \notin UpTo(h, b, i) /\ UpTo(h, b, i + 1) = UpTo(h, b, i) \cup {l}
    BY <2>1, <2>3, <2>4 DEF UpTo
  <2>6. Follows(h, UpTo(h, b, i), l)
    <3> HIDE DEF l
    <3> QED BY <2>1, <2>5 DEF Follows, l
  <2> QED BY <1>3, <1>4, <2>6
<1>5. CASE ~(i < Len(h.nodes[b]))
  <2>1. i = Len(h.nodes[b]) /\ b + 1 \in 1 .. h.size + 1
    BY <1>1, <1>5
  <2>2. UpTo(h, b, i) = Before(h, b + 1)
    <3>1. \A j \in 1 .. Len(h.nodes[b]) : h.nodes[b][j].key \in KeySet
      BY <1>0 DEF Placed
    <3>2. \A a \in 1 .. h.size : a < b + 1 <=> a < b \/ a = b
      BY <1>1
    <3> QED BY <2>1, <3>1, <3>2 DEF UpTo, Before
  <2>3. ne_hash_next(h, k) = FirstFrom(h, b + 1)
    BY <1>3, <1>5
  <2> QED BY <2>1, <2>2, <2>3, FirstFollows
<1> QED BY <1>4, <1>5

(* A loop over the table has met the keys in s. *)
Met(h, s) ==
  \/ s = << >>
  \/ \E c \in 1 .. h.size : \E j \in 1 .. Len(h.nodes[c]) : Last(s) = h.nodes[c][j].key /\ Lists(s, UpTo(h, c, j))

LEMMA VisitStep ==
  ASSUME NEW h, NEW m, HashKeeps(h, m), NULL \notin DOMAIN m, NEW s, Met(h, s), s \in Seq(KeySet)
  PROVE  /\ VisitOn(h, s) \in Seq(KeySet) /\ Met(h, VisitOn(h, s))
         /\ \/ VisitOn(h, s) = s /\ Lists(s, DOMAIN m)
            \/ Len(VisitOn(h, s)) = Len(s) + 1
<1> DEFINE w == ne_hash_next(h, IF s = << >> THEN NULL ELSE Last(s))
<1>0. Placed(h, m)
  BY Places
<1>1. PICK S : /\ Lists(s, S)
               /\ (w = << >> /\ S = DOMAIN m) \/ (\E k : w = << k >> /\ Follows(h, S, k))
  <2>1. CASE s = << >>
    <3>1. w = FirstFrom(h, 1)
      BY <2>1 DEF ne_hash_next
    <3>2. 1 \in 1 .. h.size + 1 /\ Before(h, 1) = {}
      BY <1>0 DEF Placed, Before
    <3>3. Lists(s, Before(h, 1))
      BY <2>1, <3>2 DEF Lists, Different
    <3>4. \/ FirstFrom(h, 1) = << >> /\ Before(h, 1) = DOMAIN m
          \/ \E k : FirstFrom(h, 1) = << k >> /\ Follows(h, Before(h, 1), k)
      BY <3>2, FirstFollows
    <3> HIDE DEF w
    <3> QED BY <3>1, <3>3, <3>4
  <2>2. CASE s # << >>
    <3>1. PICK c \in 1 .. h.size : \E j \in 1 .. Len(h.nodes[c]) : Last(s) = h.nodes[c][j].key /\ Lists(s, UpTo(h, c, j))
      BY <2>2 DEF Met
    <3>2. PICK j \in 1 .. Len(h.nodes[c]) : Last(s) = h.nodes[c][j].key /\ Lists(s, UpTo(h, c, j))
      BY <3>1
    <3>3. w = ne_hash_next(h, Last(s))
      BY <2>2
    <3>5. Last(s) # NULL
      BY <1>0, <3>2 DEF Placed
    <3>4. \/ ne_hash_next(h, Last(s)) = << >> /\ UpTo(h, c, j) = DOMAIN m
          \/ \E k : ne_hash_next(h, Last(s)) = << k >> /\ Follows(h, UpTo(h, c, j), k)
      BY <3>2, <3>5, NextFollows
    <3> HIDE DEF w
    <3> QED BY <3>2, <3>3, <3>4
  <2> QED BY <2>1, <2>2
<1>2. VisitOn(h, s) = s \o w
  BY DEF VisitOn
<1> HIDE DEF w
<1>3. CASE w = << >> /\ S = DOMAIN m
  <2>1. VisitOn(h, s) = s
    BY <1>2, <1>3, ConcatEmptySeq
  <2> QED BY <1>1, <1>3, <2>1
<1>4. ASSUME NEW k, w = << k >>, Follows(h, S, k)
      PROVE  VisitOn(h, s) \in Seq(KeySet) /\ Met(h, VisitOn(h, s)) /\ Len(VisitOn(h, s)) = Len(s) + 1
  <2>2. PICK c \in 1 .. h.size : \E j \in 1 .. Len(h.nodes[c]) :
          k = h.nodes[c][j].key /\ k \notin S /\ UpTo(h, c, j) = S \cup {k}
    BY <1>1, <1>4 DEF Follows
  <2>3. PICK j \in 1 .. Len(h.nodes[c]) : k = h.nodes[c][j].key /\ k \notin S /\ UpTo(h, c, j) = S \cup {k}
    BY <2>2
  <2>4. Lists(Append(s, k), UpTo(h, c, j))
    BY <1>1, <2>3, AppendLists
  <2>5. k \in KeySet
    BY <1>0, <2>3 DEF Placed
  <2>1. VisitOn(h, s) = Append(s, k)
    BY <1>2, <1>4, <2>5, AppendIsConcat
  <2>6. Append(s, k) \in Seq(KeySet) /\ Len(Append(s, k)) = Len(s) + 1 /\ Last(Append(s, k)) = k
    BY <2>5, AppendProperties DEF Last
  <2>7. Met(h, Append(s, k))
    BY <2>3, <2>4, <2>6 DEF Met
  <2> QED BY <2>1, <2>6, <2>7
<1> QED BY <1>1, <1>3, <1>4

(* A loop over the table meets every key once, if NULL is none of them. *)
LEMMA VisitLists ==
  ASSUME NEW h, NEW m, HashKeeps(h, m), NULL \notin DOMAIN m
  PROVE  Lists(Visit(h), DOMAIN m)
<1> DEFINE n == Cardinality(KeySet) + 1
           W(f) == [i \in 0 .. n |-> IF i = 0 THEN << >> ELSE VisitOn(h, f[i - 1])]
           s == CHOOSE f : f = W(f)
           M == {q \in Seq(KeySet) : Met(h, q)}
           g == [i \in 1 .. n |-> [q \in M |-> VisitOn(h, q)]]
           U == [i \in 0 .. n |-> M]
<1>0. Placed(h, m)
  BY Places
<1>1. n \in Nat /\ IsFiniteSet(KeySet)
  BY ContainersAssumption, FS_CardinalityType
<1>2. Visit(h) = s[n]
  BY DEF Visit
<1>3. << >> \in M
  BY DEF Met
<1>4. \A q \in M : VisitOn(h, q) \in M
  BY VisitStep
<1> HIDE DEF n, M
<1>5. s = W(s)
  <2>1. << >> \in U[0]
    BY <1>1, <1>3
  <2>2. \A i \in 1 .. n : \A q \in U[i - 1] : g[i][q] \in U[i]
    <3>1. \A i \in 0 .. n : U[i] = M
      OBVIOUS
    <3>2. \A i \in 1 .. n : i - 1 \in 0 .. n /\ i \in 0 .. n
      BY <1>1
    <3>3. \A i \in 1 .. n : \A q \in M : g[i][q] \in M
      BY <1>4
    <3> HIDE DEF U, g
    <3> QED BY <3>1, <3>2, <3>3
  <2>3. PICK f : Iterates(<< >>, g, n, f) /\ \A i \in 0 .. n : f[i] \in U[i]
    <3> HIDE DEF U, g
    <3> QED BY <1>1, <2>1, <2>2, IterationExists
  <2>4. ASSUME NEW i \in 1 .. n PROVE f[i] = VisitOn(h, f[i - 1])
    <3>1. i - 1 \in 0 .. n
      BY <1>1
    <3>2. f[i - 1] \in M
      BY <2>3, <3>1
    <3>3. f[i] = g[i][f[i - 1]]
      BY <2>3 DEF Iterates
    <3> QED BY <3>2, <3>3
  <2>5. f = [i \in 0 .. n |-> f[i]] /\ f[0] = << >>
    BY <2>3 DEF Iterates
  <2>6. f = W(f)
    <3>1. ASSUME NEW i \in 0 .. n PROVE f[i] = IF i = 0 THEN << >> ELSE VisitOn(h, f[i - 1])
      <4>1. i = 0 \/ i \in 1 .. n
        BY <1>1
      <4> QED BY <4>1, <2>4, <2>5
    <3>2. [i \in 0 .. n |-> f[i]] = W(f)
      BY <3>1
    <3> QED BY <3>2, <2>5
  <2> HIDE DEF W
  <2> QED BY <2>6
<1>6. ASSUME NEW i \in 0 .. n PROVE s[i] = IF i = 0 THEN << >> ELSE VisitOn(h, s[i - 1])
  <2> HIDE DEF s
  <2>1. W(s)[i] = IF i = 0 THEN << >> ELSE VisitOn(h, s[i - 1])
    OBVIOUS
  <2> HIDE DEF W
  <2> QED BY <2>1, <1>5
<1> HIDE DEF s
<1> DEFINE done(q) == VisitOn(h, q) = q /\ Lists(q, DOMAIN m)
           T == {i \in 0 .. n : s[i] \in M /\ (done(s[i]) \/ Len(s[i]) = i)}
<1>7. 0 \in T
  <2>1. 0 \in 0 .. n /\ s[0] = << >>
    BY <1>1, <1>6
  <2> QED BY <2>1, <1>3
<1>8. ASSUME NEW i \in 1 .. n, i - 1 \in T PROVE i \in T
  <2>1. i \in 0 .. n /\ s[i] = VisitOn(h, s[i - 1])
    BY <1>1, <1>6
  <2>2. s[i - 1] \in M /\ s[i] \in M
    BY <1>4, <1>8, <2>1
  <2>3. CASE done(s[i - 1])
    BY <2>1, <2>2, <2>3
  <2>4. CASE ~done(s[i - 1])
    <3>1. Len(s[i - 1]) = i - 1
      BY <1>8, <2>4
    <3>2. Len(s[i]) = Len(s[i - 1]) + 1
      BY <2>1, <2>2, <2>4, VisitStep DEF M
    <3> QED BY <2>1, <2>2, <3>1, <3>2
  <2> QED BY <2>3, <2>4
<1>9. n \in T
  <2>1. \A i \in 0 .. n : i \in T
    <3> HIDE DEF T
    <3> QED BY <1>1, <1>7, <1>8, Reaches
  <2> HIDE DEF T
  <2> QED BY <2>1, <1>1
<1>10. ASSUME NEW q \in M PROVE Len(q) <= Cardinality(KeySet)
  <2>1. CASE q = << >>
    <3>1. Cardinality(KeySet) \in Nat /\ Len(q) = 0
      BY <2>1, <1>1, FS_CardinalityType
    <3> QED BY <3>1
  <2>2. CASE q # << >>
    <3>1. PICK c \in 1 .. h.size : \E j \in 1 .. Len(h.nodes[c]) : Lists(q, UpTo(h, c, j))
      BY <2>2 DEF M, Met
    <3>2. PICK j \in 1 .. Len(h.nodes[c]) : Lists(q, UpTo(h, c, j))
      BY <3>1
    <3>3. \A i \in 1 .. j : i \in 1 .. Len(h.nodes[c])
      BY <1>0 DEF Placed
    <3>4. UpTo(h, c, j) \subseteq KeySet
      BY <1>0, <3>3 DEF UpTo, Before, Placed
    <3>5. Cardinality(UpTo(h, c, j)) <= Cardinality(KeySet)
      BY <1>1, <3>4, FS_Subset
    <3> QED BY <3>2, <3>5, ListsCardinality
  <2> QED BY <2>1, <2>2
<1>11. Lists(s[n], DOMAIN m)
  <2>1. s[n] \in M /\ (done(s[n]) \/ Len(s[n]) = n)
    BY <1>9
  <2>2. Len(s[n]) <= Cardinality(KeySet) /\ Cardinality(KeySet) \in Nat
    BY <1>1, <1>10, <2>1, FS_CardinalityType
  <2>3. Len(s[n]) # n
    BY <2>2 DEF n
  <2> QED BY <2>1, <2>3
<1> QED BY <1>2, <1>11

LEMMA HashFaithful ==
  ASSUME HashInv(box, means)
  PROVE  HashOK
<1>1. HashKeeps(box, means)
  BY DEF HashInv
<1>2. ASSUME NEW k \in KeySet
      PROVE  ne_hash_lookup(box, k) = IF k \in DOMAIN means THEN means[k] ELSE NULL
  <2> DEFINE i == hash_lookup_node(box, k)
             b == Bucket(k, box.size)
  <2>1. \/ i = 0 /\ k \notin DOMAIN means
        \/ /\ k \in DOMAIN means /\ i \in 1 .. Len(box.nodes[b])
           /\ box.nodes[b][i] = HashNode(k, means[k])
    BY <1>1, Lookup
  <2>2. ne_hash_lookup(box, k) = IF i = 0 THEN NULL ELSE box.nodes[b][i].value
    BY DEF ne_hash_lookup
  <2>3. HashNode(k, means[k]).value = means[k]
    BY DEF HashNode
  <2> HIDE DEF i, b
  <2>4. i \in 1 .. Len(box.nodes[b]) => i # 0
    OBVIOUS
  <2> QED BY <2>1, <2>2, <2>3, <2>4
<1>3. NULL \notin DOMAIN means =>
         ToSet(Visit(box)) = DOMAIN means /\ Len(Visit(box)) = Cardinality(DOMAIN means)
  BY <1>1, VisitLists, ListsCardinality
<1> QED BY <1>2, <1>3 DEF HashOK, HashInv, HashKeeps

-----------------------------------------------------------------------------
(* The list *)

Slots == Items \cup {NULL}

(* The lists with n of the items a in use *)
ListBox(n, a) == [kind : {"list"}, num : {n}, items : {a}]

(* The array begins with the sequence. *)
Begins(a, m) == a \in Seq(Slots) /\ m \in Seq(Items) /\ Len(m) <= Len(a) /\ \A i \in 1 .. Len(m) : a[i] = m[i]

ListInv(b, m) == b \in ListBox(b.num, b.items) /\ b.num = Len(m) /\ Begins(b.items, m)

LEMMA ListBoxFields ==
  ASSUME NEW n, NEW a, NEW b \in ListBox(n, a)
  PROVE  b.kind = "list" /\ b.num = n /\ b.items = a
  BY DEF ListBox

LEMMA ListBoxChanges ==
  ASSUME NEW n, NEW a, NEW b \in ListBox(n, a), NEW y, NEW e
  PROVE  /\ [b EXCEPT !.items = e, !.num = y] \in ListBox(y, e)
         /\ [b EXCEPT !.items = e] \in ListBox(n, e)
         /\ [b EXCEPT !.num = y] \in ListBox(y, a)
  BY DEF ListBox

LEMMA ListMade ==
  ASSUME NEW b, NEW n, NEW a, NEW m, b \in ListBox(n, a), n = Len(m), Begins(a, m)
  PROVE  ListInv(b, m)
  BY ListBoxFields DEF ListInv

(* What equals m in places is m. *)
LEMMA SamePlaces ==
  ASSUME NEW S, NEW s \in Seq(S), NEW t \in Seq(S), Len(s) = Len(t), \A i \in 1 .. Len(s) : s[i] = t[i]
  PROVE  s = t
<1>1. s = [i \in 1 .. Len(s) |-> s[i]] /\ t = [i \in 1 .. Len(t) |-> t[i]]
  OBVIOUS
<1> QED BY <1>1

(* check_resize() makes room and moves nothing. *)
LEMMA ResizeMakesRoom ==
  ASSUME NEW a \in Seq(Slots), NEW n \in Nat
  PROVE  /\ check_resize(a, n) \in Seq(Slots) /\ Len(check_resize(a, n)) >= n
         /\ Len(check_resize(a, n)) >= Len(a) /\ \A i \in 1 .. Len(a) : check_resize(a, n)[i] = a[i]
<1> DEFINE max == Len(a)
           new == IF n > 2 * max THEN n + max ELSE 2 * max
           more == [i \in 1 .. new - max |-> NULL]
           r == a \o more
<1>1. max \in Nat
  OBVIOUS
<1>2. CASE n <= max
  BY <1>1, <1>2 DEF check_resize
<1>3. CASE ~(n <= max)
  <2>1. check_resize(a, n) = r
    BY <1>3 DEF check_resize
  <2>2. new - max \in Nat /\ new \in Nat /\ new >= n /\ new >= max
    BY <1>1, <1>3
  <2> HIDE DEF new
  <2>3. more \in Seq(Slots) /\ Len(more) = new - max
    BY <2>2 DEF Slots
  <2> HIDE DEF more
  <2>4. r \in Seq(Slots) /\ Len(r) = max + (new - max) /\ \A i \in 1 .. max + (new - max) : r[i] = IF i <= max THEN a[i] ELSE more[i - max]
    BY <2>3, ConcatProperties
  <2> HIDE DEF r
  <2>5. Len(r) = new /\ \A i \in 1 .. max : r[i] = a[i]
    BY <1>1, <2>2, <2>4
  <2> QED BY <2>1, <2>2, <2>4, <2>5
<1> QED BY <1>2, <1>3

LEMMA InsertAtFacts ==
  ASSUME NEW S, NEW s \in Seq(S), NEW p \in 1 .. Len(s), NEW v \in S
  PROVE  /\ InsertAt(s, p, v) \in Seq(S) /\ Len(InsertAt(s, p, v)) = Len(s) + 1
         /\ \A i \in 1 .. Len(s) + 1 : InsertAt(s, p, v)[i] = IF i < p THEN s[i] ELSE IF i = p THEN v ELSE s[i - 1]
<1> DEFINE n == Len(s)
           a == SubSeq(s, 1, p - 1)
           b == SubSeq(s, p, n)
           w == << v >>
<1>1. n \in Nat /\ p \in 1 .. n /\ \A i \in 1 .. n : s[i] \in S
  OBVIOUS
<1>2. /\ a \in Seq(S) /\ Len(a) = p - 1
      /\ \A i \in 1 .. p - 1 : a[i] = s[i]
  <2>1. \A i \in 1 .. p - 1 : s[i] \in S
    BY <1>1
  <2>2. /\ a \in Seq(S) /\ Len(a) = IF 1 <= p - 1 THEN (p - 1) - 1 + 1 ELSE 0
        /\ \A i \in 1 .. (p - 1) - 1 + 1 : a[i] = s[1 + i - 1]
    BY <2>1, SubSeqProperties
  <2> QED BY <2>2
<1>3. /\ b \in Seq(S) /\ Len(b) = n - p + 1
      /\ \A i \in 1 .. n - p + 1 : b[i] = s[p + i - 1]
  <2>1. \A i \in p .. n : s[i] \in S
    BY <1>1
  <2>2. /\ b \in Seq(S) /\ Len(b) = IF p <= n THEN n - p + 1 ELSE 0
        /\ \A i \in 1 .. n - p + 1 : b[i] = s[p + i - 1]
    BY <1>1, <2>1, SubSeqProperties
  <2> QED BY <1>1, <2>2
<1>4. w \in Seq(S) /\ Len(w) = 1 /\ w[1] = v
  OBVIOUS
<1>5. InsertAt(s, p, v) = (a \o w) \o b
  BY DEF InsertAt
<1> HIDE DEF a, b, n, w
<1>6. /\ a \o w \in Seq(S) /\ Len(a \o w) = p
      /\ \A i \in 1 .. p : (a \o w)[i] = IF i <= p - 1 THEN a[i] ELSE w[i - (p - 1)]
  <2>1. /\ a \o w \in Seq(S) /\ Len(a \o w) = Len(a) + Len(w)
        /\ \A i \in 1 .. Len(a) + Len(w) : (a \o w)[i] = IF i <= Len(a) THEN a[i] ELSE w[i - Len(a)]
    BY <1>2, <1>4, ConcatProperties
  <2>2. Len(a) + Len(w) = p
    BY <1>1, <1>2, <1>4
  <2> QED BY <1>2, <2>1, <2>2
<1>7. PICK c : c = a \o w
  OBVIOUS
<1>8. c \in Seq(S) /\ Len(c) = p /\ \A i \in 1 .. p : c[i] = IF i < p THEN s[i] ELSE v
  <2>1. ASSUME NEW i \in 1 .. p PROVE c[i] = IF i < p THEN s[i] ELSE v
    <3>1. CASE i < p
      <4>1. i \in 1 .. p - 1
        BY <1>1, <3>1
      <4> QED BY <4>1, <3>1, <1>2, <1>6, <1>7
    <3>2. CASE ~(i < p)
      <4>1. i = p /\ i - (p - 1) = 1 /\ ~(i <= p - 1)
        BY <1>1, <3>2
      <4> QED BY <4>1, <3>2, <1>4, <1>6, <1>7
    <3> QED BY <3>1, <3>2
  <2> QED BY <2>1, <1>6, <1>7
<1>9. /\ c \o b \in Seq(S) /\ Len(c \o b) = n + 1
      /\ \A i \in 1 .. n + 1 : (c \o b)[i] = IF i <= p THEN c[i] ELSE b[i - p]
  <2>1. /\ c \o b \in Seq(S) /\ Len(c \o b) = Len(c) + Len(b)
        /\ \A i \in 1 .. Len(c) + Len(b) : (c \o b)[i] = IF i <= Len(c) THEN c[i] ELSE b[i - Len(c)]
    BY <1>3, <1>8, ConcatProperties
  <2>2. Len(c) + Len(b) = n + 1
    BY <1>1, <1>3, <1>8
  <2> QED BY <1>8, <2>1, <2>2
<1>10. ASSUME NEW i \in 1 .. n + 1
       PROVE  (c \o b)[i] = IF i < p THEN s[i] ELSE IF i = p THEN v ELSE s[i - 1]
  <2>1. CASE i <= p
    <3>1. i \in 1 .. p
      BY <1>1, <2>1
    <3> QED BY <3>1, <2>1, <1>1, <1>8, <1>9
  <2>2. CASE ~(i <= p)
    <3>1. i - p \in 1 .. n - p + 1 /\ p + (i - p) - 1 = i - 1
      BY <1>1, <2>2
    <3>2. b[i - p] = s[i - 1]
      BY <3>1, <1>3
    <3> QED BY <2>2, <3>2, <1>1, <1>9
  <2> QED BY <2>1, <2>2
<1> QED BY <1>5, <1>7, <1>9, <1>10 DEF n

LEMMA EmptyList == ListInv(uListInit, << >>)
<1> DEFINE a == [i \in 1 .. ListSize |-> NULL]
<1>1. a \in Seq(Slots)
  BY ContainersAssumption DEF Slots
<1>2. uListInit \in ListBox(0, a)
  BY DEF uListInit, ListBox
<1> HIDE DEF a
<1>3. Begins(a, << >>)
  BY <1>1 DEF Begins
<1> QED BY <1>2, <1>3, ListMade

(* Each operation changes the array as it changes the sequence. *)
LEMMA AppendKeeps ==
  ASSUME ListInv(box, means), NEW v \in Items, uListAppend(v)
  PROVE  ListInv(box', means')
<1> DEFINE n == Len(means)
           a == check_resize(box.items, n + 1)
           e == [a EXCEPT ![n + 1] = v]
<1>1. box.num = n /\ n \in Nat /\ Begins(box.items, means) /\ means \in Seq(Items)
  BY DEF ListInv, Begins
<1>2. box' = [box EXCEPT !.items = e, !.num = n + 1] /\ means' = Append(means, v)
  BY <1>1 DEF uListAppend
<1>3. /\ a \in Seq(Slots) /\ Len(a) >= n + 1 /\ Len(a) \in Nat
      /\ \A i \in 1 .. n : a[i] = means[i]
  <2>1. box.items \in Seq(Slots) /\ \A i \in 1 .. n : i \in 1 .. Len(box.items)
    BY <1>1 DEF Begins
  <2> QED BY <2>1, <1>1, ResizeMakesRoom DEF Begins
<1> HIDE DEF a
<1>4. e \in Seq(Slots) /\ Len(e) = Len(a) /\ \A i \in 1 .. Len(a) : e[i] = IF i = n + 1 THEN v ELSE a[i]
  BY <1>1, <1>3 DEF Slots
<1>5. /\ Append(means, v) \in Seq(Items) /\ Len(Append(means, v)) = n + 1
      /\ \A i \in 1 .. n + 1 : Append(means, v)[i] = IF i = n + 1 THEN v ELSE means[i]
  BY <1>1, AppendProperties
<1> HIDE DEF e, n
<1>6. Begins(e, Append(means, v))
  BY <1>1, <1>3, <1>4, <1>5 DEF Begins
<1>7. box' \in ListBox(n + 1, e)
  BY <1>2, ListBoxChanges DEF ListInv
<1> QED BY <1>2, <1>5, <1>6, <1>7, ListMade

LEMMA PopKeeps ==
  ASSUME ListInv(box, means), uListPop
  PROVE  ListInv(box', means')
<1> DEFINE n == Len(means)
           a == box.items
           m == Front(means)
<1>1. box.num = n /\ n \in Nat /\ Begins(a, means) /\ means \in Seq(Items) /\ n # 0
  BY DEF ListInv, Begins, uListPop
<1>2. box' = [box EXCEPT !.num = n - 1] /\ means' = m
  BY <1>1 DEF uListPop
<1>3. m \in Seq(Items) /\ Len(m) = n - 1 /\ \A i \in 1 .. n - 1 : m[i] = means[i]
  <2>1. \A i \in 1 .. n - 1 : means[i] \in Items
    BY <1>1
  <2>2. /\ m \in Seq(Items) /\ Len(m) = IF 1 <= n - 1 THEN (n - 1) - 1 + 1 ELSE 0
        /\ \A i \in 1 .. (n - 1) - 1 + 1 : m[i] = means[1 + i - 1]
    BY <1>1, <2>1, SubSeqProperties DEF Front
  <2>3. (n - 1) - 1 + 1 = n - 1 /\ (~(1 <= n - 1) => n - 1 = 0)
    BY <1>1
  <2>4. \A i \in 1 .. n - 1 : 1 + i - 1 = i
    BY <1>1
  <2> HIDE DEF m, n
  <2> QED BY <2>2, <2>3, <2>4
<1> HIDE DEF m, n, a
<1>4. Begins(a, m)
  BY <1>1, <1>3 DEF Begins, n
<1>5. box' \in ListBox(n - 1, a)
  BY <1>2, ListBoxChanges DEF ListInv, a
<1> QED BY <1>2, <1>3, <1>4, <1>5, ListMade

LEMMA InsertItemKeeps ==
  ASSUME ListInv(box, means), NEW x \in Int, NEW v \in Items, uListInsert(x, v)
  PROVE  ListInv(box', means')
<1> DEFINE n == Len(means)
           p == Index(x)
           a == check_resize(box.items, n + 1)
           d == memmove(a, p + 1, p, n - p)
           e == [d EXCEPT ![p + 1] = v]
           m == InsertAt(means, p + 1, v)
<1>1. box.num = n /\ n \in Nat /\ Begins(box.items, means) /\ means \in Seq(Items)
  BY DEF ListInv, Begins
<1>2. box' = [box EXCEPT !.items = e, !.num = n + 1] /\ means' = m /\ p \in 0 .. n - 1
  BY <1>1 DEF uListInsert
<1>3. /\ a \in Seq(Slots) /\ Len(a) >= n + 1 /\ Len(a) \in Nat
      /\ \A i \in 1 .. n : a[i] = means[i]
  <2>1. box.items \in Seq(Slots) /\ \A i \in 1 .. n : i \in 1 .. Len(box.items)
    BY <1>1 DEF Begins
  <2> QED BY <2>1, <1>1, ResizeMakesRoom DEF Begins
<1>4. /\ m \in Seq(Items) /\ Len(m) = n + 1
      /\ \A i \in 1 .. n + 1 : m[i] = IF i < p + 1 THEN means[i] ELSE IF i = p + 1 THEN v ELSE means[i - 1]
  <2>1. PICK q \in 1 .. n : q = p + 1
    BY <1>1, <1>2
  <2>2. PICK w : w = InsertAt(means, q, v)
    OBVIOUS
  <2>3. /\ w \in Seq(Items) /\ Len(w) = n + 1
        /\ \A i \in 1 .. n + 1 : w[i] = IF i < q THEN means[i] ELSE IF i = q THEN v ELSE means[i - 1]
    BY <1>1, <2>2, InsertAtFacts
  <2> HIDE DEF p
  <2> QED BY <2>1, <2>2, <2>3
<1> HIDE DEF a, m, p
<1>5. d = [i \in 1 .. Len(a) |-> IF i - 1 \in p + 1 .. n THEN a[i - 1] ELSE a[i]]
  <2>1. DOMAIN a = 1 .. Len(a) /\ (p + 1) + (n - p) - 1 = n
    BY <1>1, <1>2, <1>3
  <2>2. \A i \in 1 .. Len(a) : i - (p + 1) + p = i - 1
    BY <1>2, <1>3
  <2> HIDE DEF n
  <2> QED BY <2>1, <2>2 DEF memmove
<1>6. e = [i \in 1 .. Len(a) |-> IF i = p + 1 THEN v ELSE IF i - 1 \in p + 1 .. n THEN a[i - 1] ELSE a[i]]
  BY <1>2, <1>3, <1>5
<1> HIDE DEF d, e, n
<1>7. ASSUME NEW i \in 1 .. Len(a)
      PROVE  (IF i = p + 1 THEN v ELSE IF i - 1 \in p + 1 .. n THEN a[i - 1] ELSE a[i]) \in Slots
  <2>1. a[i] \in Slots /\ (i - 1 \in p + 1 .. n => i - 1 \in 1 .. Len(a) /\ a[i - 1] \in Slots)
    BY <1>1, <1>2, <1>3
  <2> QED BY <2>1 DEF Slots
<1>8. e \in Seq(Slots) /\ Len(e) = Len(a)
  <2>1. e \in [1 .. Len(a) -> Slots]
    BY <1>6, <1>7
  <2> QED BY <2>1, <1>3
<1>9. ASSUME NEW i \in 1 .. n + 1 PROVE e[i] = m[i]
  <2>1. i \in 1 .. Len(a) /\ i \in Int
    BY <1>1, <1>3
  <2>2. CASE i < p + 1
    <3>1. i \in 1 .. n /\ i # p + 1 /\ ~(i - 1 \in p + 1 .. n)
      BY <1>1, <1>2, <2>2
    <3> QED BY <2>1, <2>2, <3>1, <1>3, <1>4, <1>6
  <2>3. CASE i = p + 1
    <3>1. ~(i < p + 1)
      BY <2>3, <1>2
    <3> QED BY <2>1, <2>3, <3>1, <1>4, <1>6
  <2>4. CASE i > p + 1
    <3>1. i - 1 \in 1 .. n /\ i # p + 1 /\ i - 1 \in p + 1 .. n /\ ~(i < p + 1)
      BY <1>1, <1>2, <2>4
    <3> QED BY <2>1, <3>1, <1>3, <1>4, <1>6
  <2> QED BY <1>2, <2>2, <2>3, <2>4
<1>10. Begins(e, m)
  BY <1>1, <1>3, <1>4, <1>8, <1>9 DEF Begins
<1>11. box' \in ListBox(n + 1, e)
  BY <1>2, ListBoxChanges DEF ListInv
<1> QED BY <1>2, <1>4, <1>10, <1>11, ListMade

LEMMA DeleteKeeps ==
  ASSUME ListInv(box, means), NEW x \in Int, uListDelete(x)
  PROVE  ListInv(box', means')
<1> DEFINE n == Len(means)
           p == Index(x)
           a == box.items
           d == memmove(a, p, p + 1, n - p - 1)
           m == RemoveAt(means, p + 1)
<1>1. box.num = n /\ n \in Nat /\ Begins(a, means) /\ means \in Seq(Items)
  BY DEF ListInv, Begins
<1>2. box' = [box EXCEPT !.items = d, !.num = n - 1] /\ means' = m /\ p \in 0 .. n - 1
  BY <1>1 DEF uListDelete
<1>3. /\ a \in Seq(Slots) /\ Len(a) >= n /\ Len(a) \in Nat
      /\ \A i \in 1 .. n : a[i] = means[i]
  BY <1>1 DEF Begins
<1>4. /\ m \in Seq(Items) /\ Len(m) = n - 1
      /\ \A i \in 1 .. n - 1 : m[i] = IF i < p + 1 THEN means[i] ELSE means[i + 1]
  <2>1. p + 1 \in 1 .. n
    BY <1>1, <1>2
  <2> HIDE DEF p
  <2> QED BY <1>1, <2>1, RemoveAtFacts
<1> HIDE DEF a, m, p
<1>5. d = [i \in 1 .. Len(a) |-> IF i - 1 \in p .. n - 2 THEN a[i + 1] ELSE a[i]]
  <2>1. DOMAIN a = 1 .. Len(a) /\ p + (n - p - 1) - 1 = n - 2
    BY <1>1, <1>2, <1>3
  <2>2. \A i \in 1 .. Len(a) : i - p + (p + 1) = i + 1
    BY <1>2, <1>3
  <2> HIDE DEF n
  <2> QED BY <2>1, <2>2 DEF memmove
<1> HIDE DEF d, n
<1>6. ASSUME NEW i \in 1 .. Len(a)
      PROVE  (IF i - 1 \in p .. n - 2 THEN a[i + 1] ELSE a[i]) \in Slots
  <2>1. a[i] \in Slots /\ (i - 1 \in p .. n - 2 => i + 1 \in 1 .. Len(a) /\ a[i + 1] \in Slots)
    BY <1>1, <1>2, <1>3
  <2> QED BY <2>1
<1>7. d \in Seq(Slots) /\ Len(d) = Len(a)
  <2>1. d \in [1 .. Len(a) -> Slots]
    BY <1>5, <1>6
  <2> QED BY <2>1, <1>3
<1>8. ASSUME NEW i \in 1 .. n - 1 PROVE d[i] = m[i]
  <2>1. i \in 1 .. Len(a) /\ i \in Int /\ i \in 1 .. n /\ i + 1 \in 1 .. n
    BY <1>1, <1>3
  <2>2. CASE i < p + 1
    <3>1. ~(i - 1 \in p .. n - 2)
      BY <1>1, <1>2, <2>2
    <3> QED BY <2>1, <2>2, <3>1, <1>3, <1>4, <1>5
  <2>3. CASE ~(i < p + 1)
    <3>1. i - 1 \in p .. n - 2
      BY <1>1, <1>2, <2>3
    <3> QED BY <2>1, <2>3, <3>1, <1>3, <1>4, <1>5
  <2> QED BY <2>2, <2>3
<1>9. Begins(d, m)
  BY <1>1, <1>3, <1>4, <1>7, <1>8 DEF Begins
<1>10. box' \in ListBox(n - 1, d)
  BY <1>2, ListBoxChanges DEF ListInv
<1> QED BY <1>2, <1>4, <1>9, <1>10, ListMade

LEMMA SetKeeps ==
  ASSUME ListInv(box, means), NEW x \in Int, NEW v \in Items, uListSet(x, v)
  PROVE  ListInv(box', means')
<1> DEFINE n == Len(means)
           a == box.items
           e == [a EXCEPT ![x + 1] = v]
           m == [means EXCEPT ![x + 1] = v]
<1>1. box.num = n /\ n \in Nat /\ Begins(a, means) /\ means \in Seq(Items)
  BY DEF ListInv, Begins
<1>2. box' = [box EXCEPT !.items = e] /\ means' = m /\ x \in 0 .. n - 1
  BY <1>1 DEF uListSet
<1>3. /\ a \in Seq(Slots) /\ Len(a) >= n /\ Len(a) \in Nat
      /\ \A i \in 1 .. n : a[i] = means[i]
  BY <1>1 DEF Begins
<1>4. m \in Seq(Items) /\ Len(m) = n /\ \A i \in 1 .. n : m[i] = IF i = x + 1 THEN v ELSE means[i]
  BY <1>1, <1>2
<1> HIDE DEF a, m
<1>5. e \in Seq(Slots) /\ Len(e) = Len(a) /\ \A i \in 1 .. Len(a) : e[i] = IF i = x + 1 THEN v ELSE a[i]
  BY <1>2, <1>3 DEF Slots
<1> HIDE DEF e, n
<1>6. Begins(e, m)
  BY <1>1, <1>3, <1>4, <1>5 DEF Begins
<1>7. box' \in ListBox(n, e)
  BY <1>1, <1>2, ListBoxChanges DEF ListInv
<1> QED BY <1>2, <1>4, <1>6, <1>7, ListMade

LEMMA SortKeeps ==
  ASSUME ListInv(box, means), uListSort
  PROVE  ListInv(box', means')
<1> DEFINE n == Len(means)
           a == box.items
<1>1. box.num = n /\ n \in Nat /\ Begins(a, means) /\ means \in Seq(Items)
  BY DEF ListInv, Begins
<1>2. /\ a \in Seq(Slots) /\ Len(a) >= n /\ Len(a) \in Nat
      /\ \A i \in 1 .. n : a[i] = means[i]
  BY <1>1 DEF Begins
<1>3. PICK p \in Orders(InUse(box)) :
        /\ box' = [box EXCEPT !.items = [i \in DOMAIN a |-> IF i <= n THEN a[p[i]] ELSE a[i]]]
        /\ means' = [i \in DOMAIN means |-> means[p[i]]]
  BY <1>1 DEF uListSort
<1>4. Len(InUse(box)) = n
  <2>1. \A i \in 1 .. n : a[i] \in Slots
    BY <1>2
  <2> QED BY <1>1, <1>2, <2>1, SubSeqProperties DEF InUse
<1>5. \A i \in 1 .. n : p[i] \in 1 .. n
  BY <1>4 DEF Orders
<1> DEFINE e == [i \in 1 .. Len(a) |-> IF i <= n THEN a[p[i]] ELSE a[i]]
           m == [i \in 1 .. n |-> means[p[i]]]
<1>6. box' = [box EXCEPT !.items = e] /\ means' = m
  <2>1. DOMAIN a = 1 .. Len(a) /\ DOMAIN means = 1 .. n
    BY <1>1, <1>2
  <2> HIDE DEF a, n
  <2> QED BY <1>3, <2>1
<1>7. m \in Seq(Items) /\ Len(m) = n /\ \A i \in 1 .. n : m[i] = means[p[i]]
  BY <1>1, <1>5
<1>8. e \in Seq(Slots) /\ Len(e) = Len(a) /\ \A i \in 1 .. n : e[i] = a[p[i]]
  <2>1. \A i \in 1 .. Len(a) : (IF i <= n THEN a[p[i]] ELSE a[i]) \in Slots
    BY <1>1, <1>2, <1>5
  <2>2. \A i \in 1 .. n : i \in 1 .. Len(a) /\ i <= n
    BY <1>1, <1>2
  <2> HIDE DEF a, n
  <2> QED BY <1>2, <2>1, <2>2
<1> HIDE DEF e, m, n, a
<1>9. Begins(e, m)
  BY <1>1, <1>2, <1>5, <1>7, <1>8 DEF Begins
<1>10. box' \in ListBox(n, e)
  BY <1>1, <1>6, ListBoxChanges DEF ListInv
<1> QED BY <1>6, <1>7, <1>9, <1>10, ListMade

(* The first i and the last i of n items have changed places. *)
Turned(a, n, i) == [j \in 1 .. Len(a) |-> IF j \in 1 .. n /\ (j <= i \/ j >= n + 1 - i) THEN a[n + 1 - j] ELSE a[j]]

LEMMA SwapTurns ==
  ASSUME NEW a \in Seq(Slots), NEW n \in 0 .. Len(a), NEW i \in 1 .. n \div 2
  PROVE  Swap(Turned(a, n, i - 1), i, n + 1 - i) = Turned(a, n, i)
<1> DEFINE t == Turned(a, n, i - 1)
           k == n + 1 - i
<1>1. Len(a) \in Nat /\ n \in Nat /\ i \in Nat /\ k \in 1 .. n /\ i \in 1 .. n /\ i < k /\ i \in 1 .. Len(a) /\ k \in 1 .. Len(a)
  OBVIOUS
<1>2. /\ t = [j \in 1 .. Len(a) |-> t[j]]
      /\ \A j \in 1 .. Len(a) : t[j] = IF j \in 1 .. n /\ (j <= i - 1 \/ j >= n + 1 - (i - 1)) THEN a[n + 1 - j] ELSE a[j]
  BY DEF Turned
<1>3. t[i] = a[i] /\ t[k] = a[k]
  <2>1. /\ ~(i <= i - 1 \/ i >= n + 1 - (i - 1))
        /\ ~(k <= i - 1 \/ k >= n + 1 - (i - 1))
    BY <1>1
  <2> HIDE DEF t, k
  <2> QED BY <1>1, <1>2, <2>1
<1>4. n + 1 - k = i
  BY <1>1
<1> HIDE DEF t
<1>5. Swap(t, i, k) = [j \in 1 .. Len(a) |-> IF j = k THEN t[i] ELSE IF j = i THEN t[k] ELSE t[j]]
  <2>1. i # k
    BY <1>1
  <2> HIDE DEF k
  <2> QED BY <1>1, <1>2, <2>1 DEF Swap
<1>6. ASSUME NEW j \in 1 .. Len(a)
      PROVE  (IF j = k THEN t[i] ELSE IF j = i THEN t[k] ELSE t[j])
               = IF j \in 1 .. n /\ (j <= i \/ j >= n + 1 - i) THEN a[n + 1 - j] ELSE a[j]
  <2>1. CASE j = k
    BY <2>1, <1>1, <1>3, <1>4
  <2>2. CASE j = i
    BY <2>2, <1>1, <1>3
  <2>3. CASE j # k /\ j # i
    <3>1. (j <= i - 1 \/ j >= n + 1 - (i - 1)) <=> (j <= i \/ j >= n + 1 - i)
      BY <1>1, <2>3
    <3> QED BY <2>3, <3>1, <1>2
  <2> QED BY <2>1, <2>2, <2>3
<1>7. Swap(t, i, k) = Turned(a, n, i)
  BY <1>5, <1>6 DEF Turned
<1> QED BY <1>7 DEF t

LEMMA ReverseKeeps ==
  ASSUME ListInv(box, means), uListReverse
  PROVE  ListInv(box', means')
<1> DEFINE n == Len(means)
           a == box.items
           z == n \div 2
           W(f) == [i \in 0 .. z |-> IF i = 0 THEN a ELSE Swap(f[i - 1], i, n + 1 - i)]
           s == CHOOSE f : f = W(f)
           m == Reverse(means)
<1>1. box.num = n /\ n \in Nat /\ Begins(a, means) /\ means \in Seq(Items)
  BY DEF ListInv, Begins
<1>2. box' = [box EXCEPT !.items = s[z]] /\ means' = m
  BY <1>1 DEF uListReverse
<1>3. /\ a \in Seq(Slots) /\ Len(a) >= n /\ Len(a) \in Nat
      /\ \A i \in 1 .. n : a[i] = means[i]
  BY <1>1 DEF Begins
<1>4. z \in Nat /\ (2 * z = n \/ 2 * z + 1 = n)
  BY <1>1
<1> HIDE DEF a, n, z
<1>5. a = Turned(a, n, 0)
  <2>1. a = [j \in 1 .. Len(a) |-> a[j]]
    BY <1>3
  <2>2. \A j \in 1 .. Len(a) : ~(j \in 1 .. n /\ (j <= 0 \/ j >= n + 1 - 0))
    BY <1>1, <1>3
  <2> QED BY <2>1, <2>2 DEF Turned
<1>6. \A i \in 1 .. z : Swap(Turned(a, n, i - 1), i, n + 1 - i) = Turned(a, n, i)
  <2>1. n \in 0 .. Len(a)
    BY <1>1, <1>3
  <2> QED BY <1>3, <2>1, SwapTurns DEF z
<1>7. s = W(s)
  <2> DEFINE f == [i \in 0 .. z |-> Turned(a, n, i)]
  <2>1. ASSUME NEW i \in 0 .. z PROVE f[i] = IF i = 0 THEN a ELSE Swap(f[i - 1], i, n + 1 - i)
    <3>1. CASE i = 0
      BY <3>1, <1>5
    <3>2. CASE i # 0
      <4>1. i \in 1 .. z /\ i - 1 \in 0 .. z
        BY <1>4, <3>2
      <4>2. f[i] = Turned(a, n, i) /\ f[i - 1] = Turned(a, n, i - 1)
        BY <4>1
      <4> HIDE DEF f
      <4> QED BY <3>2, <4>1, <4>2, <1>6
    <3> QED BY <3>1, <3>2
  <2>2. f = [i \in 0 .. z |-> f[i]]
    OBVIOUS
  <2> HIDE DEF f
  <2>3. f = W(f)
    BY <2>1, <2>2
  <2> HIDE DEF W
  <2> QED BY <2>3
<1>8. ASSUME NEW i \in 0 .. z PROVE s[i] = IF i = 0 THEN a ELSE Swap(s[i - 1], i, n + 1 - i)
  <2> HIDE DEF s
  <2>1. W(s)[i] = IF i = 0 THEN a ELSE Swap(s[i - 1], i, n + 1 - i)
    OBVIOUS
  <2> HIDE DEF W
  <2> QED BY <2>1, <1>7
<1> HIDE DEF s
<1>9. s[z] = Turned(a, n, z)
  <2> DEFINE T == {i \in 0 .. z : s[i] = Turned(a, n, i)}
  <2>1. 0 \in T
    BY <1>4, <1>5, <1>8
  <2>2. ASSUME NEW i \in 1 .. z, i - 1 \in T PROVE i \in T
    <3>1. i \in 0 .. z /\ i # 0
      BY <1>4
    <3>2. s[i] = Swap(Turned(a, n, i - 1), i, n + 1 - i)
      BY <2>2, <3>1, <1>8
    <3> QED BY <3>1, <3>2, <1>6
  <2>3. z \in T
    <3>1. \A i \in 0 .. z : i \in T
      <4> HIDE DEF T
      <4> QED BY <1>4, <2>1, <2>2, Reaches
    <3> HIDE DEF T
    <3> QED BY <3>1, <1>4
  <2> QED BY <2>3
<1> DEFINE e == Turned(a, n, z)
<1>10. ASSUME NEW j \in 1 .. Len(a)
       PROVE  /\ (IF j \in 1 .. n /\ (j <= z \/ j >= n + 1 - z) THEN a[n + 1 - j] ELSE a[j]) \in Slots
              /\ e[j] = IF j \in 1 .. n /\ (j <= z \/ j >= n + 1 - z) THEN a[n + 1 - j] ELSE a[j]
  <2>1. j \in 1 .. n => n + 1 - j \in 1 .. Len(a)
    BY <1>1, <1>3
  <2> QED BY <1>3, <2>1 DEF Turned
<1>11. e \in Seq(Slots) /\ Len(e) = Len(a)
  <2>1. e \in [1 .. Len(a) -> Slots]
    BY <1>10 DEF Turned
  <2> QED BY <2>1, <1>3
<1>12. m \in Seq(Items) /\ Len(m) = n /\ \A j \in 1 .. n : m[j] = means[n - j + 1]
  BY <1>1 DEF Reverse, n
<1> HIDE DEF e, m
<1>13. ASSUME NEW j \in 1 .. n PROVE e[j] = m[j]
  <2>1. j \in 1 .. Len(a) /\ n - j + 1 \in 1 .. n /\ n + 1 - j = n - j + 1
    BY <1>1, <1>3
  <2>2. e[j] = a[n - j + 1]
    <3>1. CASE j <= z \/ j >= n + 1 - z
      BY <3>1, <2>1, <1>10
    <3>2. CASE ~(j <= z \/ j >= n + 1 - z)
      <4>1. n - j + 1 = j
        BY <3>2, <1>1, <1>4
      <4> QED BY <3>2, <4>1, <2>1, <1>10
    <3> QED BY <3>1, <3>2
  <2> QED BY <2>1, <2>2, <1>3, <1>12
<1>14. Begins(e, m)
  BY <1>1, <1>3, <1>11, <1>12, <1>13 DEF Begins
<1>15. box' \in ListBox(n, e)
  BY <1>1, <1>2, <1>9, ListBoxChanges DEF ListInv, e
<1> QED BY <1>2, <1>12, <1>14, <1>15, ListMade

LEMMA ListFaithful ==
  ASSUME ListInv(box, means)
  PROVE  ListOK
<1> DEFINE n == Len(means)
           a == box.items
<1>1. box.num = n /\ n \in Nat /\ Begins(a, means) /\ means \in Seq(Items)
  BY DEF ListInv, Begins
<1>2. /\ a \in Seq(Slots) /\ Len(a) >= n /\ Len(a) \in Nat
      /\ \A i \in 1 .. n : a[i] = means[i]
  BY <1>1 DEF Begins
<1>3. InUse(box) = means
  <2> DEFINE s == SubSeq(a, 1, n)
  <2>1. \A i \in 1 .. n : a[i] \in Slots
    BY <1>2
  <2>2. /\ s \in Seq(Slots) /\ Len(s) = IF 1 <= n THEN n - 1 + 1 ELSE 0
        /\ \A i \in 1 .. n - 1 + 1 : s[i] = a[1 + i - 1]
    BY <1>1, <2>1, SubSeqProperties
  <2>3. n - 1 + 1 = n /\ (~(1 <= n) => n = 0) /\ \A i \in 1 .. n : 1 + i - 1 = i
    BY <1>1
  <2>4. means \in Seq(Slots)
    BY <1>1 DEF Slots
  <2> HIDE DEF s, n, a
  <2>5. Len(s) = n /\ \A i \in 1 .. n : s[i] = means[i]
    BY <1>2, <2>2, <2>3
  <2>6. s = means
    BY <2>2, <2>4, <2>5, SamePlaces DEF n
  <2> QED BY <1>1, <2>6 DEF InUse, s, a
<1>4. ASSUME NEW x \in -n .. n - 1
      PROVE  uListGet(x) = means[IF x < 0 THEN n + x + 1 ELSE x + 1]
  <2> DEFINE p == Index(x)
  <2>1. p = (IF x < 0 THEN n + x ELSE x) /\ p \in 0 .. n - 1
    BY <1>1 DEF Index
  <2>2. uListGet(x) = a[p + 1]
    BY <1>1, <2>1 DEF uListGet
  <2> HIDE DEF p, n, a
  <2>3. p + 1 \in 1 .. n /\ p + 1 = IF x < 0 THEN n + x + 1 ELSE x + 1
    BY <1>1, <2>1
  <2> QED BY <1>2, <2>2, <2>3
<1>5. ASSUME NEW v \in Items, v \in ToSet(means) PROVE means[uListIndex(v) + 1] = v
  <2> DEFINE I == {i \in 1 .. n : means[i] = v}
  <2>1. uListIndex(v) = (IF I # {} THEN Min(I) ELSE 0) - 1
    BY <1>3 DEF uListIndex, SelectInSeq
  <2>2. I # {} /\ I \subseteq Nat
    BY <1>1, <1>5 DEF ToSet
  <2>3. Min(I) \in I
    <3> HIDE DEF I
    <3>1. \E x \in I : \A y \in I : x <= y
      BY <2>2, LeastElement
    <3> QED BY <3>1 DEF Min
  <2>4. uListIndex(v) + 1 = Min(I)
    <3> HIDE DEF I
    <3>1. PICK y \in Nat : y = Min(I)
      BY <2>2, <2>3
    <3>2. uListIndex(v) = y - 1
      BY <2>1, <2>2, <3>1
    <3> QED BY <3>1, <3>2
  <2> QED BY <2>3, <2>4
<1>6. box.num <= Len(box.items)
  BY <1>1, <1>2
<1> QED BY <1>1, <1>3, <1>4, <1>5, <1>6 DEF ListOK

-----------------------------------------------------------------------------
(* The growing string *)

(* The strings of length l in a buffer of size x that wrote up to e *)
StrBox(l, x, e) == [kind : {"string"}, len : {l}, max : {x}, end : {e}]

(* What was written is in the buffer, and without one there is nothing. *)
StrInv(s) ==
  /\ s \in StrBox(s.len, s.max, s.end)
  /\ s.len \in Nat /\ s.max \in Nat /\ s.end \in Nat
  /\ s.end <= s.max /\ (s.max = 0 => s.len = 0)

LEMMA StrBoxFields ==
  ASSUME NEW l, NEW x, NEW e, NEW s \in StrBox(l, x, e)
  PROVE  s.kind = "string" /\ s.len = l /\ s.max = x /\ s.end = e
  BY DEF StrBox

LEMMA StrBoxChanges ==
  ASSUME NEW l, NEW x, NEW e, NEW s \in StrBox(l, x, e), NEW y, NEW z
  PROVE  /\ [s EXCEPT !.max = y] \in StrBox(l, y, e)
         /\ [s EXCEPT !.len = y] \in StrBox(y, x, e)
         /\ [s EXCEPT !.len = y, !.end = z] \in StrBox(y, x, z)
  BY DEF StrBox

LEMMA StrMade ==
  ASSUME NEW l \in Nat, NEW x \in Nat, NEW e \in Nat, NEW s \in StrBox(l, x, e), e <= x, x = 0 => l = 0
  PROVE  StrInv(s) /\ s.len = l /\ s.max = x /\ s.end = e
  BY StrBoxFields DEF StrInv

(* Doubling a size often enough makes it larger than what is needed. *)
LEMMA DoubledEnough ==
  ASSUME NEW max \in Nat \ {0}, NEW need \in Nat, need >= max
  PROVE  Doubled(max, need) \in Nat /\ Doubled(max, need) > need
<1> DEFINE W(f) == [i \in 0 .. need |-> IF i = 0 THEN max ELSE 2 * f[i - 1]]
           d == CHOOSE f : f = W(f)
           g == [i \in 1 .. need |-> [q \in Nat |-> 2 * q]]
           U == [i \in 0 .. need |-> Nat]
           good(i) == need < d[i] /\ \A j \in 1 .. i - 1 : d[j] <= need
<1>1. Doubled(max, need) = d[CHOOSE i \in 1 .. need : good(i)]
  BY DEF Doubled
<1>2. d = W(d)
  <2>1. max \in U[0]
    OBVIOUS
  <2>2. \A i \in 1 .. need : \A q \in U[i - 1] : g[i][q] \in U[i]
    OBVIOUS
  <2>3. PICK f : Iterates(max, g, need, f) /\ \A i \in 0 .. need : f[i] \in U[i]
    <3> HIDE DEF U, g
    <3> QED BY <2>1, <2>2, IterationExists
  <2>4. ASSUME NEW i \in 1 .. need PROVE f[i] = 2 * f[i - 1]
    <3>1. i - 1 \in 0 .. need
      OBVIOUS
    <3>2. f[i - 1] \in Nat
      BY <2>3, <3>1
    <3>3. f[i] = g[i][f[i - 1]]
      BY <2>3 DEF Iterates
    <3> QED BY <3>2, <3>3
  <2>5. f = [i \in 0 .. need |-> f[i]] /\ f[0] = max
    BY <2>3 DEF Iterates
  <2>6. f = W(f)
    <3>1. ASSUME NEW i \in 0 .. need PROVE f[i] = IF i = 0 THEN max ELSE 2 * f[i - 1]
      <4>1. i = 0 \/ i \in 1 .. need
        OBVIOUS
      <4> QED BY <4>1, <2>4, <2>5
    <3>2. [i \in 0 .. need |-> f[i]] = W(f)
      BY <3>1
    <3> QED BY <3>2, <2>5
  <2> HIDE DEF W
  <2> QED BY <2>6
<1>3. ASSUME NEW i \in 0 .. need PROVE d[i] = IF i = 0 THEN max ELSE 2 * d[i - 1]
  <2> HIDE DEF d
  <2>1. W(d)[i] = IF i = 0 THEN max ELSE 2 * d[i - 1]
    OBVIOUS
  <2> HIDE DEF W
  <2> QED BY <2>1, <1>2
<1> HIDE DEF d
<1>4. \A i \in 0 .. need : d[i] \in Nat /\ d[i] >= i + 1
  <2> DEFINE T == {i \in 0 .. need : d[i] \in Nat /\ d[i] >= i + 1}
  <2>1. 0 \in T
    BY <1>3
  <2>2. ASSUME NEW i \in 1 .. need, i - 1 \in T PROVE i \in T
    <3>1. i \in 0 .. need /\ d[i] = 2 * d[i - 1]
      BY <1>3
    <3> QED BY <2>2, <3>1
  <2>3. \A i \in 0 .. need : i \in T
    <3> HIDE DEF T
    <3> QED BY <2>1, <2>2, Reaches
  <2> QED BY <2>3
<1>5. \E i \in 1 .. need : good(i)
  <2> DEFINE E == {i \in 1 .. need : need < d[i]}
  <2>1. need \in 1 .. need /\ need \in 0 .. need
    OBVIOUS
  <2>2. need \in E
    BY <2>1, <1>4
  <2>3. E \subseteq Nat
    OBVIOUS
  <2>4. PICK i \in E : \A j \in E : i <= j
    <3> HIDE DEF E
    <3> QED BY <2>2, <2>3, LeastElement
  <2>5. ASSUME NEW j \in 1 .. i - 1 PROVE d[j] <= need
    <3>1. j \in 1 .. need /\ j \in 0 .. need /\ ~(i <= j)
      BY <2>3, <2>4
    <3>2. j \notin E
      BY <2>4, <3>1
    <3> QED BY <1>4, <3>1, <3>2
  <2> QED BY <2>4, <2>5
<1>6. PICK i \in 1 .. need : i = (CHOOSE j \in 1 .. need : good(j)) /\ good(i)
  <2> HIDE DEF good
  <2> QED BY <1>5
<1>7. i \in 0 .. need
  OBVIOUS
<1>8. Doubled(max, need) = d[i]
  <2> HIDE DEF good
  <2> QED BY <1>1, <1>6
<1> QED BY <1>4, <1>6, <1>7, <1>8

(* string_check_length() makes room for l letters and a NUL. *)
LEMMA RoomMade ==
  ASSUME NEW s, StrInv(s), NEW l \in Nat
  PROVE  \E x \in Nat : string_check_length(s, l) \in StrBox(s.len, x, s.end) /\ x > s.len + l
<1>1. /\ s \in StrBox(s.len, s.max, s.end)
      /\ s.len \in Nat /\ s.max \in Nat /\ s.end \in Nat
      /\ s.end <= s.max /\ (s.max = 0 => s.len = 0)
  BY DEF StrInv
<1>2. CASE s.max = 0
  <2> DEFINE x == IF l * StrFactor > StrSize THEN l * StrFactor ELSE StrSize
  <2>1. l * StrFactor \in Nat /\ l * StrFactor >= 2 * l /\ StrSize \in Nat /\ StrSize >= 2
    <3>1. StrSize \in Nat /\ StrSize >= 2 /\ StrFactor \in Nat /\ StrFactor - 2 \in Nat
      BY ContainersAssumption
    <3>2. l * (StrFactor - 2) >= 0 /\ l * StrFactor = l * (StrFactor - 2) + 2 * l
      BY <3>1
    <3> QED BY <3>1, <3>2
  <2>2. x \in Nat /\ x > l
    BY <2>1
  <2>3. string_check_length(s, l) = [s EXCEPT !.max = x]
    BY <1>2 DEF string_check_length
  <2> HIDE DEF x
  <2>4. [s EXCEPT !.max = x] \in StrBox(s.len, x, s.end)
    BY <1>1, StrBoxChanges
  <2> QED BY <1>1, <1>2, <2>2, <2>3, <2>4
<1>3. CASE s.max # 0 /\ s.len + l < s.max
  BY <1>1, <1>3 DEF string_check_length
<1>4. CASE s.max # 0 /\ ~(s.len + l < s.max)
  <2> DEFINE x == Doubled(s.max, s.len + l)
  <2>1. x \in Nat /\ x > s.len + l
    BY <1>1, <1>4, DoubledEnough
  <2>2. string_check_length(s, l) = [s EXCEPT !.max = x]
    BY <1>4 DEF string_check_length
  <2> HIDE DEF x
  <2>3. [s EXCEPT !.max = x] \in StrBox(s.len, x, s.end)
    BY <1>1, StrBoxChanges
  <2> QED BY <2>1, <2>2, <2>3
<1> QED BY <1>2, <1>3, <1>4

(* What fits can be written. *)
LEMMA WroteKeeps ==
  ASSUME NEW n \in Nat, NEW x \in Nat, NEW e, NEW t \in StrBox(n, x, e), NEW k \in Nat, n + k < x
  PROVE  StrInv(Wrote(t, k)) /\ Wrote(t, k).len = n + k
<1>1. t.len = n
  BY StrBoxFields
<1>2. Wrote(t, k) = [t EXCEPT !.len = n + k, !.end = n + k + 1]
  BY <1>1 DEF Wrote
<1>3. Wrote(t, k) \in StrBox(n + k, x, n + k + 1)
  <2>1. PICK y, z : y = n + k /\ z = n + k + 1
    OBVIOUS
  <2>2. [t EXCEPT !.len = y, !.end = z] \in StrBox(y, x, z)
    BY StrBoxChanges
  <2> QED BY <1>2, <2>1, <2>2
<1> HIDE DEF Wrote
<1> QED BY <1>3, StrMade

LEMMA AppendFits ==
  ASSUME NEW s, StrInv(s), NEW l \in Nat, NEW k \in Nat, k <= l
  PROVE  StrInv(Wrote(string_check_length(s, l), k)) /\ Wrote(string_check_length(s, l), k).len = s.len + k
<1>1. s.len \in Nat
  BY DEF StrInv
<1>2. PICK x \in Nat : string_check_length(s, l) \in StrBox(s.len, x, s.end) /\ x > s.len + l
  BY RoomMade
<1>3. s.len + k < x
  BY <1>1, <1>2
<1> QED BY <1>1, <1>2, <1>3, WroteKeeps

(* What string_readline() has read, and what is left of the line *)
Reading(r, total) ==
  /\ r \in [s : {r.s}, left : {r.left}]
  /\ StrInv(r.s) /\ r.left \in Nat /\ r.s.len + r.left = total

LEMMA FgetsReads ==
  ASSUME NEW total, NEW r, Reading(r, total)
  PROVE  /\ Reading(Fgets(r), total)
         /\ r.left = 0 => Fgets(r).left = 0
         /\ r.left # 0 => Fgets(r).left < r.left
<1> DEFINE n == r.s.len
           t == string_check_length(r.s, n + StrSize)
           k == IF r.left <= t.max - t.len - 1 THEN r.left ELSE t.max - t.len - 1
           q == [s |-> Wrote(t, k), left |-> r.left - k]
<1>1. n \in Nat /\ r.left \in Nat /\ StrInv(r.s) /\ n + r.left = total /\ StrSize \in Nat
  BY ContainersAssumption DEF Reading, StrInv
<1>2. CASE r.left = 0
  BY <1>2 DEF Fgets
<1>3. CASE r.left # 0
  <2>1. Fgets(r) = q
    BY <1>3 DEF Fgets
  <2>2. PICK x \in Nat : t \in StrBox(n, x, r.s.end) /\ x > n + (n + StrSize)
    <3>1. n + StrSize \in Nat
      BY <1>1
    <3> QED BY <1>1, <3>1, RoomMade
  <2>3. StrSize >= 2
    BY ContainersAssumption
  <2> HIDE DEF t, n
  <2>4. t.max = x /\ t.len = n
    BY <2>2, StrBoxFields
  <2>5. k \in Nat /\ k >= 1 /\ k <= r.left /\ n + k < x
    BY <1>1, <1>3, <2>2, <2>3, <2>4
  <2> HIDE DEF k
  <2>6. StrInv(Wrote(t, k)) /\ Wrote(t, k).len = n + k
    BY <1>1, <2>2, <2>5, WroteKeeps
  <2>7. q.s = Wrote(t, k) /\ q.left = r.left - k /\ q \in [s : {q.s}, left : {q.left}]
    OBVIOUS
  <2> HIDE DEF q
  <2>8. q.left \in Nat /\ q.left < r.left /\ q.s.len + q.left = total
    BY <1>1, <2>5, <2>6, <2>7
  <2>9. Reading(q, total)
    BY <2>6, <2>7, <2>8 DEF Reading
  <2> QED BY <1>3, <2>1, <2>8, <2>9
<1> QED BY <1>2, <1>3

(* A line is read to its end. *)
LEMMA ReadFits ==
  ASSUME NEW s, StrInv(s), NEW l \in Nat
  PROVE  StrInv(ReadOn(s, l)) /\ ReadOn(s, l).len = s.len + l
<1> DEFINE b == [s |-> s, left |-> l]
           W(f) == [i \in 0 .. l |-> IF i = 0 THEN b ELSE Fgets(f[i - 1])]
           r == CHOOSE f : f = W(f)
           total == s.len + l
<1>1. ReadOn(s, l) = r[l].s
  BY DEF ReadOn
<1>2. b.s = s /\ b.left = l /\ Reading(b, total)
  BY DEF Reading
<1>3. \E f : f = W(f)
  <2> DEFINE P(f, j) == f = [i \in 0 .. j |-> IF i = 0 THEN b ELSE Fgets(f[i - 1])]
             T == {j \in 0 .. l : \E f : P(f, j)}
  <2> HIDE DEF b
  <2>1. 0 \in T
    <3>1. PICK f : f = [i \in 0 .. 0 |-> b]
      OBVIOUS
    <3>2. P(f, 0)
      BY <3>1
    <3> QED BY <3>2
  <2>2. ASSUME NEW j \in 1 .. l, j - 1 \in T PROVE j \in T
    <3>1. PICK f : P(f, j - 1)
      BY <2>2
    <3>2. PICK h : h = [i \in 0 .. j |-> IF i = j THEN Fgets(f[j - 1]) ELSE f[i]]
      OBVIOUS
    <3>3. \A i \in 0 .. j - 1 : f[i] = IF i = 0 THEN b ELSE Fgets(f[i - 1])
      BY <3>1
    <3>4. \A i \in 0 .. j - 1 : h[i] = f[i]
      BY <3>2
    <3>5. ASSUME NEW i \in 0 .. j PROVE h[i] = IF i = 0 THEN b ELSE Fgets(h[i - 1])
      <4>1. i = 0 \/ i - 1 \in 0 .. j - 1
        OBVIOUS
      <4>2. CASE i = j
        <5>1. h[i] = Fgets(f[j - 1]) /\ i # 0 /\ h[i - 1] = f[j - 1]
          BY <4>1, <4>2, <3>2, <3>4
        <5> QED BY <5>1
      <4>3. CASE i # j
        <5>1. i \in 0 .. j - 1
          BY <4>3
        <5> QED BY <4>1, <5>1, <3>3, <3>4
      <4> QED BY <4>2, <4>3
    <3>6. h = [i \in 0 .. j |-> h[i]]
      BY <3>2
    <3>7. P(h, j)
      BY <3>5, <3>6
    <3>8. j \in 0 .. l
      OBVIOUS
    <3> HIDE DEF P
    <3> QED BY <3>7, <3>8
  <2>3. l \in T
    <3>1. \A i \in 0 .. l : i \in T
      <4> HIDE DEF T
      <4> QED BY <2>1, <2>2, Reaches
    <3>2. l \in 0 .. l
      OBVIOUS
    <3> HIDE DEF T
    <3> QED BY <3>1, <3>2
  <2> QED BY <2>3
<1>4. r = W(r)
  <2> HIDE DEF W
  <2> QED BY <1>3
<1>5. ASSUME NEW i \in 0 .. l PROVE r[i] = IF i = 0 THEN b ELSE Fgets(r[i - 1])
  <2> HIDE DEF r
  <2>1. W(r)[i] = IF i = 0 THEN b ELSE Fgets(r[i - 1])
    OBVIOUS
  <2> HIDE DEF W
  <2> QED BY <2>1, <1>4
<1> HIDE DEF r, b
<1> DEFINE T == {i \in 0 .. l : Reading(r[i], total) /\ r[i].left <= l - i}
<1>6. 0 \in T
  BY <1>2, <1>5
<1>7. ASSUME NEW i \in 1 .. l, i - 1 \in T PROVE i \in T
  <2>1. i \in 0 .. l /\ r[i] = Fgets(r[i - 1])
    BY <1>5
  <2> DEFINE u == r[i - 1]
  <2>2. Reading(u, total) /\ u.left <= l - (i - 1) /\ u.left \in Nat
    BY <1>7 DEF Reading
  <2> HIDE DEF u, total
  <2>3. /\ Reading(Fgets(u), total)
        /\ u.left = 0 => Fgets(u).left = 0
        /\ u.left # 0 => Fgets(u).left < u.left
    BY <2>2, FgetsReads
  <2>4. Fgets(u).left \in Nat
    BY <2>3 DEF Reading
  <2>5. Fgets(u).left <= l - i
    BY <2>2, <2>3, <2>4
  <2> QED BY <2>1, <2>3, <2>5 DEF u
<1>8. l \in T
  <2>1. \A i \in 0 .. l : i \in T
    <3> HIDE DEF T
    <3> QED BY <1>6, <1>7, Reaches
  <2>2. l \in 0 .. l
    OBVIOUS
  <2> HIDE DEF T
  <2> QED BY <2>1, <2>2
<1>9. Reading(r[l], total) /\ r[l].left <= l - l
  BY <1>8
<1>10. StrInv(r[l].s) /\ r[l].left = 0 /\ r[l].s.len + r[l].left = total /\ r[l].s.len \in Nat
  BY <1>9 DEF Reading, StrInv
<1> QED BY <1>1, <1>10

LEMMA EmptyString == StrInv(string_init) /\ string_init.len = 0
<1>1. string_init \in StrBox(0, 0, 0)
  BY DEF string_init, StrBox
<1> QED BY <1>1, StrMade

LEMMA StringStep ==
  ASSUME StrInv(box), box.len = means, StringNext
  PROVE  StrInv(box') /\ box'.len = means'
<1>1. CASE string_clear
  <2>1. box' = string_init /\ means' = 0
    BY <1>1 DEF string_clear
  <2> QED BY <2>1, EmptyString
<1>2. ASSUME NEW l \in Appends, string_append(l) \/ string_appendn(l) \/ string_set(l) \/ string_readline(l)
      PROVE  StrInv(box') /\ box'.len = means'
  <2>0. l \in Nat /\ l <= l
    BY ContainersAssumption
  <2>1. CASE string_append(l)
    <3>1. box' = Wrote(string_check_length(box, l), l) /\ means' = means + l
      BY <2>1 DEF string_append
    <3> QED BY <2>0, <3>1, AppendFits
  <2>2. CASE string_appendn(l)
    <3>1. box' = Wrote(string_check_length(box, l + 1), l) /\ means' = means + l
      BY <2>2 DEF string_appendn
    <3>2. PICK k \in Nat : k = l + 1 /\ l <= k
      BY <2>0
    <3> QED BY <2>0, <3>1, <3>2, AppendFits
  <2>3. CASE string_set(l)
    <3> DEFINE s == [box EXCEPT !.len = 0]
    <3>1. box' = Wrote(string_check_length(s, l), l) /\ means' = l
      BY <2>3 DEF string_set
    <3>2. s \in StrBox(0, box.max, box.end)
      BY StrBoxChanges DEF StrInv
    <3> HIDE DEF s
    <3>3. StrInv(s) /\ s.len = 0
      BY <3>2, StrMade DEF StrInv
    <3>4. StrInv(box') /\ box'.len = 0 + l
      BY <2>0, <3>1, <3>3, AppendFits
    <3> QED BY <2>0, <3>1, <3>4
  <2>4. CASE string_readline(l)
    <3>1. box' = ReadOn(box, l) /\ means' = means + l
      BY <2>4 DEF string_readline
    <3> QED BY <2>0, <3>1, ReadFits
  <2> QED BY <1>2, <2>1, <2>2, <2>3, <2>4
<1> QED BY <1>1, <1>2 DEF StringNext

-----------------------------------------------------------------------------
(* The attributes *)

AttrBox(l) == [kind : {"attr"}, list : {l}]

(* The list has the entries of the map. *)
AttrInv(b, m) == b \in AttrBox(b.list) /\ Lists(b.list, Entries(m))

LEMMA AttrMade ==
  ASSUME NEW b, NEW l, b \in AttrBox(l), NEW m, Lists(l, Entries(m))
  PROVE  AttrInv(b, m)
<1>1. b.list = l
  BY DEF AttrBox
<1> QED BY <1>1 DEF AttrInv

LEMMA AttrChanges ==
  ASSUME NEW b, b \in AttrBox(b.list), NEW l
  PROVE  [b EXCEPT !.list = l] \in AttrBox(l)
  BY DEF AttrBox

LEMMA AttrIsNode ==
  ASSUME NEW k, NEW v
  PROVE  Attr(k, v) = HashNode(k, v) /\ Attr(k, v).key = k /\ Attr(k, v).value = v
  BY DEF Attr, HashNode

LEMMA OtherEntries ==
  ASSUME NEW m, NEW k \in DOMAIN m
  PROVE  {x \in Entries(m) : x.key # k} = Entries(m) \ {HashNode(k, m[k])}
<1>1. ASSUME NEW x \in Entries(m) PROVE x.key = k <=> x = HashNode(k, m[k])
  <2>1. HashNode(k, m[k]).key = k
    BY DEF HashNode
  <2> QED BY <2>1, EntryFacts
<1> QED BY <1>1

LEMMA AttrLookup ==
  ASSUME NEW m, NEW s, Lists(s, Entries(m)), NEW k
  PROVE  \/ AttrAt(s, k) = 0 /\ k \notin DOMAIN m
         \/ k \in DOMAIN m /\ AttrAt(s, k) \in 1 .. Len(s) /\ s[AttrAt(s, k)] = HashNode(k, m[k])
<1>1. s \in Seq(Entries(m)) /\ \A i \in 1 .. Len(s) : s[i] \in Entries(m)
  BY DEF Lists
<1>2. \/ AttrAt(s, k) = 0 /\ \A i \in 1 .. Len(s) : s[i].key # k
      \/ AttrAt(s, k) \in 1 .. Len(s) /\ s[AttrAt(s, k)].key = k
  BY <1>1, KeyAt
<1>3. ASSUME k \in DOMAIN m, \A i \in 1 .. Len(s) : s[i].key # k PROVE FALSE
  <2>1. HashNode(k, m[k]) \in Entries(m) /\ HashNode(k, m[k]).key = k
    BY <1>3 DEF Entries, HashNode
  <2>2. PICK i \in 1 .. Len(s) : s[i] = HashNode(k, m[k])
    BY <2>1 DEF Lists, Contains
  <2> QED BY <2>1, <2>2, <1>3
<1>4. ASSUME NEW i \in 1 .. Len(s), s[i].key = k PROVE k \in DOMAIN m /\ s[i] = HashNode(k, m[k])
  BY <1>1, <1>4, EntryFacts
<1> QED BY <1>2, <1>3, <1>4

(* The keys of a list, and the list of its keys *)
LEMMA KeysListed ==
  ASSUME NEW m, NEW s, Lists(s, Entries(m))
  PROVE  Keys(s) = DOMAIN m /\ Lists([i \in 1 .. Len(s) |-> s[i].key], DOMAIN m)
<1> DEFINE n == Len(s)
           r == [i \in 1 .. n |-> s[i].key]
<1>1. n \in Nat /\ DOMAIN s = 1 .. n /\ \A i \in 1 .. n : s[i] \in Entries(m)
  BY DEF Lists
<1>2. \A i \in 1 .. n : s[i].key \in DOMAIN m /\ s[i] = HashNode(s[i].key, m[s[i].key])
  BY <1>1, EntryFacts
<1>3. \A i, j \in 1 .. n : s[i] = s[j] => i = j
  BY DEF Lists, Different
<1>4. ASSUME NEW k \in DOMAIN m PROVE \E i \in 1 .. n : s[i].key = k
  <2>1. HashNode(k, m[k]) \in Entries(m) /\ HashNode(k, m[k]).key = k
    BY DEF Entries, HashNode
  <2>2. PICK i \in 1 .. n : s[i] = HashNode(k, m[k])
    BY <2>1 DEF Lists, Contains
  <2> QED BY <2>1, <2>2
<1> HIDE DEF n
<1>5. r \in [1 .. n -> DOMAIN m] /\ \A i \in 1 .. n : r[i] = s[i].key
  BY <1>2
<1>6. \A i, j \in 1 .. n : s[i].key = s[j].key => i = j
  BY <1>2, <1>3
<1> HIDE DEF r
<1>7. r \in Seq(DOMAIN m) /\ Len(r) = n
  BY <1>1, <1>5
<1>8. Lists(r, DOMAIN m)
  <2>1. Different(r)
    BY <1>5, <1>6, <1>7 DEF Different
  <2>2. ASSUME NEW k \in DOMAIN m PROVE Contains(r, k)
    BY <1>4, <1>5, <1>7 DEF Contains
  <2> QED BY <1>7, <2>1, <2>2 DEF Lists
<1>9. Keys(s) = DOMAIN m
  BY <1>1, <1>2, <1>4 DEF Keys
<1> QED BY <1>8, <1>9 DEF r, n

LEMMA SetAttrKeeps ==
  ASSUME AttrInv(box, means), NEW k, NEW v, SetAttr(k, v)
  PROVE  AttrInv(box', means')
<1> DEFINE s == box.list
           i == AttrAt(s, k)
           l == hdf_set_attr(s, k, v)
           node == HashNode(k, v)
           w == IF v = NULL THEN WithoutKey(means, k) ELSE WithKey(means, k, v)
           S == Entries(means)
<1>1. box' = [box EXCEPT !.list = l] /\ means' = w
  BY DEF SetAttr
<1>2. Lists(s, S) /\ box \in AttrBox(s)
  BY DEF AttrInv
<1>3. \/ i = 0 /\ k \notin DOMAIN means
      \/ k \in DOMAIN means /\ i \in 1 .. Len(s) /\ s[i] = HashNode(k, means[k])
  BY <1>2, AttrLookup
<1>4. node.key = k /\ Attr(k, v) = node
  BY AttrIsNode
<1> HIDE DEF s, i, node
<1>5. l = IF i = 0 THEN IF v = NULL THEN s ELSE Append(s, node)
          ELSE IF v = NULL THEN RemoveAt(s, i) ELSE [s EXCEPT ![i] = node]
  BY <1>4 DEF hdf_set_attr, i
<1>6. Entries(w) = IF v = NULL THEN {x \in S : x.key # k} ELSE {x \in S : x.key # k} \cup {node}
  <2>1. CASE v = NULL
    BY <2>1, EntriesDrop
  <2>2. CASE v # NULL
    BY <2>2, EntriesSet DEF node
  <2> QED BY <2>1, <2>2
<1> HIDE DEF l, w
<1>7. Lists(l, Entries(w))
  <2>1. CASE i = 0
    <3>1. {x \in S : x.key # k} = S /\ node \notin S
      BY <1>3, <1>4, <2>1, EntryFacts
    <3> HIDE DEF S
    <3>2. Lists(Append(s, node), S \cup {node})
      BY <1>2, <3>1, AppendLists
    <3> QED BY <1>2, <1>5, <1>6, <2>1, <3>1, <3>2
  <2>2. CASE i # 0
    <3>1. k \in DOMAIN means /\ i \in 1 .. Len(s) /\ s[i] = HashNode(k, means[k])
      BY <1>3, <2>2
    <3>2. {x \in S : x.key # k} = S \ {s[i]}
      BY <3>1, OtherEntries
    <3>3. node \notin S \ {s[i]}
      BY <1>4, <3>2
    <3> HIDE DEF S
    <3>4. Lists(RemoveAt(s, i), S \ {s[i]})
      BY <1>2, <3>1, RemoveLists
    <3>5. Lists([s EXCEPT ![i] = node], (S \ {s[i]}) \cup {node})
      BY <1>2, <3>1, <3>3, ReplaceLists
    <3> QED BY <1>5, <1>6, <2>2, <3>2, <3>4, <3>5
  <2> QED BY <2>1, <2>2
<1>8. box' \in AttrBox(l)
  BY <1>1, <1>2, AttrChanges DEF s
<1> QED BY <1>1, <1>7, <1>8, AttrMade

LEMMA AttrFaithful ==
  ASSUME AttrInv(box, means)
  PROVE  AttrOK
<1> DEFINE s == box.list
<1>1. Lists(s, Entries(means))
  BY DEF AttrInv
<1>2. s \in Seq(Entries(means)) /\ DOMAIN s = 1 .. Len(s) /\ \A i \in 1 .. Len(s) : s[i] \in Entries(means)
  BY <1>1 DEF Lists
<1>3. \A i \in DOMAIN s : s[i].value = means[s[i].key]
  BY <1>2, EntryFacts
<1>4. Keys(s) = DOMAIN means /\ Lists([i \in 1 .. Len(s) |-> s[i].key], DOMAIN means)
  BY <1>1, KeysListed
<1>5. Len([i \in 1 .. Len(s) |-> s[i].key]) = Len(s)
  <2>1. Len(s) \in Nat
    BY <1>2
  <2> QED BY <2>1
<1>6. Cardinality(DOMAIN means) = Len(s)
  BY <1>4, <1>5, ListsCardinality
<1> QED BY <1>3, <1>4, <1>6 DEF AttrOK

LEMMA ConcatLists ==
  ASSUME NEW S, NEW T, NEW s, NEW t, Lists(s, S), Lists(t, T), S \cap T = {}
  PROVE  Lists(s \o t, S \cup T)
<1> DEFINE U == S \cup T
<1>1. s \in Seq(S) /\ t \in Seq(T) /\ s \in Seq(U) /\ t \in Seq(U)
  BY DEF Lists
<1>2. ASSUME NEW x \in U PROVE ~(Contains(s, x) /\ Contains(t, x))
  <2>1. Contains(s, x) => x \in S
    BY <1>1 DEF Contains
  <2>2. Contains(t, x) => x \in T
    BY <1>1 DEF Contains
  <2> QED BY <2>1, <2>2
<1>3. s \o t \in Seq(U)
  BY <1>1, ConcatProperties
<1> HIDE DEF U
<1>4. Different(s \o t)
  BY <1>1, <1>2, ConcatDifferent DEF Lists
<1>5. ASSUME NEW x \in U PROVE Contains(s \o t, x)
  <2>1. Contains(s, x) \/ Contains(t, x)
    BY DEF Lists, U
  <2> QED BY <1>1, <2>1, ConcatContains
<1> QED BY <1>3, <1>4, <1>5 DEF Lists, U

(* What _set_value() is given: a list of attributes with different keys *)
Given(src) == [k \in Keys(src) |-> src[AttrAt(src, k)].value]

LEMMA SourceLists ==
  ASSUME NEW src \in AttrLists
  PROVE  /\ src # << >> /\ Len(src) \in Nat /\ Head(src) = src[1] /\ 1 \in 1 .. Len(src)
         /\ Lists(src, Entries(Given(src))) /\ DOMAIN Given(src) = Keys(src)
<1> DEFINE AnyAttr == [key : AttrKeys, value : Items]
           n == Given(src)
           N == Len(src)
<1>1. /\ src \in Seq(AnyAttr) /\ N \in Nat /\ N # 0 /\ src # << >>
      /\ \A i, j \in 1 .. N : src[i].key = src[j].key => i = j
  <2>1. CASE src \in {s \in Pairs : s[1].key # s[2].key}
    <3>1. src \in Pairs /\ src[1].key # src[2].key
      BY <2>1
    <3>2. PICK k \in AttrKeys, j \in AttrKeys, v \in Items, w \in Items : src = << Attr(k, v), Attr(j, w) >>
      BY <3>1 DEF Pairs
    <3>3. Attr(k, v) \in AnyAttr /\ Attr(j, w) \in AnyAttr
      BY DEF Attr
    <3> HIDE DEF AnyAttr
    <3>4. src \in Seq(AnyAttr) /\ Len(src) = 2
      BY <3>2, <3>3
    <3> QED BY <3>1, <3>4
  <2>2. CASE src \in {<< Attr(k, v) >> : k \in AttrKeys, v \in Items}
    <3>1. PICK k \in AttrKeys, v \in Items : src = << Attr(k, v) >>
      BY <2>2
    <3>2. Attr(k, v) \in AnyAttr
      BY DEF Attr
    <3> HIDE DEF AnyAttr
    <3> QED BY <3>1, <3>2
  <2> QED BY <2>1, <2>2 DEF AttrLists
<1>2. \A i \in 1 .. N : src[i] \in AnyAttr
  <2> HIDE DEF AnyAttr
  <2> QED BY <1>1
<1>3. \A i \in 1 .. N : src[i] = HashNode(src[i].key, src[i].value)
  BY <1>2 DEF HashNode
<1>4. DOMAIN src = 1 .. N /\ Head(src) = src[1] /\ 1 \in 1 .. N
  BY <1>1
<1> HIDE DEF AnyAttr, N
<1>5. \A i \in 1 .. N : src[i].key \in Keys(src)
  BY <1>4 DEF Keys
<1>6. DOMAIN n = Keys(src) /\ \A k \in Keys(src) : n[k] = src[AttrAt(src, k)].value
  BY DEF Given
<1> HIDE DEF n
<1>7. ASSUME NEW i \in 1 .. N PROVE AttrAt(src, src[i].key) = i
  <2>1. \/ AttrAt(src, src[i].key) = 0 /\ \A j \in 1 .. N : src[j].key # src[i].key
        \/ AttrAt(src, src[i].key) \in 1 .. N /\ src[AttrAt(src, src[i].key)].key = src[i].key
    BY <1>1, KeyAt DEF N
  <2> QED BY <2>1, <1>1
<1>8. \A i \in 1 .. N : src[i] = HashNode(src[i].key, n[src[i].key])
  BY <1>3, <1>5, <1>6, <1>7
<1>9. \A i \in 1 .. N : src[i] \in Entries(n)
  BY <1>5, <1>6, <1>8 DEF Entries
<1>10. ASSUME NEW x \in Entries(n) PROVE \E i \in 1 .. N : src[i] = x
  <2>1. x.key \in Keys(src) /\ x = HashNode(x.key, n[x.key])
    BY <1>6, EntryFacts
  <2>2. PICK i \in 1 .. N : src[i].key = x.key
    BY <1>4, <2>1 DEF Keys
  <2> QED BY <2>1, <2>2, <1>8
<1>11. src \in Seq(Entries(n))
  <2>1. src \in [1 .. N -> Entries(n)]
    BY <1>1, <1>4, <1>9
  <2> QED BY <1>1, <2>1
<1>12. Lists(src, Entries(n))
  <2>1. Different(src)
    <3>1. ASSUME NEW i \in 1 .. N, NEW j \in 1 .. N, src[i] = src[j] PROVE i = j
      BY <1>1, <3>1
    <3> QED BY <3>1 DEF Different, N
  <2> QED BY <1>10, <1>11, <2>1 DEF Lists, Contains, N
<1> QED BY <1>1, <1>4, <1>6, <1>12 DEF n, N

(* A merge of attributes that all arrive *)
Merged(src) == [k \in DOMAIN means \cup Keys(src) |-> IF k \in Keys(src) THEN src[AttrAt(src, k)].value ELSE means[k]]

LEMMA ArrivedKeeps ==
  ASSUME AttrInv(box, means), NEW src \in AttrLists,
         box.list = << >> \/ Head(src).key \in Keys(box.list) \/ Len(src) = 1,
         NEW c, c = [box EXCEPT !.list = IF @ = << >> THEN src ELSE merge_attr(@, src)]
  PROVE  AttrInv(c, Merged(src))
<1> DEFINE s == box.list
           n == Given(src)
           l == IF s = << >> THEN src ELSE merge_attr(s, src)
           w == Merged(src)
           old == {x \in Entries(w) : x.key \in DOMAIN means}
           fresh == {x \in Entries(w) : x.key \notin DOMAIN means}
<1>1. /\ c = [box EXCEPT !.list = l]
      /\ s = << >> \/ Head(src).key \in Keys(s) \/ Len(src) = 1
  OBVIOUS
<1>2. Lists(s, Entries(means)) /\ box \in AttrBox(s)
  BY DEF AttrInv
<1>3. /\ src # << >> /\ Len(src) \in Nat /\ Head(src) = src[1] /\ 1 \in 1 .. Len(src)
      /\ Lists(src, Entries(n)) /\ DOMAIN n = Keys(src)
  BY SourceLists
<1>4. /\ DOMAIN w = DOMAIN means \cup DOMAIN n
      /\ \A k \in DOMAIN w : w[k] = IF k \in DOMAIN n THEN n[k] ELSE means[k]
  BY <1>3 DEF Given, Merged
<1>5. Keys(s) = DOMAIN means
  BY <1>2, KeysListed
<1>6. old \cap fresh = {} /\ Entries(w) = old \cup fresh
  OBVIOUS
<1>7. fresh = {x \in Entries(n) : x.key \notin DOMAIN means}
  <2> HIDE DEF w, n
  <2>1. ASSUME NEW x \in fresh PROVE x \in Entries(n) /\ x.key \notin DOMAIN means
    <3>1. x.key \in DOMAIN n /\ x = HashNode(x.key, n[x.key]) /\ x.key \notin DOMAIN means
      BY <1>4, EntryFacts
    <3> QED BY <3>1 DEF Entries
  <2>2. ASSUME NEW x \in Entries(n), x.key \notin DOMAIN means PROVE x \in fresh
    <3>1. x.key \in DOMAIN n /\ x = HashNode(x.key, n[x.key])
      BY EntryFacts
    <3>2. x.key \in DOMAIN w /\ w[x.key] = n[x.key]
      BY <1>4, <3>1
    <3>3. x \in Entries(w)
      BY <3>1, <3>2 DEF Entries
    <3> QED BY <2>2, <3>3
  <2> QED BY <2>1, <2>2
<1> HIDE DEF w, n, s
<1>8. Lists(l, Entries(w))
  <2>1. CASE s = << >>
    <3>1. DOMAIN means = {}
      <4>1. Keys(<< >>) = {}
        BY DEF Keys
      <4> QED BY <1>5, <2>1, <4>1
    <3>2. Entries(w) = Entries(n)
      BY <3>1, <1>4 DEF Entries
    <3> QED BY <1>3, <2>1, <3>2
  <2>2. CASE s # << >>
    <3> DEFINE new == Picked(src, {a \in ToSet(src) : a.key \notin Keys(s)})
               given(a) == LET i == AttrAt(src, a.key) IN IF i = 0 THEN a ELSE src[i]
               d == [i \in DOMAIN s |-> given(s[i])]
    <3>1. l = IF Head(src) \in {new[i] : i \in DOMAIN new} THEN Append(s, Head(src)) ELSE d \o new
      BY <1>3, <2>2 DEF merge_attr
    <3>2. ToSet(src) = Entries(n)
      BY <1>3, ListsCardinality
    <3>3. Lists(new, fresh)
      <4>1. Entries(n) \cap {a \in ToSet(src) : a.key \notin Keys(s)} = fresh
        BY <1>5, <1>7, <3>2
      <4> HIDE DEF fresh
      <4> QED BY <1>3, <4>1, PickedLists
    <3>4. {new[i] : i \in DOMAIN new} = fresh
      <4> HIDE DEF new, fresh
      <4> QED BY <3>3, ListsCardinality DEF ToSet
    <3>5. Lists(d, old)
      <4> DEFINE N == Len(s)
      <4>1. N \in Nat /\ DOMAIN s = 1 .. N /\ \A i \in 1 .. N : s[i] \in Entries(means)
        BY <1>2 DEF Lists
      <4>2. ASSUME NEW a \in Entries(means)
            PROVE  given(a) = HashNode(a.key, w[a.key]) /\ given(a) \in old /\ given(a).key = a.key
        <5>1. a.key \in DOMAIN means /\ a = HashNode(a.key, means[a.key]) /\ a.key \in DOMAIN w
          BY <1>4, EntryFacts
        <5>2. \/ AttrAt(src, a.key) = 0 /\ a.key \notin DOMAIN n
              \/ /\ a.key \in DOMAIN n /\ AttrAt(src, a.key) \in 1 .. Len(src)
                 /\ src[AttrAt(src, a.key)] = HashNode(a.key, n[a.key])
          BY <1>3, AttrLookup
        <5>3. given(a) = HashNode(a.key, w[a.key])
          <6>1. CASE AttrAt(src, a.key) = 0 /\ a.key \notin DOMAIN n
            <7>1. given(a) = a /\ w[a.key] = means[a.key]
              BY <6>1, <5>1, <1>4
            <7> QED BY <7>1, <5>1
          <6>2. CASE /\ a.key \in DOMAIN n /\ AttrAt(src, a.key) \in 1 .. Len(src)
                     /\ src[AttrAt(src, a.key)] = HashNode(a.key, n[a.key])
            <7>1. AttrAt(src, a.key) # 0
              BY <6>2
            <7>2. given(a) = HashNode(a.key, n[a.key]) /\ w[a.key] = n[a.key]
              BY <6>2, <7>1, <5>1, <1>4
            <7> QED BY <7>2
          <6> QED BY <5>2, <6>1, <6>2
        <5>4. HashNode(a.key, w[a.key]).key = a.key
          BY DEF HashNode
        <5>5. HashNode(a.key, w[a.key]) \in Entries(w)
          BY <5>1 DEF Entries
        <5> HIDE DEF given
        <5> QED BY <5>1, <5>3, <5>4, <5>5
      <4> HIDE DEF given, N, old
      <4>3. d = [i \in 1 .. N |-> given(s[i])] /\ d \in [1 .. N -> old] /\ \A i \in 1 .. N : d[i] = given(s[i])
        BY <4>1, <4>2
      <4> HIDE DEF d
      <4>4. d \in Seq(old) /\ Len(d) = N
        BY <4>1, <4>3
      <4>5. ASSUME NEW i \in 1 .. N, NEW j \in 1 .. N, d[i] = d[j] PROVE i = j
        <5>1. s[i].key = s[j].key
          BY <4>1, <4>2, <4>3, <4>5
        <5>2. s[i] = s[j]
          BY <4>1, <5>1, EntryFacts
        <5> QED BY <5>2, <1>2 DEF Lists, Different, N
      <4>6. ASSUME NEW x \in old PROVE \E i \in 1 .. N : d[i] = x
        <5>1. x.key \in DOMAIN means /\ x = HashNode(x.key, w[x.key])
          BY EntryFacts DEF old
        <5>2. HashNode(x.key, means[x.key]) \in Entries(means) /\ HashNode(x.key, means[x.key]).key = x.key
          BY <5>1 DEF Entries, HashNode
        <5>3. PICK i \in 1 .. N : s[i] = HashNode(x.key, means[x.key])
          BY <1>2, <5>2 DEF Lists, Contains, N
        <5>4. d[i] = x
          BY <4>1, <4>2, <4>3, <5>1, <5>2, <5>3
        <5> QED BY <5>4
      <4>7. Different(d)
        BY <4>4, <4>5 DEF Different
      <4> QED BY <4>4, <4>6, <4>7 DEF Lists, Contains
    <3>6. CASE Head(src) \in fresh
      <4>1. Head(src).key \notin Keys(s)
        BY <1>5, <3>6
      <4>2. Len(src) = 1
        BY <1>1, <2>2, <4>1 DEF s
      <4>3. Entries(n) = {Head(src)}
        <5>1. \A x \in Entries(n) : x = src[1]
          BY <1>3, <4>2 DEF Lists, Contains
        <5>2. src[1] \in Entries(n)
          BY <1>3 DEF Lists
        <5> QED BY <1>3, <5>1, <5>2
      <4>4. \A k \in DOMAIN n : k = Head(src).key
        <5>1. ASSUME NEW k \in DOMAIN n PROVE k = Head(src).key
          <6>1. HashNode(k, n[k]) \in Entries(n) /\ HashNode(k, n[k]).key = k
            BY DEF Entries, HashNode
          <6> QED BY <4>3, <6>1
        <5> QED BY <5>1
      <4>5. fresh = {Head(src)}
        BY <1>7, <3>6, <4>3
      <4>6. old = Entries(means)
        <5>1. ASSUME NEW x \in old PROVE x \in Entries(means)
          <6>1. x.key \in DOMAIN means /\ x.key \in DOMAIN w /\ x = HashNode(x.key, w[x.key])
            BY EntryFacts
          <6>2. x.key \notin DOMAIN n
            BY <1>5, <4>1, <4>4, <6>1
          <6>3. w[x.key] = means[x.key]
            BY <1>4, <6>1, <6>2
          <6> QED BY <6>1, <6>3 DEF Entries
        <5>2. ASSUME NEW x \in Entries(means) PROVE x \in old
          <6>1. x.key \in DOMAIN means /\ x.key \in DOMAIN w /\ x = HashNode(x.key, means[x.key])
            BY <1>4, EntryFacts
          <6>2. x.key \notin DOMAIN n
            BY <1>5, <4>1, <4>4, <6>1
          <6>3. w[x.key] = means[x.key]
            BY <1>4, <6>1, <6>2
          <6>4. x \in Entries(w)
            BY <6>1, <6>3 DEF Entries
          <6> QED BY <6>1, <6>4
        <5> QED BY <5>1, <5>2
      <4>7. Head(src) \notin Entries(means)
        BY <1>5, <4>1, EntryFacts
      <4>8. l = Append(s, Head(src))
        BY <3>1, <3>4, <3>6
      <4>9. Lists(Append(s, Head(src)), Entries(means) \cup {Head(src)})
        BY <1>2, <4>7, AppendLists
      <4>10. Entries(w) = Entries(means) \cup {Head(src)}
        BY <1>6, <4>5, <4>6
      <4> QED BY <4>8, <4>9, <4>10
    <3>7. CASE Head(src) \notin fresh
      <4>1. l = d \o new
        BY <3>1, <3>4, <3>7
      <4> HIDE DEF d, new, old, fresh, l
      <4>2. Lists(d \o new, old \cup fresh)
        BY <1>6, <3>3, <3>5, ConcatLists
      <4> QED BY <1>6, <4>1, <4>2
    <3> QED BY <3>6, <3>7
  <2> QED BY <2>1, <2>2
<1> HIDE DEF l
<1>9. c \in AttrBox(l)
  BY <1>1, <1>2, AttrChanges DEF s
<1> QED BY <1>8, <1>9, AttrMade DEF w

(* If the first attribute is new, a merge of all is a merge of that one. *)
LEMMA FirstArrives ==
  ASSUME NEW s, NEW src \in AttrLists, Head(src).key \notin Keys(s)
  PROVE  /\ << Head(src) >> \in AttrLists
         /\ merge_attr(s, src) = merge_attr(s, << Head(src) >>)
<1> DEFINE new(t) == Picked(t, {a \in ToSet(t) : a.key \notin Keys(s)})
           isNew(t) == Head(t) \in {new(t)[i] : i \in DOMAIN new(t)}
           h == Head(src)
           S == {h}
<1>1. /\ src # << >> /\ h = src[1] /\ 1 \in 1 .. Len(src) /\ Len(src) \in Nat
      /\ Lists(src, Entries(Given(src)))
  BY SourceLists
<1>2. << h >> \in AttrLists
  <2>1. CASE src \in {t \in Pairs : t[1].key # t[2].key}
    BY <1>1, <2>1 DEF Pairs, AttrLists
  <2>2. CASE src \in {<< Attr(k, v) >> : k \in AttrKeys, v \in Items}
    BY <1>1, <2>2 DEF AttrLists
  <2> QED BY <2>1, <2>2 DEF AttrLists
<1>3. ASSUME NEW t, NEW T, t # << >>, Head(t) = h, Lists(t, T), h \in T
      PROVE  isNew(t)
  <2>1. ToSet(t) = T
    BY <1>3, ListsCardinality
  <2>2. Lists(new(t), T \cap {a \in ToSet(t) : a.key \notin Keys(s)})
    BY <1>3, PickedLists
  <2>3. h \in T \cap {a \in ToSet(t) : a.key \notin Keys(s)}
    BY <1>3, <2>1
  <2> HIDE DEF new
  <2>4. PICK i \in 1 .. Len(new(t)) : new(t)[i] = h
    BY <2>2, <2>3 DEF Lists, Contains
  <2>5. DOMAIN new(t) = 1 .. Len(new(t))
    BY <2>2 DEF Lists
  <2> QED BY <1>3, <2>4, <2>5
<1>4. ASSUME NEW t, t # << >>, isNew(t) PROVE merge_attr(s, t) = Append(s, Head(t))
  BY <1>4 DEF merge_attr
<1>5. h \in Entries(Given(src))
  BY <1>1 DEF Lists
<1>6. Lists(<< h >>, S) /\ << h >> # << >> /\ Head(<< h >>) = h
  BY DEF Lists, Different, Contains
<1> HIDE DEF isNew, h, S
<1>7. isNew(src)
  BY <1>1, <1>3, <1>5 DEF h
<1>8. isNew(<< h >>)
  BY <1>3, <1>6 DEF S
<1> QED BY <1>1, <1>2, <1>4, <1>6, <1>7, <1>8 DEF h

LEMMA MergeKeeps ==
  ASSUME AttrInv(box, means), NEW src \in AttrLists, MergeAttr(src)
  PROVE  AttrInv(box', means')
<1> DEFINE t == Arrived(box.list, src)
<1>1. box' = [box EXCEPT !.list = IF @ = << >> THEN src ELSE merge_attr(@, src)] /\ means' = Merged(t)
  BY DEF MergeAttr, Merged
<1>2. CASE box.list = << >> \/ Head(src).key \in Keys(box.list)
  <2>1. t = src
    BY <1>2 DEF Arrived
  <2> QED BY <1>1, <1>2, <2>1, ArrivedKeeps
<1>3. CASE ~(box.list = << >> \/ Head(src).key \in Keys(box.list))
  <2>1. t = << Head(src) >>
    BY <1>3 DEF Arrived
  <2>2. t \in AttrLists /\ merge_attr(box.list, src) = merge_attr(box.list, t) /\ Len(t) = 1
    BY <1>3, <2>1, FirstArrives
  <2>3. box' = [box EXCEPT !.list = IF @ = << >> THEN t ELSE merge_attr(@, t)]
    BY <1>1, <1>3, <2>2
  <2> HIDE DEF t
  <2> QED BY <1>1, <2>2, <2>3, ArrivedKeeps
<1> QED BY <1>2, <1>3

-----------------------------------------------------------------------------
(* The four together *)

ContainersInv ==
  \/ HashInv(box, means)
  \/ ListInv(box, means)
  \/ StrInv(box) /\ box.len = means
  \/ AttrInv(box, means)
  \/ box = [kind |-> "crashed"]

LEMMA Kinds ==
  /\ HashInv(box, means) => box.kind = "hash"
  /\ ListInv(box, means) => box.kind = "list"
  /\ StrInv(box) => box.kind = "string"
  /\ AttrInv(box, means) => box.kind = "attr"
<1>1. HashInv(box, means) => box.kind = "hash"
  BY HashTableFields DEF HashInv, HashKeeps
<1>2. ListInv(box, means) => box.kind = "list"
  BY ListBoxFields DEF ListInv
<1>3. StrInv(box) => box.kind = "string"
  BY StrBoxFields DEF StrInv
<1>4. AttrInv(box, means) => box.kind = "attr"
  BY DEF AttrInv, AttrBox
<1> QED BY <1>1, <1>2, <1>3, <1>4

LEMMA ContainersStart == BoxInit => ContainersInv
<1> SUFFICES ASSUME BoxInit PROVE ContainersInv
  OBVIOUS
<1>1. CASE box = ne_hash_init /\ means = EmptyMap
  BY <1>1, EmptyHash DEF ContainersInv
<1>2. CASE box = uListInit /\ means = << >>
  BY <1>2, EmptyList DEF ContainersInv
<1>3. CASE box = string_init /\ means = 0
  BY <1>3, EmptyString DEF ContainersInv
<1>4. CASE box = AttrInit /\ means = EmptyMap
  <2>1. AttrInit \in AttrBox(<< >>)
    BY DEF AttrInit, AttrBox
  <2>2. Entries(EmptyMap) = {}
    BY DEF Entries, EmptyMap
  <2>3. Lists(<< >>, {})
    BY DEF Lists, Different
  <2>4. AttrInv(AttrInit, EmptyMap)
    BY <2>1, <2>2, <2>3, AttrMade
  <2> QED BY <1>4, <2>4 DEF ContainersInv
<1> QED BY <1>1, <1>2, <1>3, <1>4 DEF BoxInit

LEMMA ContainersStep == ContainersInv /\ [BoxNext]_boxVars => ContainersInv'
<1> SUFFICES ASSUME ContainersInv, [BoxNext]_boxVars PROVE ContainersInv'
  OBVIOUS
<1>1. CASE UNCHANGED boxVars
  <2>1. box' = box /\ means' = means
    BY <1>1 DEF boxVars
  <2> QED BY <2>1 DEF ContainersInv
<1>2. CASE HashNext
  <2>1. PICK k \in KeySet : ne_hash_remove(k) \/ \E v \in Items : ne_hash_insert(k, v)
    BY <1>2 DEF HashNext
  <2>2. box.kind = "hash"
    BY <2>1 DEF ne_hash_remove, ne_hash_insert
  <2>3. HashInv(box, means)
    BY <2>2, Kinds DEF ContainersInv
  <2>4. HashInv(box', means')
    BY <2>1, <2>3, RemoveKeeps, InsertKeeps
  <2> QED BY <2>4 DEF ContainersInv
<1>3. CASE ListNext
  <2>1. box.kind = "list"
    BY <1>3 DEF ListNext, uListPop, uListReverse, uListSort, uListAppend, uListDelete, uListInsert, uListSet
  <2>2. ListInv(box, means)
    BY <2>1, Kinds DEF ContainersInv
  <2>3. \A x \in -MaxItems .. MaxItems - 1 : x \in Int
    BY ContainersAssumption
  <2>4. ListInv(box', means')
    <3>1. CASE uListPop \/ uListReverse \/ uListSort
      BY <2>2, <3>1, PopKeeps, ReverseKeeps, SortKeeps
    <3>2. CASE \E v \in Items : uListAppend(v)
      BY <2>2, <3>2, AppendKeeps
    <3>3. ASSUME NEW x \in -MaxItems .. MaxItems - 1,
                 uListDelete(x) \/ \E v \in Items : uListInsert(x, v) \/ uListSet(x, v)
          PROVE  ListInv(box', means')
      <4>1. x \in Int
        BY <2>3
      <4>2. CASE uListDelete(x)
        BY <2>2, <4>1, <4>2, DeleteKeeps
      <4>3. CASE \E v \in Items : uListInsert(x, v) \/ uListSet(x, v)
        BY <2>2, <4>1, <4>3, InsertItemKeeps, SetKeeps
      <4> QED BY <3>3, <4>2, <4>3
    <3> QED BY <1>3, <3>1, <3>2, <3>3 DEF ListNext
  <2> QED BY <2>4 DEF ContainersInv
<1>4. CASE StringNext
  <2>1. box.kind = "string"
    BY <1>4 DEF StringNext, string_clear, string_append, string_appendn, string_set, string_readline
  <2>2. StrInv(box) /\ box.len = means
    BY <2>1, Kinds DEF ContainersInv
  <2>3. StrInv(box') /\ box'.len = means'
    BY <1>4, <2>2, StringStep
  <2> QED BY <2>3 DEF ContainersInv
<1>5. CASE AttrNext
  <2>1. box.kind = "attr"
    BY <1>5 DEF AttrNext, SetAttr, SetAttrNull, MergeAttr
  <2>2. AttrInv(box, means)
    BY <2>1, Kinds DEF ContainersInv
  <2>3. CASE \E k \in AttrKeys : SetAttrNull(k)
    BY <2>3 DEF SetAttrNull, ContainersInv
  <2>4. CASE ~\E k \in AttrKeys : SetAttrNull(k)
    <3>1. AttrInv(box', means')
      BY <1>5, <2>2, <2>4, SetAttrKeeps, MergeKeeps DEF AttrNext
    <3> QED BY <3>1 DEF ContainersInv
  <2> QED BY <2>3, <2>4
<1> QED BY <1>1, <1>2, <1>3, <1>4, <1>5 DEF BoxNext

LEMMA ContainersInvFaithful == ContainersInv => ContainersFaithful
<1> SUFFICES ASSUME ContainersInv PROVE ContainersFaithful
  OBVIOUS
<1>1. CASE HashInv(box, means)
  BY <1>1, HashFaithful, Kinds DEF ContainersFaithful
<1>2. CASE ListInv(box, means)
  BY <1>2, ListFaithful, Kinds DEF ContainersFaithful
<1>3. CASE StrInv(box) /\ box.len = means
  <2>1. StringOK
    BY <1>3 DEF StringOK, StrInv
  <2> QED BY <1>3, <2>1, Kinds DEF ContainersFaithful
<1>4. CASE AttrInv(box, means)
  BY <1>4, AttrFaithful, Kinds DEF ContainersFaithful
<1>5. CASE box = [kind |-> "crashed"]
  BY <1>5 DEF ContainersFaithful
<1> QED BY <1>1, <1>2, <1>3, <1>4, <1>5 DEF ContainersInv

(* After every sequence of operations, with every choice of sizes, keys,   *)
(* hash values and values, each container is what it stands for: the hash  *)
(* table, which doubles when it counts as many as it has buckets, finds    *)
(* every key, and a loop over it meets every key once, if NULL is none of  *)
(* them (neo_hash.c:143, 219); the list is the sequence, within an array   *)
(* that grows (ulist.c:148); the NUL of the string is in its buffer        *)
(* (neo_str.c:120); the attributes are a map, to which a merge adds all    *)
(* of its own or only the first (neo_hdf.c:514).                           *)
THEOREM ContainersStayFaithful == BoxSpec => []ContainersFaithful
<1>1. BoxInit => ContainersInv
  BY ContainersStart
<1>2. ContainersInv /\ [BoxNext]_boxVars => ContainersInv'
  BY ContainersStep
<1>3. ContainersInv => ContainersFaithful
  BY ContainersInvFaithful
<1> QED BY <1>1, <1>2, <1>3, PTL DEF BoxSpec
=============================================================================
