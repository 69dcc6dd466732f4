----------------------------- MODULE CacheProofs -----------------------------
(***************************************************************************)
(* Proofs about Cache, for any number of chains, keys, cells and values:   *)
(* the hash chains of server/cache.c stay well formed.                     *)
(*                                                                         *)
(* The inductive invariant says that there is, for each chain, a list of   *)
(* cells which first, last, next and prev represent.  An operation on a    *)
(* key changes the list of one chain: it takes a cell out, puts one in     *)
(* front, or moves one to the front.                                       *)
(***************************************************************************)
EXTENDS Cache, ListLemmas, FiniteSetTheorems, SequenceTheorems, TLAPS

Ptr == Cells \cup {NULL}
CellType == [key : Keys \cup {NULL}, val : AllVals \cup {NULL},
             expire : ExpiryTimes, prev : Ptr, next : Ptr]
ChainType == [len : Nat, first : Ptr, last : Ptr]

(* x is in the first n places of s. *)
In(x, n, s) == \E i \in 1..n : x = s[i]

(* The pointers of the cells c and of the chain t represent the n cells s. *)
List(c, t, n, s) ==
  /\ n \in Nat /\ s \in [1..n -> Cells]
  /\ t.len = n
  /\ n = 0 => t.first = NULL /\ t.last = NULL
  /\ n # 0 => t.first = s[1] /\ t.last = s[n]
  /\ \A i \in 1..n : /\ c[s[i]].prev = IF i = 1 THEN NULL ELSE s[i - 1]
                     /\ c[s[i]].next = IF i = n THEN NULL ELSE s[i + 1]

(* They hold different keys of chain h, with the values last stored. *)
Contents(c, l, h, n, s) ==
  /\ \A i \in 1..n : /\ c[s[i]].key \in Keys /\ Hash[c[s[i]].key] = h
                     /\ c[s[i]].val \in AllVals
                     /\ c[s[i]].val = l[c[s[i]].key]
  /\ \A i, j \in 1..n : c[s[i]].key = c[s[j]].key => i = j

(* The lists w of all chains: the cells in use are theirs, and those which *)
(* are not in use hold nothing.                                            *)
Represents(w) ==
  /\ \A h \in Chains : List(cell, table[h], table[h].len, w[h])
  /\ \A h \in Chains : Contents(cell, latest, h, table[h].len, w[h])
  /\ \A x \in Cells : x \in heap <=> \E h \in Chains : In(x, table[h].len, w[h])
  /\ \A x \in Cells : x \notin heap => cell[x] = Blank

CacheTyped == TypeOK /\ g_ctime \in 1..MaxTime

CacheInv == CacheTyped /\ \E w : Represents(w)

------------------------------------------------------------------------------
(* Reading a chain *)

(* The nodes that the next pointers lead to are the listed cells, and then *)
(* NULL.                                                                   *)
LEMMA NodesListed ==
  ASSUME NEW h \in Chains, NEW n, NEW s, List(cell, table[h], n, s), NULL \notin Cells
  PROVE  \A i \in Nat : Node(h)[i] = IF i < n THEN s[i + 1] ELSE NULL
<1> DEFINE Step(f) == [i \in Nat |-> IF i = 0 THEN table[h].first
                                     ELSE IF f[i - 1] = NULL THEN NULL
                                     ELSE cell[f[i - 1]].next]
           G == [i \in Nat |-> IF i < n THEN s[i + 1] ELSE NULL]
<1>0. n \in Nat /\ s \in [1..n -> Cells]
  BY DEF List
<1>1. G = Step(G)
  <2>1. ASSUME NEW i \in Nat
        PROVE  G[i] = IF i = 0 THEN table[h].first
                      ELSE IF G[i - 1] = NULL THEN NULL ELSE cell[G[i - 1]].next
    <3>1. CASE i = 0
      BY <3>1, <1>0 DEF List
    <3>2. CASE i # 0 /\ i - 1 < n
      <4>1. i \in 1..n /\ i - 1 \in Nat /\ (i - 1) + 1 = i
        BY <3>2, <1>0
      <4>2. G[i - 1] = s[i] /\ s[i] \in Cells
        BY <4>1, <3>2, <1>0
      <4>3. cell[s[i]].next = IF i = n THEN NULL ELSE s[i + 1]
        BY <4>1 DEF List
      <4> QED BY <4>1, <4>2, <4>3, <3>2, <1>0
    <3>3. CASE i # 0 /\ ~(i - 1 < n)
      BY <3>3, <1>0
    <3> QED BY <3>1, <3>2, <3>3
  <2> HIDE DEF G
  <2>2. G = [i \in Nat |-> G[i]]
    BY DEF G
  <2> QED BY <2>1, <2>2
<1>2. Node(h) = CHOOSE f : f = Step(f)
  BY DEF Node
<1>3. Node(h) = Step(Node(h))
  <2> HIDE DEF Step, G
  <2> QED BY <1>1, <1>2
<1>4. ASSUME NEW i \in Nat
      PROVE  Node(h)[i] = IF i = 0 THEN table[h].first
                          ELSE IF Node(h)[i - 1] = NULL THEN NULL
                          ELSE cell[Node(h)[i - 1]].next
  BY <1>3
<1>5. ASSUME NEW i \in Nat
      PROVE  G[i] = IF i = 0 THEN table[h].first
                    ELSE IF G[i - 1] = NULL THEN NULL ELSE cell[G[i - 1]].next
  <2> HIDE DEF G
  <2> QED BY <1>1
<1> DEFINE T == {i \in Nat : Node(h)[i] # G[i]}
<1>6. T = {}
  <2> HIDE DEF G
  <2> SUFFICES ASSUME T # {} PROVE FALSE
    OBVIOUS
  <2>1. PICK i \in T : \A j \in T : i <= j
    <3>1. T \subseteq Nat
      OBVIOUS
    <3> HIDE DEF T
    <3> QED BY <3>1, LeastElement
  <2>2. i \in Nat /\ Node(h)[i] # G[i]
    BY <2>1
  <2>3. i # 0
    BY <2>2, <1>4, <1>5
  <2>4. i - 1 \in Nat /\ ~(i <= i - 1)
    BY <2>2, <2>3
  <2>5. Node(h)[i - 1] = G[i - 1]
    BY <2>1, <2>4
  <2> QED BY <2>2, <2>3, <2>5, <1>4, <1>5
<1> QED BY <1>6

(* The function that find_in_chain() follows along the next pointers. *)
Looks(k, f) ==
  \A x \in Ptr : f[x] = IF x = NULL THEN NULL
                        ELSE IF cell[x].key = k THEN x ELSE f[cell[x].next]

(* A function that solves the equation of the search gives its result. *)
LEMMA SearchSolved ==
  ASSUME NEW k, NEW h, NEW G, DOMAIN G = Ptr, G = [x \in Ptr |-> G[x]], Looks(k, G)
  PROVE  \E f : Looks(k, f) /\ find_in_chain(h, k) = f[table[h].first]
<1> DEFINE Step(f) == [x \in Ptr |-> IF x = NULL THEN NULL
                                     ELSE IF cell[x].key = k THEN x ELSE f[cell[x].next]]
           F == CHOOSE f : f = Step(f)
<1>1. G = Step(G)
  BY DEF Looks
<1>2. F = Step(F)
  <2> HIDE DEF Step
  <2> QED BY <1>1
<1>3. find_in_chain(h, k) = F[table[h].first]
  BY DEF find_in_chain, Ptr
<1> HIDE DEF F
<1>4. Looks(k, F)
  BY <1>2 DEF Looks
<1> QED BY <1>3, <1>4

(* Cells of different chains are different. *)
LEMMA ListsDisjoint ==
  ASSUME NEW w, Represents(w), NEW g \in Chains, NEW h \in Chains, g # h,
         NEW i \in 1..table[g].len, NEW j \in 1..table[h].len
  PROVE  w[g][i] # w[h][j]
  BY DEF Represents, Contents

(* A listed cell is found by its key. *)
LEMMA FindsKey ==
  ASSUME CacheTyped, NEW w, Represents(w), NEW k \in Keys,
         NEW p \in 1..table[Hash[k]].len, cell[w[Hash[k]][p]].key = k
  PROVE  Find(k) = w[Hash[k]][p]
<1> DEFINE h == Hash[k]
           n == table[h].len
           s == w[h]
           Before(x) == \E i \in 1..p : x = s[i]
           G == [x \in Ptr |-> IF Before(x) THEN s[p] ELSE NULL]
<1>0. h \in Chains
  BY HashAssumption
<1>1. /\ List(cell, table[h], n, s) /\ Contents(cell, latest, h, n, s)
      /\ n \in Nat /\ s \in [1..n -> Cells] /\ p \in 1..n /\ NULL \notin Cells
  BY <1>0, NullAssumption DEF Represents, List
<1>2. ASSUME NEW i \in 1..n
      PROVE  /\ s[i] \in Cells
             /\ cell[s[i]].next = IF i = n THEN NULL ELSE s[i + 1]
             /\ cell[s[i]].key = k <=> i = p
             /\ Before(s[i]) <=> i <= p
  <2>1. \A j \in 1..n : s[i] = s[j] => i = j
    BY <1>1 DEF Contents
  <2>2. Before(s[i]) <=> i <= p
    BY <2>1, <1>1
  <2>3. cell[s[i]].key = k <=> i = p
    BY <1>1 DEF Contents
  <2> HIDE DEF Before
  <2>4. cell[s[i]].next = IF i = n THEN NULL ELSE s[i + 1]
    BY <1>1 DEF List
  <2> QED BY <2>2, <2>3, <2>4, <1>1
<1>3. ASSUME NEW x \in Cells, ~In(x, n, s)
      PROVE  /\ cell[x].key # k /\ cell[x].next \in Ptr
             /\ ~Before(x) /\ ~Before(cell[x].next)
  <2>1. ~Before(x)
    BY <1>1, <1>3 DEF In
  <2>2. CASE x \notin heap
    <3>1. cell[x] = Blank
      BY <2>2 DEF Represents
    <3>2. cell[x].key = NULL /\ cell[x].next = NULL
      BY <3>1 DEF Blank
    <3>3. ~Before(NULL)
      BY <1>1
    <3> HIDE DEF Before
    <3> QED BY <3>2, <3>3, <2>1, NullAssumption DEF Ptr
  <2>3. CASE x \in heap
    <3>1. PICK g \in Chains : In(x, table[g].len, w[g])
      BY <2>3 DEF Represents
    <3>2. PICK i \in 1..table[g].len : x = w[g][i]
      BY <3>1 DEF In
    <3>3. g # h
      BY <3>1, <1>3
    <3>4. List(cell, table[g], table[g].len, w[g]) /\ Contents(cell, latest, g, table[g].len, w[g])
      BY DEF Represents
    <3>5. cell[x].key # k
      BY <3>2, <3>3, <3>4 DEF Contents
    <3>6. /\ table[g].len \in Nat /\ w[g] \in [1..table[g].len -> Cells]
          /\ cell[x].next = IF i = table[g].len THEN NULL ELSE w[g][i + 1]
      BY <3>4, <3>2 DEF List
    <3>7. CASE i = table[g].len
      BY <3>6, <3>7, <1>1, <2>1, <3>5 DEF Ptr
    <3>8. CASE i # table[g].len
      <4>1. i + 1 \in 1..table[g].len
        BY <3>8, <3>6
      <4>2. \A j \in 1..n : w[g][i + 1] # s[j]
        BY <4>1, <3>3, <1>0, ListsDisjoint
      <4>3. ~Before(w[g][i + 1])
        BY <4>2, <1>1
      <4> HIDE DEF Before, h, s, n
      <4> QED BY <4>1, <4>3, <3>6, <3>8, <2>1, <3>5 DEF Ptr
    <3> QED BY <3>7, <3>8
  <2> QED BY <2>2, <2>3
<1> HIDE DEF h, n, s
<1>4. Looks(k, G)
  <2> SUFFICES ASSUME NEW x \in Ptr
               PROVE  G[x] = IF x = NULL THEN NULL
                             ELSE IF cell[x].key = k THEN x ELSE G[cell[x].next]
    BY DEF Looks
  <2>1. CASE x = NULL
    <3>1. ~Before(x)
      BY <2>1, <1>1
    <3> QED BY <3>1, <2>1
  <2>2. CASE x # NULL /\ In(x, n, s)
    <3>1. PICK i \in 1..n : x = s[i]
      BY <2>2 DEF In
    <3>2. CASE i = n
      <4>1. ~Before(NULL) /\ NULL \in Ptr
        BY <1>1 DEF Ptr
      <4> HIDE DEF Before
      <4> QED BY <4>1, <3>1, <3>2, <1>2, <2>2, <1>1
    <3>3. CASE i # n
      <4>1. i + 1 \in 1..n
        BY <3>3, <1>1
      <4>2. s[i + 1] \in Ptr /\ (Before(s[i + 1]) <=> i + 1 <= p)
        BY <4>1, <1>2 DEF Ptr
      <4>3. /\ cell[x].next = s[i + 1] /\ (cell[x].key = k <=> i = p)
            /\ Before(x) <=> i <= p
        BY <3>1, <3>3, <1>2
      <4> HIDE DEF Before
      <4>4. CASE i < p
        BY <4>2, <4>3, <4>4, <2>2, <1>1
      <4>5. CASE i = p
        BY <4>2, <4>3, <4>5, <2>2, <1>1, <3>1
      <4>6. CASE p < i
        BY <4>2, <4>3, <4>6, <2>2, <1>1
      <4> QED BY <4>4, <4>5, <4>6, <1>1
    <3> QED BY <3>2, <3>3
  <2>3. CASE x # NULL /\ ~In(x, n, s)
    <3>1. x \in Cells
      BY <2>3 DEF Ptr
    <3> HIDE DEF Before
    <3> QED BY <3>1, <2>3, <1>3
  <2> QED BY <2>1, <2>2, <2>3
<1>5. PICK f : Looks(k, f) /\ find_in_chain(h, k) = f[table[h].first]
  <2>1. DOMAIN G = Ptr /\ G = [x \in Ptr |-> G[x]]
    OBVIOUS
  <2> HIDE DEF G
  <2> QED BY <2>1, <1>4, SearchSolved
<1>6. ASSUME NEW i \in 1..n
      PROVE  f[s[i]] = IF i = p THEN s[i] ELSE f[cell[s[i]].next]
  <2>1. s[i] \in Ptr /\ s[i] # NULL /\ (cell[s[i]].key = k <=> i = p)
    BY <1>2, <1>1 DEF Ptr
  <2> QED BY <2>1, <1>5 DEF Looks
<1> DEFINE T == {d \in Nat : d < p /\ f[s[p - d]] # s[p]}
<1>7. T = {}
  <2> SUFFICES ASSUME T # {} PROVE FALSE
    OBVIOUS
  <2>1. PICK d \in T : \A e \in T : d <= e
    <3>1. T \subseteq Nat
      OBVIOUS
    <3> HIDE DEF T
    <3> QED BY <3>1, LeastElement
  <2>2. d \in Nat /\ d < p /\ f[s[p - d]] # s[p]
    BY <2>1
  <2>3. d # 0
    BY <2>2, <1>6, <1>1
  <2>4. d - 1 \in Nat /\ d - 1 < p /\ ~(d <= d - 1) /\ p - (d - 1) = (p - d) + 1
    BY <2>2, <2>3, <1>1
  <2>5. f[s[p - (d - 1)]] = s[p]
    BY <2>1, <2>4
  <2>6. p - d \in 1..n /\ p - d # p /\ p - d # n
    BY <2>2, <2>3, <1>1
  <2>7. f[s[p - d]] = f[s[(p - d) + 1]]
    BY <2>6, <1>6, <1>2
  <2> QED BY <2>2, <2>5, <2>7, <2>4
<1>8. f[s[1]] = s[p]
  <2>1. p - 1 \in Nat /\ p - 1 < p /\ p - (p - 1) = 1
    BY <1>1
  <2> QED BY <2>1, <1>7
<1>9. table[h].first = s[1]
  BY <1>1 DEF List
<1> QED BY <1>5, <1>8, <1>9 DEF Find, h, s

(* What the search returns is a listed cell with the key. *)
LEMMA FindsListed ==
  ASSUME CacheTyped, NEW w, Represents(w), NEW k \in Keys, Find(k) # NULL
  PROVE  \E p \in 1..table[Hash[k]].len :
            cell[w[Hash[k]][p]].key = k /\ Find(k) = w[Hash[k]][p]
<1> DEFINE h == Hash[k]
           n == table[h].len
           s == w[h]
           G == [x \in Ptr |-> NULL]
<1>0. h \in Chains
  BY HashAssumption
<1>1. /\ List(cell, table[h], n, s) /\ n \in Nat /\ s \in [1..n -> Cells]
      /\ NULL \notin Cells
  BY <1>0, NullAssumption DEF Represents, List
<1>2. CASE \E p \in 1..n : cell[s[p]].key = k
  <2>1. PICK p \in 1..n : cell[s[p]].key = k
    BY <1>2
  <2>2. Find(k) = s[p]
    BY <2>1, FindsKey
  <2> QED BY <2>1, <2>2
<1>3. CASE ~ \E p \in 1..n : cell[s[p]].key = k
  <2>1. ASSUME NEW x \in Cells PROVE cell[x].key # k /\ cell[x].next \in Ptr
    <3>1. cell[x].next \in Ptr
      BY DEF CacheTyped, TypeOK, Ptr
    <3>2. CASE x \notin heap
      <4>1. cell[x].key = NULL
        BY <3>2 DEF Represents, Blank
      <4> QED BY <4>1, <3>1, NullAssumption
    <3>3. CASE x \in heap
      <4>1. PICK g \in Chains : In(x, table[g].len, w[g])
        BY <3>3 DEF Represents
      <4>2. PICK i \in 1..table[g].len : x = w[g][i]
        BY <4>1 DEF In
      <4>3. Contents(cell, latest, g, table[g].len, w[g])
        BY DEF Represents
      <4>4. Hash[cell[x].key] = g
        BY <4>2, <4>3 DEF Contents
      <4>5. CASE g = h
        BY <4>2, <4>5, <1>3, <3>1
      <4>6. CASE g # h
        BY <4>4, <4>6, <3>1
      <4> QED BY <4>5, <4>6
    <3> QED BY <3>2, <3>3
  <2>2. Looks(k, G)
    <3> SUFFICES ASSUME NEW x \in Ptr
                 PROVE  G[x] = IF x = NULL THEN NULL
                               ELSE IF cell[x].key = k THEN x ELSE G[cell[x].next]
      BY DEF Looks
    <3> QED BY <2>1 DEF Ptr
  <2>3. PICK f : Looks(k, f) /\ find_in_chain(h, k) = f[table[h].first]
    <3>1. DOMAIN G = Ptr /\ G = [x \in Ptr |-> G[x]]
      OBVIOUS
    <3> HIDE DEF G
    <3> QED BY <3>1, <2>2, SearchSolved
  <2>4. ASSUME NEW i \in 1..n
        PROVE  f[s[i]] = f[cell[s[i]].next]
    <3>1. s[i] \in Ptr /\ s[i] # NULL /\ cell[s[i]].key # k
      BY <1>1, <1>3 DEF Ptr
    <3> QED BY <3>1, <2>3 DEF Looks
  <2>5. f[NULL] = NULL
    BY <2>3 DEF Looks, Ptr
  <2>6. ASSUME NEW i \in 1..n
        PROVE  cell[s[i]].next = IF i = n THEN NULL ELSE s[i + 1]
    BY <1>1 DEF List
  <2> HIDE DEF h, n, s
  <2> DEFINE T == {d \in Nat : d < n /\ f[s[n - d]] # NULL}
  <2>7. T = {}
    <3> SUFFICES ASSUME T # {} PROVE FALSE
      OBVIOUS
    <3>1. PICK d \in T : \A e \in T : d <= e
      <4>1. T \subseteq Nat
        OBVIOUS
      <4> HIDE DEF T
      <4> QED BY <4>1, LeastElement
    <3>2. d \in Nat /\ d < n /\ f[s[n - d]] # NULL
      BY <3>1
    <3>3. d # 0
      BY <3>2, <2>4, <2>5, <2>6, <1>1
    <3>4. d - 1 \in Nat /\ d - 1 < n /\ ~(d <= d - 1) /\ n - (d - 1) = (n - d) + 1
      BY <3>2, <3>3, <1>1
    <3>5. f[s[n - (d - 1)]] = NULL
      BY <3>1, <3>4
    <3>6. n - d \in 1..n /\ n - d # n
      BY <3>2, <3>3, <1>1
    <3>7. f[s[n - d]] = f[s[(n - d) + 1]]
      BY <3>6, <2>4, <2>6
    <3> QED BY <3>2, <3>5, <3>7, <3>4
  <2>8. f[table[h].first] = NULL
    <3>1. CASE n = 0
      BY <3>1, <1>1, <2>5 DEF List
    <3>2. CASE n # 0
      <4>1. n - 1 \in Nat /\ n - 1 < n /\ n - (n - 1) = 1
        BY <3>2, <1>1
      <4>2. f[s[1]] = NULL
        BY <4>1, <2>7
      <4> QED BY <4>2, <3>2, <1>1 DEF List
    <3> QED BY <3>1, <3>2
  <2> QED BY <2>3, <2>8 DEF Find, h
<1> QED BY <1>2, <1>3

------------------------------------------------------------------------------
(* One chain changes *)

(* A step that changes the lists w in chain h only, where it leaves s. *)
Changes(w, h, n, s) ==
  \E u : /\ Represents(u)'
         /\ u[h] = s /\ table'[h].len = n
         /\ \A g \in Chains \ {h} :
              /\ u[g] = w[g] /\ table'[g] = table[g]
              /\ \A i \in 1..table[g].len : cell'[w[g][i]] = cell[w[g][i]]

(* The list of chain h is replaced by s.  A cell of s is new or was in the *)
(* chain; one that leaves the chain is freed; the others stay as they are. *)
LEMMA OneChainChanges ==
  ASSUME CacheTyped, NEW w, Represents(w), NEW h \in Chains, NEW n \in Nat, NEW s,
         List(cell', table'[h], n, s), Contents(cell', latest', h, n, s),
         \A g \in Chains \ {h} : table'[g] = table[g],
         \A k \in Keys : Hash[k] # h => latest'[k] = latest[k],
         \A i \in 1..n : s[i] \in heap => In(s[i], table[h].len, w[h]),
         \A x \in Cells : ~In(x, table[h].len, w[h]) /\ ~In(x, n, s) => cell'[x] = cell[x],
         \A x \in Cells : In(x, table[h].len, w[h]) /\ ~In(x, n, s) => cell'[x] = Blank,
         \A x \in Cells : x \in heap' <=> \/ x \in heap /\ ~In(x, table[h].len, w[h])
                                          \/ In(x, n, s)
  PROVE  Changes(w, h, n, s)
<1> DEFINE u == [g \in Chains |-> IF g = h THEN s ELSE w[g]]
<1>0. u[h] = s /\ \A g \in Chains \ {h} : u[g] = w[g]
  OBVIOUS
<1> HIDE DEF u
<1>1. table'[h].len = n
  BY DEF List
<1>2. ASSUME NEW g \in Chains \ {h}, NEW i \in 1..table[g].len
      PROVE  /\ w[g][i] \in Cells /\ w[g][i] \in heap
             /\ ~In(w[g][i], table[h].len, w[h]) /\ ~In(w[g][i], n, s)
             /\ cell'[w[g][i]] = cell[w[g][i]]
  <2>1. w[g][i] \in Cells
    BY DEF Represents, List
  <2>2. w[g][i] \in heap
    BY <2>1 DEF Represents, In
  <2>3. ~In(w[g][i], table[h].len, w[h])
    BY ListsDisjoint DEF In
  <2>4. ~In(w[g][i], n, s)
    <3> SUFFICES ASSUME NEW j \in 1..n, w[g][i] = s[j] PROVE FALSE
      BY DEF In
    <3>1. In(s[j], table[h].len, w[h])
      BY <2>2
    <3> QED BY <3>1, <2>3
  <2> QED BY <2>1, <2>2, <2>3, <2>4
<1>3. ASSUME NEW g \in Chains \ {h}
      PROVE  /\ List(cell', table'[g], table'[g].len, w[g])
             /\ Contents(cell', latest', g, table'[g].len, w[g])
  <2>1. List(cell, table[g], table[g].len, w[g]) /\ Contents(cell, latest, g, table[g].len, w[g])
    BY DEF Represents
  <2>2. table'[g] = table[g]
    OBVIOUS
  <2>3. List(cell', table[g], table[g].len, w[g])
    <3>1. ASSUME NEW i \in 1..table[g].len
          PROVE  /\ cell'[w[g][i]].prev = IF i = 1 THEN NULL ELSE w[g][i - 1]
                 /\ cell'[w[g][i]].next = IF i = table[g].len THEN NULL ELSE w[g][i + 1]
      <4>1. cell'[w[g][i]] = cell[w[g][i]]
        BY <1>2
      <4> QED BY <4>1, <2>1 DEF List
    <3> QED BY <3>1, <2>1 DEF List
  <2>4. Contents(cell', latest', g, table[g].len, w[g])
    <3>1. ASSUME NEW i \in 1..table[g].len
          PROVE  /\ cell'[w[g][i]].key \in Keys /\ Hash[cell'[w[g][i]].key] = g
                 /\ cell'[w[g][i]].val \in AllVals
                 /\ cell'[w[g][i]].val = latest'[cell'[w[g][i]].key]
      <4>1. cell'[w[g][i]] = cell[w[g][i]]
        BY <1>2
      <4>2. /\ cell[w[g][i]].key \in Keys /\ Hash[cell[w[g][i]].key] = g
            /\ cell[w[g][i]].val \in AllVals
            /\ cell[w[g][i]].val = latest[cell[w[g][i]].key]
        BY <2>1 DEF Contents
      <4>3. latest'[cell[w[g][i]].key] = latest[cell[w[g][i]].key]
        BY <4>2
      <4> QED BY <4>1, <4>2, <4>3
    <3>2. ASSUME NEW i \in 1..table[g].len, NEW j \in 1..table[g].len,
                 cell'[w[g][i]].key = cell'[w[g][j]].key
          PROVE  i = j
      BY <3>2, <1>2, <2>1 DEF Contents
    <3> QED BY <3>1, <3>2 DEF Contents
  <2> QED BY <2>2, <2>3, <2>4
<1>4. ASSUME NEW g \in Chains
      PROVE  /\ List(cell', table'[g], table'[g].len, u[g])
             /\ Contents(cell', latest', g, table'[g].len, u[g])
  <2>1. CASE g = h
    BY <2>1, <1>0, <1>1
  <2>2. CASE g # h
    BY <2>2, <1>0, <1>3
  <2> QED BY <2>1, <2>2
<1>5. ASSUME NEW x \in Cells
      PROVE  x \in heap' <=> \E g \in Chains : In(x, table'[g].len, u[g])
  <2>1. ASSUME x \in heap' PROVE \E g \in Chains : In(x, table'[g].len, u[g])
    <3>1. CASE In(x, n, s)
      BY <3>1, <1>0, <1>1
    <3>2. CASE ~In(x, n, s)
      <4>1. x \in heap /\ ~In(x, table[h].len, w[h])
        BY <3>2, <2>1
      <4>2. PICK g \in Chains : In(x, table[g].len, w[g])
        BY <4>1 DEF Represents
      <4>3. g # h
        BY <4>1, <4>2
      <4> QED BY <4>2, <4>3, <1>0
    <3> QED BY <3>1, <3>2
  <2>2. ASSUME NEW g \in Chains, In(x, table'[g].len, u[g]) PROVE x \in heap'
    <3>1. CASE g = h
      BY <3>1, <2>2, <1>0, <1>1
    <3>2. CASE g # h
      <4>1. In(x, table[g].len, w[g])
        BY <3>2, <2>2, <1>0
      <4>2. PICK i \in 1..table[g].len : x = w[g][i]
        BY <4>1 DEF In
      <4>3. x \in heap /\ ~In(x, table[h].len, w[h])
        BY <4>2, <3>2, <1>2
      <4> QED BY <4>3
    <3> QED BY <3>1, <3>2
  <2> QED BY <2>1, <2>2
<1>6. ASSUME NEW x \in Cells, x \notin heap' PROVE cell'[x] = Blank
  <2>1. ~In(x, n, s)
    BY <1>6
  <2>2. CASE In(x, table[h].len, w[h])
    BY <2>1, <2>2
  <2>3. CASE ~In(x, table[h].len, w[h])
    BY <2>1, <2>3, <1>6 DEF Represents
  <2> QED BY <2>2, <2>3
<1>7. Represents(u)'
  BY <1>4, <1>5, <1>6 DEF Represents
<1> QED BY <1>0, <1>1, <1>2, <1>7 DEF Changes

------------------------------------------------------------------------------
(* Taking a cell out of a list and putting one in front *)

Differ(n, s) == \A i, j \in 1..n : s[i] = s[j] => i = j

Removed(n, s, p) == [i \in 1..(n - 1) |-> IF i < p THEN s[i] ELSE s[i + 1]]
Pushed(n, s, y)  == [i \in 1..(n + 1) |-> IF i = 1 THEN y ELSE s[i - 1]]

(* c2 holds for x the key, the value and the time that c holds. *)
Same(c, c2, x) ==
  c2[x].key = c[x].key /\ c2[x].val = c[x].val /\ c2[x].expire = c[x].expire

(* c2 and t2 lead past the cell at place p. *)
Bypassed(c, t, c2, t2, n, s, p) ==
  /\ \A i \in 1..n \ {p} :
        /\ c2[s[i]].prev = IF i = p + 1 THEN c[s[p]].prev ELSE c[s[i]].prev
        /\ c2[s[i]].next = IF i + 1 = p THEN c[s[p]].next ELSE c[s[i]].next
  /\ t2.len = t.len - 1
  /\ t2.first = IF p = 1 THEN c[s[p]].next ELSE t.first
  /\ t2.last = IF p = n THEN c[s[p]].prev ELSE t.last

(* c2 and t2 have y before the first cell. *)
Headed(c, t, c2, t2, n, s, y) ==
  /\ c2[y].prev = NULL /\ c2[y].next = t.first
  /\ \A i \in 1..n : /\ c2[s[i]].prev = IF i = 1 THEN y ELSE c[s[i]].prev
                     /\ c2[s[i]].next = c[s[i]].next
  /\ t2.len = t.len + 1
  /\ t2.first = y
  /\ t2.last = IF n = 0 THEN y ELSE t.last

LEMMA ContentsDiffer ==
  ASSUME NEW c, NEW l, NEW h, NEW n, NEW s, Contents(c, l, h, n, s)
  PROVE  Differ(n, s)
  BY DEF Contents, Differ

(* The places of a list after a removal. *)
LEMMA RemovedPlaces ==
  ASSUME NEW n \in Nat, NEW s, NEW p \in 1..n
  PROVE  /\ n - 1 \in Nat
         /\ \A i \in 1..(n - 1) :
              /\ i \in 1..n /\ i + 1 \in 1..n
              /\ Removed(n, s, p)[i] = IF i < p THEN s[i] ELSE s[i + 1]
  BY DEF Removed

LEMMA InRemoved ==
  ASSUME NEW n \in Nat, NEW s, Differ(n, s), NEW p \in 1..n, NEW x
  PROVE  In(x, n - 1, Removed(n, s, p)) <=> In(x, n, s) /\ x # s[p]
<1>1. ASSUME In(x, n - 1, Removed(n, s, p)) PROVE In(x, n, s) /\ x # s[p]
  <2>1. PICK i \in 1..(n - 1) : x = Removed(n, s, p)[i]
    BY <1>1 DEF In
  <2>2. i \in 1..n /\ i + 1 \in 1..n /\ x = IF i < p THEN s[i] ELSE s[i + 1]
    BY <2>1, RemovedPlaces
  <2>3. CASE i < p
    BY <2>2, <2>3 DEF In, Differ
  <2>4. CASE ~(i < p)
    <3>1. i + 1 # p
      BY <2>2, <2>4
    <3> QED BY <2>2, <2>4, <3>1 DEF In, Differ
  <2> QED BY <2>3, <2>4
<1>2. ASSUME In(x, n, s), x # s[p] PROVE In(x, n - 1, Removed(n, s, p))
  <2>1. PICK j \in 1..n : x = s[j]
    BY <1>2 DEF In
  <2>2. j # p
    BY <2>1, <1>2
  <2>3. CASE j < p
    <3>1. j \in 1..(n - 1)
      BY <2>3
    <3>2. Removed(n, s, p)[j] = s[j]
      BY <3>1, <2>3 DEF Removed
    <3> QED BY <3>1, <3>2, <2>1 DEF In
  <2>4. CASE p < j
    <3>1. j - 1 \in 1..(n - 1) /\ ~(j - 1 < p) /\ (j - 1) + 1 = j
      BY <2>4
    <3>2. Removed(n, s, p)[j - 1] = s[j]
      BY <3>1 DEF Removed
    <3> QED BY <3>1, <3>2, <2>1 DEF In
  <2> QED BY <2>2, <2>3, <2>4
<1> QED BY <1>1, <1>2

LEMMA InPushed ==
  ASSUME NEW n \in Nat, NEW s, NEW y, NEW x
  PROVE  In(x, n + 1, Pushed(n, s, y)) <=> x = y \/ In(x, n, s)
<1>1. ASSUME In(x, n + 1, Pushed(n, s, y)) PROVE x = y \/ In(x, n, s)
  <2>1. PICK i \in 1..(n + 1) : x = IF i = 1 THEN y ELSE s[i - 1]
    BY <1>1 DEF In, Pushed
  <2>2. CASE i # 1
    <3>1. i - 1 \in 1..n
      BY <2>2
    <3> QED BY <3>1, <2>1, <2>2 DEF In
  <2> QED BY <2>1, <2>2
<1>2. ASSUME x = y PROVE In(x, n + 1, Pushed(n, s, y))
  <2>1. 1 \in 1..(n + 1)
    OBVIOUS
  <2>2. Pushed(n, s, y)[1] = y
    BY <2>1 DEF Pushed
  <2> QED BY <2>1, <2>2, <1>2 DEF In
<1>3. ASSUME NEW j \in 1..n, x = s[j] PROVE In(x, n + 1, Pushed(n, s, y))
  <2>1. j + 1 \in 1..(n + 1) /\ j + 1 # 1 /\ (j + 1) - 1 = j
    OBVIOUS
  <2>2. Pushed(n, s, y)[j + 1] = s[j]
    BY <2>1 DEF Pushed
  <2> QED BY <2>1, <2>2, <1>3 DEF In
<1> QED BY <1>1, <1>2, <1>3 DEF In

(* Pointers that bypass a cell represent the list without it. *)
LEMMA ListRemoved ==
  ASSUME NEW c, NEW t, NEW c2, NEW t2, NEW n, NEW s, NEW p \in 1..n,
         List(c, t, n, s), Bypassed(c, t, c2, t2, n, s, p)
  PROVE  List(c2, t2, n - 1, Removed(n, s, p))
<1> DEFINE r == Removed(n, s, p)
<1>1. n \in Nat /\ s \in [1..n -> Cells] /\ t.len = n
  BY DEF List
<1>2. \A i \in 1..n : /\ c[s[i]].prev = IF i = 1 THEN NULL ELSE s[i - 1]
                      /\ c[s[i]].next = IF i = n THEN NULL ELSE s[i + 1]
  BY DEF List
<1>3. \A i \in 1..(n - 1) : /\ i \in 1..n /\ i + 1 \in 1..n
                            /\ r[i] = IF i < p THEN s[i] ELSE s[i + 1]
  BY <1>1, RemovedPlaces
<1>4. n - 1 \in Nat /\ r \in [1..(n - 1) -> Cells]
  <2>1. \A i \in 1..(n - 1) : (IF i < p THEN s[i] ELSE s[i + 1]) \in Cells
    BY <1>1, <1>3
  <2> QED BY <2>1, <1>1 DEF Removed
<1>5. t2.len = n - 1
  BY <1>1 DEF Bypassed
<1> HIDE DEF r
<1>6. ASSUME n - 1 = 0 PROVE t2.first = NULL /\ t2.last = NULL
  <2>1. n = 1 /\ p = 1 /\ p \in 1..n
    BY <1>6, <1>1
  <2>2. c[s[p]].prev = NULL /\ c[s[p]].next = NULL
    BY <2>1, <1>2
  <2> QED BY <2>1, <2>2 DEF Bypassed
<1>7. ASSUME n - 1 # 0 PROVE t2.first = r[1] /\ t2.last = r[n - 1]
  <2>1. /\ 1 \in 1..(n - 1) /\ n - 1 \in 1..(n - 1) /\ (n - 1) + 1 = n
        /\ n # 0 /\ 1 \in 1..n /\ n \in 1..n
    BY <1>7, <1>1
  <2>2. t.first = s[1] /\ t.last = s[n]
    BY <2>1 DEF List
  <2>3. CASE p = 1
    <3>1. t2.first = s[2] /\ r[1] = s[2]
      BY <2>3, <2>1, <1>2, <1>3 DEF Bypassed
    <3>2. t2.last = s[n] /\ r[n - 1] = s[n]
      BY <2>3, <2>1, <2>2, <1>3, <1>1 DEF Bypassed
    <3> QED BY <3>1, <3>2
  <2>4. CASE p # 1
    <3>1. t2.first = s[1] /\ r[1] = s[1]
      BY <2>4, <2>1, <2>2, <1>3, <1>1 DEF Bypassed
    <3>2. CASE p = n
      <4>1. t2.last = s[n - 1] /\ r[n - 1] = s[n - 1]
        BY <3>2, <2>4, <2>1, <1>2, <1>3, <1>1 DEF Bypassed
      <4> QED BY <3>1, <4>1
    <3>3. CASE p # n
      <4>1. t2.last = s[n] /\ r[n - 1] = s[n]
        BY <3>3, <2>1, <2>2, <1>3, <1>1 DEF Bypassed
      <4> QED BY <3>1, <4>1
    <3> QED BY <3>2, <3>3
  <2> QED BY <2>3, <2>4
<1>8. ASSUME NEW i \in 1..(n - 1)
      PROVE  /\ c2[r[i]].prev = IF i = 1 THEN NULL ELSE r[i - 1]
             /\ c2[r[i]].next = IF i = n - 1 THEN NULL ELSE r[i + 1]
  <2>1. i \in 1..n /\ i + 1 \in 1..n
    BY <1>3
  <2>2. CASE i < p
    <3>1. r[i] = s[i] /\ i # p /\ i # p + 1
      BY <2>2, <1>3, <1>1
    <3>2. c2[s[i]].prev = c[s[i]].prev
      BY <3>1, <2>1 DEF Bypassed
    <3>3. i # 1 => r[i - 1] = s[i - 1]
      <4> SUFFICES ASSUME i # 1 PROVE r[i - 1] = s[i - 1]
        OBVIOUS
      <4>1. i - 1 \in 1..(n - 1) /\ i - 1 < p
        BY <2>2, <1>1
      <4> QED BY <4>1, <1>3
    <3>4. c2[r[i]].prev = IF i = 1 THEN NULL ELSE r[i - 1]
      BY <3>1, <3>2, <3>3, <1>2, <2>1
    <3>5. CASE i + 1 = p
      <4>1. c2[s[i]].next = c[s[p]].next
        BY <3>5, <3>1, <2>1 DEF Bypassed
      <4>2. c[s[p]].next = IF p = n THEN NULL ELSE s[p + 1]
        BY <1>2
      <4>3. CASE p = n
        BY <4>1, <4>2, <4>3, <3>5, <3>4, <3>1, <1>1
      <4>4. CASE p # n
        <5>1. i # n - 1 /\ i + 1 \in 1..(n - 1) /\ ~(i + 1 < p)
          BY <4>4, <3>5, <1>1
        <5>2. r[i + 1] = s[p + 1]
          BY <5>1, <1>3, <3>5
        <5> QED BY <5>1, <5>2, <4>1, <4>2, <4>4, <3>1, <3>4
      <4> QED BY <4>3, <4>4
    <3>6. CASE i + 1 # p
      <4>1. c2[s[i]].next = c[s[i]].next
        BY <3>6, <3>1, <2>1 DEF Bypassed
      <4>2. i # n /\ i # n - 1 /\ i + 1 \in 1..(n - 1) /\ i + 1 < p
        BY <3>6, <2>2, <1>1
      <4>3. c[s[i]].next = s[i + 1] /\ r[i + 1] = s[i + 1]
        BY <4>2, <1>2, <1>3, <2>1
      <4> QED BY <4>1, <4>2, <4>3, <3>1, <3>4
    <3> QED BY <3>5, <3>6
  <2>3. CASE ~(i < p)
    <3>1. r[i] = s[i + 1] /\ i + 1 # p /\ (i + 1) + 1 # p /\ i + 1 # 1 /\ (i + 1) - 1 = i
      BY <2>3, <1>3, <1>1
    <3>2. /\ c2[s[i + 1]].prev = IF i + 1 = p + 1 THEN c[s[p]].prev ELSE c[s[i + 1]].prev
          /\ c2[s[i + 1]].next = c[s[i + 1]].next
      BY <3>1, <2>1 DEF Bypassed
    <3>3. c2[r[i]].next = IF i = n - 1 THEN NULL ELSE r[i + 1]
      <4>1. c[s[i + 1]].next = IF i + 1 = n THEN NULL ELSE s[(i + 1) + 1]
        BY <2>1, <1>2
      <4>2. CASE i = n - 1
        BY <4>1, <4>2, <3>1, <3>2, <1>1
      <4>3. CASE i # n - 1
        <5>1. i + 1 \in 1..(n - 1) /\ ~(i + 1 < p) /\ i + 1 # n
          BY <4>3, <2>3, <1>1
        <5>2. r[i + 1] = s[(i + 1) + 1]
          BY <5>1, <1>3
        <5> QED BY <5>1, <5>2, <4>1, <4>3, <3>1, <3>2
      <4> QED BY <4>2, <4>3
    <3>4. c2[r[i]].prev = IF i = 1 THEN NULL ELSE r[i - 1]
      <4>1. CASE i = p
        <5>1. c2[r[i]].prev = IF p = 1 THEN NULL ELSE s[p - 1]
          BY <4>1, <3>1, <3>2, <1>2
        <5>2. i # 1 => r[i - 1] = s[p - 1]
          <6> SUFFICES ASSUME i # 1 PROVE r[i - 1] = s[i - 1]
            BY <4>1
          <6>1. i - 1 \in 1..(n - 1) /\ i - 1 < p
            BY <4>1, <1>1
          <6> QED BY <6>1, <1>3
        <5> QED BY <5>1, <5>2, <4>1
      <4>2. CASE i # p
        <5>1. c2[r[i]].prev = s[i]
          BY <4>2, <3>1, <3>2, <1>2, <2>1
        <5>2. i - 1 \in 1..(n - 1) /\ ~(i - 1 < p) /\ (i - 1) + 1 = i /\ i # 1
          BY <4>2, <2>3, <1>1
        <5>3. r[i - 1] = s[i]
          BY <5>2, <1>3
        <5> QED BY <5>1, <5>2, <5>3
      <4> QED BY <4>1, <4>2
    <3> QED BY <3>3, <3>4
  <2> QED BY <2>2, <2>3
<1> QED BY <1>4, <1>5, <1>6, <1>7, <1>8 DEF List, r

(* Pointers that have a new cell in front represent the longer list. *)
LEMMA ListPushed ==
  ASSUME NEW c, NEW t, NEW c2, NEW t2, NEW n, NEW s, NEW y \in Cells,
         List(c, t, n, s), Headed(c, t, c2, t2, n, s, y)
  PROVE  List(c2, t2, n + 1, Pushed(n, s, y))
<1> DEFINE r == Pushed(n, s, y)
<1>1. n \in Nat /\ s \in [1..n -> Cells] /\ t.len = n
  BY DEF List
<1>2. \A i \in 1..n : /\ c[s[i]].prev = IF i = 1 THEN NULL ELSE s[i - 1]
                      /\ c[s[i]].next = IF i = n THEN NULL ELSE s[i + 1]
  BY DEF List
<1>3. \A i \in 1..(n + 1) : r[i] = IF i = 1 THEN y ELSE s[i - 1]
  BY DEF Pushed
<1>4. n + 1 \in Nat /\ n + 1 # 0 /\ r \in [1..(n + 1) -> Cells]
  <2>1. ASSUME NEW i \in 1..(n + 1) PROVE (IF i = 1 THEN y ELSE s[i - 1]) \in Cells
    <3>1. i # 1 => i - 1 \in 1..n
      BY <1>1
    <3> QED BY <3>1, <1>1
  <2> QED BY <2>1, <1>1 DEF Pushed
<1>5. t2.len = n + 1
  BY <1>1 DEF Headed
<1> HIDE DEF r
<1>6. t2.first = r[1] /\ t2.last = r[n + 1]
  <2>1. 1 \in 1..(n + 1) /\ n + 1 \in 1..(n + 1)
    BY <1>1
  <2>2. CASE n = 0
    BY <2>1, <2>2, <1>3 DEF Headed
  <2>3. CASE n # 0
    <3>1. n + 1 # 1 /\ (n + 1) - 1 = n
      BY <2>3, <1>1
    <3>2. r[1] = y /\ r[n + 1] = s[n]
      BY <3>1, <2>1, <1>3
    <3> QED BY <3>2, <2>3 DEF Headed, List
  <2> QED BY <2>2, <2>3
<1>7. ASSUME NEW i \in 1..(n + 1)
      PROVE  /\ c2[r[i]].prev = IF i = 1 THEN NULL ELSE r[i - 1]
             /\ c2[r[i]].next = IF i = n + 1 THEN NULL ELSE r[i + 1]
  <2>1. CASE i = 1
    <3>1. r[i] = y /\ c2[y].prev = NULL /\ c2[y].next = t.first
      BY <2>1, <1>3 DEF Headed
    <3>2. CASE n = 0
      BY <2>1, <3>1, <3>2 DEF List
    <3>3. CASE n # 0
      <4>1. 2 \in 1..(n + 1) /\ i # n + 1
        BY <3>3, <2>1, <1>1
      <4>2. r[2] = s[1]
        BY <4>1, <1>3
      <4>3. t.first = s[1]
        BY <3>3 DEF List
      <4> QED BY <4>1, <4>2, <4>3, <3>1, <2>1
    <3> QED BY <3>2, <3>3
  <2>2. CASE i # 1
    <3>1. i - 1 \in 1..n /\ i \in 1..(n + 1)
      BY <2>2, <1>1
    <3>2. r[i] = s[i - 1]
      BY <2>2, <1>3
    <3>3. /\ c2[s[i - 1]].prev = IF i - 1 = 1 THEN y ELSE c[s[i - 1]].prev
          /\ c2[s[i - 1]].next = c[s[i - 1]].next
      BY <3>1 DEF Headed
    <3>4. c2[r[i]].prev = r[i - 1]
      <4>1. i - 1 \in 1..(n + 1)
        BY <3>1, <1>1
      <4>2. r[i - 1] = IF i - 1 = 1 THEN y ELSE s[(i - 1) - 1]
        BY <4>1, <1>3
      <4>3. c[s[i - 1]].prev = IF i - 1 = 1 THEN NULL ELSE s[(i - 1) - 1]
        BY <3>1, <1>2
      <4> QED BY <4>2, <4>3, <3>2, <3>3
    <3>5. c2[r[i]].next = IF i = n + 1 THEN NULL ELSE r[i + 1]
      <4>1. c[s[i - 1]].next = IF i - 1 = n THEN NULL ELSE s[(i - 1) + 1]
        BY <3>1, <1>2
      <4>2. CASE i = n + 1
        BY <4>1, <4>2, <3>2, <3>3, <1>1
      <4>3. CASE i # n + 1
        <5>1. i - 1 # n /\ i + 1 \in 1..(n + 1) /\ i + 1 # 1 /\ (i + 1) - 1 = (i - 1) + 1
          BY <4>3, <3>1, <1>1
        <5>2. r[i + 1] = s[(i - 1) + 1]
          BY <5>1, <1>3
        <5> QED BY <5>1, <5>2, <4>1, <4>3, <3>2, <3>3
      <4> QED BY <4>2, <4>3
    <3> QED BY <3>4, <3>5, <2>2
  <2> QED BY <2>1, <2>2
<1> QED BY <1>4, <1>5, <1>6, <1>7 DEF List, r

LEMMA ContentsRemoved ==
  ASSUME NEW c, NEW l, NEW c2, NEW l2, NEW h, NEW n \in Nat, NEW s, NEW p \in 1..n,
         Contents(c, l, h, n, s),
         \A i \in 1..n \ {p} : Same(c, c2, s[i]) /\ l2[c[s[i]].key] = l[c[s[i]].key]
  PROVE  Contents(c2, l2, h, n - 1, Removed(n, s, p))
<1> DEFINE r == Removed(n, s, p)
           m(i) == IF i < p THEN i ELSE i + 1
<1>1. ASSUME NEW i \in 1..(n - 1)
      PROVE  m(i) \in 1..n \ {p} /\ r[i] = s[m(i)]
  BY <1>1 DEF Removed
<1>2. ASSUME NEW i \in 1..(n - 1), NEW j \in 1..(n - 1), m(i) = m(j) PROVE i = j
  BY <1>2
<1> HIDE DEF r, m
<1>3. ASSUME NEW i \in 1..(n - 1)
      PROVE  /\ c2[r[i]].key = c[s[m(i)]].key
             /\ c2[r[i]].key \in Keys /\ Hash[c2[r[i]].key] = h
             /\ c2[r[i]].val \in AllVals
             /\ c2[r[i]].val = l2[c2[r[i]].key]
  <2>1. PICK j \in 1..n \ {p} : j = m(i) /\ r[i] = s[j]
    BY <1>1
  <2> QED BY <2>1 DEF Contents, Same
<1>4. ASSUME NEW i \in 1..(n - 1), NEW j \in 1..(n - 1), c2[r[i]].key = c2[r[j]].key
      PROVE  i = j
  <2>1. m(i) \in 1..n /\ m(j) \in 1..n /\ c[s[m(i)]].key = c[s[m(j)]].key
    BY <1>1, <1>3, <1>4
  <2>2. m(i) = m(j)
    BY <2>1 DEF Contents
  <2> QED BY <2>2, <1>2
<1> QED BY <1>3, <1>4 DEF Contents, r

LEMMA ContentsPushed ==
  ASSUME NEW c, NEW l, NEW c2, NEW l2, NEW h, NEW n \in Nat, NEW s, NEW y, NEW k \in Keys,
         Contents(c, l, h, n, s), Hash[k] = h,
         c2[y].key = k, c2[y].val \in AllVals, l2[k] = c2[y].val,
         \A i \in 1..n : /\ Same(c, c2, s[i]) /\ c[s[i]].key # k
                         /\ l2[c[s[i]].key] = l[c[s[i]].key]
  PROVE  Contents(c2, l2, h, n + 1, Pushed(n, s, y))
<1> DEFINE r == Pushed(n, s, y)
<1>1. ASSUME NEW i \in 1..(n + 1), i # 1 PROVE i - 1 \in 1..n /\ r[i] = s[i - 1]
  BY <1>1 DEF Pushed
<1>2. ASSUME NEW i \in 1..(n + 1), i = 1 PROVE r[i] = y
  BY <1>2 DEF Pushed
<1> HIDE DEF r
<1>3. ASSUME NEW i \in 1..(n + 1)
      PROVE  /\ c2[r[i]].key \in Keys /\ Hash[c2[r[i]].key] = h
             /\ c2[r[i]].val \in AllVals
             /\ c2[r[i]].val = l2[c2[r[i]].key]
             /\ c2[r[i]].key = k <=> i = 1
  <2>1. CASE i = 1
    BY <2>1, <1>2
  <2>2. CASE i # 1
    <3>1. PICK j \in 1..n : r[i] = s[j]
      BY <2>2, <1>1
    <3> QED BY <3>1, <2>2 DEF Contents, Same
  <2> QED BY <2>1, <2>2
<1>4. ASSUME NEW i \in 1..(n + 1), NEW j \in 1..(n + 1), c2[r[i]].key = c2[r[j]].key
      PROVE  i = j
  <2>1. CASE i = 1 \/ j = 1
    BY <2>1, <1>3, <1>4
  <2>2. CASE i # 1 /\ j # 1
    <3>1. /\ i - 1 \in 1..n /\ r[i] = s[i - 1]
          /\ j - 1 \in 1..n /\ r[j] = s[j - 1]
      BY <2>2, <1>1
    <3>2. c[s[i - 1]].key = c[s[j - 1]].key
      BY <3>1, <1>4 DEF Same
    <3>3. i - 1 = j - 1
      BY <3>1, <3>2 DEF Contents
    <3> QED BY <3>3
  <2> QED BY <2>1, <2>2
<1> QED BY <1>3, <1>4 DEF Contents, r

------------------------------------------------------------------------------
(* The operations on one chain *)

(* The fields of y after a step that sets only its pointers. *)
Ptrs(c, y, q, m) == [key |-> c[y].key, val |-> c[y].val, expire |-> c[y].expire,
                     prev |-> q, next |-> m]

LEMMA CellFields ==
  ASSUME CacheTyped, NEW y \in Cells
  PROVE  /\ cell[y] \in CellType
         /\ cell[y] = Ptrs(cell, y, cell[y].prev, cell[y].next)
         /\ cell[y].prev \in Ptr /\ cell[y].next \in Ptr
         /\ \A q, m \in Ptr : Ptrs(cell, y, q, m) \in CellType
  BY DEF CacheTyped, TypeOK, CellType, Ptr, Ptrs

LEMMA BlankTyped == Blank \in CellType
  BY DEF Blank, CellType, Ptr, ExpiryTimes

(* The neighbours of a listed cell. *)
LEMMA Neighbours ==
  ASSUME NEW c, NEW t, NEW n, NEW s, List(c, t, n, s), Differ(n, s), NULL \notin Cells,
         NEW p \in 1..n
  PROVE  /\ n \in Nat /\ n # 0
         /\ s[p] \in Cells /\ t.first \in Cells /\ t.last \in Cells
         /\ t.first = s[p] <=> p = 1
         /\ t.last = s[p] <=> p = n
         /\ c[s[p]].prev \in Ptr /\ c[s[p]].next \in Ptr
         /\ c[s[p]].prev # s[p] /\ c[s[p]].next # s[p]
         /\ c[s[p]].prev = NULL <=> p = 1
         /\ c[s[p]].next = NULL <=> p = n
         /\ \A i \in 1..n : /\ s[i] = c[s[p]].prev <=> i + 1 = p
                            /\ s[i] = c[s[p]].next <=> i = p + 1
<1>1. n \in Nat /\ s \in [1..n -> Cells] /\ n # 0 /\ 1 \in 1..n /\ n \in 1..n
  BY DEF List
<1>2. t.first = s[1] /\ t.last = s[n]
  BY <1>1 DEF List
<1>3. /\ c[s[p]].prev = IF p = 1 THEN NULL ELSE s[p - 1]
      /\ c[s[p]].next = IF p = n THEN NULL ELSE s[p + 1]
  BY DEF List
<1>4. \A i, j \in 1..n : s[i] = s[j] <=> i = j
  BY DEF Differ
<1>5. \A i \in 1..n : s[i] \in Cells /\ s[i] # NULL
  BY <1>1
<1>6. /\ c[s[p]].prev \in Ptr
      /\ c[s[p]].prev # s[p]
      /\ c[s[p]].prev = NULL <=> p = 1
      /\ \A i \in 1..n : s[i] = c[s[p]].prev <=> i + 1 = p
  <2>1. CASE p = 1
    BY <2>1, <1>3, <1>5 DEF Ptr
  <2>2. CASE p # 1
    <3>1. p - 1 \in 1..n
      BY <2>2, <1>1
    <3> QED BY <3>1, <2>2, <1>3, <1>4, <1>5 DEF Ptr
  <2> QED BY <2>1, <2>2
<1>7. /\ c[s[p]].next \in Ptr
      /\ c[s[p]].next # s[p]
      /\ c[s[p]].next = NULL <=> p = n
      /\ \A i \in 1..n : s[i] = c[s[p]].next <=> i = p + 1
  <2>1. CASE p = n
    BY <2>1, <1>1, <1>3, <1>5 DEF Ptr
  <2>2. CASE p # n
    <3>1. p + 1 \in 1..n
      BY <2>2, <1>1
    <3> QED BY <3>1, <2>2, <1>3, <1>4, <1>5 DEF Ptr
  <2> QED BY <2>1, <2>2
<1> QED BY <1>1, <1>2, <1>4, <1>5, <1>6, <1>7

PointersTyped ==
  /\ cell \in [Cells -> CellType] /\ heap \in SUBSET Cells
  /\ table \in [Chains -> ChainType]

(* The cell at place p, which has key k, leaves its list. *)
Unlinks(w, k, p) ==
  LET h == Hash[k] n == table[h].len s == w[h] IN
  /\ cell[s[p]].key = k
  /\ \A i \in 1..n \ {p} : Same(cell, cell', s[i])
  /\ Changes(w, h, n - 1, Removed(n, s, p))

(* cache_del() and the cache_get() of an expired entry. *)
LEMMA UnlinkKeeps ==
  ASSUME CacheTyped, NEW w, Represents(w), NEW k \in Keys, Find(k) # NULL,
         Unlink(Hash[k], Find(k)),
         \A j \in Keys \ {k} : latest'[j] = latest[j]
  PROVE  /\ \E p \in 1..table[Hash[k]].len : Unlinks(w, k, p)
         /\ PointersTyped'
<1> DEFINE h == Hash[k]
           n == table[h].len
           s == w[h]
<1>0. h \in Chains
  BY HashAssumption
<1>1. PICK p \in 1..n : cell[s[p]].key = k /\ Find(k) = s[p]
  BY FindsListed
<1>2. /\ List(cell, table[h], n, s) /\ Contents(cell, latest, h, n, s)
      /\ n \in Nat /\ s \in [1..n -> Cells] /\ NULL \notin Cells /\ Differ(n, s)
  BY <1>0, NullAssumption, ContentsDiffer DEF Represents, List
<1> DEFINE x == s[p]
           a == cell[x].prev
           b == cell[x].next
           r == Removed(n, s, p)
<1>3. Unlink(h, x)
  BY <1>1
<1> HIDE DEF h, n, s
<1>4. /\ x \in Cells /\ a \in Ptr /\ b \in Ptr /\ a # x /\ b # x
      /\ table[h].first = x <=> p = 1
      /\ table[h].last = x <=> p = n
      /\ a = NULL <=> p = 1
      /\ b = NULL <=> p = n
      /\ n # 0 /\ table[h].first \in Cells /\ table[h].last \in Cells
      /\ \A i \in 1..n : (s[i] = a <=> i + 1 = p) /\ (s[i] = b <=> i = p + 1)
  BY <1>2, Neighbours
<1>5. cell \in [Cells -> CellType] /\ heap \in SUBSET Cells /\ table \in [Chains -> ChainType]
  BY DEF CacheTyped, TypeOK, CellType, ChainType, Ptr
<1>6. /\ heap' = heap \ {x}
      /\ table' = [table EXCEPT ![h] = [len   |-> n - 1,
                                        first |-> IF p = 1 THEN b ELSE table[h].first,
                                        last  |-> IF p = n THEN a ELSE table[h].last]]
  BY <1>3, <1>4, <1>5, <1>0 DEF Unlink, n
<1> HIDE DEF a, b, x
<1>7. ASSUME NEW y \in Cells
      PROVE  cell'[y] = IF y = x THEN Blank
                        ELSE Ptrs(cell, y, IF y = b THEN a ELSE cell[y].prev,
                                           IF y = a THEN b ELSE cell[y].next)
  <2>0. cell[y] = Ptrs(cell, y, cell[y].prev, cell[y].next) /\ y # NULL /\ cell[y] \in CellType
    BY CellFields, <1>2
  <2>1. CASE p = 1 /\ p = n
    <3>1. cell' = [cell EXCEPT ![x] = Blank]
      BY <2>1, <1>3, <1>4 DEF Unlink, WithPrev, a, b
    <3> QED BY <3>1, <2>0, <2>1, <1>4, <1>5
  <2>2. CASE p = 1 /\ p # n
    <3>1. cell' = [[cell EXCEPT ![b].prev = NULL] EXCEPT ![x] = Blank]
      BY <2>2, <1>3, <1>4 DEF Unlink, WithPrev, a, b
    <3>2. b \in Cells
      BY <2>2, <1>4 DEF Ptr
    <3> QED BY <3>1, <3>2, <2>0, <2>2, <1>4, <1>5 DEF Ptrs, CellType
  <2>3. CASE p # 1 /\ p = n
    <3>1. cell' = [[cell EXCEPT ![a].next = NULL] EXCEPT ![x] = Blank]
      BY <2>3, <1>3, <1>4 DEF Unlink, WithPrev, a, b
    <3>2. a \in Cells
      BY <2>3, <1>4 DEF Ptr
    <3> QED BY <3>1, <3>2, <2>0, <2>3, <1>4, <1>5 DEF Ptrs, CellType
  <2>4. CASE p # 1 /\ p # n
    <3>1. cell' = [[[cell EXCEPT ![a].next = b] EXCEPT ![b].prev = a] EXCEPT ![x] = Blank]
      BY <2>4, <1>3, <1>4 DEF Unlink, WithPrev, a, b
    <3>2. a \in Cells /\ b \in Cells
      BY <2>4, <1>4 DEF Ptr
    <3> QED BY <3>1, <3>2, <2>0, <2>4, <1>4, <1>5 DEF Ptrs, CellType
  <2> QED BY <2>1, <2>2, <2>3, <2>4
<1>8. cell' \in [Cells -> CellType]
  <2>1. cell' = [y \in Cells |-> cell'[y]]
    BY <1>3, <1>5 DEF Unlink, WithPrev
  <2>2. ASSUME NEW y \in Cells PROVE cell'[y] \in CellType
    BY <1>7, <1>4, CellFields, BlankTyped
  <2> QED BY <2>1, <2>2
<1>9. table' \in [Chains -> ChainType] /\ heap' \in SUBSET Cells
  <2>1. [len |-> n - 1, first |-> IF p = 1 THEN b ELSE table[h].first,
         last |-> IF p = n THEN a ELSE table[h].last] \in ChainType
    BY <1>2, <1>4 DEF ChainType, Ptr
  <2> QED BY <2>1, <1>5, <1>6, <1>0
<1>10. List(cell', table'[h], n - 1, r)
  <2>1. table'[h] = [len   |-> n - 1, first |-> IF p = 1 THEN b ELSE table[h].first,
                     last  |-> IF p = n THEN a ELSE table[h].last]
    BY <1>6, <1>5, <1>0
  <2>2. ASSUME NEW i \in 1..n \ {p}
        PROVE  /\ cell'[s[i]].prev = IF i = p + 1 THEN a ELSE cell[s[i]].prev
               /\ cell'[s[i]].next = IF i + 1 = p THEN b ELSE cell[s[i]].next
    <3>1. s[i] \in Cells /\ s[i] # x
      BY <1>2 DEF Differ, x
    <3>2. cell'[s[i]] = Ptrs(cell, s[i], IF s[i] = b THEN a ELSE cell[s[i]].prev,
                                         IF s[i] = a THEN b ELSE cell[s[i]].next)
      BY <3>1, <1>7
    <3>3. /\ cell'[s[i]].prev = IF s[i] = b THEN a ELSE cell[s[i]].prev
          /\ cell'[s[i]].next = IF s[i] = a THEN b ELSE cell[s[i]].next
      BY <3>2 DEF Ptrs
    <3> QED BY <3>3, <1>4
  <2>3. Bypassed(cell, table[h], cell', table'[h], n, s, p)
    BY <2>1, <2>2 DEF Bypassed, a, b, x, n
  <2> QED BY <2>3, <1>2, ListRemoved
<1>21. \A i \in 1..n \ {p} : Same(cell, cell', s[i])
  <2> SUFFICES ASSUME NEW i \in 1..n \ {p} PROVE Same(cell, cell', s[i])
    OBVIOUS
  <2>1. s[i] \in Cells /\ s[i] # x
    BY <1>2 DEF Differ, x
  <2>2. cell'[s[i]] = Ptrs(cell, s[i], IF s[i] = b THEN a ELSE cell[s[i]].prev,
                                       IF s[i] = a THEN b ELSE cell[s[i]].next)
    BY <2>1, <1>7
  <2> QED BY <2>2 DEF Same, Ptrs
<1>11. Contents(cell', latest', h, n - 1, r)
  <2>1. ASSUME NEW i \in 1..n \ {p}
        PROVE  /\ Same(cell, cell', s[i])
               /\ latest'[cell[s[i]].key] = latest[cell[s[i]].key]
    <3>1. s[i] \in Cells /\ s[i] # x
      BY <1>2 DEF Differ, x
    <3>2. Same(cell, cell', s[i])
      BY <1>21
    <3>3. cell[s[i]].key \in Keys \ {k}
      BY <1>1, <1>2 DEF Contents
    <3> QED BY <3>2, <3>3
  <2> QED BY <2>1, <1>2, ContentsRemoved
<1> HIDE DEF r
<1>12. \A y : In(y, n - 1, r) <=> In(y, n, s) /\ y # x
  BY <1>2, InRemoved DEF r, x
<1>13. In(x, n, s)
  BY DEF In, x
<1>14. ASSUME NEW i \in 1..(n - 1) PROVE In(r[i], n, s)
  <2>1. In(r[i], n - 1, r)
    BY DEF In
  <2> QED BY <2>1, <1>12
<1>15. ASSUME NEW y \in Cells, ~In(y, n, s) PROVE cell'[y] = cell[y]
  <2>1. y # x /\ cell[y] = Ptrs(cell, y, cell[y].prev, cell[y].next)
    BY <1>13, <1>15, CellFields
  <2>2. y # a
    <3> SUFFICES ASSUME y = a PROVE FALSE
      OBVIOUS
    <3>1. p # 1
      BY <1>4, <1>2
    <3>2. p - 1 \in 1..n /\ (p - 1) + 1 = p
      BY <3>1, <1>2
    <3> QED BY <3>2, <1>4, <1>15 DEF In
  <2>3. y # b
    <3> SUFFICES ASSUME y = b PROVE FALSE
      OBVIOUS
    <3>1. p # n
      BY <1>4, <1>2
    <3>2. p + 1 \in 1..n
      BY <3>1, <1>2
    <3> QED BY <3>2, <1>4, <1>15 DEF In
  <2> QED BY <2>1, <2>2, <2>3, <1>7
<1>16. \A y \in Cells : In(y, n, s) /\ ~In(y, n - 1, r) => cell'[y] = Blank
  BY <1>12, <1>7
<1>17. \A y \in Cells : y \in heap' <=> \/ y \in heap /\ ~In(y, n, s)
                                        \/ In(y, n - 1, r)
  <2>1. \A y \in Cells : In(y, n, s) => y \in heap
    BY <1>0 DEF Represents, n, s
  <2> QED BY <2>1, <1>6, <1>12, <1>13
<1>18. \A g \in Chains \ {h} : table'[g] = table[g]
  BY <1>6, <1>5
<1>19. \A j \in Keys : Hash[j] # h => latest'[j] = latest[j]
  BY DEF h
<1>20. Changes(w, h, n - 1, r)
  <2>1. n - 1 \in Nat
    BY <1>2
  <2> QED BY <2>1, <1>0, <1>10, <1>11, <1>14, <1>15, <1>16, <1>17, <1>18, <1>19,
             OneChainChanges DEF n, s
<1>22. Unlinks(w, k, p)
  BY <1>1, <1>20, <1>21 DEF Unlinks, h, n, s, r
<1>23. PointersTyped'
  BY <1>8, <1>9 DEF PointersTyped
<1> QED BY <1>22, <1>23 DEF h, n

(* The entry that cache_set() makes, before it is linked. *)
NewEntry(k, v, e) == [key |-> k, val |-> v, expire |-> e, prev |-> NULL, next |-> NULL]

(* The cells c that result when y is put in front of chain h. *)
FrontOf(c, h, y, en) ==
  \A z \in Cells :
    c[z] = IF z = y THEN [en EXCEPT !.next = table[h].first]
           ELSE IF z = table[h].first THEN Ptrs(cell, z, y, cell[z].next)
           ELSE cell[z]

(* A new key in a free cell, put in front of the list of its chain. *)
LEMMA PushKeeps ==
  ASSUME CacheTyped, NEW w, Represents(w), NEW k \in Keys, Find(k) = NULL,
         NEW y \in Cells, y \notin heap, NEW v \in AllVals, NEW e \in ExpiryTimes,
         NEW c, FrontOf(c, Hash[k], y, NewEntry(k, v, e)),
         NEW t, NEW l, l[k] = v, \A j \in Keys \ {k} : l[j] = latest[j],
         t = [len |-> table[Hash[k]].len + 1, first |-> y,
              last |-> IF table[Hash[k]].len = 0 THEN y ELSE table[Hash[k]].last]
  PROVE  /\ List(c, t, table[Hash[k]].len + 1, Pushed(table[Hash[k]].len, w[Hash[k]], y))
         /\ Contents(c, l, Hash[k], table[Hash[k]].len + 1,
                     Pushed(table[Hash[k]].len, w[Hash[k]], y))
         /\ \A z \in Cells : c[z] \in CellType
         /\ \A i \in 1..table[Hash[k]].len : Same(cell, c, w[Hash[k]][i])
         /\ ~In(y, table[Hash[k]].len, w[Hash[k]])
         /\ c[y] = [NewEntry(k, v, e) EXCEPT !.next = table[Hash[k]].first]
<1> DEFINE h == Hash[k]
           n == table[h].len
           s == w[h]
           en == NewEntry(k, v, e)
<1>0. h \in Chains
  BY HashAssumption
<1>1. /\ List(cell, table[h], n, s) /\ Contents(cell, latest, h, n, s)
      /\ n \in Nat /\ s \in [1..n -> Cells] /\ NULL \notin Cells /\ Differ(n, s)
  BY <1>0, NullAssumption, ContentsDiffer DEF Represents, List
<1>2. \A i \in 1..n : cell[s[i]].key # k
  <2> SUFFICES ASSUME NEW i \in 1..n, cell[s[i]].key = k PROVE FALSE
    OBVIOUS
  <2>1. Find(k) = s[i]
    BY FindsKey
  <2> QED BY <2>1, <1>1
<1>3. ~In(y, n, s)
  BY <1>0 DEF Represents
<1>4. table[h].first \in Ptr
  BY <1>0 DEF CacheTyped, TypeOK, Ptr
<1>5. table[h].len = n
  OBVIOUS
<1> HIDE DEF h, n, s
<1>6. FrontOf(c, h, y, en)
  BY DEF h
<1>7. c[y] = [en EXCEPT !.next = table[h].first]
  BY <1>6 DEF FrontOf
<1>8. c[y].prev = NULL /\ c[y].next = table[h].first /\ c[y].key = k /\ c[y].val = v
  BY <1>7 DEF NewEntry
<1>9. ASSUME NEW i \in 1..n
      PROVE  c[s[i]] = Ptrs(cell, s[i], IF i = 1 THEN y ELSE cell[s[i]].prev, cell[s[i]].next)
  <2>1. s[i] \in Cells /\ s[i] # y /\ (s[i] = table[h].first <=> i = 1)
    <3>1. s[i] \in Cells /\ (table[h].first = s[i] <=> i = 1)
      BY <1>1, Neighbours
    <3> QED BY <3>1, <1>3 DEF In
  <2>2. cell[s[i]] = Ptrs(cell, s[i], cell[s[i]].prev, cell[s[i]].next)
    BY <2>1, CellFields
  <2>3. c[s[i]] = IF s[i] = table[h].first THEN Ptrs(cell, s[i], y, cell[s[i]].next)
                  ELSE cell[s[i]]
    BY <2>1, <1>6 DEF FrontOf
  <2>4. CASE i = 1
    BY <2>1, <2>3, <2>4
  <2>5. CASE i # 1
    BY <2>1, <2>2, <2>3, <2>5
  <2> QED BY <2>4, <2>5
<1>10. ASSUME NEW i \in 1..n
       PROVE  /\ c[s[i]].prev = IF i = 1 THEN y ELSE cell[s[i]].prev
              /\ c[s[i]].next = cell[s[i]].next
              /\ Same(cell, c, s[i])
  <2>1. c[s[i]] = Ptrs(cell, s[i], IF i = 1 THEN y ELSE cell[s[i]].prev, cell[s[i]].next)
    BY <1>9
  <2> QED BY <2>1 DEF Ptrs, Same
<1>11. t.len = n + 1 /\ t.first = y /\ t.last = IF n = 0 THEN y ELSE table[h].last
  BY DEF h, n
<1>12. List(c, t, n + 1, Pushed(n, s, y))
  <2>1. Headed(cell, table[h], c, t, n, s, y)
    BY <1>5, <1>8, <1>10, <1>11 DEF Headed
  <2> QED BY <2>1, <1>1, ListPushed
<1>13. Contents(c, l, h, n + 1, Pushed(n, s, y))
  <2>1. ASSUME NEW i \in 1..n
        PROVE  /\ Same(cell, c, s[i]) /\ cell[s[i]].key # k
               /\ l[cell[s[i]].key] = latest[cell[s[i]].key]
    <3>1. cell[s[i]].key \in Keys \ {k}
      BY <1>1, <1>2 DEF Contents
    <3> QED BY <3>1, <1>10
  <2>2. c[y].key = k /\ c[y].val \in AllVals /\ l[k] = c[y].val /\ Hash[k] = h
    BY <1>8 DEF h
  <2> QED BY <2>1, <2>2, <1>1, ContentsPushed
<1>14. ASSUME NEW z \in Cells PROVE c[z] \in CellType
  <2>1. CASE z = y
    BY <2>1, <1>7, <1>4 DEF NewEntry, CellType, Ptr
  <2>2. CASE z # y
    <3>1. y \in Ptr
      BY DEF Ptr
    <3>2. c[z] = Ptrs(cell, z, y, cell[z].next) \/ c[z] = cell[z]
      BY <2>2, <1>6 DEF FrontOf
    <3> QED BY <3>1, <3>2, CellFields
  <2> QED BY <2>1, <2>2
<1> QED BY <1>3, <1>7, <1>10, <1>12, <1>13, <1>14 DEF h, n, s

(* A new key comes first, and the last cell may leave: what cache_set()    *)
(* does to the lists.                                                      *)
Inserts(w, k, y, v, e) ==
  LET h == Hash[k] n == table[h].len s == w[h] IN
  /\ \A i \in 1..n : cell[s[i]].key # k
  /\ cell'[y].key = k /\ cell'[y].val = v /\ cell'[y].expire = e
  /\ \/ /\ n <= CHAINLEN
        /\ Changes(w, h, n + 1, Pushed(n, s, y))
        /\ \A i \in 1..n : Same(cell, cell', s[i])
     \/ /\ n > CHAINLEN
        /\ Changes(w, h, n, Removed(n + 1, Pushed(n, s, y), n + 1))
        /\ \A i \in 1..(n - 1) : Same(cell, cell', s[i])

LEMMA InsertKeeps ==
  ASSUME CacheTyped, NEW w, Represents(w), NEW k \in Keys, Find(k) = NULL,
         NEW y \in Cells, y \notin heap, NEW v \in AllVals, NEW e \in ExpiryTimes,
         InsertNew(Hash[k], y, NewEntry(k, v, e)),
         latest' = [latest EXCEPT ![k] = v]
  PROVE  Inserts(w, k, y, v, e) /\ PointersTyped'
<1> DEFINE h == Hash[k]
           n == table[h].len
           s == w[h]
           en == NewEntry(k, v, e)
           r == Pushed(n, s, y)
<1>0. h \in Chains
  BY HashAssumption
<1>1. /\ List(cell, table[h], n, s) /\ Contents(cell, latest, h, n, s)
      /\ n \in Nat /\ s \in [1..n -> Cells] /\ NULL \notin Cells /\ Differ(n, s)
  BY <1>0, NullAssumption, ContentsDiffer DEF Represents, List
<1>2. PointersTyped
  BY DEF CacheTyped, TypeOK, CellType, ChainType, Ptr, PointersTyped
<1>3. latest'[k] = v /\ \A j \in Keys \ {k} : latest'[j] = latest[j]
  BY DEF CacheTyped, TypeOK
<1>4. n # 0 => 1 \in 1..n /\ n \in 1..n /\ table[h].first = s[1] /\ table[h].last = s[n]
  BY <1>1 DEF List
<1>5. \A i \in 1..n : cell[s[i]].key # k
  <2> SUFFICES ASSUME NEW i \in 1..n, cell[s[i]].key = k PROVE FALSE
    OBVIOUS
  <2>1. Find(k) = s[i]
    BY FindsKey
  <2> QED BY <2>1, <1>1
<1>6. \A g \in Chains : \A x \in Cells : In(x, table[g].len, w[g]) => x \in heap
  BY DEF Represents
<1>7. InsertNew(h, y, en)
  OBVIOUS
<1>8. ASSUME n # 0
      PROVE  /\ FrontOf(Linked(h, y, en), h, y, en)
             /\ Linked(h, y, en) = [z \in Cells |-> Linked(h, y, en)[z]]
  <2>1. table[h].first \in Cells
    BY <1>8, <1>4, <1>1
  <2>2. table[h].first # y
    <3>1. table[h].first \in heap
      BY <2>1, <1>8, <1>4, <1>6, <1>0 DEF In
    <3> QED BY <3>1
  <2> DEFINE c == Linked(h, y, en)
  <2>3. c = [[cell EXCEPT ![y] = [en EXCEPT !.next = table[h].first]]
               EXCEPT ![table[h].first].prev = y]
    BY DEF Linked
  <2> HIDE DEF h, n, s, en, c
  <2>4. ASSUME NEW z \in Cells
        PROVE  c[z] = IF z = y THEN [en EXCEPT !.next = table[h].first]
                      ELSE IF z = table[h].first THEN [cell[z] EXCEPT !.prev = y]
                      ELSE cell[z]
    BY <2>1, <2>2, <2>3, <1>2 DEF PointersTyped
  <2>5. ASSUME NEW z \in Cells
        PROVE  [cell[z] EXCEPT !.prev = y] = Ptrs(cell, z, y, cell[z].next)
    BY <1>2 DEF PointersTyped, CellType, Ptrs
  <2>6. c = [z \in Cells |-> c[z]]
    BY <2>3, <1>2 DEF PointersTyped
  <2>7. FrontOf(c, h, y, en)
    BY <2>4, <2>5 DEF FrontOf
  <2> QED BY <2>6, <2>7 DEF c
<1>9. CASE n <= CHAINLEN
  <2>1. /\ FrontOf(cell', h, y, en)
        /\ cell' = [z \in Cells |-> cell'[z]]
        /\ table' = [table EXCEPT ![h] = [len |-> n + 1, first |-> y,
                                          last |-> IF n = 0 THEN y ELSE table[h].last]]
        /\ heap' = heap \cup {y}
    <3>1. CASE n = 0
      <4>1. /\ cell' = [cell EXCEPT ![y] = en]
            /\ table' = [table EXCEPT ![h] = [len |-> 1, first |-> y, last |-> y]]
            /\ heap' = heap \cup {y}
        BY <3>1, <1>7 DEF InsertNew
      <4>2. table[h].first = NULL
        BY <3>1, <1>1 DEF List
      <4>3. en = [en EXCEPT !.next = NULL]
        BY DEF NewEntry
      <4>4. ASSUME NEW z \in Cells
            PROVE  cell'[z] = IF z = y THEN en ELSE cell[z]
        BY <4>1, <1>2 DEF PointersTyped
      <4>5. FrontOf(cell', h, y, en)
        <5> HIDE DEF h, n, s, en
        <5> QED BY <4>2, <4>3, <4>4, <1>1 DEF FrontOf
      <4>6. cell' = [z \in Cells |-> cell'[z]]
        BY <4>1, <1>2 DEF PointersTyped
      <4>7. n + 1 = 1
        BY <3>1
      <4> HIDE DEF h, n, s, en
      <4> QED BY <4>1, <4>5, <4>6, <4>7, <3>1
    <3>2. CASE n # 0
      <4>1. /\ cell' = Linked(h, y, en)
            /\ table' = [table EXCEPT ![h].first = y, ![h].len = @ + 1]
            /\ heap' = heap \cup {y}
        BY <3>2, <1>7, <1>9 DEF InsertNew
      <4>4. FrontOf(cell', h, y, en) /\ cell' = [z \in Cells |-> cell'[z]]
        BY <4>1, <3>2, <1>8
      <4>5. table' = [table EXCEPT ![h] = [len |-> n + 1, first |-> y, last |-> table[h].last]]
        BY <4>1, <1>2, <1>0 DEF PointersTyped, ChainType
      <4> HIDE DEF h, n, s, en
      <4> QED BY <4>1, <4>4, <4>5, <3>2
    <3> QED BY <3>1, <3>2
  <2>2. table'[h] = [len |-> n + 1, first |-> y, last |-> IF n = 0 THEN y ELSE table[h].last]
    BY <2>1, <1>2, <1>0 DEF PointersTyped
  <2>3. /\ List(cell', table'[h], n + 1, r) /\ Contents(cell', latest', h, n + 1, r)
        /\ \A z \in Cells : cell'[z] \in CellType
        /\ \A i \in 1..n : Same(cell, cell', s[i])
        /\ ~In(y, n, s)
        /\ cell'[y] = [en EXCEPT !.next = table[h].first]
    <3> DEFINE c == cell' t == table'[h] l == latest'
    <3>1. FrontOf(c, Hash[k], y, NewEntry(k, v, e))
      BY <2>1
    <3>2. t = [len |-> table[Hash[k]].len + 1, first |-> y,
               last |-> IF table[Hash[k]].len = 0 THEN y ELSE table[Hash[k]].last]
      BY <2>2
    <3>3. l[k] = v /\ \A j \in Keys \ {k} : l[j] = latest[j]
      BY <1>3
    <3> HIDE DEF c, t, l
    <3>4. /\ List(c, t, n + 1, r) /\ Contents(c, l, h, n + 1, r)
          /\ \A z \in Cells : c[z] \in CellType
          /\ \A i \in 1..n : Same(cell, c, s[i])
          /\ ~In(y, n, s)
          /\ c[y] = [en EXCEPT !.next = table[h].first]
      BY <3>1, <3>2, <3>3, PushKeeps
    <3> QED BY <3>4 DEF c, t, l
  <2>4. \A z : In(z, n + 1, r) <=> z = y \/ In(z, n, s)
    BY <1>1, InPushed
  <2> HIDE DEF h, n, s, en, r
  <2>5. ASSUME NEW i \in 1..(n + 1), r[i] \in heap PROVE In(r[i], n, s)
    <3>1. In(r[i], n + 1, r)
      BY DEF In
    <3> QED BY <3>1, <2>4, <2>5
  <2>6. ASSUME NEW z \in Cells, ~In(z, n, s), ~In(z, n + 1, r) PROVE cell'[z] = cell[z]
    <3>1. z # y
      BY <2>4, <2>6
    <3>2. z # table[h].first
      <4> SUFFICES ASSUME z = table[h].first PROVE FALSE
        OBVIOUS
      <4>1. n # 0 /\ 1 \in 1..n
        BY <1>1, <1>4 DEF List
      <4>2. z = s[1]
        BY <4>1, <1>4
      <4> QED BY <4>1, <4>2, <2>6 DEF In
    <3> QED BY <3>1, <3>2, <2>1 DEF FrontOf
  <2>7. \A z \in Cells : In(z, n, s) /\ ~In(z, n + 1, r) => cell'[z] = Blank
    BY <2>4
  <2>8. \A z \in Cells : z \in heap' <=> (z \in heap /\ ~In(z, n, s)) \/ In(z, n + 1, r)
    <3>1. \A z \in Cells : In(z, n, s) => z \in heap
      BY <1>6, <1>0 DEF n, s
    <3> QED BY <3>1, <2>1, <2>4
  <2>9. \A g \in Chains \ {h} : table'[g] = table[g]
    BY <2>1, <1>2 DEF PointersTyped
  <2>10. \A j \in Keys : Hash[j] # h => latest'[j] = latest[j]
    BY <1>3 DEF h
  <2>11. Changes(w, h, n + 1, r)
    <3>1. n + 1 \in Nat
      BY <1>1
    <3> QED BY <3>1, <1>0, <2>3, <2>5, <2>6, <2>7, <2>8, <2>9, <2>10, OneChainChanges DEF n, s
  <2>12. cell'[y].key = k /\ cell'[y].val = v /\ cell'[y].expire = e
    BY <2>3 DEF en, NewEntry
  <2>13. Inserts(w, k, y, v, e)
    BY <2>3, <2>11, <2>12, <1>5, <1>9 DEF Inserts, h, n, s, r
  <2>14. PointersTyped'
    <3>1. cell' \in [Cells -> CellType]
      BY <2>1, <2>3
    <3>2. table' \in [Chains -> ChainType]
      <4>1. [len |-> n + 1, first |-> y, last |-> IF n = 0 THEN y ELSE table[h].last] \in ChainType
        BY <1>1, <1>2, <1>0 DEF PointersTyped, ChainType, Ptr
      <4> QED BY <4>1, <2>1, <1>2, <1>0 DEF PointersTyped
    <3> QED BY <3>1, <3>2, <2>1, <1>2 DEF PointersTyped
  <2> QED BY <2>13, <2>14
<1>10. CASE n > CHAINLEN
  <2> DEFINE old == table[h].last
             new == cell[old].prev
             c == Linked(h, y, en)
             t == [len |-> n + 1, first |-> y, last |-> table[h].last]
             q == Removed(n + 1, r, n + 1)
  <2>1. n # 0 /\ n # 1 /\ n - 1 \in 1..n /\ n \in 1..n /\ n + 1 \in 1..(n + 1) /\ ~(n <= CHAINLEN)
    BY <1>1, <1>10, ChainAssumption
  <2>2. /\ cell' = [c EXCEPT ![new].next = NULL, ![old] = Blank]
        /\ table' = [table EXCEPT ![h].first = y, ![h].last = new]
        /\ heap' = (heap \cup {y}) \ {old}
    BY <2>1, <1>7 DEF InsertNew
  <2>3. FrontOf(c, h, y, en) /\ c = [z \in Cells |-> c[z]]
    BY <2>1, <1>8
  <2>4. old = s[n] /\ new = s[n - 1] /\ old \in Cells /\ new \in Cells /\ new # old
    <3>1. old = s[n]
      BY <2>1, <1>4
    <3>2. cell[s[n]].prev = s[n - 1]
      BY <2>1, <1>1 DEF List
    <3>3. s[n] # s[n - 1]
      BY <2>1, <1>1 DEF Differ
    <3> QED BY <3>1, <3>2, <3>3, <2>1, <1>1
  <2>5. /\ List(c, t, n + 1, r) /\ Contents(c, latest', h, n + 1, r)
        /\ \A z \in Cells : c[z] \in CellType
        /\ \A i \in 1..n : Same(cell, c, s[i])
        /\ ~In(y, n, s)
        /\ c[y] = [en EXCEPT !.next = table[h].first]
    <3> DEFINE l == latest'
    <3>1. FrontOf(c, Hash[k], y, NewEntry(k, v, e))
      BY <2>3
    <3>2. t = [len |-> table[Hash[k]].len + 1, first |-> y,
               last |-> IF table[Hash[k]].len = 0 THEN y ELSE table[Hash[k]].last]
      BY <2>1
    <3>3. l[k] = v /\ \A j \in Keys \ {k} : l[j] = latest[j]
      BY <1>3
    <3> HIDE DEF c, t, l
    <3>4. /\ List(c, t, n + 1, r) /\ Contents(c, l, h, n + 1, r)
          /\ \A z \in Cells : c[z] \in CellType
          /\ \A i \in 1..n : Same(cell, c, s[i])
          /\ ~In(y, n, s)
          /\ c[y] = [en EXCEPT !.next = table[h].first]
      BY <3>1, <3>2, <3>3, PushKeeps
    <3> QED BY <3>4 DEF l
  <2>6. \A z : In(z, n + 1, r) <=> z = y \/ In(z, n, s)
    BY <1>1, InPushed
  <2>7. Differ(n + 1, r)
    BY <2>5, ContentsDiffer
  <2>8. \A i \in 1..(n + 1) : r[i] = IF i = 1 THEN y ELSE s[i - 1]
    BY DEF Pushed
  <2>9. r[n + 1] = old
    <3>1. n + 1 # 1 /\ (n + 1) - 1 = n
      BY <2>1, <1>1
    <3> HIDE DEF r, n, s, old
    <3> QED BY <3>1, <2>1, <2>4, <2>8
  <2> HIDE DEF r
  <2>10. \A z : In(z, n, q) <=> (z = y \/ In(z, n, s)) /\ z # old
    <3>1. n + 1 \in Nat /\ (n + 1) - 1 = n
      BY <1>1
    <3> QED BY <3>1, <2>1, <2>6, <2>7, <2>9, InRemoved
  <2> HIDE DEF h, n, s, en, c, t, q, old, new
  <2>11. y # old /\ y # new
    BY <2>1, <2>4, <2>5 DEF In
  <2>12. ASSUME NEW z \in Cells
         PROVE  cell'[z] = IF z = old THEN Blank
                           ELSE IF z = new THEN [c[z] EXCEPT !.next = NULL] ELSE c[z]
    BY <2>2, <2>3, <2>4
  <2>13. table'[h] = [len |-> n, first |-> y, last |-> new]
    BY <2>2, <1>2, <1>0 DEF PointersTyped, ChainType, n
  <2>14. c[old].next = NULL /\ c[old].prev = new
    <3>1. c[r[n + 1]].prev = r[(n + 1) - 1] /\ c[r[n + 1]].next = NULL
      BY <2>1, <2>5 DEF List
    <3>2. r[(n + 1) - 1] = s[n - 1]
      BY <2>1, <2>8, <1>1
    <3> QED BY <3>1, <3>2, <2>4, <2>9
  <2>15. ASSUME NEW i \in 1..(n + 1), i # n + 1
         PROVE  /\ r[i] \in Cells /\ r[i] # old
                /\ (r[i] = new <=> i = n)
                /\ cell'[r[i]].prev = c[r[i]].prev
                /\ cell'[r[i]].next = IF i = n THEN NULL ELSE c[r[i]].next
                /\ Same(c, cell', r[i])
    <3>1. r[i] \in Cells /\ c[r[i]] \in CellType
      BY <2>5 DEF List
    <3>2. r[i] # old
      BY <2>15, <2>1, <2>7, <2>9 DEF Differ
    <3>3. r[n] = new /\ n \in 1..(n + 1)
      BY <2>1, <2>8, <2>4, <1>1
    <3>4. r[i] = new <=> i = n
      BY <3>3, <2>7 DEF Differ
    <3>5. cell'[r[i]] = IF i = n THEN [c[r[i]] EXCEPT !.next = NULL] ELSE c[r[i]]
      BY <3>1, <3>2, <3>4, <2>12
    <3>6. CASE i = n
      <4>1. cell'[r[i]] = [c[r[i]] EXCEPT !.next = NULL]
        BY <3>5, <3>6
      <4>2. /\ cell'[r[i]].prev = c[r[i]].prev /\ cell'[r[i]].next = NULL
            /\ cell'[r[i]].key = c[r[i]].key /\ cell'[r[i]].val = c[r[i]].val
            /\ cell'[r[i]].expire = c[r[i]].expire
        BY <4>1, <3>1 DEF CellType
      <4> QED BY <4>2, <3>1, <3>2, <3>4, <3>6 DEF Same
    <3>7. CASE i # n
      BY <3>1, <3>2, <3>4, <3>5, <3>7 DEF Same
    <3> QED BY <3>6, <3>7
  <2>16. List(cell', table'[h], n, q)
    <3>1. ASSUME NEW i \in 1..(n + 1) \ {n + 1}
          PROVE  /\ cell'[r[i]].prev = IF i = (n + 1) + 1 THEN c[r[n + 1]].prev ELSE c[r[i]].prev
                 /\ cell'[r[i]].next = IF i + 1 = n + 1 THEN c[r[n + 1]].next ELSE c[r[i]].next
      BY <2>15, <2>14, <2>9, <1>1
    <3>2. t.len = n + 1 /\ t.first = y /\ n + 1 # 1
      BY <2>1, <1>1 DEF t
    <3>3. /\ table'[h].len = t.len - 1
          /\ table'[h].first = IF n + 1 = 1 THEN c[r[n + 1]].next ELSE t.first
          /\ table'[h].last = IF n + 1 = n + 1 THEN c[r[n + 1]].prev ELSE t.last
      BY <3>2, <2>13, <2>14, <2>9, <1>1
    <3>4. Bypassed(c, t, cell', table'[h], n + 1, r, n + 1)
      BY <3>1, <3>3 DEF Bypassed
    <3>5. List(cell', table'[h], (n + 1) - 1, q)
      BY <3>4, <2>1, <2>5, ListRemoved DEF q
    <3>6. (n + 1) - 1 = n
      BY <1>1
    <3> QED BY <3>5, <3>6
  <2>17. Contents(cell', latest', h, n, q)
    <3>1. \A i \in 1..(n + 1) \ {n + 1} :
            Same(c, cell', r[i]) /\ latest'[c[r[i]].key] = latest'[c[r[i]].key]
      BY <2>15
    <3>2. n + 1 \in Nat /\ (n + 1) - 1 = n
      BY <1>1
    <3> DEFINE c2 == cell' l2 == latest'
    <3> HIDE DEF c2, l2
    <3>3. \A i \in 1..(n + 1) \ {n + 1} :
            Same(c, c2, r[i]) /\ l2[c[r[i]].key] = l2[c[r[i]].key]
      BY <3>1 DEF c2
    <3>4. Contents(c, l2, h, n + 1, r)
      BY <2>5 DEF l2
    <3>5. Contents(c2, l2, h, (n + 1) - 1, q)
      BY <3>2, <3>3, <3>4, <2>1, ContentsRemoved DEF q
    <3> QED BY <3>2, <3>5 DEF c2, l2
  <2>18. ASSUME NEW i \in 1..n, q[i] \in heap PROVE In(q[i], n, s)
    <3>1. In(q[i], n, q)
      BY DEF In
    <3> QED BY <3>1, <2>10, <2>18
  <2>19. ASSUME NEW z \in Cells, ~In(z, n, s), ~In(z, n, q) PROVE cell'[z] = cell[z]
    <3>1. z # old /\ z # new
      BY <2>1, <2>4, <2>19 DEF In
    <3>2. z # y
      BY <3>1, <2>10, <2>19
    <3>3. z # table[h].first
      BY <2>1, <1>4, <2>19 DEF In, h, n, s
    <3> QED BY <3>1, <3>2, <3>3, <2>12, <2>3 DEF FrontOf
  <2>20. \A z \in Cells : In(z, n, s) /\ ~In(z, n, q) => cell'[z] = Blank
    BY <2>10, <2>12
  <2>21. \A z \in Cells : z \in heap' <=> (z \in heap /\ ~In(z, n, s)) \/ In(z, n, q)
    <3>1. \A z \in Cells : In(z, n, s) => z \in heap
      BY <1>6, <1>0 DEF n, s
    <3>2. In(old, n, s)
      BY <2>1, <2>4 DEF In
    <3> QED BY <3>1, <3>2, <2>2, <2>10, <2>4
  <2>22. \A g \in Chains \ {h} : table'[g] = table[g]
    BY <2>2, <1>2 DEF PointersTyped
  <2>23. \A j \in Keys : Hash[j] # h => latest'[j] = latest[j]
    BY <1>3 DEF h
  <2>24. Changes(w, h, n, q)
    BY <1>1, <1>0, <2>16, <2>17, <2>18, <2>19, <2>20, <2>21, <2>22, <2>23, OneChainChanges DEF n, s
  <2>25. cell'[y].key = k /\ cell'[y].val = v /\ cell'[y].expire = e
    <3>1. cell'[y] = [en EXCEPT !.next = table[h].first]
      BY <2>5, <2>11, <2>12
    <3> QED BY <3>1 DEF en, NewEntry
  <2>26. ASSUME NEW i \in 1..(n - 1) PROVE Same(cell, cell', s[i])
    <3>1. i + 1 \in 1..(n + 1) /\ i + 1 # n + 1 /\ i + 1 # 1 /\ (i + 1) - 1 = i /\ i \in 1..n
      BY <2>1, <1>1
    <3>2. r[i + 1] = s[i]
      BY <3>1, <2>8
    <3>3. Same(c, cell', s[i]) /\ Same(cell, c, s[i])
      BY <3>1, <3>2, <2>15, <2>5
    <3> QED BY <3>3 DEF Same
  <2>27. Inserts(w, k, y, v, e)
    BY <2>24, <2>25, <2>26, <1>5, <1>10 DEF Inserts, h, n, s, r, q
  <2>28. PointersTyped'
    <3>1. cell' \in [Cells -> CellType]
      <4>1. cell' = [z \in Cells |-> cell'[z]]
        BY <2>2, <2>3
      <4>2. ASSUME NEW z \in Cells PROVE cell'[z] \in CellType
        <5>1. c[z] \in CellType
          BY <2>5
        <5>2. [c[z] EXCEPT !.next = NULL] \in CellType
          BY <5>1 DEF CellType, Ptr
        <5> QED BY <5>1, <5>2, <2>12, BlankTyped
      <4> QED BY <4>1, <4>2
    <3>2. table' \in [Chains -> ChainType]
      BY <2>2, <2>4, <1>2, <1>0 DEF PointersTyped, ChainType, Ptr
    <3>3. heap' \in SUBSET Cells
      BY <2>2, <1>2 DEF PointersTyped
    <3> QED BY <3>1, <3>2, <3>3 DEF PointersTyped
  <2> QED BY <2>27, <2>28
<1> QED BY <1>9, <1>10, <1>1, ChainAssumption

(* The cell at place p, which has key k, gets the value v where it is. *)
Updates(w, k, p, v) ==
  LET h == Hash[k] n == table[h].len s == w[h] IN
  /\ cell[s[p]].key = k /\ s[p] \in Cells
  /\ cell' = [cell EXCEPT ![s[p]].val = v]
  /\ Changes(w, h, n, s)

(* cache_cas(), cache_incr(), and cache_set() of the first entry. *)
LEMMA UpdateKeeps ==
  ASSUME CacheTyped, NEW w, Represents(w), NEW k \in Keys, Find(k) # NULL,
         NEW v \in AllVals, cell' = [cell EXCEPT ![Find(k)].val = v],
         latest' = [latest EXCEPT ![k] = v], heap' = heap, table' = table
  PROVE  /\ \E p \in 1..table[Hash[k]].len : Updates(w, k, p, v)
         /\ PointersTyped'
<1> DEFINE h == Hash[k]
           n == table[h].len
           s == w[h]
<1>0. h \in Chains
  BY HashAssumption
<1>1. PICK p \in 1..n : cell[s[p]].key = k /\ Find(k) = s[p]
  BY FindsListed
<1>2. /\ List(cell, table[h], n, s) /\ Contents(cell, latest, h, n, s)
      /\ n \in Nat /\ s \in [1..n -> Cells] /\ NULL \notin Cells /\ Differ(n, s)
  BY <1>0, NullAssumption, ContentsDiffer DEF Represents, List
<1>3. latest'[k] = v /\ \A j \in Keys \ {k} : latest'[j] = latest[j]
  BY DEF CacheTyped, TypeOK
<1>4. PointersTyped
  BY DEF CacheTyped, TypeOK, CellType, ChainType, Ptr, PointersTyped
<1>5. \A x \in Cells : In(x, n, s) => x \in heap
  BY <1>0 DEF Represents
<1>6. cell' = [cell EXCEPT ![s[p]].val = v] /\ s[p] \in Cells /\ table' = table /\ heap' = heap
  BY <1>1, <1>2
<1> HIDE DEF h, n, s
<1>7. ASSUME NEW z \in Cells
      PROVE  /\ cell'[z] \in CellType
             /\ cell'[z].prev = cell[z].prev /\ cell'[z].next = cell[z].next
             /\ cell'[z].key = cell[z].key
             /\ cell'[z].val = IF z = s[p] THEN v ELSE cell[z].val
             /\ z # s[p] => cell'[z] = cell[z]
  <2>1. cell[z] \in CellType
    BY <1>4 DEF PointersTyped
  <2>2. cell'[z] = IF z = s[p] THEN [cell[z] EXCEPT !.val = v] ELSE cell[z]
    BY <1>4, <1>6 DEF PointersTyped
  <2> QED BY <2>1, <2>2 DEF CellType
<1>8. List(cell', table'[h], n, s)
  <2>1. ASSUME NEW i \in 1..n
        PROVE cell'[s[i]].prev = cell[s[i]].prev /\ cell'[s[i]].next = cell[s[i]].next
    BY <1>2, <1>7
  <2> QED BY <2>1, <1>2, <1>6 DEF List
<1>9. Contents(cell', latest', h, n, s)
  <2>1. ASSUME NEW i \in 1..n
        PROVE  /\ cell'[s[i]].key = cell[s[i]].key
               /\ cell'[s[i]].key \in Keys /\ Hash[cell'[s[i]].key] = h
               /\ cell'[s[i]].val \in AllVals
               /\ cell'[s[i]].val = latest'[cell'[s[i]].key]
    <3>1. /\ s[i] \in Cells /\ (s[i] = s[p] <=> i = p) /\ (cell[s[i]].key = k <=> i = p)
          /\ cell[s[i]].key \in Keys /\ Hash[cell[s[i]].key] = h
          /\ cell[s[i]].val \in AllVals /\ cell[s[i]].val = latest[cell[s[i]].key]
      BY <1>1, <1>2 DEF Contents, Differ
    <3>2. cell'[s[i]].key = cell[s[i]].key /\ cell'[s[i]].val = IF i = p THEN v ELSE cell[s[i]].val
      BY <3>1, <1>7
    <3> QED BY <3>1, <3>2, <1>3
  <2> QED BY <2>1, <1>2 DEF Contents
<1>10. \A i \in 1..n : s[i] \in heap => In(s[i], n, s)
  BY DEF In
<1>11. \A z \in Cells : ~In(z, n, s) /\ ~In(z, n, s) => cell'[z] = cell[z]
  BY <1>7 DEF In
<1>12. \A z \in Cells : In(z, n, s) /\ ~In(z, n, s) => cell'[z] = Blank
  OBVIOUS
<1>13. \A z \in Cells : z \in heap' <=> (z \in heap /\ ~In(z, n, s)) \/ In(z, n, s)
  BY <1>5, <1>6
<1>14. \A g \in Chains \ {h} : table'[g] = table[g]
  BY <1>6
<1>15. \A j \in Keys : Hash[j] # h => latest'[j] = latest[j]
  BY <1>3 DEF h
<1>16. Changes(w, h, n, s)
  BY <1>0, <1>2, <1>8, <1>9, <1>10, <1>11, <1>12, <1>13, <1>14, <1>15, OneChainChanges DEF n, s
<1>17. Updates(w, k, p, v)
  BY <1>1, <1>6, <1>16 DEF Updates, h, n, s
<1>18. PointersTyped'
  <2>1. cell' = [z \in Cells |-> cell'[z]]
    BY <1>4, <1>6 DEF PointersTyped
  <2>2. cell' \in [Cells -> CellType]
    BY <2>1, <1>7
  <2> QED BY <2>2, <1>4, <1>6 DEF PointersTyped
<1> QED BY <1>17, <1>18 DEF h, n

(* The cell at place p, which has key k, gets the value v and comes first. *)
Promotes(w, k, p, v) ==
  LET h == Hash[k] n == table[h].len s == w[h] IN
  /\ cell[s[p]].key = k
  /\ cell'[s[p]].key = k /\ cell'[s[p]].val = v
  /\ cell'[s[p]].expire = cell[s[p]].expire
  /\ \A i \in 1..n \ {p} : Same(cell, cell', s[i])
  /\ Changes(w, h, n, Pushed(n - 1, Removed(n, s, p), s[p]))

(* cache_set() of an entry that is not the first. *)
LEMMA PromoteKeeps ==
  ASSUME CacheTyped, NEW w, Represents(w), NEW k \in Keys, Find(k) # NULL,
         table[Hash[k]].first # Find(k), NEW v \in AllVals,
         cell' = Promoted(Hash[k], Find(k), v),
         table' = [table EXCEPT ![Hash[k]].first = Find(k),
                     ![Hash[k]].last = IF @ = Find(k) THEN cell[Find(k)].prev ELSE @],
         latest' = [latest EXCEPT ![k] = v], heap' = heap
  PROVE  /\ \E p \in 1..table[Hash[k]].len : Promotes(w, k, p, v)
         /\ PointersTyped'
<1> DEFINE h == Hash[k]
           n == table[h].len
           s == w[h]
<1>0. h \in Chains
  BY HashAssumption
<1>1. PICK p \in 1..n : cell[s[p]].key = k /\ Find(k) = s[p]
  BY FindsListed
<1>2. /\ List(cell, table[h], n, s) /\ Contents(cell, latest, h, n, s)
      /\ n \in Nat /\ s \in [1..n -> Cells] /\ NULL \notin Cells /\ Differ(n, s)
  BY <1>0, NullAssumption, ContentsDiffer DEF Represents, List
<1>3. latest'[k] = v /\ \A j \in Keys \ {k} : latest'[j] = latest[j]
  BY DEF CacheTyped, TypeOK
<1>4. PointersTyped
  BY DEF CacheTyped, TypeOK, CellType, ChainType, Ptr, PointersTyped
<1>5. \A x \in Cells : In(x, n, s) => x \in heap
  BY <1>0 DEF Represents
<1> DEFINE x == s[p]
           a == cell[x].prev
           b == cell[x].next
           f == table[h].first
           r == Removed(n, s, p)
           q == Pushed(n - 1, r, x)
           c == WithPrev([cell EXCEPT ![x].val = v, ![a].next = b], b, a)
           t == [len |-> n - 1, first |-> f, last |-> IF p = n THEN a ELSE table[h].last]
<1>6. /\ x \in Cells /\ a \in Ptr /\ b \in Ptr /\ a # x /\ b # x
      /\ f = x <=> p = 1
      /\ table[h].last = x <=> p = n
      /\ a = NULL <=> p = 1
      /\ b = NULL <=> p = n
      /\ n # 0 /\ f \in Cells /\ table[h].last \in Cells
      /\ \A i \in 1..n : (s[i] = a <=> i + 1 = p) /\ (s[i] = b <=> i = p + 1)
  <2> HIDE DEF h, n, s
  <2> QED BY <1>2, Neighbours
<1>7. p # 1 /\ a \in Cells /\ f # x
  BY <1>1, <1>6 DEF Ptr
<1>8. /\ cell' = [[c EXCEPT ![x].prev = NULL, ![x].next = f] EXCEPT ![f].prev = x]
      /\ heap' = heap
  BY <1>1 DEF Promoted
<1>9. table' = [table EXCEPT ![h] = [len |-> n, first |-> x,
                                     last |-> IF p = n THEN a ELSE table[h].last]]
  <2>1. table' = [table EXCEPT ![h].first = x, ![h].last = IF @ = x THEN a ELSE @]
    BY <1>1
  <2>2. table[h].len = n
    OBVIOUS
  <2> DEFINE tl == IF p = n THEN a ELSE table[h].last
  <2>3. tl = IF table[h].last = x THEN a ELSE table[h].last
    BY <1>6
  <2> HIDE DEF h, n, s, x, a, tl
  <2>4. table' = [table EXCEPT ![h] = [[table[h] EXCEPT !.first = x] EXCEPT !.last = tl]]
    BY <2>1, <2>3, <1>4, <1>0 DEF PointersTyped, ChainType
  <2>5. [[table[h] EXCEPT !.first = x] EXCEPT !.last = tl] = [len |-> n, first |-> x, last |-> tl]
    <3>1. PICK rec \in ChainType : rec = table[h]
      BY <1>4, <1>0 DEF PointersTyped
    <3>2. [rec EXCEPT !.first = x] = [len |-> rec.len, first |-> x, last |-> rec.last]
      BY DEF ChainType
    <3>3. [[len |-> rec.len, first |-> x, last |-> rec.last] EXCEPT !.last = tl]
             = [len |-> rec.len, first |-> x, last |-> tl]
      OBVIOUS
    <3> QED BY <3>1, <3>2, <3>3, <2>2
  <2> QED BY <2>4, <2>5 DEF tl
<1> HIDE DEF h, n, s
<1>10. f = s[1] /\ 1 \in 1..n
  BY <1>2, <1>6 DEF List
<1> HIDE DEF x, a, b, f
<1>11. ASSUME NEW z \in Cells
       PROVE  /\ c[z] \in CellType
              /\ c[z].key = cell[z].key /\ c[z].expire = cell[z].expire
              /\ c[z].val = IF z = x THEN v ELSE cell[z].val
              /\ c[z].prev = IF z = b THEN a ELSE cell[z].prev
              /\ c[z].next = IF z = a THEN b ELSE cell[z].next
              /\ z # x /\ z # a /\ z # b => c[z] = cell[z]
              /\ c = [y \in Cells |-> c[y]]
  <2>1. cell[z] \in CellType /\ cell[x] \in CellType /\ cell[a] \in CellType /\ z # NULL
    BY <1>4, <1>6, <1>7, <1>2 DEF PointersTyped
  <2> DEFINE d == [cell EXCEPT ![x].val = v, ![a].next = b]
  <2>2. d[z] = IF z = x THEN [cell[z] EXCEPT !.val = v]
               ELSE IF z = a THEN [cell[z] EXCEPT !.next = b] ELSE cell[z]
    BY <1>4, <1>6, <1>7 DEF PointersTyped
  <2>3. d = [y \in Cells |-> d[y]]
    BY <1>4 DEF PointersTyped
  <2>4. c = IF b = NULL THEN d ELSE [d EXCEPT ![b].prev = a]
    BY DEF WithPrev
  <2> HIDE DEF d, c
  <2>5. /\ d[z] \in CellType
        /\ d[z].key = cell[z].key /\ d[z].expire = cell[z].expire
        /\ d[z].val = IF z = x THEN v ELSE cell[z].val
        /\ d[z].prev = cell[z].prev
        /\ d[z].next = IF z = a THEN b ELSE cell[z].next
    BY <2>1, <2>2, <1>6 DEF CellType
  <2>6. CASE b = NULL
    BY <2>1, <2>2, <2>3, <2>4, <2>5, <2>6
  <2>7. CASE b # NULL
    <3>1. b \in Cells
      BY <2>7, <1>6 DEF Ptr
    <3>2. c[z] = IF z = b THEN [d[z] EXCEPT !.prev = a] ELSE d[z]
      BY <3>1, <2>3, <2>4, <2>7
    <3>3. c = [y \in Cells |-> c[y]]
      BY <2>3, <2>4, <2>7
    <3>4. CASE z = b
      <4>1. c[z] = [d[z] EXCEPT !.prev = a]
        BY <3>2, <3>4
      <4> QED BY <4>1, <3>3, <3>4, <2>5, <1>6 DEF CellType
    <3>5. CASE z # b
      BY <3>2, <3>3, <3>5, <2>2, <2>5
    <3> QED BY <3>4, <3>5
  <2> QED BY <2>6, <2>7
<1>12. ASSUME NEW z \in Cells
       PROVE  /\ cell'[z] \in CellType
              /\ Same(c, cell', z)
              /\ cell'[z].prev = IF z = x THEN NULL ELSE IF z = f THEN x ELSE c[z].prev
              /\ cell'[z].next = IF z = x THEN f ELSE c[z].next
              /\ z # x /\ z # f => cell'[z] = c[z]
              /\ cell' = [y \in Cells |-> cell'[y]]
  <2>1. c[z] \in CellType /\ c = [y \in Cells |-> c[y]]
    BY <1>11
  <2> HIDE DEF c
  <2>2. cell'[z] = IF z = x THEN [[c[z] EXCEPT !.prev = NULL] EXCEPT !.next = f]
                   ELSE IF z = f THEN [c[z] EXCEPT !.prev = x] ELSE c[z]
    BY <1>6, <1>7, <1>8, <2>1
  <2>3. cell' = [y \in Cells |-> cell'[y]]
    BY <1>8, <2>1
  <2>4. CASE z = x
    <3>1. cell'[z] = [[c[z] EXCEPT !.prev = NULL] EXCEPT !.next = f]
      BY <2>2, <2>4
    <3> QED BY <3>1, <2>1, <2>3, <2>4, <1>6 DEF CellType, Ptr, Same
  <2>5. CASE z # x /\ z = f
    <3>1. cell'[z] = [c[z] EXCEPT !.prev = x]
      BY <2>2, <2>5
    <3> QED BY <3>1, <2>1, <2>3, <2>5, <1>6 DEF CellType, Ptr, Same
  <2>6. CASE z # x /\ z # f
    BY <2>1, <2>2, <2>3, <2>6 DEF Same
  <2> QED BY <2>4, <2>5, <2>6
<1> HIDE DEF c
<1>13. ASSUME NEW i \in 1..n \ {p} PROVE s[i] \in Cells /\ s[i] # x /\ Same(cell, c, s[i])
  <2>1. s[i] \in Cells /\ s[i] # x
    BY <1>2 DEF Differ, x
  <2> QED BY <2>1, <1>11 DEF Same
<1>14. List(c, t, n - 1, r)
  <2>1. ASSUME NEW i \in 1..n \ {p}
        PROVE  /\ c[s[i]].prev = IF i = p + 1 THEN a ELSE cell[s[i]].prev
               /\ c[s[i]].next = IF i + 1 = p THEN b ELSE cell[s[i]].next
    <3>1. /\ c[s[i]].prev = IF s[i] = b THEN a ELSE cell[s[i]].prev
          /\ c[s[i]].next = IF s[i] = a THEN b ELSE cell[s[i]].next
      BY <1>11, <1>13
    <3> QED BY <3>1, <1>6
  <2>2. Bypassed(cell, table[h], c, t, n, s, p)
    BY <2>1, <1>7 DEF Bypassed, a, b, x, f, n
  <2> QED BY <2>2, <1>2, ListRemoved
<1>15. Contents(c, latest', h, n - 1, r)
  <2> DEFINE l == latest'
  <2>1. ASSUME NEW i \in 1..n \ {p}
        PROVE  Same(cell, c, s[i]) /\ l[cell[s[i]].key] = latest[cell[s[i]].key]
    <3>1. cell[s[i]].key \in Keys \ {k}
      BY <1>1, <1>2 DEF Contents
    <3> QED BY <3>1, <1>13, <1>3
  <2> HIDE DEF l
  <2>2. Contents(c, l, h, n - 1, r)
    BY <2>1, <1>2, ContentsRemoved
  <2> QED BY <2>2 DEF l
<1>16. ASSUME NEW i \in 1..(n - 1)
       PROVE  /\ r[i] \in Cells /\ r[i] # x
              /\ (r[i] = f <=> i = 1)
              /\ c[r[i]].key \in Keys \ {k}
  <2>1. \A j \in 1..(n - 1) : /\ j \in 1..n /\ j + 1 \in 1..n
                              /\ r[j] = IF j < p THEN s[j] ELSE s[j + 1]
    BY <1>2, RemovedPlaces
  <2>2. 1 \in 1..(n - 1) /\ r[1] = f
    BY <2>1, <1>7, <1>10, <1>2
  <2>3. r[i] \in Cells
    BY <1>14 DEF List
  <2>4. r[i] = f <=> i = 1
    <3>1. Differ(n - 1, r)
      BY <1>15, ContentsDiffer
    <3> QED BY <3>1, <2>2 DEF Differ
  <2>5. PICK j \in 1..n \ {p} : r[i] = s[j]
    BY <2>1
  <2>6. cell[s[j]].key \in Keys \ {k}
    BY <1>1, <1>2 DEF Contents
  <2> QED BY <2>3, <2>4, <2>5, <2>6, <1>13 DEF Same
<1>17. n - 1 \in Nat /\ (n - 1) + 1 = n /\ n - 1 # 0
  BY <1>2, <1>6, <1>7
<1>18. table'[h] = [len |-> n, first |-> x, last |-> IF p = n THEN a ELSE table[h].last]
  BY <1>9, <1>4, <1>0 DEF PointersTyped
<1> HIDE DEF r
<1>19. List(cell', table'[h], n, q)
  <2>1. ASSUME NEW i \in 1..(n - 1)
        PROVE  /\ cell'[r[i]].prev = IF i = 1 THEN x ELSE c[r[i]].prev
               /\ cell'[r[i]].next = c[r[i]].next
    BY <1>12, <1>16
  <2>2. cell'[x].prev = NULL /\ cell'[x].next = t.first
    BY <1>6, <1>12
  <2>3. Headed(c, t, cell', table'[h], n - 1, r, x)
    BY <2>1, <2>2, <1>17, <1>18 DEF Headed
  <2>4. List(cell', table'[h], (n - 1) + 1, q)
    BY <2>3, <1>6, <1>14, ListPushed
  <2> QED BY <2>4, <1>17
<1>20. /\ cell'[x].key = k /\ cell'[x].val = v /\ cell'[x].expire = cell[x].expire
       /\ cell[x].key = k
  <2>1. cell[x].key = k
    BY <1>1 DEF x
  <2>2. c[x].key = cell[x].key /\ c[x].val = v /\ c[x].expire = cell[x].expire
    BY <1>6, <1>11
  <2>3. Same(c, cell', x)
    BY <1>6, <1>12
  <2> QED BY <2>1, <2>2, <2>3 DEF Same
<1>21. Contents(cell', latest', h, n, q)
  <2> DEFINE c2 == cell' l == latest'
  <2>1. ASSUME NEW i \in 1..(n - 1)
        PROVE  Same(c, c2, r[i]) /\ c[r[i]].key # k /\ l[c[r[i]].key] = l[c[r[i]].key]
    BY <1>12, <1>16
  <2>2. /\ Contents(c, l, h, n - 1, r) /\ Hash[k] = h /\ c2[x].key = k
        /\ c2[x].val \in AllVals /\ l[k] = c2[x].val
    BY <1>15, <1>20, <1>3 DEF h
  <2> HIDE DEF c2, l
  <2>3. Contents(c2, l, h, (n - 1) + 1, q)
    BY <2>1, <2>2, <1>17, ContentsPushed
  <2> QED BY <2>3, <1>17 DEF c2, l
<1>22. \A z : In(z, n, q) <=> In(z, n, s)
  <2>1. \A z : In(z, (n - 1) + 1, q) <=> z = x \/ In(z, n - 1, r)
    BY <1>17, InPushed
  <2>2. \A z : In(z, n - 1, r) <=> In(z, n, s) /\ z # x
    BY <1>2, InRemoved DEF r, x
  <2>3. In(x, n, s)
    BY DEF In, x
  <2> HIDE DEF q
  <2>4. \A z : In(z, n, q) <=> z = x \/ In(z, n - 1, r)
    BY <2>1, <1>17
  <2> QED BY <2>4, <2>2, <2>3
<1> HIDE DEF q
<1>23. ASSUME NEW i \in 1..n PROVE In(q[i], n, s)
  <2>1. In(q[i], n, q)
    BY DEF In
  <2> QED BY <2>1, <1>22
<1>24. ASSUME NEW z \in Cells, ~In(z, n, s), ~In(z, n, q) PROVE cell'[z] = cell[z]
  <2>1. z # x /\ z # f
    BY <1>24, <1>10 DEF In, x
  <2>2. z # a
    <3>1. p - 1 \in 1..n /\ (p - 1) + 1 = p
      BY <1>2, <1>7
    <3>2. s[p - 1] = a
      BY <3>1, <1>6
    <3> QED BY <3>1, <3>2, <1>24 DEF In
  <2>3. z # b
    <3> SUFFICES ASSUME z = b PROVE FALSE
      OBVIOUS
    <3>1. p # n
      BY <1>6, <1>2
    <3>2. p + 1 \in 1..n
      BY <3>1, <1>2
    <3>3. s[p + 1] = b
      BY <3>2, <1>6
    <3> QED BY <3>2, <3>3, <1>24 DEF In
  <2> QED BY <2>1, <2>2, <2>3, <1>11, <1>12
<1>25. \A z \in Cells : In(z, n, s) /\ ~In(z, n, q) => cell'[z] = Blank
  BY <1>22
<1>26. \A z \in Cells : z \in heap' <=> (z \in heap /\ ~In(z, n, s)) \/ In(z, n, q)
  BY <1>5, <1>8, <1>22
<1>27. \A g \in Chains \ {h} : table'[g] = table[g]
  BY <1>9, <1>4 DEF PointersTyped
<1>28. \A j \in Keys : Hash[j] # h => latest'[j] = latest[j]
  BY <1>3 DEF h
<1>29. Changes(w, h, n, q)
  BY <1>0, <1>2, <1>19, <1>21, <1>23, <1>24, <1>25, <1>26, <1>27, <1>28, OneChainChanges DEF n, s
<1>30. ASSUME NEW i \in 1..n \ {p} PROVE Same(cell, cell', s[i])
  <2>1. Same(cell, c, s[i]) /\ Same(c, cell', s[i])
    BY <1>12, <1>13
  <2> QED BY <2>1 DEF Same
<1>31. Promotes(w, k, p, v)
  BY <1>20, <1>29, <1>30 DEF Promotes, h, n, s, q, r, x
<1>32. PointersTyped'
  <2>1. cell' \in [Cells -> CellType]
    <3>1. cell' = [z \in Cells |-> cell'[z]]
      BY <1>6, <1>12
    <3> QED BY <3>1, <1>12
  <2>2. table' \in [Chains -> ChainType]
    <3>1. [len |-> n, first |-> x, last |-> IF p = n THEN a ELSE table[h].last] \in ChainType
      BY <1>2, <1>6 DEF ChainType, Ptr
    <3> QED BY <3>1, <1>9, <1>4, <1>0 DEF PointersTyped
  <2> QED BY <2>1, <2>2, <1>4, <1>8 DEF PointersTyped
<1> QED BY <1>31, <1>32 DEF h, n

------------------------------------------------------------------------------
(* The inductive invariant *)

(* The walks of cache_free() and of the properties find the cells in use. *)
LEMMA ReachableIsHeap ==
  ASSUME CacheTyped, NEW w, Represents(w)
  PROVE  Reachable = heap
<1>1. ASSUME NEW h \in Chains
      PROVE  /\ List(cell, table[h], table[h].len, w[h]) /\ table[h].len \in Nat
             /\ w[h] \in [1..table[h].len -> Cells]
             /\ \A i \in Nat : Node(h)[i] = IF i < table[h].len THEN w[h][i + 1] ELSE NULL
             /\ table[h].len <= Cardinality(Cells) /\ Cardinality(Cells) \in Nat
  <2>1. List(cell, table[h], table[h].len, w[h]) /\ NULL \notin Cells
    BY NullAssumption DEF Represents
  <2>2. \A i \in Nat : Node(h)[i] = IF i < table[h].len THEN w[h][i + 1] ELSE NULL
    BY <2>1, NodesListed
  <2> DEFINE n == table[h].len
  <2>3. n \in Nat /\ w[h] \in [1..n -> Cells] /\ Differ(n, w[h])
    BY <2>1, ContentsDiffer DEF List, Represents
  <2>4. w[h] \in Injection(1..n, Cells)
    BY <2>3 DEF Injection, IsInjective, Differ
  <2>5. Cardinality(1..n) <= Cardinality(Cells)
    <3> HIDE DEF n
    <3> QED BY <2>4, FS_Injection, CellsAssumption
  <2>6. Cardinality(1..n) = n
    <3> HIDE DEF n
    <3>1. Cardinality(1..n) = IF 1 > n THEN 0 ELSE n - 1 + 1
      BY <2>3, FS_Interval
    <3> QED BY <3>1, <2>3
  <2>7. Cardinality(Cells) \in Nat
    BY CellsAssumption, FS_CardinalityType
  <2> QED BY <2>1, <2>2, <2>3, <2>5, <2>6, <2>7
<1>2. ASSUME NEW x \in Reachable PROVE x \in heap
  <2>1. PICK h \in Chains, i \in 0..Cardinality(Cells) : x = Node(h)[i] /\ x # NULL
    BY DEF Reachable
  <2>2. i \in Nat /\ i < table[h].len /\ x = w[h][i + 1]
    BY <2>1, <1>1
  <2>3. i + 1 \in 1..table[h].len
    BY <2>2, <1>1
  <2>4. x \in Cells /\ In(x, table[h].len, w[h])
    BY <2>2, <2>3, <1>1 DEF In
  <2> QED BY <2>4 DEF Represents
<1>3. ASSUME NEW x \in heap PROVE x \in Reachable
  <2>1. x \in Cells /\ x # NULL
    BY NullAssumption DEF CacheTyped, TypeOK
  <2>2. PICK h \in Chains : In(x, table[h].len, w[h])
    BY <2>1 DEF Represents
  <2>3. PICK i \in 1..table[h].len : x = w[h][i]
    BY <2>2 DEF In
  <2>4. i - 1 \in 0..Cardinality(Cells) /\ i - 1 \in Nat /\ i - 1 < table[h].len /\ (i - 1) + 1 = i
    BY <1>1
  <2>5. x = Node(h)[i - 1]
    BY <2>3, <2>4, <1>1
  <2> QED BY <2>1, <2>4, <2>5 DEF Reachable
<1> QED BY <1>2, <1>3

(* What a step does to the lists w. *)
Clears(w) == \E u : /\ Represents(u)'
                    /\ \A h \in Chains : table'[h] = EmptyChain
Rests(w) == Represents(w)' /\ cell' = cell /\ table' = table

StepOnLists(w) ==
  \/ Rests(w)
  \/ Clears(w)
  \/ \E k \in Keys :
       \/ \E p \in 1..table[Hash[k]].len : Unlinks(w, k, p)
       \/ \E y \in Cells, v \in AllVals, e \in ExpiryTimes : Inserts(w, k, y, v, e)
       \/ \E p \in 1..table[Hash[k]].len, v \in AllVals : Updates(w, k, p, v)
       \/ \E p \in 1..table[Hash[k]].len, v \in AllVals : Promotes(w, k, p, v)

LEMMA TypedFromParts ==
  ASSUME PointersTyped', there' \in BOOLEAN, g_ctime' \in 1..MaxTime,
         latest' \in [Keys -> AllVals \cup {NULL}]
  PROVE  CacheTyped'
<1>1. g_ctime' \in Nat
  BY TimeAssumption
<1> QED BY <1>1 DEF CacheTyped, TypeOK, PointersTyped, CellType, ChainType, Ptr

LEMMA NextOnLists ==
  ASSUME CacheTyped, NEW w, Represents(w), [Next]_vars
  PROVE  CacheTyped' /\ StepOnLists(w)
<1>0. /\ PointersTyped /\ there \in BOOLEAN /\ g_ctime \in 1..MaxTime
      /\ latest \in [Keys -> AllVals \cup {NULL}]
  BY DEF CacheTyped, TypeOK, CellType, ChainType, Ptr, PointersTyped
<1>1. ASSUME cell' = cell, heap' = heap, table' = table, latest' = latest,
             there' = there, g_ctime' \in 1..MaxTime
      PROVE  CacheTyped' /\ StepOnLists(w)
  <2>1. CacheTyped'
    BY <1>0, <1>1, TypedFromParts DEF PointersTyped
  <2>2. Represents(w)'
    BY <1>1 DEF Represents
  <2> QED BY <2>1, <2>2, <1>1 DEF StepOnLists, Rests
<1>2. CASE UNCHANGED vars
  BY <1>0, <1>1, <1>2 DEF vars
<1>3. CASE Tick
  <2>1. g_ctime' \in 1..MaxTime
    BY <1>0, <1>3, TimeAssumption DEF Tick
  <2> QED BY <2>1, <1>1, <1>3 DEF Tick
<1>4. ASSUME NEW k \in Keys, cache_get(k) PROVE CacheTyped' /\ StepOnLists(w)
  <2>1. /\ Find(k) # NULL /\ Unlink(Hash[k], Find(k))
        /\ latest' = latest /\ there' = there /\ g_ctime' = g_ctime
    BY <1>4 DEF cache_get
  <2>2. PointersTyped' /\ \E p \in 1..table[Hash[k]].len : Unlinks(w, k, p)
    BY <2>1, UnlinkKeeps
  <2>3. CacheTyped'
    BY <2>1, <2>2, <1>0, TypedFromParts
  <2> QED BY <2>2, <2>3 DEF StepOnLists
<1>5. ASSUME NEW k \in Keys, cache_del(k) PROVE CacheTyped' /\ StepOnLists(w)
  <2>1. /\ Find(k) # NULL /\ Unlink(Hash[k], Find(k))
        /\ latest' = [latest EXCEPT ![k] = NULL] /\ there' = there /\ g_ctime' = g_ctime
    BY <1>5 DEF cache_del
  <2>2. /\ latest' \in [Keys -> AllVals \cup {NULL}]
        /\ \A j \in Keys \ {k} : latest'[j] = latest[j]
    BY <2>1, <1>0
  <2>3. PointersTyped' /\ \E p \in 1..table[Hash[k]].len : Unlinks(w, k, p)
    BY <2>1, <2>2, UnlinkKeeps
  <2>4. CacheTyped'
    BY <2>1, <2>2, <2>3, <1>0, TypedFromParts
  <2> QED BY <2>3, <2>4 DEF StepOnLists
<1>6. ASSUME NEW k \in Keys, NEW v \in Vals, NEW t \in Timeouts, SetNew(k, v, t)
      PROVE  CacheTyped' /\ StepOnLists(w)
  <2> DEFINE e == IF t = 0 THEN 0 ELSE g_ctime + t
  <2>1. v \in AllVals /\ e \in ExpiryTimes
    <3>1. CASE t = 0
      BY <3>1, ValsAssumption DEF ExpiryTimes
    <3>2. CASE t # 0
      <4>1. e = g_ctime + t
        BY <3>2
      <4> QED BY <4>1, <1>0, ValsAssumption DEF ExpiryTimes
    <3> QED BY <3>1, <3>2
  <2>2. [Blank EXCEPT !.key = k, !.val = v, !.expire = e] = NewEntry(k, v, e)
    <3> HIDE DEF e
    <3>1. [Blank EXCEPT !.key = k]
             = [key |-> k, val |-> NULL, expire |-> 0, prev |-> NULL, next |-> NULL]
      BY DEF Blank
    <3>2. [[key |-> k, val |-> NULL, expire |-> 0, prev |-> NULL, next |-> NULL] EXCEPT !.val = v]
             = [key |-> k, val |-> v, expire |-> 0, prev |-> NULL, next |-> NULL]
      OBVIOUS
    <3>3. [[key |-> k, val |-> v, expire |-> 0, prev |-> NULL, next |-> NULL] EXCEPT !.expire = e]
             = [key |-> k, val |-> v, expire |-> e, prev |-> NULL, next |-> NULL]
      OBVIOUS
    <3> QED BY <3>1, <3>2, <3>3 DEF NewEntry
  <2>3. /\ Find(k) = NULL /\ latest' = [latest EXCEPT ![k] = v]
        /\ there' = there /\ g_ctime' = g_ctime
    BY <1>6 DEF SetNew
  <2>4. PICK y \in Cells \ heap :
               InsertNew(Hash[k], y, [Blank EXCEPT !.key = k, !.val = v, !.expire = e])
    BY <1>6 DEF SetNew
  <2> HIDE DEF e
  <2>5. InsertNew(Hash[k], y, NewEntry(k, v, e))
    BY <2>2, <2>4
  <2>6. Inserts(w, k, y, v, e) /\ PointersTyped'
    BY <2>1, <2>3, <2>5, InsertKeeps
  <2>7. latest' \in [Keys -> AllVals \cup {NULL}]
    BY <2>1, <2>3, <1>0
  <2>8. CacheTyped'
    BY <2>3, <2>6, <2>7, <1>0, TypedFromParts
  <2> QED BY <2>1, <2>6, <2>8 DEF StepOnLists
<1>7. ASSUME NEW k \in Keys, NEW v \in AllVals, Find(k) # NULL,
             cell' = [cell EXCEPT ![Find(k)].val = v],
             latest' = [latest EXCEPT ![k] = v],
             heap' = heap, table' = table, there' = there, g_ctime' = g_ctime
      PROVE  CacheTyped' /\ StepOnLists(w)
  <2>1. (\E p \in 1..table[Hash[k]].len : Updates(w, k, p, v)) /\ PointersTyped'
    BY <1>7, UpdateKeeps
  <2>2. latest' \in [Keys -> AllVals \cup {NULL}]
    BY <1>7, <1>0
  <2>3. CacheTyped'
    BY <2>1, <2>2, <1>7, <1>0, TypedFromParts
  <2> QED BY <2>1, <2>3 DEF StepOnLists
<1>8. ASSUME NEW k \in Keys, NEW v \in Vals, SetOld(k, v)
      PROVE  CacheTyped' /\ StepOnLists(w)
  <2>1. /\ Find(k) # NULL /\ latest' = [latest EXCEPT ![k] = v]
        /\ there' = there /\ g_ctime' = g_ctime /\ heap' = heap
    BY <1>8 DEF SetOld
  <2>2. v \in AllVals
    BY ValsAssumption
  <2>3. CASE table[Hash[k]].first = Find(k)
    <3>1. cell' = [cell EXCEPT ![Find(k)].val = v] /\ table' = table
      BY <2>3, <1>8 DEF SetOld
    <3> QED BY <3>1, <2>1, <2>2, <1>7
  <2>4. CASE table[Hash[k]].first # Find(k)
    <3>1. /\ cell' = Promoted(Hash[k], Find(k), v)
          /\ table' = [table EXCEPT ![Hash[k]].first = Find(k),
                         ![Hash[k]].last = IF @ = Find(k) THEN cell[Find(k)].prev ELSE @]
      BY <2>4, <1>8 DEF SetOld
    <3>2. (\E p \in 1..table[Hash[k]].len : Promotes(w, k, p, v)) /\ PointersTyped'
      BY <3>1, <2>1, <2>2, <2>4, PromoteKeeps
    <3>3. latest' \in [Keys -> AllVals \cup {NULL}]
      BY <2>1, <2>2, <1>0
    <3>4. CacheTyped'
      BY <3>2, <3>3, <2>1, <1>0, TypedFromParts
    <3> QED BY <3>2, <3>4, <2>2 DEF StepOnLists
  <2> QED BY <2>3, <2>4
<1>9. ASSUME NEW k \in Keys, NEW v \in Vals, NEW u \in Vals, cache_cas(k, v, u)
      PROVE  CacheTyped' /\ StepOnLists(w)
  <2>1. u \in AllVals
    BY ValsAssumption
  <2> QED BY <2>1, <1>7, <1>9 DEF cache_cas
<1>10. ASSUME NEW k \in Keys, cache_incr(k, 1) PROVE CacheTyped' /\ StepOnLists(w)
  <2>1. Find(k) # NULL
    BY <1>10 DEF cache_incr
  <2>2. PICK p \in 1..table[Hash[k]].len : Find(k) = w[Hash[k]][p]
    BY <2>1, FindsListed
  <2>3. cell[Find(k)].val \in AllVals
    BY <2>2, HashAssumption DEF Represents, Contents
  <2> DEFINE new == [n |-> cell[Find(k)].val.n + 1, form |-> "padded"]
  <2>4. new \in AllVals
    <3>1. cell[Find(k)].val.n \in 0..MaxNum /\ cell[Find(k)].val.n + 1 <= MaxNum
      BY <2>3, <1>10 DEF AllVals, cache_incr
    <3>2. cell[Find(k)].val.n + 1 \in 0..MaxNum
      BY <3>1, ValsAssumption
    <3> QED BY <3>2 DEF AllVals, Forms
  <2>5. /\ cell' = [cell EXCEPT ![Find(k)].val = new]
        /\ latest' = [latest EXCEPT ![k] = new]
        /\ heap' = heap /\ table' = table /\ there' = there /\ g_ctime' = g_ctime
    BY <1>10 DEF cache_incr
  <2> HIDE DEF new
  <2> QED BY <2>1, <2>4, <2>5, <1>7
<1>11. CASE sys_cmd_cache_empty
  <2>1. Reachable = heap
    BY ReachableIsHeap
  <2>2. /\ heap' = {}
        /\ cell' = [x \in Cells |-> IF x \in heap THEN Blank ELSE cell[x]]
        /\ table' = [h \in Chains |-> EmptyChain]
        /\ there' \in BOOLEAN
        /\ latest' = [k \in Keys |-> NULL]
        /\ g_ctime' = g_ctime
    BY <2>1, <1>11 DEF sys_cmd_cache_empty
  <2>3. \A x \in Cells : cell'[x] = Blank
    BY <2>2 DEF Represents
  <2>4. PointersTyped'
    <3>1. cell' \in [Cells -> CellType]
      BY <2>2, <2>3, BlankTyped
    <3>2. EmptyChain \in ChainType
      BY DEF EmptyChain, ChainType, Ptr
    <3> QED BY <3>1, <3>2, <2>2 DEF PointersTyped
  <2>5. CacheTyped'
    <3>1. latest' \in [Keys -> AllVals \cup {NULL}]
      BY <2>2
    <3> QED BY <3>1, <2>2, <2>4, <1>0, TypedFromParts
  <2> DEFINE none == [i \in 1..0 |-> NULL]
             u == [h \in Chains |-> none]
  <2>6. ASSUME NEW h \in Chains
        PROVE  /\ table'[h] = EmptyChain /\ table'[h].len = 0 /\ u[h] = none
               /\ List(cell', table'[h], 0, none) /\ Contents(cell', latest', h, 0, none)
    <3>1. table'[h] = EmptyChain
      BY <2>2
    <3>2. table'[h].len = 0 /\ table'[h].first = NULL /\ table'[h].last = NULL
      BY <3>1 DEF EmptyChain
    <3>3. none \in [1..0 -> Cells]
      OBVIOUS
    <3>4. \A i \in 1..0 : FALSE
      OBVIOUS
    <3> HIDE DEF none
    <3> QED BY <3>1, <3>2, <3>3, <3>4 DEF List, Contents
  <2> HIDE DEF u, none
  <2>7. Represents(u)'
    <3>1. \A x \in Cells : \A h \in Chains : ~In(x, table'[h].len, u[h])
      BY <2>6 DEF In
    <3> QED BY <3>1, <2>2, <2>3, <2>6 DEF Represents
  <2> QED BY <2>5, <2>6, <2>7 DEF StepOnLists, Clears
<1>12. CASE Refused
  BY <1>0, <1>1, <1>12 DEF Refused, vars
<1> QED
  BY <1>2, <1>3, <1>4, <1>5, <1>6, <1>8, <1>9, <1>10, <1>11, <1>12 DEF Next, cache_set

LEMMA NextInv == CacheInv /\ [Next]_vars => CacheInv'
<1> SUFFICES ASSUME CacheInv, [Next]_vars PROVE CacheInv'
  OBVIOUS
<1>1. PICK w : Represents(w)
  BY DEF CacheInv
<1>2. CacheTyped
  BY DEF CacheInv
<1>3. CacheTyped' /\ StepOnLists(w)
  BY <1>1, <1>2, NextOnLists
<1>4. (\E u : Represents(u))'
  <2>1. CASE Rests(w) \/ Clears(w)
    BY <2>1 DEF Rests, Clears
  <2>2. ASSUME NEW h, NEW n, NEW s, Changes(w, h, n, s) PROVE (\E u : Represents(u))'
    BY <2>2 DEF Changes
  <2>3. CASE \E k \in Keys :
                \/ \E p \in 1..table[Hash[k]].len : Unlinks(w, k, p)
                \/ \E y \in Cells, v \in AllVals, e \in ExpiryTimes : Inserts(w, k, y, v, e)
                \/ \E p \in 1..table[Hash[k]].len, v \in AllVals : Updates(w, k, p, v)
                \/ \E p \in 1..table[Hash[k]].len, v \in AllVals : Promotes(w, k, p, v)
    BY <2>2, <2>3, Zenon DEF Unlinks, Inserts, Updates, Promotes
  <2> QED BY <2>1, <2>3, <1>3 DEF StepOnLists
<1> QED BY <1>3, <1>4 DEF CacheInv

LEMMA InitInv == Init => CacheInv
<1> SUFFICES ASSUME Init PROVE CacheInv
  OBVIOUS
<1>1. CacheTyped
  <2>1. cell \in [Cells -> CellType]
    BY BlankTyped DEF Init
  <2>2. table \in [Chains -> ChainType]
    BY DEF Init, EmptyChain, ChainType, Ptr
  <2>3. /\ g_ctime \in 1..MaxTime /\ g_ctime \in Nat /\ there \in BOOLEAN /\ heap \in SUBSET Cells
        /\ latest \in [Keys -> AllVals \cup {NULL}]
    BY TimeAssumption DEF Init
  <2> QED BY <2>1, <2>2, <2>3 DEF CacheTyped, TypeOK, CellType, ChainType, Ptr
<1> DEFINE none == [i \in 1..0 |-> NULL]
           u == [h \in Chains |-> none]
<1>2. ASSUME NEW h \in Chains
      PROVE  /\ table[h].len = 0 /\ u[h] = none
             /\ List(cell, table[h], 0, none) /\ Contents(cell, latest, h, 0, none)
  <2>1. table[h].len = 0 /\ table[h].first = NULL /\ table[h].last = NULL
    BY DEF Init, EmptyChain
  <2>2. none \in [1..0 -> Cells] /\ \A i \in 1..0 : FALSE
    OBVIOUS
  <2> HIDE DEF none
  <2> QED BY <2>1, <2>2 DEF List, Contents
<1> HIDE DEF u, none
<1>3. Represents(u)
  <2>1. \A x \in Cells : \A h \in Chains : ~In(x, table[h].len, u[h])
    BY <1>2 DEF In
  <2>2. heap = {} /\ \A x \in Cells : cell[x] = Blank
    BY DEF Init
  <2> QED BY <2>1, <2>2, <1>2 DEF Represents
<1> QED BY <1>1, <1>3 DEF CacheInv

LEMMA CacheInvariant == Spec => []CacheInv
  BY InitInv, NextInv, PTL DEF Spec

(* Every variable of the cache keeps its type: no pointer but NULL or a    *)
(* cell is ever followed, and no len falls below zero (cache.c).           *)
THEOREM TypeCorrect == Spec => []TypeOK
<1>1. CacheInv => TypeOK
  BY DEF CacheInv, CacheTyped
<1> QED BY <1>1, CacheInvariant, PTL

(* Whatever is set, evicted, moved to the front, deleted, expired or       *)
(* cleared, in chains of any length and number: each chain is a list that  *)
(* next and prev lead through in both directions from first to last, and   *)
(* every cell in use is in one (cache.c:142, 200, 252).                    *)
THEOREM ChainsWellFormed == Spec => []ChainShape
<1>1. CacheInv => ChainShape
  <2> SUFFICES ASSUME CacheInv PROVE ChainShape
    OBVIOUS
  <2>1. PICK w : Represents(w)
    BY DEF CacheInv
  <2>2. heap = Reachable
    BY <2>1, ReachableIsHeap DEF CacheInv
  <2>3. ASSUME NEW h \in Chains
        PROVE  LET v == Walk(h) n == table[h].len IN
               /\ IF n = 0 THEN table[h].first = NULL /\ table[h].last = NULL
                           ELSE table[h].last = v[n] /\ v[n] # NULL
               /\ Node(h)[n] = NULL
               /\ \A i \in 1..n : /\ cell[v[i]].prev = IF i = 1 THEN NULL ELSE v[i - 1]
                                  /\ Hash[cell[v[i]].key] = h
               /\ \A i, j \in 1..n : cell[v[i]].key = cell[v[j]].key => i = j
    <3> DEFINE n == table[h].len
               s == w[h]
    <3>1. /\ List(cell, table[h], n, s) /\ Contents(cell, latest, h, n, s)
          /\ n \in Nat /\ s \in [1..n -> Cells] /\ NULL \notin Cells
      BY <2>1, NullAssumption DEF Represents, List
    <3>2. \A i \in Nat : Node(h)[i] = IF i < n THEN s[i + 1] ELSE NULL
      BY <3>1, NodesListed
    <3>3. ASSUME NEW i \in 1..n PROVE Walk(h)[i] = s[i]
      <4>1. Walk(h)[i] = Node(h)[i - 1]
        BY DEF Walk
      <4>2. i - 1 \in Nat /\ i - 1 < n /\ (i - 1) + 1 = i
        BY <3>1
      <4> HIDE DEF n, s
      <4> QED BY <4>1, <4>2, <3>2
    <3>4. Node(h)[n] = NULL
      BY <3>1, <3>2
    <3>5. table[h].len = n
      OBVIOUS
    <3> HIDE DEF n, s
    <3>6. IF n = 0 THEN table[h].first = NULL /\ table[h].last = NULL
                   ELSE table[h].last = Walk(h)[n] /\ Walk(h)[n] # NULL
      <4>1. n # 0 => n \in 1..n
        BY <3>1
      <4> QED BY <4>1, <3>1, <3>3 DEF List
    <3>7. ASSUME NEW i \in 1..n
          PROVE  /\ cell[Walk(h)[i]].prev = IF i = 1 THEN NULL ELSE Walk(h)[i - 1]
                 /\ Hash[cell[Walk(h)[i]].key] = h
      <4>1. i # 1 => i - 1 \in 1..n
        BY <3>1
      <4>2. cell[s[i]].prev = IF i = 1 THEN NULL ELSE s[i - 1]
        BY <3>1 DEF List
      <4>3. Hash[cell[s[i]].key] = h
        BY <3>1 DEF Contents
      <4> QED BY <4>1, <4>2, <4>3, <3>3
    <3>8. ASSUME NEW i \in 1..n, NEW j \in 1..n, cell[Walk(h)[i]].key = cell[Walk(h)[j]].key
          PROVE  i = j
      BY <3>8, <3>3, <3>1 DEF Contents
    <3> QED BY <3>4, <3>5, <3>6, <3>7, <3>8
  <2> QED BY <2>2, <2>3 DEF ChainShape
<1> QED BY <1>1, CacheInvariant, PTL

(* What cache_get() finds is what was stored last under the key, by        *)
(* cache_set(), cache_cas() or cache_incr(), for any number of keys,       *)
(* values and evictions in between (cache.c:155).                          *)
THEOREM LatestIsRead == Spec => []ReadsLatest
<1>1. CacheInv => ReadsLatest
  <2> SUFFICES ASSUME CacheInv, NEW k \in Keys, Find(k) # NULL
               PROVE  cell[Find(k)].val = latest[k]
    BY DEF ReadsLatest
  <2>1. PICK w : Represents(w)
    BY DEF CacheInv
  <2>2. PICK p \in 1..table[Hash[k]].len :
               cell[w[Hash[k]][p]].key = k /\ Find(k) = w[Hash[k]][p]
    BY <2>1, FindsListed DEF CacheInv
  <2>3. Contents(cell, latest, Hash[k], table[Hash[k]].len, w[Hash[k]])
    BY <2>1, HashAssumption DEF Represents
  <2> QED BY <2>2, <2>3 DEF Contents
<1> QED BY <1>1, CacheInvariant, PTL

------------------------------------------------------------------------------
(* The refinement of the abstract lists *)

EntryType == [key : Keys \cup {NULL}, val : AllVals \cup {NULL}, expire : ExpiryTimes]

Entry(c, x) == [key |-> c[x].key, val |-> c[x].val, expire |-> c[x].expire]

(* The entries in the n cells s. *)
Entries(c, n, s) == [i \in 1..n |-> Entry(c, s[i])]

(* The operators of the abstract specification on a list of n entries. *)
LEMMA RemoveAtPlaces ==
  ASSUME NEW S, NEW n \in Nat, NEW q \in [1..n -> S], NEW p \in 1..n
  PROVE  LRU!RemoveAt(q, p) = Removed(n, q, p)
<1> DEFINE a == SubSeq(q, 1, p - 1)
           b == SubSeq(q, p + 1, n)
<1>1. q \in Seq(S) /\ Len(q) = n
  OBVIOUS
<1>2. /\ a \in Seq(S) /\ Len(a) = p - 1
      /\ \A i \in 1..(p - 1) : a[i] = q[i]
  <2>1. \A i \in 1..(p - 1) : q[i] \in S
    OBVIOUS
  <2>2. /\ a \in Seq(S) /\ Len(a) = IF 1 <= p - 1 THEN (p - 1) - 1 + 1 ELSE 0
        /\ \A i \in 1..((p - 1) - 1 + 1) : a[i] = q[1 + i - 1]
    BY <2>1, SubSeqProperties
  <2> QED BY <2>2
<1>3. /\ b \in Seq(S) /\ Len(b) = n - p
      /\ \A i \in 1..(n - p) : b[i] = q[p + i]
  <2>1. \A i \in (p + 1)..n : q[i] \in S
    OBVIOUS
  <2>2. /\ b \in Seq(S) /\ Len(b) = IF p + 1 <= n THEN n - (p + 1) + 1 ELSE 0
        /\ \A i \in 1..(n - (p + 1) + 1) : b[i] = q[(p + 1) + i - 1]
    BY <2>1, SubSeqProperties
  <2>3. ASSUME NEW i \in 1..(n - p) PROVE b[i] = q[p + i]
    <3>1. i \in 1..(n - (p + 1) + 1) /\ (p + 1) + i - 1 = p + i
      OBVIOUS
    <3> QED BY <3>1, <2>2
  <2> QED BY <2>2, <2>3
<1>4. LRU!RemoveAt(q, p) = a \o b
  BY <1>1 DEF LRU!RemoveAt
<1> HIDE DEF a, b
<1>5. /\ a \o b \in Seq(S) /\ Len(a \o b) = n - 1
      /\ \A i \in 1..(n - 1) : (a \o b)[i] = IF i <= p - 1 THEN a[i] ELSE b[i - (p - 1)]
  BY <1>2, <1>3, ConcatProperties
<1>6. a \o b = [i \in 1..(n - 1) |-> (a \o b)[i]]
  <2> DEFINE c == a \o b
  <2>1. c \in Seq(S) /\ Len(c) = n - 1
    BY <1>5
  <2> HIDE DEF c
  <2>2. c = [i \in 1..(n - 1) |-> c[i]]
    BY <2>1
  <2> QED BY <2>2 DEF c
<1>7. ASSUME NEW i \in 1..(n - 1)
      PROVE  (a \o b)[i] = IF i < p THEN q[i] ELSE q[i + 1]
  <2>1. CASE i < p
    BY <2>1, <1>2, <1>5
  <2>2. CASE ~(i < p)
    <3>1. i - (p - 1) \in 1..(n - p) /\ ~(i <= p - 1) /\ p + (i - (p - 1)) = i + 1
      BY <2>2
    <3>2. (a \o b)[i] = b[i - (p - 1)]
      BY <3>1, <1>5
    <3>3. b[i - (p - 1)] = q[p + (i - (p - 1))]
      BY <3>1, <1>3
    <3> QED BY <3>1, <3>2, <3>3, <2>2
  <2> QED BY <2>1, <2>2
<1>8. Removed(n, q, p) = [i \in 1..(n - 1) |-> IF i < p THEN q[i] ELSE q[i + 1]]
  BY DEF Removed
<1> QED BY <1>4, <1>6, <1>7, <1>8

Prepended(e, q) == << e >> \o q

LEMMA ConcatPlaces ==
  ASSUME NEW S, NEW n \in Nat, NEW q \in [1..n -> S], NEW e \in S
  PROVE  /\ Prepended(e, q) = Pushed(n, q, e) /\ Len(Prepended(e, q)) = n + 1
         /\ Pushed(n, q, e) \in [1..(n + 1) -> S]
<1>1. q \in Seq(S) /\ Len(q) = n /\ << e >> \in Seq(S) /\ Len(<< e >>) = 1 /\ << e >>[1] = e
  OBVIOUS
<1> DEFINE a == << e >>
<1> HIDE DEF a
<1>2. /\ a \o q \in Seq(S) /\ Len(a \o q) = 1 + n
      /\ \A i \in 1..(1 + n) : (a \o q)[i] = IF i <= 1 THEN a[i] ELSE q[i - 1]
  BY <1>1, ConcatProperties DEF a
<1>3. a \o q = [i \in 1..(n + 1) |-> (a \o q)[i]]
  <2> DEFINE c == a \o q
  <2>1. c \in Seq(S) /\ Len(c) = n + 1
    BY <1>2
  <2> HIDE DEF c
  <2>2. c = [i \in 1..(n + 1) |-> c[i]]
    BY <2>1
  <2> QED BY <2>2 DEF c
<1>4. ASSUME NEW i \in 1..(n + 1) PROVE (a \o q)[i] = IF i = 1 THEN e ELSE q[i - 1]
  BY <1>1, <1>2 DEF a
<1>5. a \o q = Pushed(n, q, e)
  BY <1>3, <1>4 DEF Pushed
<1>6. Pushed(n, q, e) \in [1..(n + 1) -> S]
  <2>1. ASSUME NEW i \in 1..(n + 1) PROVE (IF i = 1 THEN e ELSE q[i - 1]) \in S
    <3>1. i # 1 => i - 1 \in 1..n
      OBVIOUS
    <3> QED BY <3>1
  <2> QED BY <2>1 DEF Pushed
<1>7. Len(a \o q) = n + 1
  BY <1>2
<1> QED BY <1>5, <1>6, <1>7 DEF a, Prepended

LEMMA PrependedPlaces ==
  ASSUME NEW S, NEW n \in Nat, NEW q \in [1..n -> S], NEW e \in S
  PROVE  Prepended(e, q) = Pushed(n, q, e)
  BY ConcatPlaces

LEMMA PrependedLength ==
  ASSUME NEW S, NEW n \in Nat, NEW q \in [1..n -> S], NEW e \in S
  PROVE  Len(Prepended(e, q)) = n + 1
<1>1. q \in Seq(S) /\ Len(q) = n /\ << e >> \in Seq(S) /\ Len(<< e >>) = 1
  OBVIOUS
<1>2. Len(<< e >> \o q) = 1 + n
  BY <1>1, ConcatProperties
<1> QED BY <1>2 DEF Prepended

LEMMA PushedTyped ==
  ASSUME NEW S, NEW n \in Nat, NEW q \in [1..n -> S], NEW e \in S
  PROVE  Pushed(n, q, e) \in [1..(n + 1) -> S]
  BY ConcatPlaces

LEMMA FrontPlaces ==
  ASSUME NEW S, NEW n \in Nat, NEW q \in [1..n -> S], n # 0
  PROVE  LRU!Front(q) = Removed(n, q, n)
<1>1. Len(q) = n
  OBVIOUS
<1>2. LRU!Front(q) = SubSeq(q, 1, n - 1)
  BY <1>1 DEF LRU!Front
<1>3. \A i \in 1..(n - 1) : q[i] \in S
  OBVIOUS
<1> DEFINE a == SubSeq(q, 1, n - 1)
<1>4. /\ a \in Seq(S) /\ Len(a) = IF 1 <= n - 1 THEN (n - 1) - 1 + 1 ELSE 0
      /\ \A i \in 1..((n - 1) - 1 + 1) : a[i] = q[1 + i - 1]
  BY <1>3, SubSeqProperties
<1> HIDE DEF a
<1>5. Len(a) = n - 1 /\ a = [i \in 1..(n - 1) |-> a[i]]
  BY <1>4
<1>6. ASSUME NEW i \in 1..(n - 1) PROVE a[i] = IF i < n THEN q[i] ELSE q[i + 1]
  BY <1>4
<1> QED BY <1>2, <1>5, <1>6 DEF Removed, a

(* The lists that the pointers represent give the abstract ones. *)
ListingGiven ==
  \A v : Represents(v) => Listing = [g \in Chains |-> Entries(cell, table[g].len, v[g])]

LEMMA ListingIs == ListingGiven
<1> SUFFICES ASSUME NEW w, Represents(w)
             PROVE  Listing = [h \in Chains |-> Entries(cell, table[h].len, w[h])]
  BY DEF ListingGiven
<1>1. ASSUME NEW h \in Chains, NEW i \in 1..table[h].len PROVE Walk(h)[i] = w[h][i]
  <2>1. List(cell, table[h], table[h].len, w[h]) /\ NULL \notin Cells
    BY NullAssumption DEF Represents
  <2>2. \A j \in Nat : Node(h)[j] = IF j < table[h].len THEN w[h][j + 1] ELSE NULL
    BY <2>1, NodesListed
  <2>3. i - 1 \in Nat /\ i - 1 < table[h].len /\ (i - 1) + 1 = i
    BY <2>1 DEF List
  <2>4. Walk(h)[i] = Node(h)[i - 1]
    BY DEF Walk
  <2> QED BY <2>2, <2>3, <2>4
<1>2. ASSUME NEW h \in Chains
      PROVE  [i \in 1..table[h].len |-> [key    |-> cell[Walk(h)[i]].key,
                                         val    |-> cell[Walk(h)[i]].val,
                                         expire |-> cell[Walk(h)[i]].expire]]
               = Entries(cell, table[h].len, w[h])
  BY <1>1 DEF Entries, Entry
<1> QED BY <1>2, Zenon DEF Listing

LEMMA ListingIsNext == ListingGiven'
  BY ListingIs, PTL

(* A change of one list is a change of one abstract list. *)
LEMMA ListingChanges ==
  ASSUME NEW w, Represents(w), NEW h \in Chains, NEW n, NEW s, Changes(w, h, n, s)
  PROVE  /\ Listing = [g \in Chains |-> Entries(cell, table[g].len, w[g])]
         /\ Listing' = [Listing EXCEPT ![h] = Entries(cell', n, s)]
<1>1. PICK u : /\ Represents(u)'
               /\ u[h] = s /\ table'[h].len = n
               /\ \A g \in Chains \ {h} :
                    /\ u[g] = w[g] /\ table'[g] = table[g]
                    /\ \A i \in 1..table[g].len : cell'[w[g][i]] = cell[w[g][i]]
  BY DEF Changes
<1>2. Listing = [g \in Chains |-> Entries(cell, table[g].len, w[g])]
  BY ListingIs DEF ListingGiven
<1>3. Listing' = [g \in Chains |-> Entries(cell', table'[g].len, u[g])]
  BY <1>1, ListingIsNext DEF ListingGiven, Entries, Entry
<1>4. ASSUME NEW g \in Chains \ {h}
      PROVE  Entries(cell', table'[g].len, u[g]) = Entries(cell, table[g].len, w[g])
  <2>1. u[g] = w[g] /\ table'[g].len = table[g].len
    BY <1>1
  <2>2. \A i \in 1..table[g].len : Entry(cell', w[g][i]) = Entry(cell, w[g][i])
    BY <1>1 DEF Entry
  <2> QED BY <2>1, <2>2 DEF Entries
<1>5. Entries(cell', table'[h].len, u[h]) = Entries(cell', n, s)
  BY <1>1
<1> QED BY <1>2, <1>3, <1>4, <1>5, Zenon

LEMMA EntriesTyped ==
  ASSUME CacheTyped, NEW w, Represents(w), NEW h \in Chains
  PROVE  /\ Entries(cell, table[h].len, w[h]) \in [1..table[h].len -> EntryType]
         /\ table[h].len \in Nat /\ w[h] \in [1..table[h].len -> Cells]
<1>1. table[h].len \in Nat /\ w[h] \in [1..table[h].len -> Cells]
  BY DEF Represents, List
<1>2. ASSUME NEW i \in 1..table[h].len PROVE Entry(cell, w[h][i]) \in EntryType
  <2>1. PICK x \in Cells : x = w[h][i]
    BY <1>1
  <2>2. cell[x] \in CellType
    BY CellFields
  <2>3. Entry(cell, x) \in EntryType
    BY <2>2 DEF CellType, Entry, EntryType
  <2> QED BY <2>1, <2>3
<1> QED BY <1>1, <1>2 DEF Entries

(* An entry that is taken out. *)
LEMMA UnlinkRefines ==
  ASSUME CacheTyped, NEW w, Represents(w), NEW k \in Keys,
         NEW p \in 1..table[Hash[k]].len, Unlinks(w, k, p)
  PROVE  LRU!Delete(k)
<1> DEFINE h == Hash[k]
           n == table[h].len
           s == w[h]
           q == Entries(cell, n, s)
<1>0. h \in Chains
  BY HashAssumption
<1>1. /\ cell[s[p]].key = k
      /\ \A i \in 1..n \ {p} : Same(cell, cell', s[i])
      /\ Changes(w, h, n - 1, Removed(n, s, p))
  BY DEF Unlinks
<1>2. q \in [1..n -> EntryType] /\ n \in Nat /\ p \in 1..n
  BY <1>0, EntriesTyped
<1>3. Listing[h] = q /\ Listing' = [Listing EXCEPT ![h] = Entries(cell', n - 1, Removed(n, s, p))]
  BY <1>0, <1>1, ListingChanges
<1> HIDE DEF h, n, s
<1>4. Entries(cell', n - 1, Removed(n, s, p)) = Removed(n, q, p)
  <2>1. ASSUME NEW i \in 1..(n - 1)
        PROVE  Entry(cell', Removed(n, s, p)[i]) = IF i < p THEN q[i] ELSE q[i + 1]
    <3>1. PICK j \in 1..n \ {p} : j = IF i < p THEN i ELSE i + 1
      BY <1>2
    <3>2. Removed(n, s, p)[i] = s[j] /\ q[j] = Entry(cell, s[j])
      BY <3>1 DEF Removed, Entries
    <3>3. Entry(cell', s[j]) = Entry(cell, s[j])
      BY <1>1 DEF Same, Entry
    <3> HIDE DEF q
    <3> QED BY <3>1, <3>2, <3>3
  <2> HIDE DEF q
  <2> QED BY <2>1 DEF Entries, Removed
<1>5. LRU!RemoveAt(q, p) = Removed(n, q, p)
  <2> HIDE DEF q
  <2> QED BY <1>2, RemoveAtPlaces
<1>6. q[p].key = k /\ p \in DOMAIN q
  BY <1>1, <1>2 DEF Entries, Entry
<1> HIDE DEF q
<1>7. p \in LRU!Places(k)
  BY <1>3, <1>6 DEF LRU!Places, h
<1>8. Listing' = [Listing EXCEPT ![Hash[k]] = LRU!RemoveAt(Listing[Hash[k]], p)]
  BY <1>3, <1>4, <1>5 DEF h
<1> QED BY <1>7, <1>8 DEF LRU!Delete

(* An entry whose value changes. *)
LEMMA UpdateRefines ==
  ASSUME CacheTyped, NEW w, Represents(w), NEW k \in Keys, NEW v \in AllVals,
         NEW p \in 1..table[Hash[k]].len, Updates(w, k, p, v)
  PROVE  LRU!Update(k)
<1> DEFINE h == Hash[k]
           n == table[h].len
           s == w[h]
           q == Entries(cell, n, s)
<1>0. h \in Chains
  BY HashAssumption
<1>1. /\ cell[s[p]].key = k /\ s[p] \in Cells
      /\ cell' = [cell EXCEPT ![s[p]].val = v]
      /\ Changes(w, h, n, s)
  BY DEF Updates
<1>2. /\ q \in [1..n -> EntryType] /\ n \in Nat /\ p \in 1..n /\ s \in [1..n -> Cells]
      /\ Differ(n, s)
  BY <1>0, EntriesTyped, ContentsDiffer DEF Represents
<1>3. Listing[h] = q /\ Listing' = [Listing EXCEPT ![h] = Entries(cell', n, s)]
  <2>1. /\ Listing = [g \in Chains |-> Entries(cell, table[g].len, w[g])]
        /\ Listing' = [Listing EXCEPT ![h] = Entries(cell', n, s)]
    <3>1. Changes(w, h, n, s)
      BY <1>1
    <3> HIDE DEF h, n, s
    <3> QED BY <3>1, <1>0, ListingChanges
  <2> QED BY <2>1, <1>0
<1>a. Listing \in [Chains -> {Listing[g] : g \in Chains}]
  BY DEF Listing
<1> HIDE DEF h, n, s
<1>4. Entries(cell', n, s) = [q EXCEPT ![p].val = v]
  <2>1. ASSUME NEW i \in 1..n
        PROVE  Entry(cell', s[i]) = IF i = p THEN [q[i] EXCEPT !.val = v] ELSE q[i]
    <3>1. q[i] = Entry(cell, s[i])
      BY DEF Entries
    <3>2. s[i] \in Cells /\ (s[i] = s[p] <=> i = p) /\ cell[s[i]] \in CellType
      BY <1>2, CellFields DEF Differ
    <3>3. cell'[s[i]] = IF i = p THEN [cell[s[i]] EXCEPT !.val = v] ELSE cell[s[i]]
      BY <3>2, <1>1 DEF CacheTyped, TypeOK
    <3>4. CASE i = p
      <4>1. cell'[s[i]] = [cell[s[i]] EXCEPT !.val = v]
        BY <3>3, <3>4
      <4>2. /\ cell'[s[i]].key = cell[s[i]].key /\ cell'[s[i]].val = v
            /\ cell'[s[i]].expire = cell[s[i]].expire
        BY <4>1, <3>2 DEF CellType
      <4>3. [Entry(cell, s[i]) EXCEPT !.val = v]
              = [key |-> cell[s[i]].key, val |-> v, expire |-> cell[s[i]].expire]
        BY DEF Entry
      <4>4. Entry(cell', s[i]) = [key |-> cell[s[i]].key, val |-> v, expire |-> cell[s[i]].expire]
        BY <4>2 DEF Entry
      <4> HIDE DEF q
      <4> QED BY <4>3, <4>4, <3>1, <3>4
    <3>5. CASE i # p
      <4> HIDE DEF q
      <4> QED BY <3>1, <3>3, <3>5 DEF Entry
    <3> QED BY <3>4, <3>5
  <2> HIDE DEF q
  <2> QED BY <2>1, <1>2 DEF Entries
<1>6. q[p].key = k /\ p \in DOMAIN q
  BY <1>1, <1>2 DEF Entries, Entry
<1> HIDE DEF q
<1>7. p \in LRU!Places(k)
  BY <1>3, <1>6 DEF LRU!Places, h
<1>8. Listing' = [Listing EXCEPT ![Hash[k]][p].val = v]
  BY <1>0, <1>3, <1>4, <1>a DEF h
<1> QED BY <1>7, <1>8 DEF LRU!Update

(* An entry that moves to the front. *)
LEMMA PromoteRefines ==
  ASSUME CacheTyped, NEW w, Represents(w), NEW k \in Keys, NEW v \in AllVals,
         NEW p \in 1..table[Hash[k]].len, Promotes(w, k, p, v)
  PROVE  LRU!Replace(k)
<1> DEFINE h == Hash[k]
           n == table[h].len
           s == w[h]
           q == Entries(cell, n, s)
           r == Removed(n, s, p)
           e == [q[p] EXCEPT !.val = v]
<1>0. h \in Chains
  BY HashAssumption
<1>1. /\ cell[s[p]].key = k
      /\ cell'[s[p]].key = k /\ cell'[s[p]].val = v
      /\ cell'[s[p]].expire = cell[s[p]].expire
      /\ \A i \in 1..n \ {p} : Same(cell, cell', s[i])
      /\ Changes(w, h, n, Pushed(n - 1, r, s[p]))
  BY DEF Promotes
<1>2. q \in [1..n -> EntryType] /\ n \in Nat /\ p \in 1..n /\ n - 1 \in Nat /\ (n - 1) + 1 = n
  BY <1>0, EntriesTyped
<1>3. Listing[h] = q /\ Listing' = [Listing EXCEPT ![h] = Entries(cell', n, Pushed(n - 1, r, s[p]))]
  BY <1>0, <1>1, ListingChanges
<1> HIDE DEF h, n, s, r
<1>4. \A i \in 1..n : q[i] = Entry(cell, s[i])
  BY DEF Entries
<1> HIDE DEF q
<1>5. e = [key |-> k, val |-> v, expire |-> cell[s[p]].expire]
  <2>1. q[p] = [key |-> k, val |-> cell[s[p]].val, expire |-> cell[s[p]].expire]
    BY <1>1, <1>2, <1>4 DEF Entry
  <2>2. [[key |-> k, val |-> cell[s[p]].val, expire |-> cell[s[p]].expire] EXCEPT !.val = v]
          = [key |-> k, val |-> v, expire |-> cell[s[p]].expire]
    OBVIOUS
  <2> QED BY <2>1, <2>2
<1>6. q[p].key = k /\ p \in DOMAIN q /\ e \in EntryType
  <2>1. q[p] \in EntryType
    BY <1>2
  <2> QED BY <2>1, <1>1, <1>2, <1>4 DEF Entry, EntryType
<1> HIDE DEF e
<1>7. Entries(cell', n, Pushed(n - 1, r, s[p])) = Pushed(n - 1, Removed(n, q, p), e)
  <2>1. ASSUME NEW i \in 1..n
        PROVE  Entry(cell', Pushed(n - 1, r, s[p])[i]) = Pushed(n - 1, Removed(n, q, p), e)[i]
    <3>1. i \in 1..((n - 1) + 1)
      BY <1>2
    <3>2. /\ Pushed(n - 1, r, s[p])[i] = IF i = 1 THEN s[p] ELSE r[i - 1]
          /\ Pushed(n - 1, Removed(n, q, p), e)[i] = IF i = 1 THEN e ELSE Removed(n, q, p)[i - 1]
      BY <3>1 DEF Pushed
    <3>3. CASE i = 1
      <4>1. Entry(cell', s[p]) = e
        BY <1>1, <1>5 DEF Entry
      <4> QED BY <4>1, <3>2, <3>3
    <3>4. CASE i # 1
      <4>1. i - 1 \in 1..(n - 1)
        BY <3>4, <1>2
      <4>2. PICK m \in 1..(n - 1) : m = i - 1
        BY <4>1
      <4>3. PICK j \in 1..n \ {p} : j = IF m < p THEN m ELSE m + 1
        BY <1>2
      <4>4. r[m] = s[j] /\ Removed(n, q, p)[m] = q[j]
        BY <4>3 DEF Removed, r
      <4>5. Entry(cell', s[j]) = q[j]
        BY <1>1, <1>4 DEF Same, Entry
      <4> QED BY <4>2, <4>4, <4>5, <3>2, <3>4
    <3> QED BY <3>3, <3>4
  <2>2. Pushed(n - 1, Removed(n, q, p), e)
          = [i \in 1..n |-> Pushed(n - 1, Removed(n, q, p), e)[i]]
    BY <1>2 DEF Pushed
  <2> QED BY <2>1, <2>2 DEF Entries
<1>8. LRU!RemoveAt(q, p) = Removed(n, q, p) /\ Removed(n, q, p) \in [1..(n - 1) -> EntryType]
  <2>1. \A i \in 1..(n - 1) : (IF i < p THEN q[i] ELSE q[i + 1]) \in EntryType
    BY <1>2
  <2>2. Removed(n, q, p) \in [1..(n - 1) -> EntryType]
    BY <2>1 DEF Removed
  <2> QED BY <2>2, <1>2, RemoveAtPlaces
<1>9. << e >> \o LRU!RemoveAt(q, p) = Pushed(n - 1, Removed(n, q, p), e)
  <2> DEFINE m == n - 1
             z == Removed(n, q, p)
  <2>1. m \in Nat /\ z \in [1..m -> EntryType] /\ e \in EntryType
    BY <1>2, <1>6, <1>8
  <2> HIDE DEF m, z
  <2>2. Prepended(e, z) = Pushed(m, z, e)
    BY <2>1, PrependedPlaces
  <2> QED BY <2>2, <1>8 DEF m, z, Prepended
<1>10. p \in LRU!Places(k)
  BY <1>3, <1>6 DEF LRU!Places, h
<1>11. Listing' = [Listing EXCEPT ![Hash[k]] =
                     << [Listing[Hash[k]][p] EXCEPT !.val = v] >> \o LRU!RemoveAt(Listing[Hash[k]], p)]
  BY <1>3, <1>7, <1>9 DEF h, e
<1> QED BY <1>10, <1>11 DEF LRU!Replace

(* A new entry, with or without an eviction. *)
LEMMA InsertRefines ==
  ASSUME CacheTyped, NEW w, Represents(w), NEW k \in Keys, NEW y \in Cells,
         NEW v \in AllVals, NEW e \in ExpiryTimes, Inserts(w, k, y, v, e)
  PROVE  LRU!Insert(k)
<1> DEFINE h == Hash[k]
           n == table[h].len
           s == w[h]
           q == Entries(cell, n, s)
           new == [key |-> k, val |-> v, expire |-> e]
           ns == Prepended(new, q)
<1>0. h \in Chains
  BY HashAssumption
<1>1. q \in [1..n -> EntryType] /\ n \in Nat /\ s \in [1..n -> Cells]
  BY <1>0, EntriesTyped
<1>2. Listing[h] = q
  BY <1>0, ListingIs DEF ListingGiven
<1>3. /\ \A i \in 1..n : cell[s[i]].key # k
      /\ cell'[y].key = k /\ cell'[y].val = v /\ cell'[y].expire = e
      /\ \/ /\ n <= CHAINLEN
            /\ Changes(w, h, n + 1, Pushed(n, s, y))
            /\ \A i \in 1..n : Same(cell, cell', s[i])
         \/ /\ n > CHAINLEN
            /\ Changes(w, h, n, Removed(n + 1, Pushed(n, s, y), n + 1))
            /\ \A i \in 1..(n - 1) : Same(cell, cell', s[i])
  BY DEF Inserts
<1>4. \A i \in 1..n : q[i] = Entry(cell, s[i])
  BY DEF Entries
<1>5. new \in EntryType /\ Entry(cell', y) = new
  BY <1>3 DEF EntryType, Entry
<1>6. ASSUME NEW i \in 1..n, Same(cell, cell', s[i]) PROVE Entry(cell', s[i]) = q[i]
  <2>1. q[i] = Entry(cell, s[i])
    BY <1>4
  <2> HIDE DEF q
  <2> QED BY <2>1, <1>6 DEF Same, Entry
<1>7. ASSUME NEW m \in Nat, NEW r, Changes(w, h, m, r)
      PROVE  Listing' = [Listing EXCEPT ![h] = Entries(cell', m, r)]
  <2> HIDE DEF h, n, s, q
  <2> QED BY <1>0, <1>7, ListingChanges
<1> HIDE DEF n, s, q, new
<1>8. ns = Pushed(n, q, new)
  BY <1>1, <1>5, PrependedPlaces
<1>9. Len(ns) = n + 1 /\ ns \in [1..(n + 1) -> EntryType]
  <2>1. Len(ns) = n + 1
    BY <1>1, <1>5, PrependedLength
  <2>2. Pushed(n, q, new) \in [1..(n + 1) -> EntryType]
    BY <1>1, <1>5, PushedTyped
  <2> QED BY <2>1, <2>2, <1>8
<1>10. \A i \in 1..(n + 1) : ns[i] = IF i = 1 THEN new ELSE q[i - 1]
  BY <1>8 DEF Pushed
<1>11. \A i \in 1..(n + 1) : Pushed(n, s, y)[i] = IF i = 1 THEN y ELSE s[i - 1]
  BY DEF Pushed
<1>12. LRU!Places(k) = {}
  <2>1. ASSUME NEW i \in 1..n PROVE q[i].key # k
    <3>1. q[i] = Entry(cell, s[i]) /\ cell[s[i]].key # k
      BY <1>3, <1>4
    <3> QED BY <3>1 DEF Entry
  <2>2. DOMAIN q = 1..n
    BY <1>1
  <2>3. \A i \in DOMAIN Listing[Hash[k]] : Listing[Hash[k]][i].key # k
    BY <2>1, <2>2, <1>2
  <2> QED BY <2>3 DEF LRU!Places
<1> HIDE DEF ns
<1>13. Listing' = [Listing EXCEPT ![h] = IF Len(ns) <= CHAINLEN + 1 THEN ns ELSE LRU!Front(ns)]
  <2>1. CASE n <= CHAINLEN
    <3>1. Changes(w, h, n + 1, Pushed(n, s, y)) /\ \A i \in 1..n : Same(cell, cell', s[i])
      BY <2>1, <1>1, <1>3, ChainAssumption
    <3>2. Listing' = [Listing EXCEPT ![h] = Entries(cell', n + 1, Pushed(n, s, y))]
      <4>1. n + 1 \in Nat
        BY <1>1
      <4> QED BY <4>1, <3>1, <1>7
    <3>3. ASSUME NEW i \in 1..(n + 1)
          PROVE  Entry(cell', Pushed(n, s, y)[i]) = ns[i]
      <4>1. CASE i = 1
        BY <4>1, <1>5, <1>10, <1>11
      <4>2. CASE i # 1
        <5>1. PICK j \in 1..n : j = i - 1
          BY <4>2, <1>1
        <5>2. Entry(cell', s[j]) = q[j]
          BY <3>1, <1>6
        <5> QED BY <5>1, <5>2, <4>2, <1>10, <1>11
      <4> QED BY <4>1, <4>2
    <3>4. Entries(cell', n + 1, Pushed(n, s, y)) = ns
      BY <3>3, <1>9 DEF Entries
    <3>5. Len(ns) <= CHAINLEN + 1
      BY <2>1, <1>1, <1>9, ChainAssumption
    <3> QED BY <3>2, <3>4, <3>5
  <2>2. CASE n > CHAINLEN
    <3> DEFINE r == Removed(n + 1, Pushed(n, s, y), n + 1)
    <3>1. Changes(w, h, n, r) /\ \A i \in 1..(n - 1) : Same(cell, cell', s[i])
      BY <2>2, <1>1, <1>3, ChainAssumption
    <3>2. Listing' = [Listing EXCEPT ![h] = Entries(cell', n, r)]
      <4> HIDE DEF r
      <4> QED BY <3>1, <1>1, <1>7
    <3>3. ASSUME NEW i \in 1..n PROVE Entry(cell', r[i]) = ns[i]
      <4>1. i \in 1..((n + 1) - 1) /\ i < n + 1 /\ i \in 1..(n + 1)
        BY <1>1
      <4>2. r[i] = Pushed(n, s, y)[i]
        BY <4>1 DEF Removed
      <4> HIDE DEF r
      <4>3. CASE i = 1
        BY <4>1, <4>2, <4>3, <1>5, <1>10, <1>11
      <4>4. CASE i # 1
        <5>1. PICK j \in 1..(n - 1) : j = i - 1
          BY <4>4, <1>1
        <5>2. j \in 1..n
          BY <1>1
        <5>3. Entry(cell', s[j]) = q[j]
          BY <5>2, <3>1, <1>6
        <5> QED BY <5>1, <5>3, <4>1, <4>2, <4>4, <1>10, <1>11
      <4> QED BY <4>3, <4>4
    <3> HIDE DEF r
    <3>4. LRU!Front(ns) = Removed(n + 1, ns, n + 1)
      <4> DEFINE m == n + 1
      <4>1. m \in Nat /\ m # 0 /\ ns \in [1..m -> EntryType]
        BY <1>1, <1>9
      <4> HIDE DEF m
      <4>2. LRU!Front(ns) = Removed(m, ns, m)
        BY <4>1, FrontPlaces
      <4> QED BY <4>2 DEF m
    <3>5. Removed(n + 1, ns, n + 1) = [i \in 1..n |-> ns[i]]
      <4>1. (n + 1) - 1 = n /\ \A i \in 1..n : i < n + 1
        BY <1>1
      <4> QED BY <4>1 DEF Removed
    <3>6. Entries(cell', n, r) = LRU!Front(ns)
      BY <3>3, <3>4, <3>5 DEF Entries
    <3>7. ~(Len(ns) <= CHAINLEN + 1)
      BY <2>2, <1>1, <1>9, ChainAssumption
    <3> QED BY <3>2, <3>6, <3>7
  <2> QED BY <2>1, <2>2, <1>1, ChainAssumption
<1>14. ns = << [key |-> k, val |-> v, expire |-> e] >> \o Listing[Hash[k]]
  BY <1>2 DEF ns, new, Prepended
<1> QED BY <1>12, <1>13, <1>14, Zenon DEF LRU!Insert, h

(* Every step of the cache is one of the abstract lists, or none. *)
LEMMA NextRefines == CacheInv /\ [Next]_vars => [LRU!Next]_Listing
<1> SUFFICES ASSUME CacheInv, [Next]_vars PROVE LRU!Next \/ Listing' = Listing
  OBVIOUS
<1>1. PICK w : Represents(w)
  BY DEF CacheInv
<1>2. CacheTyped
  BY DEF CacheInv
<1>3. CacheTyped' /\ StepOnLists(w)
  BY <1>1, <1>2, NextOnLists
<1>4. CASE Rests(w)
  <2>1. Listing = [g \in Chains |-> Entries(cell, table[g].len, w[g])]
    BY <1>1, ListingIs DEF ListingGiven
  <2>2. Listing' = [g \in Chains |-> Entries(cell', table'[g].len, w[g])]
    BY <1>4, ListingIsNext DEF ListingGiven, Rests, Entries, Entry
  <2>3. cell' = cell /\ table' = table
    BY <1>4 DEF Rests
  <2> QED BY <2>1, <2>2, <2>3
<1>5. CASE Clears(w)
  <2>1. PICK u : Represents(u)' /\ \A h \in Chains : table'[h] = EmptyChain
    BY <1>5 DEF Clears
  <2>2. Listing' = [g \in Chains |-> Entries(cell', table'[g].len, u[g])]
    BY <2>1, ListingIsNext DEF ListingGiven, Entries, Entry
  <2>3. ASSUME NEW g \in Chains PROVE Entries(cell', table'[g].len, u[g]) = << >>
    <3>1. table'[g].len = 0
      BY <2>1 DEF EmptyChain
    <3> QED BY <3>1 DEF Entries
  <2>4. Listing' = [g \in Chains |-> << >>]
    BY <2>2, <2>3, Zenon
  <2> QED BY <2>4 DEF LRU!Next, LRU!Clear
<1>6. ASSUME NEW k \in Keys, NEW p \in 1..table[Hash[k]].len, Unlinks(w, k, p)
      PROVE  LRU!Next
  <2>1. LRU!Delete(k)
    BY <1>1, <1>2, <1>6, UnlinkRefines
  <2> QED BY <2>1 DEF LRU!Next
<1>7. ASSUME NEW k \in Keys, NEW y \in Cells, NEW v \in AllVals, NEW e \in ExpiryTimes,
             Inserts(w, k, y, v, e)
      PROVE  LRU!Next
  <2>1. LRU!Insert(k)
    BY <1>1, <1>2, <1>7, InsertRefines
  <2> QED BY <2>1 DEF LRU!Next
<1>8. ASSUME NEW k \in Keys, NEW p \in 1..table[Hash[k]].len, NEW v \in AllVals,
             Updates(w, k, p, v)
      PROVE  LRU!Next
  <2>1. LRU!Update(k)
    BY <1>1, <1>2, <1>8, UpdateRefines
  <2> QED BY <2>1 DEF LRU!Next
<1>9. ASSUME NEW k \in Keys, NEW p \in 1..table[Hash[k]].len, NEW v \in AllVals,
             Promotes(w, k, p, v)
      PROVE  LRU!Next
  <2>1. LRU!Replace(k)
    BY <1>1, <1>2, <1>9, PromoteRefines
  <2> QED BY <2>1 DEF LRU!Next
<1> QED BY <1>3, <1>4, <1>5, <1>6, <1>7, <1>8, <1>9 DEF StepOnLists

LEMMA InitRefines == Init => LRU!Init
<1> SUFFICES ASSUME Init PROVE LRU!Init
  OBVIOUS
<1>1. ASSUME NEW h \in Chains
      PROVE  [i \in 1..table[h].len |-> [key    |-> cell[Walk(h)[i]].key,
                                         val    |-> cell[Walk(h)[i]].val,
                                         expire |-> cell[Walk(h)[i]].expire]] = << >>
  <2>1. table[h].len = 0
    BY DEF Init, EmptyChain
  <2> QED BY <2>1
<1>2. Listing = [h \in Chains |-> << >>]
  BY <1>1, Zenon DEF Listing
<1> QED BY <1>2 DEF LRU!Init

(* For chains of any number and length, the pointers of the cache behave   *)
(* as lists of at most CHAINLEN + 1 entries, the most recently set first:  *)
(* what is evicted is what was set least recently (cache.c:223), and a     *)
(* compare-and-swap or an increment moves nothing.                         *)
THEOREM CacheImplementsLRU == Spec => ImplementsLRU
<1>1. CacheInv /\ [Next]_vars => [LRU!Next]_Listing
  BY NextRefines
<1> QED
  BY <1>1, InitRefines, CacheInvariant, PTL DEF Spec, ImplementsLRU, LRU!Spec

==============================================================================
