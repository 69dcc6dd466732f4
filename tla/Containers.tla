----------------------------- MODULE Containers -----------------------------
(***************************************************************************)
(* The containers that all of moc is built on: the hash table              *)
(* (neo_hash.c), the list (ulist.c), the growing string (neo_str.c) and    *)
(* the attribute list of a node (neo_hdf.c), each next to the map,         *)
(* sequence or length that it stands for.  The initial state says which.   *)
(***************************************************************************)
EXTENDS Integers, Sequences, SequencesExt, FiniteSets, Functions, HdfAttr

CONSTANTS KeySet,      \* keys of hash tables; a table of integers may have NULL, its key 0
          Hash,       \* the hash value of each key
          AttrKeys,   \* those of attributes
          Items,      \* values, numbers for a sort
          HashSize,   \* the first size of a hash table, 256 in the code
          MaxNum,     \* bound on what a table counts
          ListSize,   \* the size a list is made with
          MaxItems,   \* bound on the length of a list
          StrSize,    \* the least size of a string, 256 in the code
          StrFactor,  \* 10 in the code
          MaxLen,     \* bound on the length of a string
          Appends     \* lengths of what is appended

ASSUME ContainersAssumption ==
  /\ IsFiniteSet(KeySet) /\ Hash \in [KeySet -> Nat]
  /\ HashSize \in Nat \ {0} /\ ListSize \in Nat \ {0}
  /\ StrSize \in Nat \ {0, 1} /\ StrFactor \in Nat \ {0, 1}
  /\ MaxItems \in Nat /\ Appends \subseteq Nat

VARIABLES box,        \* the container
          means       \* what it stands for

EmptyMap == [k \in {} |-> NULL]
WithKey(m, k, v) == [j \in DOMAIN m \cup {k} |-> IF j = k THEN v ELSE m[j]]
WithoutKey(m, k) == [j \in DOMAIN m \ {k} |-> m[j]]

-----------------------------------------------------------------------------
(* The hash table: nodes[b + 1] is the chain of bucket b *)
ne_hash_init == [kind |-> "hash", size |-> HashSize, num |-> 0, nodes |-> [b \in 1 .. HashSize |-> << >>]]

HashNode(k, v) == [key |-> k, value |-> v]

(* hashv & (size - 1), with a size that is a power of two *)
Bucket(k, size) == (Hash[k] % size) + 1

(* _hash_lookup_node(): the place of the key in its chain, 0 if it has none *)
hash_lookup_node(h, k) == SelectInSeq(h.nodes[Bucket(k, h.size)], LAMBDA n : n.key = k)

(* Mutant: what is behind a node that moves to another bucket is dropped. *)
ResizeLoses(h) ==
  IF h.size > h.num THEN h
  ELSE LET stay(b) == {n \in ToSet(h.nodes[b]) : Bucket(n.key, h.size * 2) = b}
           low(b)  == Picked(h.nodes[b], stay(b))
           high(b) == LET all == Picked(h.nodes[b], ToSet(h.nodes[b]) \ stay(b))
                      IN  IF all = << >> THEN all ELSE << Last(all) >>
       IN  [h EXCEPT !.size = @ * 2,
                     !.nodes = [b \in 1 .. h.size * 2 |-> IF b <= h.size THEN low(b) ELSE high(b - h.size)]]

(* _hash_resize(): nodes whose bucket changes are put in front of the new  *)
(* one, so they come out in reverse                                        *)
hash_resize(h) ==
  IF h.size > h.num THEN h
  ELSE LET stay(b) == {n \in ToSet(h.nodes[b]) : Bucket(n.key, h.size * 2) = b}
           low(b)  == Picked(h.nodes[b], stay(b))
           high(b) == Reverse(Picked(h.nodes[b], ToSet(h.nodes[b]) \ stay(b)))
       IN  [h EXCEPT !.size = @ * 2,
                     !.nodes = [b \in 1 .. h.size * 2 |-> IF b <= h.size THEN low(b) ELSE high(b - h.size)]]

(* A key that is there is counted again *)
ne_hash_insert(k, v) ==
  /\ box.kind = "hash" /\ box.num < MaxNum
  /\ LET b == Bucket(k, box.size)
         i == hash_lookup_node(box, k)
         c == IF i # 0 THEN [box.nodes[b] EXCEPT ![i] = HashNode(k, v)] ELSE Append(box.nodes[b], HashNode(k, v))
     IN  box' = hash_resize([box EXCEPT !.nodes = [@ EXCEPT ![b] = c], !.num = @ + 1])
  /\ means' = WithKey(means, k, v)

ne_hash_remove(k) ==
  /\ box.kind = "hash" /\ hash_lookup_node(box, k) # 0
  /\ LET b == Bucket(k, box.size)
         c == RemoveAt(box.nodes[b], hash_lookup_node(box, k))
     IN  box' = [box EXCEPT !.nodes = [@ EXCEPT ![b] = c], !.num = @ - 1]
  /\ means' = WithoutKey(means, k)

ne_hash_lookup(h, k) ==
  LET i == hash_lookup_node(h, k)
  IN  IF i = 0 THEN NULL ELSE h.nodes[Bucket(k, h.size)][i].value

(* The first key in the buckets from b on, as a sequence, which is empty   *)
(* if there is none                                                        *)
FirstFrom(h, b) ==
  LET full == {c \in b .. h.size : h.nodes[c] # << >>}
  IN  IF full = {} THEN << >> ELSE << h.nodes[CHOOSE c \in full : \A d \in full : c <= d][1].key >>

(* ne_hash_next(): the key after k, as a sequence.  It begins with the     *)
(* first one when k is NULL, be that the key of a node or not.             *)
ne_hash_next(h, k) ==
  IF k = NULL THEN FirstFrom(h, 1)
  ELSE LET b == Bucket(k, h.size)
           i == hash_lookup_node(h, k)
       IN  IF i = 0 THEN FirstFrom(h, b)
           ELSE IF i < Len(h.nodes[b]) THEN << h.nodes[b][i + 1].key >>
           ELSE FirstFrom(h, b + 1)

(* The keys in the order that a loop over the table meets them, as far as  *)
(* they are no more than there can be                                      *)
VisitOn(h, s) == s \o ne_hash_next(h, IF s = << >> THEN NULL ELSE Last(s))
Visit(h) ==
  LET n == Cardinality(KeySet) + 1
      s[i \in 0 .. n] == IF i = 0 THEN << >> ELSE VisitOn(h, s[i - 1])
  IN  s[n]

HashOK ==
  /\ \A k \in KeySet : ne_hash_lookup(box, k) = IF k \in DOMAIN means THEN means[k] ELSE NULL
  /\ NULL \notin DOMAIN means =>
       ToSet(Visit(box)) = DOMAIN means /\ Len(Visit(box)) = Cardinality(DOMAIN means)
  /\ Cardinality(DOMAIN means) <= box.num /\ box.num < box.size

-----------------------------------------------------------------------------
(* The list: an array of which num are in use *)
uListInit == [kind |-> "list", num |-> 0, items |-> [i \in 1 .. ListSize |-> NULL]]

(* check_resize() *)
check_resize(items, size) ==
  LET max == Len(items)
      new == IF size > 2 * max THEN size + max ELSE 2 * max
  IN  IF size <= max THEN items ELSE items \o [i \in 1 .. new - max |-> NULL]

InUse(b) == SubSeq(b.items, 1, b.num)

uListAppend(v) ==
  /\ box.kind = "list" /\ box.num < MaxItems
  /\ box' = [box EXCEPT !.items = [check_resize(@, box.num + 1) EXCEPT ![box.num + 1] = v],
                        !.num = @ + 1]
  /\ means' = Append(means, v)

uListPop ==
  /\ box.kind = "list" /\ box.num # 0
  /\ box' = [box EXCEPT !.num = @ - 1]
  /\ means' = Front(means)

(* Indices below zero count from the end *)
Index(x) == IF x < 0 THEN box.num + x ELSE x

(* memmove() of n items from index a to index b *)
memmove(items, b, a, n) ==
  [i \in DOMAIN items |-> IF i - 1 \in b .. b + n - 1 THEN items[i - b + a] ELSE items[i]]

(* Callers give an index that is not before the first *)
uListInsert(x, v) ==
  LET at == Index(x)
  IN  /\ box.kind = "list" /\ box.num < MaxItems
      /\ at \in 0 .. box.num - 1
      /\ box' = [box EXCEPT !.items = [memmove(check_resize(@, box.num + 1), at + 1, at, box.num - at)
                                         EXCEPT ![at + 1] = v],
                            !.num = @ + 1]
      /\ means' = InsertAt(means, at + 1, v)

uListDelete(x) ==
  LET at == Index(x)
  IN  /\ box.kind = "list" /\ at \in 0 .. box.num - 1
      /\ box' = [box EXCEPT !.items = memmove(@, at, at + 1, box.num - at - 1), !.num = @ - 1]
      /\ means' = RemoveAt(means, at + 1)

uListSet(x, v) ==
  /\ box.kind = "list" /\ x \in 0 .. box.num - 1
  /\ box' = [box EXCEPT !.items = [@ EXCEPT ![x + 1] = v]]
  /\ means' = [means EXCEPT ![x + 1] = v]

(* Items are swapped from both ends to the middle *)
Swap(s, i, j) == [s EXCEPT ![i] = s[j], ![j] = s[i]]
uListReverse ==
  /\ box.kind = "list" /\ box.num > 0
  /\ box' = [box EXCEPT !.items =
               LET n == box.num \div 2
                   s[i \in 0 .. n] == IF i = 0 THEN box.items ELSE Swap(s[i - 1], i, box.num + 1 - i)
               IN  s[n]]
  /\ means' = Reverse(means)

(* qsort() puts what is in use into an order p in which it ascends *)
Orders(s) ==
  {p \in [1 .. Len(s) -> 1 .. Len(s)] : IsInjective(p) /\ \A i, j \in 1 .. Len(s) : i < j => s[p[i]] <= s[p[j]]}
uListSort ==
  /\ box.kind = "list" /\ box.num > 0
  /\ \E p \in Orders(InUse(box)) :
       /\ box' = [box EXCEPT !.items = [i \in DOMAIN @ |-> IF i <= box.num THEN @[p[i]] ELSE @[i]]]
       /\ means' = [i \in DOMAIN means |-> means[p[i]]]

uListGet(x) == IF Index(x) \in 0 .. box.num - 1 THEN box.items[Index(x) + 1] ELSE NULL

(* uListIn() as an index from 0, -1 if the item is not there *)
uListIndex(v) == SelectInSeq(InUse(box), LAMBDA u : u = v) - 1

ListOK ==
  /\ box.num <= Len(box.items)
  /\ InUse(box) = means
  /\ \A x \in -box.num .. box.num - 1 : uListGet(x) = means[IF x < 0 THEN Len(means) + x + 1 ELSE x + 1]
  /\ \A v \in Items : v \in ToSet(means) => means[uListIndex(v) + 1] = v

-----------------------------------------------------------------------------
(* The growing string: its length, the size of its buffer, 0 if there is   *)
(* none, and the end of what was written last, the NUL included            *)
string_init == [kind |-> "string", len |-> 0, max |-> 0, end |-> 0]

(* The first of the doublings of max, but not max itself, that is above need *)
Doubled(max, need) ==
  LET d[i \in 0 .. need] == IF i = 0 THEN max ELSE 2 * d[i - 1]
  IN  d[CHOOSE i \in 1 .. need : need < d[i] /\ \A j \in 1 .. i - 1 : d[j] <= need]

(* string_check_length() *)
string_check_length(s, l) ==
  IF s.max = 0 THEN [s EXCEPT !.max = IF l * StrFactor > StrSize THEN l * StrFactor ELSE StrSize]
  ELSE IF s.len + l < s.max THEN s
  ELSE [s EXCEPT !.max = Doubled(@, s.len + l)]

Wrote(s, l) == [s EXCEPT !.len = @ + l, !.end = s.len + l + 1]

(* string_append() asks for the letters only, string_appendn() for the NUL *)
(* too; the first is how string_set() and string_append_char() ask         *)
string_append(l) ==
  /\ box.kind = "string" /\ box.len + l <= MaxLen
  /\ box' = Wrote(string_check_length(box, l), l)
  /\ means' = means + l

string_appendn(l) ==
  /\ box.kind = "string" /\ box.len + l <= MaxLen
  /\ box' = Wrote(string_check_length(box, l + 1), l)
  /\ means' = means + l

string_set(l) ==
  /\ box.kind = "string"
  /\ box' = Wrote(string_check_length([box EXCEPT !.len = 0], l), l)
  /\ means' = l

(* fgets() fills what is left of the buffer until the line ends *)
Fgets(r) ==
  LET t == string_check_length(r.s, r.s.len + StrSize)
      k == IF r.left <= t.max - t.len - 1 THEN r.left ELSE t.max - t.len - 1
  IN  IF r.left = 0 THEN r ELSE [s |-> Wrote(t, k), left |-> r.left - k]
ReadOn(s, l) ==
  LET r[i \in 0 .. l] == IF i = 0 THEN [s |-> s, left |-> l] ELSE Fgets(r[i - 1])
  IN  r[l].s

string_readline(l) ==
  /\ box.kind = "string" /\ l > 0 /\ box.len + l <= MaxLen
  /\ box' = ReadOn(box, l)
  /\ means' = means + l

string_clear ==
  /\ box.kind = "string" /\ box.max # 0
  /\ box' = string_init
  /\ means' = 0

StringOK == box.len = means /\ box.end <= box.max

-----------------------------------------------------------------------------
(* The attributes of a node *)
AttrInit == [kind |-> "attr", list |-> << >>]

SetAttr(k, v) ==
  /\ box.kind = "attr"
  /\ v # NULL \/ k \in Keys(box.list) \/ box.list = << >>
  /\ box' = [box EXCEPT !.list = hdf_set_attr(@, k, v)]
  /\ means' = IF v = NULL THEN WithoutKey(means, k) ELSE WithKey(means, k, v)

(* A NULL for a key that is not on a list with others goes to strdup(),    *)
(* and that is the end of the program.  moc's one call, in                 *)
(* base_msg_new(), has a value.                                            *)
SetAttrNull(k) ==
  /\ box.kind = "attr" /\ k \notin Keys(box.list) /\ box.list # << >>
  /\ box' = [kind |-> "crashed"]
  /\ UNCHANGED means

(* What of src arrives on a list: all of it, or its first one alone if     *)
(* that has a new key, and the rest is lost                                *)
Arrived(list, src) ==
  IF list = << >> \/ Head(src).key \in Keys(list) THEN src ELSE << Head(src) >>

(* _set_value() with attributes of its own.  parse_attr() would also give  *)
(* it a key twice, but hdf_dump_cb() writes no such text.                  *)
MergeAttr(src) ==
  /\ box.kind = "attr"
  /\ box' = [box EXCEPT !.list = IF @ = << >> THEN src ELSE merge_attr(@, src)]
  /\ LET new == Arrived(box.list, src)
     IN  means' = [k \in DOMAIN means \cup Keys(new) |->
                     IF k \in Keys(new) THEN new[AttrAt(new, k)].value ELSE means[k]]

AttrOK ==
  /\ Keys(box.list) = DOMAIN means
  /\ Cardinality(DOMAIN means) = Len(box.list)
  /\ \A i \in DOMAIN box.list : box.list[i].value = means[box.list[i].key]

-----------------------------------------------------------------------------
BoxInit ==
  \/ box = ne_hash_init /\ means = EmptyMap
  \/ box = uListInit /\ means = << >>
  \/ box = string_init /\ means = 0
  \/ box = AttrInit /\ means = EmptyMap

HashNext == \E k \in KeySet : ne_hash_remove(k) \/ \E v \in Items : ne_hash_insert(k, v)

ListNext ==
  \/ uListPop \/ uListReverse \/ uListSort
  \/ \E v \in Items : uListAppend(v)
  \/ \E x \in -MaxItems .. MaxItems - 1 : uListDelete(x) \/ \E v \in Items : uListInsert(x, v) \/ uListSet(x, v)

StringNext ==
  \/ string_clear
  \/ \E l \in Appends : string_append(l) \/ string_appendn(l) \/ string_set(l) \/ string_readline(l)

Pairs == {<< Attr(k, v), Attr(j, w) >> : k, j \in AttrKeys, v, w \in Items}
AttrLists == {s \in Pairs : s[1].key # s[2].key} \cup {<< Attr(k, v) >> : k \in AttrKeys, v \in Items}

AttrNext ==
  \/ \E k \in AttrKeys : SetAttrNull(k) \/ \E v \in Items \cup {NULL} : SetAttr(k, v)
  \/ \E src \in AttrLists : MergeAttr(src)

BoxNext == HashNext \/ ListNext \/ StringNext \/ AttrNext

boxVars == << box, means >>
BoxSpec == BoxInit /\ [][BoxNext]_boxVars

(* After every sequence of operations the hash table finds each key with   *)
(* its value, and a loop over it meets every key once, also after it has   *)
(* grown and keys were overwritten, unless NULL is a key, where the loop   *)
(* begins again; the list is the sequence, within its array; the string is *)
(* as long as what was put into it, and its NUL is in its buffer; the      *)
(* attributes are a map, to which a merge adds all of its own or, if the   *)
(* first of them is new, that one (neo_hash.c:143, 219, ulist.c:148,       *)
(* neo_str.c:120, neo_hdf.c:514).                                          *)
ContainersFaithful ==
  box # NULL /\ box.kind # "crashed" =>
    CASE box.kind = "hash"   -> HashOK
      [] box.kind = "list"   -> ListOK
      [] box.kind = "string" -> StringOK
      [] box.kind = "attr"   -> AttrOK
=============================================================================
