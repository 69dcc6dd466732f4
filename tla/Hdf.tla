--------------------------------- MODULE Hdf ---------------------------------
(***************************************************************************)
(* The data sets that requests, replies and configurations are kept in     *)
(* (neo_hdf.c): nodes on sibling lists, with a cache of the last child     *)
(* found and, on a long level, a hash table of the children.  Attributes   *)
(* and the text form are in HdfAttr and HdfText.                           *)
(***************************************************************************)
EXTENDS HdfTree

CONSTANTS Paths,          \* the paths that callers name; names are numbers, for a sort
          Values,
          Links,          \* pairs of a path and the path that a link at it names
          FORCE_HASH_AT,  \* a level with more children than that gets a hash table
          Cells,          \* addresses of nodes, numbers from 1; the top is 0
          NoHash

ASSUME HdfAssumption ==
  /\ FORCE_HASH_AT \in Nat
  /\ Cells \subseteq Nat \ {0}
  /\ << >> \notin Paths
  /\ \A pd \in Links : Len(pd[2]) <= Len(pd[1])   \* see Room

VARIABLE hdf              \* the nodes that are allocated

Root == 0

(* struct _hdf *)
Node(name, value, link) ==
  [name |-> name, value |-> value, link |-> link, child |-> NULL, next |-> NULL,
   last_hp |-> NULL, last_hs |-> NULL, hash |-> NoHash, last_child |-> NULL]

FreeCells(h) == Cells \ DOMAIN h

-----------------------------------------------------------------------------
(* Levels *)

(* As many rounds as a branch can be long *)
Rounds == [i \in 1 .. Cardinality(Cells) |-> i]

(* The list that begins with n *)
RECURSIVE Siblings(_, _)
Siblings(h, n) == IF n = NULL THEN << >> ELSE << n >> \o Siblings(h, h[n].next)

Children(h, n) == Siblings(h, h[n].child)

(* The children that the hash table of n finds under a name *)
HashChild(h, n, x) ==
  LET found == {c \in h[n].hash : h[c].name = x}
  IN  IF found = {} THEN NULL ELSE CHOOSE c \in found : TRUE

(* Where the search on the list ends: the child found and the one before it *)
SearchEnd(level, hit, last) ==
  [hp |-> IF hit = 0 THEN NULL ELSE level[hit],
   hs |-> IF last = 0 THEN NULL ELSE level[last],
   count |-> last]

SearchList(h, level, x) ==
  LET hit == SelectInSeq(level, LAMBDA c : h[c].name = x)
  IN  SearchEnd(level, hit, IF hit = 0 THEN Len(level) ELSE hit - 1)

Search(h, n, x) == SearchList(h, Children(h, n), x)

ChildNamed(h, n, x) ==
  IF h[n].hash # NoHash THEN HashChild(h, n, x) ELSE Search(h, n, x).hp

(* _walk_hdf(): the node that a path names, links followed, or NULL.  A    *)
(* link on the way starts again at the top, with what the link names in    *)
(* front of the rest of the path.                                          *)
RECURSIVE walk_hdf(_, _, _)
walk_hdf(h, n, path) ==
  IF n = NULL THEN NULL
  ELSE IF h[n].link THEN walk_hdf(h, Root, h[n].value \o path)
  ELSE IF path = Top THEN n
  ELSE walk_hdf(h, ChildNamed(h, n, Head(path)), Tail(path))

(* What callers read: a value, with a default where there is none, and the *)
(* children, by hdf_obj_next() from the first                              *)
hdf_get_value(path, defval) ==
  LET n == walk_hdf(hdf, Root, path)
  IN  IF n = NULL THEN defval ELSE IF hdf[n].value = NULL THEN defval ELSE hdf[n].value

hdf_get_child(path) ==
  LET n == walk_hdf(hdf, Root, path)
  IN  IF n = NULL THEN NULL ELSE hdf[n].child

-----------------------------------------------------------------------------
(* _set_value() *)

(* The cached child of the level, if the cache is right about the list *)
CacheHit(h, n, x) ==
  LET hp == h[n].last_hp
      hs == h[n].last_hs
  IN  /\ IF hs = NULL THEN hp = h[n].child ELSE h[hs].next = hp
      /\ hp # NULL /\ h[hp].name = x

(* Mutant: the new child of a level with a hash table is not entered in it. *)
HashLevelLost(h, n, c, count) ==
  [h EXCEPT ![n].hash =
     IF count > FORCE_HASH_AT /\ @ = NoHash THEN ToSet(Children(h, n)) ELSE @]

(* _hdf_hash_level(), or the entry of the new child in the table there is *)
HashLevel(h, n, c, count) ==
  [h EXCEPT ![n].hash =
     IF @ # NoHash THEN @ \cup {c}
     ELSE IF count > FORCE_HASH_AT THEN ToSet(Children(h, n)) ELSE @]

(* _alloc_hdf() of a new last child *)
Append_hdf(h, n, c, node, hs, count) ==
  LET h1 == [m \in DOMAIN h \cup {c} |-> IF m = c THEN node ELSE h[m]]
      h2 == IF h[n].child = NULL THEN [h1 EXCEPT ![n].child = c] ELSE [h1 EXCEPT ![hs].next = c]
  IN  HashLevel([h2 EXCEPT ![n].last_child = c], n, c, count)

(* The child x of n, made if there is none: the heap after it, and the child *)
Stepped(h, n, node, s, c) ==
  IF s.hp # NULL
  THEN [h |-> [h EXCEPT ![n].last_hp = s.hp, ![n].last_hs = s.hs], at |-> s.hp]
  ELSE [h |-> Append_hdf(h, n, c, node, s.hs, s.count), at |-> c]

Step(h, n, x, node) ==
  IF CacheHit(h, n, x) THEN [h |-> h, at |-> h[n].last_hp]
  ELSE Stepped(h, n, node,
               IF h[n].hash = NoHash THEN Search(h, n, x)
               ELSE [hp |-> HashChild(h, n, x), hs |-> h[n].last_child, count |-> 0],
               CHOOSE c \in FreeCells(h) : \A d \in FreeCells(h) : c <= d)

(* What is left of a path: from a link the walk goes on at the top *)
Onward(s, rest) ==
  IF rest # Top /\ s.h[s.at].link
  THEN [h |-> s.h, at |-> Root, path |-> s.h[s.at].value \o rest]
  ELSE [h |-> s.h, at |-> s.at, path |-> rest]

(* The value, with whether it is a link, is set where the walk has ended *)
SetHere(s, v, lnk) == [h |-> [s.h EXCEPT ![s.at].value = v, ![s.at].link = lnk], at |-> s.at]

RECURSIVE SetFrom(_, _, _)
SetFrom(s, v, lnk) ==
  IF s.path = Top THEN SetHere(s, v, lnk)
  ELSE SetFrom(Onward(Step(s.h, s.at, Head(s.path), Node(Head(s.path), NULL, FALSE)),
                      Tail(s.path)), v, lnk)

(* The heap after the value is set, and the node that has it *)
set_value(h, n, path, v, lnk) == SetFrom(Onward([h |-> h, at |-> n], path), v, lnk)

(* calloc() succeeds: a path needs no more nodes than are free *)
Room(path) == Cardinality(FreeCells(hdf)) >= Len(path)

hdf_set_value(path, v) ==
  /\ Room(path)
  /\ hdf' = set_value(hdf, Root, path, v, FALSE).h

hdf_set_symlink(src, dest) ==
  /\ Room(src)
  /\ hdf' = set_value(hdf, Root, src, dest, TRUE).h

(* The heap after, and the node *)
GetNode(h, path) ==
  IF walk_hdf(h, Root, path) # NULL THEN [h |-> h, at |-> walk_hdf(h, Root, path)]
  ELSE set_value(h, Root, path, NULL, FALSE)

hdf_get_node(path) ==
  /\ Room(path)
  /\ hdf' = GetNode(hdf, path).h

-----------------------------------------------------------------------------
(* The children are put into a list, sorted by name and linked again; the  *)
(* cache and the hash table stay.                                          *)
hdf_sort_obj(path) ==
  LET n == walk_hdf(hdf, Root, path)
  IN  /\ n # NULL /\ hdf[n].child # NULL
      /\ LET level == SortSeq(Children(hdf, n), LAMBDA a, b : hdf[a].name < hdf[b].name)
             after(m) == LET i == SelectInSeq(level, LAMBDA c : c = m)
                         IN  IF i = Len(level) THEN NULL ELSE level[i + 1]
         IN  hdf' = [m \in DOMAIN hdf |->
                       IF m = n THEN [hdf[n] EXCEPT !.child = level[1], !.last_child = Last(level)]
                       ELSE IF m \in ToSet(level) THEN [hdf[m] EXCEPT !.next = after(m)]
                       ELSE hdf[m]]

(* n and all nodes below it *)
RECURSIVE Below(_, _)
Below(h, n) == {n} \cup UNION {Below(h, c) : c \in ToSet(Children(h, n))}

(* hdf_remove_tree() looks on the lists only and does not follow links *)
ListWalk(h, path) ==
  FoldLeft(LAMBDA n, x : IF n = NULL THEN NULL ELSE Search(h, n, x).hp, Root, path)

(* Mutant: last_child is left at the node that is freed. *)
UnlinkKeepsLast(h, lp, ln, hp) ==
  LET h1 == IF ln = NULL THEN [h EXCEPT ![lp].child = h[hp].next]
            ELSE [h EXCEPT ![ln].next = h[hp].next]
  IN  [h1 EXCEPT ![lp].hash = IF @ = NoHash THEN NoHash ELSE @ \ {hp},
                 ![lp].last_hp = IF @ = hp THEN NULL ELSE @,
                 ![lp].last_hs = IF @ = hp THEN NULL ELSE @]

(* The child hp of lp, behind ln, leaves hash table, list and cache *)
Unlink(h, lp, ln, hp) ==
  LET h1 == IF ln = NULL THEN [h EXCEPT ![lp].child = h[hp].next]
            ELSE [h EXCEPT ![ln].next = h[hp].next,
                           ![lp].last_child = IF @ = hp THEN ln ELSE @]
  IN  [h1 EXCEPT ![lp].hash = IF @ = NoHash THEN NoHash ELSE @ \ {hp},
                 ![lp].last_hp = IF @ = hp THEN NULL ELSE @,
                 ![lp].last_hs = IF @ = hp THEN NULL ELSE @]

dealloc_hdf(h, hp, gone) == [m \in DOMAIN h \ gone |-> h[m]]

hdf_remove_tree(path) ==
  LET lp == ListWalk(hdf, Front(path))
      hp == ListWalk(hdf, path)
  IN  /\ hp # NULL
      /\ hdf' = dealloc_hdf(Unlink(hdf, lp, Search(hdf, lp, Last(path)).hs, hp), hp,
                            Below(hdf, hp))

-----------------------------------------------------------------------------
(* _copy_nodes() sets every node of the source in turn, parents first *)
copy_nodes(node) ==
  FoldLeft(LAMBDA g, e : set_value(g, node.at, e.path, e.value, FALSE).h, node.h, Source)

hdf_copy(path) ==
  /\ Cardinality(FreeCells(hdf)) >= Len(path) + Len(Source)
  /\ hdf' = copy_nodes(GetNode(hdf, path))

(* hdf_destroy() and hdf_init(), as for every request *)
Fresh == Root :> Node(NULL, NULL, FALSE)

hdf_init == hdf' = Fresh

-----------------------------------------------------------------------------
(* Every operation next to what it should do to the tree *)
HdfInit == hdf = Fresh /\ TreeInit

HdfNext ==
  \/ \E p \in Paths, v \in Values : hdf_set_value(p, v) /\ Set(p, v)
  \/ \E pd \in Links : hdf_set_symlink(pd[1], pd[2]) /\ Link(pd[1], pd[2])
  \/ \E p \in Paths : \/ hdf_get_node(p) /\ Touch(p)
                      \/ hdf_remove_tree(p) /\ Cut(p)
                      \/ hdf_copy(p) /\ Copy(p)
  \/ \E p \in Paths \cup {Top} : hdf_sort_obj(p) /\ UNCHANGED tree
  \/ hdf_init /\ Destroy

-----------------------------------------------------------------------------
(* The children of every node *)
Levels == [n \in DOMAIN hdf |-> Children(hdf, n)]

(* On every level the list ends, with last_child at its end, and names no  *)
(* name twice; a hash table holds exactly the children; the cache points   *)
(* at children or at nothing; and every node that is allocated is on one   *)
(* level.  A pointer to a freed node would be followed by the next         *)
(* _set_value() (neo_hdf.c:627, 1001).                                     *)
HdfShape ==
  LET level == Levels
  IN  /\ Below(hdf, Root) = DOMAIN hdf
      /\ \A n \in DOMAIN hdf :
           LET here == ToSet(level[n])
           IN  /\ here \subseteq DOMAIN hdf
               /\ \A c, d \in here : hdf[c].name = hdf[d].name => c = d
               /\ here # {} => hdf[n].last_child = Last(level[n])
               /\ hdf[n].hash # NoHash => hdf[n].hash = here
               /\ {hdf[n].last_hp, hdf[n].last_hs} \subseteq here \cup {NULL}
      /\ FoldLeft(LAMBDA i, n : i + Len(level[n]), 1, SetToSeq(DOMAIN hdf))
           = Cardinality(DOMAIN hdf)

(* The path of every node *)
PathOf ==
  LET level == Levels
      deeper(q) ==
        [c \in DOMAIN q \cup UNION {ToSet(level[n]) : n \in DOMAIN q} |->
           IF c \in DOMAIN q THEN q[c]
           ELSE Append(q[CHOOSE n \in DOMAIN q : c \in ToSet(level[n])], hdf[c].name)]
  IN  FoldLeft(LAMBDA q, i : deeper(q), Root :> Top, Rounds)

AbsTree ==
  LET path == PathOf
  IN  [p \in {path[n] : n \in DOMAIN path} |->
         LET n == CHOOSE n \in DOMAIN path : path[n] = p
         IN  [value |-> hdf[n].value, link |-> hdf[n].link]]

(* The lists, the cache and the hash table are a tree of named values with *)
(* links: after every sequence of operations the nodes are those that      *)
(* HdfTree says, with its values, and under a path callers find the value  *)
(* and the children that the tree has there (neo_hdf.c:219, 577, 955).     *)
ImplementsTree ==
  /\ AbsTree = tree
  /\ \A p \in Paths :
       LET at    == Lookup(p)
           names == {hdf[c].name : c \in ToSet(Siblings(hdf, hdf_get_child(p)))}
       IN  IF at \in DOMAIN tree
           THEN /\ hdf_get_value(p, NULL) = tree[at].value
                /\ names = {Last(q) : q \in {q \in DOMAIN tree : q # Top /\ Front(q) = at}}
           ELSE hdf_get_value(p, NULL) = NULL /\ names = {}
=============================================================================
