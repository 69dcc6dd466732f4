-------------------------------- MODULE Cache --------------------------------
(***************************************************************************)
(* The cache of a plugin: server/cache.c, with the system commands of      *)
(* server/syscmd.c that use it.  A hash table of doubly linked chains, the *)
(* most recently set entry first.  Only the plugin's own thread calls it,  *)
(* so that each operation is one step; the clock is the main thread's.     *)
(*                                                                         *)
(* A value is a number and the form of the bytes that spell it: "text" as  *)
(* a client sends it, "padded" as cache_incr() prints it ("%23lld"), or    *)
(* "raw" without the terminating null byte.                                *)
(***************************************************************************)
EXTENDS Integers, Sequences, FiniteSets

CONSTANTS Cells,      \* the heap cells malloc() can return for an entry
          NULL,
          Keys, Chains,
          Hash,       \* hash(key) % hashlen for each key
          CHAINLEN,   \* cd->chainlen: 4
          Vals,       \* the values that clients set
          MaxNum,     \* bound: the largest number that cache_incr() makes
          Timeouts,   \* the timeouts of cache_set()
          MaxTime     \* bound: how far the clock runs

Forms == {"text", "padded", "raw"}
AllVals == [n : 0..MaxNum, form : Forms]

ExpiryTimes == {0} \cup {c + t : c \in 1..MaxTime, t \in Timeouts}

ASSUME CellsAssumption == IsFiniteSet(Cells)
ASSUME NullAssumption  == NULL \notin Cells \cup Keys \cup AllVals
ASSUME HashAssumption  == Hash \in [Keys -> Chains]
ASSUME ChainAssumption == CHAINLEN \in Nat \ {0}
ASSUME ValsAssumption  == MaxNum \in Nat /\ Vals \subseteq AllVals
ASSUME TimeAssumption  == MaxTime \in Nat \ {0} /\ Timeouts \subseteq Nat

VARIABLES
  cell,      \* the fields of each cache_entry
  heap,      \* the cells malloc()ed and not free()d
  table,     \* the cache_chain of each hash value
  there,     \* *cd is not NULL
  g_ctime,   \* the clock: seconds since the server started, plus one
  latest     \* history: the value last stored for each key, or NULL

vars == << cell, heap, table, there, g_ctime, latest >>

Blank == [key |-> NULL, val |-> NULL, expire |-> 0, prev |-> NULL, next |-> NULL]
EmptyChain == [len |-> 0, first |-> NULL, last |-> NULL]

Init ==
  /\ cell = [x \in Cells |-> Blank] /\ heap = {}
  /\ table = [h \in Chains |-> EmptyChain]
  /\ there = TRUE
  /\ g_ctime = 1
  /\ latest = [k \in Keys |-> NULL]

(* time_up() of server/net.c. *)
Tick ==
  /\ g_ctime < MaxTime
  /\ g_ctime' = g_ctime + 1
  /\ UNCHANGED << cell, heap, table, there, latest >>

(* Mutant: the sizes of the keys are compared, their bytes are not. *)
find_in_chain_AnyKey(h, k) == table[h].first

(* The first entry with key k from the head of the chain on, or NULL. *)
find_in_chain(h, k) ==
  LET from[x \in Cells \cup {NULL}] ==
        IF x = NULL THEN NULL
        ELSE IF cell[x].key = k THEN x ELSE from[cell[x].next]
  IN  from[table[h].first]

Find(k) == find_in_chain(Hash[k], k)

(* x->f = y for a pointer x that the code tests for NULL first. *)
WithPrev(c, x, y) == IF x = NULL THEN c ELSE [c EXCEPT ![x].prev = y]

------------------------------------------------------------------------------
(* cache_del() once the entry x of chain h is found; free() loses what the *)
(* cell held.                                                              *)
Unlink(h, x) ==
  LET en == cell[x]
      relinked == IF table[h].first = x
                    THEN WithPrev(cell, en.next, NULL)
                    ELSE WithPrev([cell EXCEPT ![en.prev].next = en.next],
                                  en.next, en.prev)
  IN  /\ cell' = [relinked EXCEPT ![x] = Blank]
      /\ table' = [table EXCEPT ![h] =
           [len   |-> @.len - 1,
            first |-> IF @.first = x THEN en.next ELSE @.first,
            last  |-> IF @.last = x THEN en.prev ELSE @.last]]
      /\ heap' = heap \ {x}

cache_del(k) ==
  /\ there /\ Find(k) # NULL
  /\ Unlink(Hash[k], Find(k))
  /\ latest' = [latest EXCEPT ![k] = NULL]
  /\ UNCHANGED << there, g_ctime >>

(* An expired entry is deleted by the cache_get() that finds it; any other *)
(* cache_get() changes nothing, the order of the chain included.           *)
Expired(x) == cell[x].expire > 0 /\ cell[x].expire < g_ctime

cache_get(k) ==
  /\ there /\ Find(k) # NULL /\ Expired(Find(k))
  /\ Unlink(Hash[k], Find(k))
  /\ UNCHANGED << there, g_ctime, latest >>

(* cache_set() of a new key: the new entry y takes a free slot of the      *)
(* chain, or evicts the last one.                                          *)
Linked(h, y, en) ==
  LET c == [cell EXCEPT ![y] = [en EXCEPT !.next = table[h].first]]
  IN  [c EXCEPT ![table[h].first].prev = y]

(* Mutants: len is not counted up; the first entry is evicted. *)
InsertNew_KeepsLen(h, y, en) ==
  IF table[h].len = 0
  THEN /\ cell' = [cell EXCEPT ![y] = en]
       /\ table' = [table EXCEPT ![h] = [len |-> 1, first |-> y, last |-> y]]
       /\ heap' = heap \cup {y}
  ELSE /\ cell' = Linked(h, y, en)
       /\ table' = [table EXCEPT ![h].first = y]
       /\ heap' = heap \cup {y}

InsertNew_EvictsFirst(h, y, en) ==
  IF table[h].len = 0
  THEN /\ cell' = [cell EXCEPT ![y] = en]
       /\ table' = [table EXCEPT ![h] = [len |-> 1, first |-> y, last |-> y]]
       /\ heap' = heap \cup {y}
  ELSE IF table[h].len <= CHAINLEN
  THEN /\ cell' = Linked(h, y, en)
       /\ table' = [table EXCEPT ![h].first = y, ![h].len = @ + 1]
       /\ heap' = heap \cup {y}
  ELSE LET old == table[h].first
           new == cell[old].next
       IN  /\ cell' = [cell EXCEPT ![y] = [en EXCEPT !.next = new],
                                   ![new].prev = y, ![old] = Blank]
           /\ table' = [table EXCEPT ![h].first = y]
           /\ heap' = (heap \cup {y}) \ {old}

InsertNew(h, y, en) ==
  IF table[h].len = 0
  THEN /\ cell' = [cell EXCEPT ![y] = en]
       /\ table' = [table EXCEPT ![h] = [len |-> 1, first |-> y, last |-> y]]
       /\ heap' = heap \cup {y}
  ELSE IF table[h].len <= CHAINLEN
  THEN /\ cell' = Linked(h, y, en)
       /\ table' = [table EXCEPT ![h].first = y, ![h].len = @ + 1]
       /\ heap' = heap \cup {y}
  ELSE LET old == table[h].last
           new == cell[old].prev
       IN  /\ cell' = [Linked(h, y, en) EXCEPT ![new].next = NULL, ![old] = Blank]
           /\ table' = [table EXCEPT ![h].first = y, ![h].last = new]
           /\ heap' = (heap \cup {y}) \ {old}

SetNew(k, v, t) ==
  /\ there /\ Find(k) = NULL
  /\ \E y \in Cells \ heap :
       InsertNew(Hash[k], y,
                 [Blank EXCEPT !.key = k, !.val = v,
                               !.expire = IF t = 0 THEN 0 ELSE g_ctime + t])
  /\ latest' = [latest EXCEPT ![k] = v]
  /\ UNCHANGED << there, g_ctime >>

(* cache_set() of a key that is there: the value is replaced, the expiry   *)
(* time is not, and the entry moves to the front.                          *)
Promoted(h, x, v) ==
  LET en == cell[x]
      c1 == [cell EXCEPT ![x].val = v, ![en.prev].next = en.next]
      c2 == WithPrev(c1, en.next, en.prev)
      c3 == [c2 EXCEPT ![x].prev = NULL, ![x].next = table[h].first]
  IN  [c3 EXCEPT ![table[h].first].prev = x]

(* Mutant: last still points to the entry that has moved to the front. *)
SetOld_KeepsLast(k, v) ==
  /\ there /\ Find(k) # NULL
  /\ LET h == Hash[k]
         x == Find(k)
     IN  IF table[h].first = x
         THEN cell' = [cell EXCEPT ![x].val = v] /\ UNCHANGED table
         ELSE /\ cell' = Promoted(h, x, v)
              /\ table' = [table EXCEPT ![h].first = x]
  /\ latest' = [latest EXCEPT ![k] = v]
  /\ UNCHANGED << heap, there, g_ctime >>

SetOld(k, v) ==
  /\ there /\ Find(k) # NULL
  /\ LET h == Hash[k]
         x == Find(k)
     IN  IF table[h].first = x
         THEN cell' = [cell EXCEPT ![x].val = v] /\ UNCHANGED table
         ELSE /\ cell' = Promoted(h, x, v)
              /\ table' = [table EXCEPT ![h].first = x,
                             ![h].last = IF @ = x THEN cell[x].prev ELSE @]
  /\ latest' = [latest EXCEPT ![k] = v]
  /\ UNCHANGED << heap, there, g_ctime >>

(* With no memory for an entry, its key or its value nothing changes. *)
cache_set(k, v, t) == SetNew(k, v, t) \/ SetOld(k, v)

(* Compare-and-swap: the values are compared byte by byte, and neither the *)
(* entry's place nor its expiry time is looked at.                         *)
cache_cas(k, old, new) ==
  /\ there /\ Find(k) # NULL
  /\ cell[Find(k)].val = old
  /\ cell' = [cell EXCEPT ![Find(k)].val = new]
  /\ latest' = [latest EXCEPT ![k] = new]
  /\ UNCHANGED << heap, table, there, g_ctime >>

(* The value must be null-terminated; the sum is printed into it. *)
cache_incr(k, i) ==
  /\ there /\ Find(k) # NULL
  /\ cell[Find(k)].val.form # "raw"
  /\ cell[Find(k)].val.n + i <= MaxNum
  /\ LET new == [n |-> cell[Find(k)].val.n + i, form |-> "padded"]
     IN  /\ cell' = [cell EXCEPT ![Find(k)].val = new]
         /\ latest' = [latest EXCEPT ![k] = new]
  /\ UNCHANGED << heap, table, there, g_ctime >>

(* cache_free() follows the next pointers of each chain and frees what it  *)
(* finds; cache_create() may find no memory.                               *)
Node(h) == LET f[i \in Nat] == IF i = 0 THEN table[h].first
                               ELSE IF f[i - 1] = NULL THEN NULL
                               ELSE cell[f[i - 1]].next
           IN  f

Reachable == {Node(h)[i] : h \in Chains, i \in 0..Cardinality(Cells)} \ {NULL}

sys_cmd_cache_empty ==
  /\ there
  /\ heap' = heap \ Reachable
  /\ cell' = [x \in Cells |-> IF x \in Reachable THEN Blank ELSE cell[x]]
  /\ table' = [h \in Chains |-> EmptyChain]
  /\ there' \in BOOLEAN
  /\ latest' = [k \in Keys |-> NULL]
  /\ UNCHANGED g_ctime

(* Without a cache every command answers with an error. *)
Refused == ~there /\ UNCHANGED vars

Next ==
  \/ Tick
  \/ \E k \in Keys :
       \/ cache_get(k)
       \/ cache_del(k)
       \/ \E v \in Vals, t \in Timeouts : cache_set(k, v, t)
       \/ \E v, w \in Vals : cache_cas(k, v, w)
       \/ cache_incr(k, 1)
  \/ sys_cmd_cache_empty
  \/ Refused

Spec == Init /\ [][Next]_vars

------------------------------------------------------------------------------
(* Properties *)

(* Every variable has its type. *)
TypeOK ==
  LET Ptr == Cells \cup {NULL} IN
  /\ cell \in [Cells -> [key : Keys \cup {NULL}, val : AllVals \cup {NULL},
                         expire : ExpiryTimes, prev : Ptr, next : Ptr]]
  /\ heap \in SUBSET Cells
  /\ table \in [Chains -> [len : Nat, first : Ptr, last : Ptr]]
  /\ there \in BOOLEAN
  /\ g_ctime \in Nat
  /\ latest \in [Keys -> AllVals \cup {NULL}]

(* The cells of chain h in the order of the next pointers. *)
Walk(h) == [i \in 1..table[h].len |-> Node(h)[i - 1]]

(* Each chain is a well-formed list: len cells lead by next from first to  *)
(* last, where the list ends, prev leads back, their keys belong to the    *)
(* chain and differ; and the allocated cells are those of the chains, so   *)
(* that nothing leaks and nothing that was freed is in one (cache.c:223).  *)
ChainShape ==
  /\ heap = Reachable
  /\ \A h \in Chains :
       LET w == Walk(h) n == table[h].len IN
       /\ IF n = 0 THEN table[h].first = NULL /\ table[h].last = NULL
                   ELSE table[h].last = w[n] /\ w[n] # NULL
       /\ Node(h)[n] = NULL
       /\ \A i \in 1..n : /\ cell[w[i]].prev = IF i = 1 THEN NULL ELSE w[i - 1]
                          /\ Hash[cell[w[i]].key] = h
       /\ \A i, j \in 1..n : cell[w[i]].key = cell[w[j]].key => i = j

(* A value found in the cache is the one stored last for its key, whatever *)
(* was evicted, expired, deleted or moved in between; a deleted key is not *)
(* found.                                                                  *)
ReadsLatest == \A k \in Keys : Find(k) # NULL => cell[Find(k)].val = latest[k]

(* What the pointers stand for: the entries of each chain in order. *)
Listing ==
  [h \in Chains |-> [i \in 1..table[h].len |->
                       [key    |-> cell[Walk(h)[i]].key,
                        val    |-> cell[Walk(h)[i]].val,
                        expire |-> cell[Walk(h)[i]].expire]]]

(* The pointers implement the list of entries in order of the last set.    *)
LRU == INSTANCE CacheLRU WITH
         Vals  <- AllVals,
         Room  <- CHAINLEN + 1,
         Times <- ExpiryTimes,
         chain <- Listing
ImplementsLRU == LRU!Spec
==============================================================================
