------------------------------ MODULE CacheLRU ------------------------------
(***************************************************************************)
(* What a plugin's cache promises: per hash chain a list of entries, the   *)
(* most recently set first, at most Room of them; to make room the entry   *)
(* set least recently is dropped.                                          *)
(***************************************************************************)
EXTENDS Integers, Sequences, SequencesExt

CONSTANTS Keys, Vals,
          Chains, Hash,   \* the hash chains and the chain of each key
          Room,           \* how many entries a chain holds
          Times           \* the expiry times, 0 for never

VARIABLES chain           \* chain[h]: a sequence of [key, val, expire]

Init == chain = [h \in Chains |-> << >>]

(* The places of key k in its chain: at most one. *)
Places(k) == {i \in DOMAIN chain[Hash[k]] : chain[Hash[k]][i].key = k}

(* A new key comes first, with its own expiry time. *)
Insert(k) ==
  /\ Places(k) = {}
  /\ \E v \in Vals, t \in Times :
       LET ns == << [key |-> k, val |-> v, expire |-> t] >> \o chain[Hash[k]]
       IN  chain' = [chain EXCEPT ![Hash[k]] =
                       IF Len(ns) <= Room THEN ns ELSE Front(ns)]

(* A key that is there gets a new value and moves to the front. *)
Replace(k) ==
  \E i \in Places(k), v \in Vals :
    chain' = [chain EXCEPT ![Hash[k]] = << [@[i] EXCEPT !.val = v] >> \o RemoveAt(@, i)]

(* A compare-and-swap or an increment changes the value where it is. *)
Update(k) ==
  \E i \in Places(k), v \in Vals : chain' = [chain EXCEPT ![Hash[k]][i].val = v]

Delete(k) ==
  \E i \in Places(k) : chain' = [chain EXCEPT ![Hash[k]] = RemoveAt(@, i)]

Clear == chain' = [h \in Chains |-> << >>]

Next == Clear \/ \E k \in Keys : Insert(k) \/ Replace(k) \/ Update(k) \/ Delete(k)

Spec == Init /\ [][Next]_chain
==============================================================================
