------------------------------ MODULE MCCache ------------------------------
(* Small instances of Cache for TLC. *)
EXTENDS Cache, TLC

CONSTANTS k1, k2, k3, k4, k5

(* Cells are interchangeable, and so are the keys of chain 1. *)
Sym == Permutations(Cells) \cup Permutations(Keys \ {k5})

(* Every key but k5 is in chain 1. *)
HashK == [k \in Keys |-> IF k = k5 THEN 2 ELSE 1]

Text(n) == [n |-> n, form |-> "text"]
OneVal  == {Text(0)}
AllText == {Text(n) : n \in 0..MaxNum} \cup {[n |-> 1, form |-> "padded"],
                                             [n |-> 1, form |-> "raw"]}
============================================================================
