------------------------------- MODULE HdfTree -------------------------------
(***************************************************************************)
(* What a data set of ClearSilver promises: a tree of named nodes, each    *)
(* with a value or none, in which a link stands for the node it names.     *)
(* A path is a sequence of names; a link's value is a path from the top.   *)
(***************************************************************************)
EXTENDS Naturals, Sequences, FiniteSets, SequencesExt, TLC, HdfAttr

CONSTANT Source     \* the data set to copy: a sequence of [path, value]

VARIABLE tree       \* a function from paths to [value, link]

Top == << >>
Leaf(v, l) == [value |-> v, link |-> l]

(* The path with its first link on the way replaced by what the link names *)
Through(p, upTo) ==
  LET on == {i \in 1 .. upTo : SubSeq(p, 1, i) \in DOMAIN tree /\ tree[SubSeq(p, 1, i)].link}
      i  == CHOOSE j \in on : \A k \in on : j <= k
  IN  IF on = {} THEN p ELSE tree[SubSeq(p, 1, i)].value \o SubSeq(p, i + 1, Len(p))

(* Links do not lead to links here, so one replacement is all *)
Target(p) == Through(p, Len(p) - 1)
Lookup(p) == Through(p, Len(p))

(* A node is made with all that lead to it *)
With(t, p, l) ==
  [q \in DOMAIN t \cup {SubSeq(p, 1, i) : i \in 1 .. Len(p)} |->
     IF q = p THEN l ELSE IF q \in DOMAIN t THEN t[q] ELSE Leaf(NULL, FALSE)]

TreeInit == tree = (Top :> Leaf(NULL, FALSE))

Set(p, v) == tree' = With(tree, Target(p), Leaf(v, FALSE))

Link(p, d) == tree' = With(tree, Target(p), Leaf(d, TRUE))

Touch(p) == tree' = IF Lookup(p) \in DOMAIN tree THEN tree ELSE With(tree, Target(p), Leaf(NULL, FALSE))

(* Links are not followed here *)
Cut(p) == tree' = [q \in {q \in DOMAIN tree : ~IsPrefix(p, q)} |-> tree[q]]

Copy(p) ==
  LET found == Lookup(p) \in DOMAIN tree
      at == IF found THEN Lookup(p) ELSE Target(p)
      t0 == IF found THEN tree ELSE With(tree, at, Leaf(NULL, FALSE))
  IN  tree' = FoldLeft(LAMBDA t, e : With(t, at \o e.path, Leaf(e.value, FALSE)), t0, Source)

Destroy == tree' = (Top :> Leaf(NULL, FALSE))
=============================================================================
