---------------------------- MODULE MCClearSilver ----------------------------
(* Constants for model checking ClearSilver *)
EXTENDS ClearSilver

CONSTANT v

(* Three names on the top level, one of them with a child *)
ThreeAndOne == {<<1>>, <<2>>, <<3>>, <<2, 1>>}
(* 2 is at times a link to 1 *)
TwoToOne == {<< <<2>>, <<1>> >>}
Small == << [path |-> <<2>>, value |-> NULL], [path |-> <<2, 1>>, value |-> v] >>

(* A node with every value of up to two lines, and of three of some, with  *)
(* and without a child and a brother                                       *)
UpToThreeLines ==
  {NULL} \cup [1 .. 1 -> Lines] \cup [1 .. 2 -> Lines] \cup [1 .. 3 -> Lines \ {"long", "x EOM"}]
SmallDataSets ==
  LET first == {HdfNode(<<1>>, val, FALSE, << >>) : val \in UpToThreeLines}
               \cup {HdfNode(<<1>>, val, FALSE, <<Attr("k", "1"), Attr("l", "v")>>) :
                       val \in {NULL, <<"x">>, <<"x", "EOM">>}}
      child == {<< >>} \cup {<< HdfNode(<<1, 1>>, val, FALSE, << >>) >> : val \in {NULL, <<"x", "EOM", "x">>}}
      next  == {<< >>} \cup {<< HdfNode(<<2>>, val, link, << >>) >> :
                               val \in {<<"x">>, <<"", "x">>}, link \in BOOLEAN}
  IN  {<< n >> \o k \o m : n \in first, k \in child, m \in next}

(* Keys of a hash table: 0, two with the same hash value, and others *)
HashOf == [k \in KeySet |-> CASE k = NULL -> 0 [] k = 6 -> 2 [] OTHER -> k]

(* Letters that every conversion treats as special, and others *)
SmallStrings == UNION {[1 .. n -> {10, 13, 37, 43, 34, 92, 65, 49, 200}] : n \in 0 .. 3}
SmallTexts == UNION {[1 .. n -> {65, 97, 49}] : n \in 0 .. 4}
SmallPatterns == UNION {[1 .. n -> {Lit(65), Lit(97), AnyOne, Star, Class({65, 49}, TRUE)}] : n \in 0 .. 3}
=============================================================================
