------------------------------ MODULE HdfAttr ------------------------------
(***************************************************************************)
(* The attributes of a node of a data set (neo_hdf.c): a list of keys with *)
(* values, in the order in which they were set.                            *)
(***************************************************************************)
EXTENDS Naturals, Sequences, SequencesExt

CONSTANT NULL

Attr(k, v) == [key |-> k, value |-> v]

Keys(attr) == {attr[i].key : i \in DOMAIN attr}

(* The elements of s that are in T, in their order *)
Picked(s, T) ==
  LET f[i \in 0 .. Len(s)] ==
        IF i = 0 THEN << >> ELSE IF s[i] \in T THEN Append(f[i - 1], s[i]) ELSE f[i - 1]
  IN  f[Len(s)]

AttrAt(attr, k) == SelectInSeq(attr, LAMBDA a : a.key = k)

(* hdf_set_attr(): a NULL takes the key off the list *)
hdf_set_attr(attr, k, v) ==
  LET i == AttrAt(attr, k)
  IN  IF i = 0 THEN IF v = NULL THEN attr ELSE Append(attr, Attr(k, v))
      ELSE IF v = NULL THEN RemoveAt(attr, i)
      ELSE [attr EXCEPT ![i] = Attr(k, v)]

(* _merge_attr(): new keys go behind the old ones; but if the first key of *)
(* src is new, its next pointer is cleared before it is followed, and the  *)
(* rest of src is lost                                                     *)
merge_attr(dest, src) ==
  LET given(a) == LET i == AttrAt(src, a.key) IN IF i = 0 THEN a ELSE src[i]
      new      == Picked(src, {a \in ToSet(src) : a.key \notin Keys(dest)})
  IN  IF src # << >> /\ Head(src) \in {new[i] : i \in DOMAIN new} THEN Append(dest, Head(src))
      ELSE [i \in DOMAIN dest |-> given(dest[i])] \o new

(* What hdf_dump_cb() writes: a value of NULL or "1" is left out *)
DumpAttr(attr) ==
  [i \in DOMAIN attr |-> IF attr[i].value \in {NULL, "1"} THEN Attr(attr[i].key, NULL) ELSE attr[i]]

(* parse_attr(): a key alone is given the first zero letters of "1" *)
parse_attr(attr) ==
  [i \in DOMAIN attr |-> IF attr[i].value = NULL THEN Attr(attr[i].key, "") ELSE attr[i]]
=============================================================================
