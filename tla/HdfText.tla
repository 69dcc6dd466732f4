------------------------------ MODULE HdfText ------------------------------
(***************************************************************************)
(* The text form of a data set: hdf_write_string() and hdf_read_string()   *)
(* of neo_hdf.c, and the packets that carry it (packet.c).  Every request  *)
(* and every reply of moc is such a text.  A text is a sequence of lines,  *)
(* a value the sequence of its lines; what a line looks like is its kind.  *)
(* A data set is the sequence of its nodes, brothers in their order on the *)
(* list.                                                                   *)
(***************************************************************************)
EXTENDS Integers, Sequences, FiniteSets, SequencesExt, TLC, HdfAttr

CONSTANT DataSets   \* the data sets to write, parents before children, as hdf_dump_cb()
                    \* meets them; no link has children, for they would be read below
                    \* what the link names

VARIABLES data,   \* the data set
          text,   \* the text in the packet, NULL before
          cut,    \* the packet was too small for the text
          back    \* what was read from the text, NULL before

(* Lines of values: text, nothing, text with a blank before it, "EOM"      *)
(* itself, with more text after a blank, and at the end of a short line    *)
(* and of a long one                                                       *)
Lines == {"x", "", " x", "EOM", "EOM x", "x EOM", "long", "long EOM"}

(* "long" are 124 letters, "longer" 126 *)
LineLen == [x |-> 1] @@ ("" :> 0) @@ (" x" :> 2) @@ ("EOM" :> 3) @@ ("EOM x" :> 5) @@ ("x EOM" :> 5)
             @@ [long |-> 124] @@ ("long EOM" :> 129) @@ ("RANDOM" :> 6)

(* Where in the line "EOM" is found with a blank or the end of the line    *)
(* behind it, and what stands before it                                    *)
EomAt(line) ==
  CASE line \in {"EOM", "EOM x"} -> {0} [] line = "x EOM" -> {2} [] line = "long EOM" -> {126} [] OTHER -> {}
Before(line) ==
  CASE line = "x EOM" -> "x " [] line = "long EOM" -> "longer" [] OTHER -> ""

neos_strip(line) == IF line = " x" THEN "x" ELSE line

HdfNode(path, value, link, attr) == [path |-> path, value |-> value, link |-> link, attr |-> attr]

TextLine(kind, name, attr, value) == [kind |-> kind, name |-> name, attr |-> attr, value |-> value]

-----------------------------------------------------------------------------
(* Writing: hdf_dump_cb() *)

strlen(value) == FoldLeft(LAMBDA n, line : n + LineLen[line], Len(value) - 1, value)

(* The terminator is found inside the value: as a line after the first and *)
(* before the last, or as the last one of a value that is long enough      *)
Clash(value, term) ==
  \/ \E i \in 2 .. Len(value) - 1 : value[i] = term
  \/ Last(value) = term /\ strlen(value) > LineLen[term] + 2

(* gen_ml_break(): letters chosen until they do not clash *)
gen_ml_break(value, term) ==
  IF Len(value) > 1 /\ term = "EOM" /\ Clash(value, term) THEN "RANDOM" ELSE term

(* The lines of a node's value; a node without one has none.  A value that *)
(* ends with a newline has the terminator where its last line is.          *)
DumpValue(node, term) ==
  LET name == Last(node.path)
      body == IF Last(node.value) = "" THEN Front(node.value) ELSE node.value
  IN  IF node.value = NULL THEN << >>
      ELSE IF Len(node.value) = 1
      THEN << TextLine(IF node.link THEN ":" ELSE "=", name, DumpAttr(node.attr), node.value[1]) >>
      ELSE << TextLine("<<", name, DumpAttr(node.attr), term) >>
             \o [i \in DOMAIN body |-> TextLine("raw", NULL, << >>, body[i])]
             \o << TextLine("raw", NULL, << >>, term) >>

Kids(nodes, path) == SelectSeq(nodes, LAMBDA n : n.path # << >> /\ Front(n.path) = path)

(* The children of a path, each with its value and then its own children.  *)
(* A terminator once made is kept for the rest of the level.               *)
RECURSIVE hdf_dump_cb(_, _)
hdf_dump_cb(nodes, path) ==
  FoldLeft(LAMBDA out, n :
             LET term == IF n.value = NULL THEN out.term ELSE gen_ml_break(n.value, out.term)
                 kids == Kids(nodes, n.path)
             IN  [term |-> term,
                  text |-> out.text \o DumpValue(n, term)
                    \o IF kids = << >> THEN << >>
                       ELSE << TextLine("{", Last(n.path), << >>, NULL) >>
                              \o hdf_dump_cb(nodes, n.path).text
                              \o << TextLine("}", NULL, << >>, NULL) >>],
           [term |-> "EOM", text |-> << >>], Kids(nodes, path))

hdf_write_string == hdf_dump_cb(data, << >>).text

(* A text that is cut within a line: the value of the line is shorter, or  *)
(* not even the name is all there                                          *)
Cuts(t) ==
  UNION {{SubSeq(t, 1, i - 1), Append(SubSeq(t, 1, i - 1), [t[i] EXCEPT !.value = IF t[i].kind = "{" THEN NULL ELSE ""]),
          Append(SubSeq(t, 1, i - 1), TextLine("bad", NULL, << >>, NULL))} : i \in DOMAIN t}

(* pack_data_str() copies no more of the text than the buffer has room for *)
pack_hdf ==
  /\ text = NULL
  /\ \/ text' = hdf_write_string /\ cut' = FALSE
     \/ text' \in Cuts(hdf_write_string) /\ cut' = TRUE
  /\ UNCHANGED << data, back >>

-----------------------------------------------------------------------------
(* Reading: _hdf_read_string().  The state of the reader: the nodes, the   *)
(* path of the node that is read, the node whose lines are read or NULL,   *)
(* and why reading ended.                                                  *)
StartRead == [nodes |-> << >>, path |-> << >>, in |-> NULL, end |-> "no"]

NodeAt(nodes, path) == SelectInSeq(nodes, LAMBDA n : n.path = path)

(* _set_value() on a child of the node that is read *)
SetNode(nodes, path, value, link, attr) ==
  LET i == NodeAt(nodes, path)
  IN  IF i = 0 THEN Append(nodes, HdfNode(path, value, link, attr))
      ELSE [nodes EXCEPT ![i] =
              HdfNode(path, value, link, IF @.attr = << >> THEN attr ELSE merge_attr(@.attr, attr))]

(* name = value *)
ReadAssign(st, l) ==
  [st EXCEPT !.nodes = SetNode(@, Append(st.path, l.name), << neos_strip(l.value) >>, FALSE,
                               parse_attr(l.attr))]

(* name : path *)
ReadLink(st, l) ==
  [st EXCEPT !.nodes = SetNode(@, Append(st.path, l.name), << neos_strip(l.value) >>, TRUE,
                               parse_attr(l.attr))]

(* name {, which keeps the value that the node has *)
ReadDeeper(st, l) ==
  LET path == Append(st.path, l.name)
      i    == NodeAt(st.nodes, path)
  IN  [st EXCEPT !.nodes = IF i = 0 THEN Append(@, HdfNode(path, NULL, FALSE, << >>))
                           ELSE [@ EXCEPT ![i].link = FALSE],
                 !.path = path]

(* }, which on the top level ends the reading *)
ReadUp(st) ==
  IF st.path = << >> THEN [st EXCEPT !.end = "up"] ELSE [st EXCEPT !.path = Front(@)]

(* The buffer of a value on several lines is made and grows by this *)
Space == 128

(* name << terminator *)
ReadMulti(st, l) ==
  IF l.value = "" THEN [st EXCEPT !.end = "error"]
  ELSE [st EXCEPT !.in = [path |-> Append(st.path, l.name), attr |-> parse_attr(l.attr),
                          term |-> l.value, lines |-> << >>, msize |-> 0, mmax |-> Space]]

(* The value that the lines make; the text may also end within it *)
EndMulti(st, last) ==
  [st EXCEPT !.nodes = SetNode(@, st.in.path, Append(st.in.lines, last), FALSE, st.in.attr),
             !.in = NULL]

(* Mutant: the buffer grows when it is full, not before. *)
GrownLate(msize, mmax, term) ==
  IF msize < mmax - 1 THEN mmax ELSE mmax + Space * (1 + (msize + 1 - mmax) \div Space)

(* The buffer grows by Space until there is room for the terminator, and   *)
(* 10 bytes more, behind what it holds                                     *)
Grown(msize, mmax, term) ==
  LET lack == msize + LineLen[term] + 10 - mmax
  IN  IF lack <= 0 THEN mmax ELSE mmax + Space * ((lack + Space - 1) \div Space)

(* _copy_line() takes no more of a line than the buffer has room for: a    *)
(* long line comes in several chunks, which begin where the buffer was     *)
(* full and has grown                                                      *)
Chunks(in, len) ==
  {0} \cup {o \in 1 .. len : in.msize + o >= in.mmax - 1 /\ (in.msize + o + 1 - in.mmax) % Space = 0}

(* A chunk ends the value if it begins with the terminator and a blank or  *)
(* the end of the line follows, even within a line.  The rest of the chunk *)
(* is dropped; no line here is so long that more of it would be left.      *)
Ends(in, line) ==
  IF line = in.term THEN {0}
  ELSE IF in.term = "EOM" THEN EomAt(line) \cap Chunks(in, LineLen[line]) ELSE {}

ReadRaw(st, l) ==
  LET line  == IF l.kind = "raw" THEN l.value ELSE "x"
      msize == st.in.msize + LineLen[line] + 1
  IN  IF l.kind = "raw" /\ Ends(st.in, line) # {}
      THEN EndMulti(st, IF 0 \in Ends(st.in, line) THEN "" ELSE Before(line))
      ELSE [st EXCEPT !.in.lines = Append(@, IF l.kind = "raw" THEN line ELSE l.kind),
                      !.in.msize = msize, !.in.mmax = Grown(msize, @, st.in.term)]

ReadLine(st, l) ==
  CASE st.end # "no"   -> st
    [] st.end = "no" /\ st.in # NULL -> ReadRaw(st, l)
    [] OTHER -> CASE l.kind = "="  -> ReadAssign(st, l)
                  [] l.kind = ":"  -> ReadLink(st, l)
                  [] l.kind = "{"  -> ReadDeeper(st, l)
                  [] l.kind = "}"  -> ReadUp(st)
                  [] l.kind = "<<" -> ReadMulti(st, l)
                  [] OTHER -> IF l.value = "" THEN st ELSE [st EXCEPT !.end = "error"]

hdf_read_string(t) ==
  LET st == FoldLeft(ReadLine, StartRead, t)
  IN  IF st.in # NULL THEN EndMulti(st, "") ELSE st

(* The error of hdf_read_string() is not looked at *)
unpack_hdf ==
  /\ text # NULL /\ back = NULL
  /\ LET st == hdf_read_string(text)
     IN  back' = [nodes |-> st.nodes, ok |-> st.end # "error"]
  /\ UNCHANGED << data, text, cut >>

-----------------------------------------------------------------------------
(* What of a data set is in its text *)

(* Values that hdf_dump_cb() writes so that they are read back.  It sees   *)
(* "EOM" only where Clash finds it: not on the first line, with text       *)
(* behind it, or at the end of a value of five letters.  Within a line     *)
(* "EOM" does no harm if no chunk can begin there: among the first 11      *)
(* letters of the line, which come with its first chunk, or the first 126  *)
(* of the value.                                                           *)
Writable(value) ==
  \/ value = NULL \/ Len(value) = 1
  \/ Clash(value, "EOM")
  \/ \A i \in DOMAIN value : \A o \in EomAt(value[i]) :
       o > 0 /\ (o <= 11 \/ strlen(SubSeq(value, 1, i - 1)) + 1 + o <= 126)

WrittenValue(value) ==
  IF value = NULL THEN NULL
  ELSE IF Len(value) = 1 THEN << neos_strip(value[1]) >>
  ELSE IF Last(value) = "" THEN value ELSE Append(value, "")

(* Nodes with neither value nor children are not written; values on one    *)
(* line lose the blanks around them, values on several gain a last newline *)
(* and lose that they are links; attributes are kept with values only, and *)
(* a value "1" becomes empty.                                              *)
Written(nodes) ==
  LET has(n) == n.value # NULL \/ Kids(nodes, n.path) # << >>
      as(n)  == HdfNode(n.path, WrittenValue(n.value), n.value # NULL /\ n.link /\ Len(n.value) = 1,
                        IF n.value = NULL THEN << >> ELSE parse_attr(DumpAttr(n.attr)))
      kept   == SelectSeq(nodes, has)
  IN  [i \in DOMAIN kept |-> as(kept[i])]

TextInit == data \in DataSets /\ text = NULL /\ cut = FALSE /\ back = NULL

TextNext == pack_hdf \/ unpack_hdf

(* What pack_hdf() sends, unpack_hdf() reads without an error as the same  *)
(* nodes in the same order, but for what Written says is lost; no value    *)
(* runs into the lines behind it or ends before its last line, and levels  *)
(* are closed where they were opened.  Of a text that was cut, a front     *)
(* part is read, in which only the last node may be wrong (neo_hdf.c:1216, *)
(* 1726, packet.c:60).                                                     *)
TextRoundTrips ==
  back # NULL /\ (\A n \in ToSet(data) : Writable(n.value))
    => LET sent == Written(data)
           got  == back.nodes
       IN  IF ~cut THEN back.ok /\ got = sent
           ELSE Len(got) <= Len(sent) /\ \A i \in 1 .. Len(got) - 1 : got[i] = sent[i]
=============================================================================
