----------------------------- MODULE ClearSilver -----------------------------
(***************************************************************************)
(* The library that moc keeps its data in: data sets, their text form,     *)
(* strings and containers.  They do not share state, so a behaviour is one *)
(* of one part, and the variables of the others are NULL.                  *)
(***************************************************************************)
EXTENDS Hdf, HdfText, NeoStr, Containers

VARIABLE part

hdfVars  == << hdf, tree >>
textVars == << data, text, cut, back >>
strVars  == << job, result >>

NoHdf  == hdf = NULL /\ tree = NULL
NoText == data = NULL /\ text = NULL /\ cut = FALSE /\ back = NULL
NoStr  == job = NULL /\ result = << >>
NoBox  == box = NULL /\ means = NULL

Init ==
  \/ part = "hdf" /\ HdfInit /\ NoText /\ NoStr /\ NoBox
  \/ part = "text" /\ TextInit /\ NoHdf /\ NoStr /\ NoBox
  \/ part = "strings" /\ StrInit /\ NoHdf /\ NoText /\ NoBox
  \/ part = "containers" /\ BoxInit /\ NoHdf /\ NoText /\ NoStr

Next ==
  /\ \/ part = "hdf" /\ HdfNext /\ UNCHANGED << textVars, strVars, boxVars >>
     \/ part = "text" /\ TextNext /\ UNCHANGED << hdfVars, strVars, boxVars >>
     \/ part = "strings" /\ StrNext /\ UNCHANGED << hdfVars, textVars, boxVars >>
     \/ part = "containers" /\ BoxNext /\ UNCHANGED << hdfVars, textVars, strVars >>
  /\ UNCHANGED part

Spec == Init /\ [][Next]_<< hdfVars, textVars, strVars, boxVars, part >>

-----------------------------------------------------------------------------
(* HdfShape of Hdf: no dangling pointer, no lost or shared node and no     *)
(* wrong hash table in a data set (neo_hdf.c:1001).                        *)
DataSetShape == part = "hdf" => HdfShape

(* ImplementsTree of Hdf: a data set is the tree that its operations say,  *)
(* in its nodes and in what a search finds (neo_hdf.c:219, 577).           *)
DataSetIsTree == part = "hdf" => ImplementsTree

(* TextRoundTrips of HdfText: what pack_hdf() sends, unpack_hdf() reads    *)
(* (neo_hdf.c:1216, packet.c:38).                                          *)
PacketsRoundTrip == part = "text" => TextRoundTrips

(* StringsFaithful of NeoStr: escapes are undone, fit their buffers, and   *)
(* patterns match what they should (neo_str.c:453, wildmat.c:87).          *)
ConversionsFaithful == part = "strings" => StringsFaithful
=============================================================================
