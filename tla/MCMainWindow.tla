---------------------------- MODULE MCMainWindow ----------------------------
(***************************************************************************)
(* A model directory for TLC: a V1 pair, a pair of a V2 model nobody       *)
(* knows, and half a pair of a known one.  A list that did not come is     *)
(* empty.                                                                  *)
(***************************************************************************)
EXTENDS MainWindow

Pair(stem, p) == {[stem |-> stem, precision |-> p, ext |-> e] : e \in {"param", "bin"}}

MCDirectories ==
  {Pair("digit", "fp16") \cup Pair("other", "fp32")
     \cup {[stem |-> "mobilenet", precision |-> "fp16", ext |-> "param"]}}

MCListings == {<<>>, <<"t1">>}
=============================================================================
