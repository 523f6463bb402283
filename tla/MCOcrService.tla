---------------------------- MODULE MCOcrService ----------------------------
(* Instances of OcrService for TLC. *)
EXTENDS OcrService, TLC

Symmetry ==
  Permutations(HttpRequests) \cup Permutations(TcpRequests)
    \cup Permutations(Conns)
=============================================================================
