---------------------------- MODULE MCHeaderScan ----------------------------
(* Instance of HeaderScan for TLC.                                         *)
EXTENDS HeaderScan, TLC

Symmetry == Permutations(Records)
=============================================================================
