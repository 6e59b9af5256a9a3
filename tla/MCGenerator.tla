---------------------------- MODULE MCGenerator ----------------------------
(* Instance of Generator, and of the header scanner in it, for TLC.        *)
EXTENDS Generator, TLC

Symmetry == Permutations(Records) \cup Permutations(Modules)
=============================================================================
