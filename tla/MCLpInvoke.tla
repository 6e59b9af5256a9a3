---------------------------- MODULE MCLpInvoke ----------------------------
(* Instance of LpInvoke for TLC.  Calls share nothing but one caller's     *)
(* CallError, so two of them show every interaction.                       *)
EXTENDS LpInvoke, TLC

Symmetry == Permutations(Calls)
===========================================================================
