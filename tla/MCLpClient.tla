---------------------------- MODULE MCLpClient ----------------------------
(* Instance of LpClient for TLC: the main thread and two workers, one more *)
(* client than threads so that every racer can build one and a failure can *)
(* be retried.                                                             *)
EXTENDS LpClient, TLC

Symmetry == Permutations(Clients) \cup Permutations(Threads \ {Main})
===========================================================================
