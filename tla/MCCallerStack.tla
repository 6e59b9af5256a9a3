--------------------------- MODULE MCCallerStack ---------------------------
(* Instance of CallerStack for TLC: one document of every kind parseCaller *)
(* tells apart, complete, damaged, foreign and from a newer protocol.      *)
EXTENDS CallerStack, TLC

Doc(kind, name, parent, leaf) ==
    [kind |-> kind, name |-> name, instance |-> Absent, parent |-> parent, leaf |-> leaf]

MCInbound == {Doc("module", "a", Absent, Absent), 
              [Doc("module", "b", Absent, Absent) EXCEPT !.instance = NonString],
              Doc("module", Empty, "a", Absent), Doc("derived", "a", "b", "a"),
              Doc("derived", "a", "b", NonString), Doc("operator", "a", Absent, Absent),
              Doc(FutureArm, "a", "b", "a"), NotAnObject}
Symmetry == Permutations(Threads)
=============================================================================
