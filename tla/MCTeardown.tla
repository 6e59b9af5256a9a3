----------------------------- MODULE MCTeardown -----------------------------
(* Instance of Teardown, and so of ModuleExports, for TLC.                 *)
EXTENDS Teardown, TLC
=============================================================================
