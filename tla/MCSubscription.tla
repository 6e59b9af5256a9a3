-------------------------- MODULE MCSubscription --------------------------
(* Instance of Subscription for TLC: two slots, so that a move has a       *)
(* source and a destination; a thread that owns, cancels or delivers.      *)
EXTENDS Subscription
===========================================================================
