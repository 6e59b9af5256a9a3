----------------------------- MODULE CreateOnce -----------------------------
(***************************************************************************)
(* What a lazily created, shared object promises to the threads that ask   *)
(* for it: every answer is either "none" (the creation failed and nobody   *)
(* else had published an object yet) or THE one published object, which    *)
(* is chosen once and kept until the owner goes away.                      *)
(*                                                                         *)
(* LpClient.tla implements this with logos::LpClient::ensure().            *)
(***************************************************************************)
CONSTANTS Threads, Clients, Null, Waiting

VARIABLES published,   \* the object every caller shares, or Null
          answer       \* per thread: Waiting, or what its last request returned

vars == <<published, answer>>

Init == /\ published = Null
        /\ answer = [t \in Threads |-> Null]

(* A thread asks. *)
Ask(t) == /\ answer[t] # Waiting
          /\ answer' = [answer EXCEPT ![t] = Waiting]
          /\ UNCHANGED published

(* A thread's request is answered with what is published, Null included.  *)
Answer(t) == /\ answer[t] = Waiting
             /\ answer' = [answer EXCEPT ![t] = published]
             /\ UNCHANGED published

(* A waiting thread publishes the object it made, once, and gets it.      *)
Choose(t, c) == /\ answer[t] = Waiting
                /\ published = Null
                /\ published' = c
                /\ answer' = [answer EXCEPT ![t] = c]

(* The owner is destroyed; nobody is waiting.                             *)
Close == /\ \A t \in Threads : answer[t] # Waiting
         /\ published' = Null
         /\ answer' = [t \in Threads |-> Null]

Next == \/ \E t \in Threads : Ask(t) \/ Answer(t)
        \/ \E t \in Threads, c \in Clients : Choose(t, c)
        \/ Close

Spec == Init /\ [][Next]_vars
=============================================================================
