----------------------------- MODULE SoleOwner -----------------------------
(***************************************************************************)
(* What a cancellable registration promises to the program that takes it:  *)
(* it has one holder from the moment it is kept, is handed from holder to  *)
(* holder but never shared or lost on the way, is given up once and closed *)
(* once, and whoever closes it waits until nobody else hears from it.      *)
(*                                                                         *)
(* Subscription.tla implements this with logos::LpSubscription, whose      *)
(* objects, tickets and event callbacks all race for the same cell.        *)
(***************************************************************************)
CONSTANTS Threads, Subs, Holders, None

VARIABLES stage,     \* per registration: how far its life has come
          holds,     \* per holder: the registration it holds, or None
          hearing    \* per thread: the registration it hears an event of

vars == <<stage, holds, hearing>>

Audible == {"taken", "held", "lost"}

Init == /\ stage = [s \in Subs |-> "none"]
        /\ holds = [h \in Holders |-> None]
        /\ hearing = [t \in Threads |-> None]

Becomes(s, from, to) ==
    /\ stage[s] = from
    /\ stage' = [stage EXCEPT ![s] = to]

Take(s) == /\ Becomes(s, "none", "taken")
           /\ UNCHANGED <<holds, hearing>>

Keep(s, h) == /\ Becomes(s, "taken", "held")
              /\ holds[h] = None
              /\ holds' = [holds EXCEPT ![h] = s]
              /\ UNCHANGED hearing

(* The new holder has nothing of its own to lose, the old keeps nothing.   *)
Hand(g, h) == /\ holds[g] # None /\ holds[h] = None
              /\ holds' = [holds EXCEPT ![h] = holds[g], ![g] = None]
              /\ UNCHANGED <<stage, hearing>>

(* Given up by its holder, or through it by somebody who asked for that.   *)
GiveUp(s, h) == /\ Becomes(s, "held", "lost")
                /\ holds[h] = s
                /\ holds' = [holds EXCEPT ![h] = None]
                /\ UNCHANGED hearing

Close(s) == /\ Becomes(s, "lost", "closing")
            /\ UNCHANGED <<holds, hearing>>

(* t is who closes it, perhaps from within an event of this registration.  *)
Free(t, s) == /\ Becomes(s, "closing", "freed")
              /\ \A u \in Threads \ {t} : hearing[u] # s
              /\ UNCHANGED <<holds, hearing>>

Hear(t, s) == /\ stage[s] \in Audible
              /\ hearing[t] = None
              /\ hearing' = [hearing EXCEPT ![t] = s]
              /\ UNCHANGED <<stage, holds>>

Heard(t) == /\ hearing[t] # None
            /\ hearing' = [hearing EXCEPT ![t] = None]
            /\ UNCHANGED <<stage, holds>>

Next == \/ \E s \in Subs : Take(s) \/ Close(s)
        \/ \E s \in Subs, h \in Holders : Keep(s, h) \/ GiveUp(s, h)
        \/ \E g, h \in Holders : Hand(g, h)
        \/ \E t \in Threads, s \in Subs : Free(t, s) \/ Hear(t, s)
        \/ \E t \in Threads : Heard(t)

Spec == Init /\ [][Next]_vars
=============================================================================
