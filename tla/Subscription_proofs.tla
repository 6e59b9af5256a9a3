------------------------ MODULE Subscription_proofs ------------------------
(***************************************************************************)
(* Machine-checked theorems about Subscription, for every set of threads,  *)
(* subscriptions and LpSubscription objects.  The theorems that need a     *)
(* careful program (Serialized, Outside, ~MemberRace) say so.              *)
(***************************************************************************)
EXTENDS Subscription, FiniteSetTheorems, TLAPS

EndKinds == {"reset", "assign"}
Closing == {"unsubscribe", "drain"}

(* Where a thread is follows from what it is doing, and says what it holds.*)
JobShape ==
    \A t \in Threads :
        /\ job[t].kind = "idle" <=> job[t].at = "idle"
        /\ job[t].kind = "idle" <=> job[t] = Idle
        /\ job[t].kind = "subscribe" <=> job[t].at \in {"subscribe", "store"}
        /\ job[t].at \in {"drop", "free"} => job[t].kind \in EndKinds
        /\ job[t].kind # "idle" => job[t].sub \in Subs
        /\ job[t].kind \in Owning \cup {"member"} => job[t].slot \in Slots
        /\ job[t].kind \notin Owning \cup {"member"} => job[t].slot = None
        /\ job[t].kind = "assign" => job[t].from \in Slots /\ job[t].from # job[t].slot
        /\ job[t].kind # "assign" => job[t].from = None
        /\ Outside /\ job[t].kind \in EndKinds => cb[t] # job[t].sub

(* The life of a subscription: subscribe() alone works on one that is not  *)
(* born; the winner of the exchange alone works on one that is expired.    *)
Life ==
    /\ \A s \in Subs :
          /\ box[s] = "none" => cell[s] = "unborn" /\ lp[s] = "none"
          /\ cell[s] = "armed" => lp[s] = "live" /\ box[s] = "live"
          /\ cell[s] = "null" =>
                lp[s] = "freed" \/ \E t \in Threads : job[t].sub = s /\ job[t].at \in Closing
          /\ cell[s] = "unborn" =>
                lp[s] = "none" \/ \E t \in Threads : job[t].sub = s /\ job[t].at = "store"
    /\ \A t \in Threads :
          LET s == job[t].sub IN
          /\ job[t].at = "subscribe" => cell[s] = "unborn" /\ lp[s] = "none" /\ box[s] = "live"
          /\ job[t].at = "store" => cell[s] = "unborn" /\ lp[s] = "live" /\ box[s] = "live"
          /\ job[t].at = "exchange" => cell[s] # "unborn"
          /\ job[t].at = "unsubscribe" => cell[s] = "null" /\ lp[s] = "live"
          /\ job[t].at = "drain" => cell[s] = "null" /\ lp[s] = "closing"
          /\ job[t].at \in {"drop", "free"} => cell[s] = "null"
    /\ \A t, u \in Threads : t # u /\ job[t].kind # "idle" /\ job[t].sub = job[u].sub =>
          /\ job[t].kind # "subscribe"
          /\ ~(job[t].at \in Closing /\ job[u].at \in Closing)

(* No two objects own the same subscription, and what one owns was born.   *)
OneObject ==
    /\ \A x \in Slots : slot[x] # None => cell[slot[x]] # "unborn"
    /\ \A x, y \in Slots : slot[x] # None /\ slot[x] = slot[y] => x = y

(* An object under construction is empty; an ending one is still whole.    *)
InHand ==
    \A t \in Threads :
        /\ job[t].kind = "subscribe" => slot[job[t].slot] = None
        /\ job[t].kind \in EndKinds => slot[job[t].slot] = job[t].sub

(* No two threads construct, assign, move from or end the same object.     *)
Apart ==
    \A t, u \in Threads : t # u /\ job[t].kind \in Owning /\ job[u].kind \in Owning =>
        /\ job[t].slot # job[u].slot
        /\ job[t].slot # job[u].from
        /\ job[t].from # None => job[t].from # job[u].from

SlotUse == OneObject /\ InHand /\ Apart /\ TicketsDieWithTheOwner

(* Past its cancel an owner that ends has no callback left running, but    *)
(* for one that it is ended from.                                          *)
QuietPastCancel ==
    \A t \in Threads :
        /\ job[t].kind \in EndKinds
        /\ job[t].at = "exchange" => cell[job[t].sub] = "null"
        /\ job[t].at \notin Closing
        => \A u \in Threads \ {t} : cb[u] # job[t].sub

(* What the caller's discipline adds: nobody cancels while an owner ends,  *)
(* and past the cancel nothing runs any more in the box.                   *)
NoCancelWhileEnding == \A t \in Threads : job[t].kind \in EndKinds => ~Cancelling(job[t].sub)

HandleKeepsBox ==
    /\ \A s \in Subs : lp[s] \in {"live", "closing"} => box[s] = "live"
    /\ \A t \in Threads : cb[t] # None => lp[cb[t]] # "none"

SerialEnd ==
    /\ Serialized => NoCancelWhileEnding /\ QuietPastCancel /\ HandleKeepsBox
    /\ FreedOnlyFromInside
    /\ CarefulCallbackHasItsBox

(* Without a race on the object itself a member cancel keeps it, and the   *)
(* cell it refers to, in place.                                            *)
MemberKeeps ==
    ~MemberRace =>
        /\ \A t \in Threads : job[t].kind = "member" =>
              /\ slot[job[t].slot] = job[t].sub
              /\ \A u \in Threads : job[u].kind \in Owning =>
                    job[t].slot # job[u].slot /\ job[t].slot # job[u].from
        /\ \A x \in Slots : slot[x] \in dropped =>
              \E t \in Threads : job[t].at = "free" /\ job[t].slot = x

Inv == TypeOK /\ JobShape /\ Life /\ SlotUse /\ SerialEnd /\ MemberKeeps

(* Past the cancel an owner's handle is freed: the one thread that could   *)
(* still be closing it would be a cancel, or end the same object.          *)
LEMMA EndedIsFreed ==
    ASSUME Inv, Serialized, NEW t \in Threads, job[t].kind \in EndKinds,
           job[t].at \notin Closing,
           job[t].at = "exchange" => cell[job[t].sub] = "null"
    PROVE  lp[job[t].sub] = "freed"
<1> USE SubscriptionAssumption DEF Inv, TypeOK, Serialized, Outside, MemberRace
<1>1. job[t].sub \in Subs /\ cell[job[t].sub] = "null"
  BY DEF JobShape, Life, EndKinds, Jobs, Owning
<1>2. SUFFICES ASSUME NEW u \in Threads, job[u].sub = job[t].sub, job[u].at \in Closing
               PROVE  FALSE
  BY <1>1 DEF Life
<1>3. job[u].kind \in EndKinds
  BY <1>2 DEF SerialEnd, NoCancelWhileEnding, QuietPastCancel, HandleKeepsBox, Cancelling,
              JobShape, Closing, EndKinds, Jobs, Owning
<1>4. job[u].slot = job[t].slot
  BY <1>1, <1>2, <1>3 DEF SlotUse, OneObject, InHand, Apart, JobShape, Owning, EndKinds
<1> QED BY <1>2, <1>3, <1>4 DEF SlotUse, OneObject, InHand, Apart, Owning, EndKinds

(* subscribe() begins. *)
LEMMA SubscribeInv ==
    ASSUME Inv, UNCHANGED caution, NEW t \in Threads, NEW x \in Slots, NEW s \in Subs, Subscribe(t, x, s) PROVE Inv'
<1> USE SubscriptionAssumption DEF Inv, TypeOK, Serialized, Outside, MemberRace
<1>1. TypeOK'
  BY DEF Subscribe, Ready, Idle, Jobs, Owning
<1>2. JobShape'
  <2>1. job'[t] = [kind |-> "subscribe", at |-> "subscribe", sub |-> s, slot |-> x, from |-> None]
    BY DEF Subscribe, Idle
  <2>2. \A u \in Threads \ {t} : job'[u] = job[u]
    BY DEF Subscribe
  <2>3. cb' = cb
    BY DEF Subscribe
  <2> QED
    BY <2>1, <2>2, <2>3 DEF JobShape, EndKinds, Owning, Idle
<1>3. Life'
  BY DEF Subscribe, Ready, SlotFree, JobShape, Life, SlotUse, OneObject, InHand, Apart,
         EndKinds, Closing, Owning, Goto, Finish, Idle
<1>4. SlotUse'
  BY DEF Subscribe, Ready, SlotFree, JobShape, Life, SlotUse, OneObject, InHand, Apart,
         TicketsDieWithTheOwner, EndKinds, Closing, Owning, Goto, Finish, Idle
<1>5. SerialEnd'
  BY DEF Subscribe, Ready, SlotFree, JobShape, Life, SlotUse, OneObject, InHand, Apart,
         SerialEnd, NoCancelWhileEnding, QuietPastCancel, HandleKeepsBox, FreedOnlyFromInside, CarefulCallbackHasItsBox,
         CallbackHasItsBox,
         Cancelling, EndKinds, Closing, Owning, Goto, Finish, Idle
<1>6. MemberKeeps'
  BY DEF Subscribe, Ready, SlotFree, JobShape, SlotUse, OneObject, InHand, Apart, MemberKeeps,
         EndKinds, Closing, Owning, Goto, Finish, Idle
<1> QED BY <1>1, <1>2, <1>3, <1>4, <1>5, <1>6

(* lp_subscribe accepts. *)
LEMMA AcceptedInv ==
    ASSUME Inv, UNCHANGED caution, NEW t \in Threads, Accepted(t) PROVE Inv'
<1> USE SubscriptionAssumption DEF Inv, TypeOK, Serialized, Outside, MemberRace
<1>1. TypeOK'
  BY DEF Accepted, Goto, Jobs, Owning, JobShape
<1>2. JobShape'
  BY DEF Accepted, Goto, JobShape, EndKinds, Closing, Owning, Finish, Idle
<1>3. Life'
  BY DEF Accepted, Goto, JobShape, Life, SlotUse, OneObject, InHand, Apart, EndKinds, Closing,
         Owning, Finish, Idle
<1>4. SlotUse'
  BY DEF Accepted, Goto, JobShape, Life, SlotUse, OneObject, InHand, Apart,
         TicketsDieWithTheOwner, EndKinds, Closing, Owning, Finish, Idle
<1>5. SerialEnd'
  BY DEF Accepted, Goto, JobShape, Life, SlotUse, OneObject, InHand, Apart, SerialEnd,
         NoCancelWhileEnding, QuietPastCancel, HandleKeepsBox, FreedOnlyFromInside, CarefulCallbackHasItsBox,
         CallbackHasItsBox, Cancelling,
         EndKinds, Closing, Owning, Finish, Idle
<1>6. MemberKeeps'
  BY DEF Accepted, Goto, JobShape, SlotUse, OneObject, InHand, Apart, MemberKeeps, EndKinds,
         Closing, Owning, Finish, Idle
<1> QED BY <1>1, <1>2, <1>3, <1>4, <1>5, <1>6

(* lp_subscribe refuses. *)
LEMMA RefusedInv ==
    ASSUME Inv, UNCHANGED caution, NEW t \in Threads, Refused(t) PROVE Inv'
<1> USE SubscriptionAssumption DEF Inv, TypeOK, Serialized, Outside, MemberRace
<1>1. TypeOK'
  BY DEF Refused, Finish, Idle, Jobs, Owning, JobShape
<1>2. JobShape'
  BY DEF Refused, Finish, Idle, JobShape, EndKinds, Closing, Owning, Goto
<1>3. Life'
  BY DEF Refused, Finish, Idle, JobShape, Life, SlotUse, OneObject, InHand, Apart, EndKinds,
         Closing, Owning, Goto
<1>4. SlotUse'
  BY DEF Refused, Finish, Idle, JobShape, Life, SlotUse, OneObject, InHand, Apart,
         TicketsDieWithTheOwner, EndKinds, Closing, Owning, Goto
<1>5. SerialEnd'
  BY DEF Refused, Finish, Idle, JobShape, Life, SlotUse, OneObject, InHand, Apart, SerialEnd,
         NoCancelWhileEnding, QuietPastCancel, HandleKeepsBox, FreedOnlyFromInside, CarefulCallbackHasItsBox,
         CallbackHasItsBox, Cancelling,
         EndKinds, Closing, Owning, Goto
<1>6. MemberKeeps'
  BY DEF Refused, Finish, Idle, JobShape, SlotUse, OneObject, InHand, Apart, MemberKeeps,
         EndKinds, Closing, Owning, Goto
<1> QED BY <1>1, <1>2, <1>3, <1>4, <1>5, <1>6

(* The new object is stored. *)
LEMMA StoreInv ==
    ASSUME Inv, UNCHANGED caution, NEW t \in Threads, Store(t) PROVE Inv'
<1> USE SubscriptionAssumption DEF Inv, TypeOK, Serialized, Outside, MemberRace
<1>1. TypeOK'
  BY DEF Store, Finish, Idle, Jobs, Owning, JobShape, Life
<1>2. JobShape'
  BY DEF Store, Finish, Idle, JobShape, EndKinds, Closing, Owning, Goto
<1>3. Life'
  BY DEF Store, Finish, Idle, JobShape, Life, SlotUse, OneObject, InHand, Apart, EndKinds,
         Closing, Owning, Goto
<1>4. SlotUse'
  BY DEF Store, Finish, Idle, JobShape, Life, SlotUse, OneObject, InHand, Apart,
         TicketsDieWithTheOwner, EndKinds, Closing, Owning, Goto
<1>5. SerialEnd'
  BY DEF Store, Finish, Idle, JobShape, Life, SlotUse, OneObject, InHand, Apart, SerialEnd,
         NoCancelWhileEnding, QuietPastCancel, HandleKeepsBox, FreedOnlyFromInside, CarefulCallbackHasItsBox,
         CallbackHasItsBox, Cancelling,
         EndKinds, Closing, Owning, Goto
<1>6. MemberKeeps'
  BY DEF Store, Finish, Idle, JobShape, Life, SlotUse, OneObject, InHand, Apart, MemberKeeps,
         EndKinds, Closing, Owning, Goto
<1> QED BY <1>1, <1>2, <1>3, <1>4, <1>5, <1>6

(* An owner begins to end. *)
LEMMA StartResetInv ==
    ASSUME Inv, UNCHANGED caution, NEW t \in Threads, NEW x \in Slots, NEW kind \in EndKinds,
           NEW y \in Slots \cup {None}, StartReset(t, x, kind, y),
           kind = "assign" => y \in Slots /\ SlotFree(y) /\ x # y,
           kind = "reset" => y = None PROVE Inv'
<1> USE SubscriptionAssumption DEF Inv, TypeOK, Serialized, Outside, MemberRace
<1>1. TypeOK'
  BY DEF StartReset, Ready, SlotFree, MayEnd, Ending, EndKinds, Jobs, Owning, JobShape
<1>2. JobShape'
  BY DEF StartReset, Ready, SlotFree, MayEnd, Ending, EndKinds, JobShape, Closing, Owning, Goto,
         Finish, Idle
<1>3. Life'
  BY DEF StartReset, Ready, SlotFree, MayEnd, Ending, EndKinds, JobShape, Life, SlotUse,
         OneObject, InHand, Apart, Closing, Owning, Goto, Finish, Idle
<1>4. SlotUse'
  BY DEF StartReset, Ready, SlotFree, MayEnd, Ending, EndKinds, JobShape, Life, SlotUse,
         OneObject, InHand, Apart, TicketsDieWithTheOwner, Closing, Owning, Goto, Finish, Idle
<1>5. SerialEnd'
  BY DEF StartReset, Ready, SlotFree, MayEnd, Ending, EndKinds, JobShape, Life, SlotUse,
         OneObject, InHand, Apart, SerialEnd, NoCancelWhileEnding, QuietPastCancel,
         HandleKeepsBox, FreedOnlyFromInside, CarefulCallbackHasItsBox,
         CallbackHasItsBox, Cancelling, Closing, Owning, Goto, Finish, Idle
<1>6. MemberKeeps'
  BY DEF StartReset, Ready, SlotFree, MayEnd, Ending, EndKinds, JobShape, SlotUse, OneObject,
         InHand, Apart, MemberKeeps, Closing, Owning, Goto, Finish, Idle
<1> QED BY <1>1, <1>2, <1>3, <1>4, <1>5, <1>6

(* A move. *)
LEMMA MoveInv ==
    ASSUME Inv, UNCHANGED caution, NEW t \in Threads, NEW x \in Slots, NEW y \in Slots, Move(t, y, x) PROVE Inv'
<1> USE SubscriptionAssumption DEF Inv, TypeOK, Serialized, Outside, MemberRace
<1>1. TypeOK'
  BY DEF Move, Ready, SlotFree, Jobs, Owning, JobShape
<1>2. JobShape'
  BY DEF Move, Ready, SlotFree, JobShape, EndKinds, Closing, Owning, Goto, Finish, Idle
<1>3. Life'
  BY DEF Move, Ready, SlotFree, JobShape, Life, SlotUse, OneObject, InHand, Apart, EndKinds,
         Closing, Owning, Goto, Finish, Idle
<1>4. SlotUse'
  BY DEF Move, Ready, SlotFree, JobShape, Life, SlotUse, OneObject, InHand, Apart,
         TicketsDieWithTheOwner, EndKinds, Closing, Owning, Goto, Finish, Idle
<1>5. SerialEnd'
  BY DEF Move, Ready, SlotFree, JobShape, Life, SlotUse, OneObject, InHand, Apart, SerialEnd,
         NoCancelWhileEnding, QuietPastCancel, HandleKeepsBox, FreedOnlyFromInside, CarefulCallbackHasItsBox,
         CallbackHasItsBox, Cancelling,
         EndKinds, Closing, Owning, Goto, Finish, Idle
<1>6. MemberKeeps'
  BY DEF Move, Ready, SlotFree, JobShape, SlotUse, OneObject, InHand, Apart, MemberKeeps,
         EndKinds, Closing, Owning, Goto, Finish, Idle
<1> QED BY <1>1, <1>2, <1>3, <1>4, <1>5, <1>6

(* A ticket cancels. *)
LEMMA TicketInv ==
    ASSUME Inv, UNCHANGED caution, NEW t \in Threads, NEW s \in Subs, TicketCancel(t, s) PROVE Inv'
<1> USE SubscriptionAssumption DEF Inv, TypeOK, Serialized, Outside, MemberRace
<1>1. TypeOK'
  BY DEF TicketCancel, Ready, MayCancel, Ending, Idle, Jobs, Owning, JobShape
<1>2. JobShape'
  <2>1. job'[t] = [kind |-> "ticket", at |-> "exchange", sub |-> s, slot |-> None, from |-> None]
    BY DEF TicketCancel, Idle
  <2>2. \A u \in Threads \ {t} : job'[u] = job[u]
    BY DEF TicketCancel
  <2>3. cb' = cb
    BY DEF TicketCancel
  <2> QED
    BY <2>1, <2>2, <2>3 DEF JobShape, EndKinds, Owning, Idle
<1>3. Life'
  BY DEF TicketCancel, Ready, MayCancel, Ending, Idle, JobShape, Life, SlotUse, OneObject,
         InHand, Apart, EndKinds, Closing, Owning, Goto, Finish
<1>4. SlotUse'
  BY DEF TicketCancel, Ready, MayCancel, Ending, Idle, JobShape, Life, SlotUse, OneObject,
         InHand, Apart, TicketsDieWithTheOwner, EndKinds, Closing, Owning, Goto, Finish
<1>5. SerialEnd'
  BY DEF TicketCancel, Ready, MayCancel, Ending, Idle, JobShape, Life, SlotUse, OneObject,
         InHand, Apart, SerialEnd, NoCancelWhileEnding, QuietPastCancel, HandleKeepsBox,
         FreedOnlyFromInside, CarefulCallbackHasItsBox, CallbackHasItsBox, Cancelling, EndKinds, Closing, Owning, Goto, Finish
<1>6. MemberKeeps'
  BY DEF TicketCancel, Ready, MayCancel, Ending, Idle, JobShape, SlotUse, OneObject, InHand,
         Apart, MemberKeeps, EndKinds, Closing, Owning, Goto, Finish
<1> QED BY <1>1, <1>2, <1>3, <1>4, <1>5, <1>6

(* The object cancels. *)
LEMMA MemberInv ==
    ASSUME Inv, UNCHANGED caution, NEW t \in Threads, NEW x \in Slots, MemberCancel(t, x) PROVE Inv'
<1> USE SubscriptionAssumption DEF Inv, TypeOK, Serialized, Outside, MemberRace
<1>1. TypeOK'
  BY DEF MemberCancel, Ready, MayCancel, Ending, SlotFree, Idle, Jobs, Owning, JobShape
<1>2. JobShape'
  <2> DEFINE j == [Idle EXCEPT !.kind = "member", !.at = "exchange", !.sub = slot[x],
                               !.slot = x]
  <2>1. job' = [job EXCEPT ![t] = j] /\ slot[x] \in Subs /\ cb' = cb
    BY DEF MemberCancel
  <2>2. /\ j.kind = "member" /\ j.at = "exchange" /\ j.sub = slot[x]
        /\ j.slot = x /\ j.from = None
    BY DEF Idle
  <2>3. j # Idle
    BY <2>2 DEF Idle
  <2> HIDE DEF j
  <2> QED BY <2>1, <2>2, <2>3 DEF JobShape, EndKinds, Owning
<1>3. Life'
  BY DEF MemberCancel, Ready, MayCancel, Ending, SlotFree, Idle, JobShape, Life, SlotUse,
         OneObject, InHand, Apart, EndKinds, Closing, Owning, Goto, Finish
<1>4. SlotUse'
  BY DEF MemberCancel, Ready, MayCancel, Ending, SlotFree, Idle, JobShape, Life, SlotUse,
         OneObject, InHand, Apart, TicketsDieWithTheOwner, EndKinds, Closing, Owning, Goto,
         Finish
<1>5. SerialEnd'
  BY DEF MemberCancel, Ready, MayCancel, Ending, SlotFree, Idle, JobShape, Life, SlotUse,
         OneObject, InHand, Apart, SerialEnd, NoCancelWhileEnding, QuietPastCancel,
         HandleKeepsBox, FreedOnlyFromInside, CarefulCallbackHasItsBox,
         CallbackHasItsBox, Cancelling, EndKinds, Closing, Owning, Goto, Finish
<1>6. MemberKeeps'
  BY DEF MemberCancel, Ready, MayCancel, Ending, SlotFree, Idle, JobShape, SlotUse, OneObject,
         InHand, Apart, MemberKeeps, EndKinds, Closing, Owning, Goto, Finish
<1> QED BY <1>1, <1>2, <1>3, <1>4, <1>5, <1>6

(* The exchange: the winner goes on to unsubscribe, a loser is done. *)
LEMMA ExchangeInv ==
    ASSUME Inv, UNCHANGED caution, NEW t \in Threads, Exchange(t) PROVE Inv'
<1> USE SubscriptionAssumption DEF Inv, TypeOK, Serialized, Outside, MemberRace
<1>1. CASE cell[job[t].sub] = "armed"
  <2>0. /\ job[t].at = "exchange"
        /\ cell' = [cell EXCEPT ![job[t].sub] = "null"]
        /\ UNCHANGED <<dropped, lp, box, slot, cb>>
        /\ job' = [job EXCEPT ![t].at = "unsubscribe"]
    BY <1>1 DEF Exchange, AfterRelease, Goto, Finish, Idle, EndKinds
  <2>1. TypeOK' BY <1>1, <2>0 DEF Jobs, Owning, JobShape, Idle
  <2>2. JobShape' BY <1>1, <2>0 DEF JobShape, EndKinds, Owning, Idle
  <2>3. Life' BY <1>1, <2>0 DEF JobShape, Life, EndKinds, Closing, Idle
  <2>4. SlotUse'
    <3>1. /\ job[t].sub \in Subs
          /\ \A u \in Threads : /\ job'[u].kind = job[u].kind /\ job'[u].sub = job[u].sub
                                /\ job'[u].slot = job[u].slot /\ job'[u].from = job[u].from
      BY <2>0 DEF JobShape, Jobs
    <3>2. OneObject' BY <2>0 DEF SlotUse, OneObject
    <3>3. InHand' BY <2>0, <3>1 DEF SlotUse, InHand, EndKinds
    <3>4. Apart' BY <3>1 DEF SlotUse, Apart, Owning
    <3>5. TicketsDieWithTheOwner' BY <2>0 DEF SlotUse, TicketsDieWithTheOwner
    <3> QED BY <3>2, <3>3, <3>4, <3>5 DEF SlotUse
  <2>5. SerialEnd'
    <3>1. \A u \in Threads : /\ job'[u].kind = job[u].kind /\ job'[u].sub = job[u].sub
                             /\ u # t => job'[u].at = job[u].at
                             /\ u = t => job'[u].at = "unsubscribe"
      BY <2>0
    <3>2. lp' = lp /\ box' = box /\ cb' = cb
      BY <2>0
    <3>3. \A s \in Subs : s # job[t].sub => cell'[s] = cell[s]
      BY <2>0
    <3>4. Serialized => \A u \in Threads :
             job[u].kind \in EndKinds /\ job[u].sub = job[t].sub => u = t
      BY <2>0 DEF SerialEnd, NoCancelWhileEnding, QuietPastCancel, HandleKeepsBox, Cancelling,
                  SlotUse, InHand, Apart, OneObject, JobShape, Life,
                  EndKinds, Owning, Jobs
    <3>5. ASSUME Serialized, NEW u \in Threads, job'[u].kind \in EndKinds
          PROVE  \A v \in Threads :
                    job'[v].kind \in {"ticket", "member"} => job'[v].sub # job'[u].sub
      BY <3>1, <3>5 DEF SerialEnd, NoCancelWhileEnding, Cancelling
    <3>6. ASSUME Serialized, NEW u \in Threads, job'[u].kind \in EndKinds,
                 job'[u].at = "exchange" => cell'[job'[u].sub] = "null",
                 job'[u].at \notin Closing, NEW v \in Threads \ {u}
          PROVE  cb[v] # job'[u].sub
      <4>1. u # t
        BY <3>1, <3>6 DEF Closing
      <4>2. job[u].sub # job[t].sub /\ job[u].sub \in Subs
        BY <3>1, <3>4, <3>6, <4>1 DEF JobShape, EndKinds
      <4> QED BY <3>1, <3>3, <3>6, <4>1, <4>2 DEF SerialEnd, QuietPastCancel
    <3>7. /\ Serialized => HandleKeepsBox'
          /\ FreedOnlyFromInside' /\ CarefulCallbackHasItsBox'
      BY <3>2 DEF SerialEnd, HandleKeepsBox, FreedOnlyFromInside, CarefulCallbackHasItsBox,
                  CallbackHasItsBox
    <3> QED BY <3>2, <3>5, <3>6, <3>7
            DEF SerialEnd, NoCancelWhileEnding, QuietPastCancel, Cancelling, EndKinds, Closing
  <2>6. MemberKeeps' BY <1>1, <2>0 DEF JobShape, SlotUse, OneObject, InHand, Apart, MemberKeeps,
                                       EndKinds, Owning, Idle
  <2> QED BY <2>1, <2>2, <2>3, <2>4, <2>5, <2>6
<1>2. CASE cell[job[t].sub] # "armed" /\ job[t].kind \in EndKinds
  <2>0. /\ job[t].at = "exchange"
        /\ cell' = [cell EXCEPT ![job[t].sub] = "null"]
        /\ UNCHANGED <<dropped, lp, box, slot, cb>>
        /\ job' = [job EXCEPT ![t].at = "drop"]
    BY <1>2 DEF Exchange, AfterRelease, Goto, Finish, Idle, EndKinds
  <2>1. TypeOK' BY <1>2, <2>0 DEF Jobs, Owning, JobShape, Idle
  <2>2. JobShape' BY <1>2, <2>0 DEF JobShape, EndKinds, Owning, Idle
  <2>3. Life' BY <1>2, <2>0 DEF JobShape, Life, EndKinds, Closing, Idle
  <2>4. SlotUse' BY <1>2, <2>0 DEF JobShape, Life, SlotUse, OneObject, InHand, Apart,
                                   TicketsDieWithTheOwner, EndKinds, Owning, Idle
  <2>5. SerialEnd' BY <1>2, <2>0 DEF JobShape, Life, SlotUse, OneObject, InHand, Apart,
                                     SerialEnd, NoCancelWhileEnding, QuietPastCancel,
                                     HandleKeepsBox, FreedOnlyFromInside, CarefulCallbackHasItsBox,
         CallbackHasItsBox,
                               Cancelling, EndKinds, Closing, Owning, Idle
  <2>6. MemberKeeps' BY <1>2, <2>0 DEF JobShape, SlotUse, OneObject, InHand, Apart, MemberKeeps,
                                       EndKinds, Owning, Idle
  <2> QED BY <2>1, <2>2, <2>3, <2>4, <2>5, <2>6
<1>3. CASE cell[job[t].sub] # "armed" /\ job[t].kind \notin EndKinds
  <2>0. /\ job[t].at = "exchange"
        /\ cell' = [cell EXCEPT ![job[t].sub] = "null"]
        /\ UNCHANGED <<dropped, lp, box, slot, cb>>
        /\ job' = [job EXCEPT ![t] = Idle]
    BY <1>3 DEF Exchange, AfterRelease, Goto, Finish, Idle, EndKinds
  <2>1. TypeOK' BY <1>3, <2>0 DEF Jobs, Owning, JobShape, Idle
  <2>2. JobShape' BY <1>3, <2>0 DEF JobShape, EndKinds, Owning, Idle
  <2>3. Life' BY <1>3, <2>0 DEF JobShape, Life, EndKinds, Closing, Idle
  <2>4. SlotUse' BY <1>3, <2>0 DEF JobShape, Life, SlotUse, OneObject, InHand, Apart,
                                   TicketsDieWithTheOwner, EndKinds, Owning, Idle
  <2>5. SerialEnd' BY <1>3, <2>0 DEF JobShape, Life, SlotUse, OneObject, InHand, Apart,
                                     SerialEnd, NoCancelWhileEnding, QuietPastCancel,
                                     HandleKeepsBox, FreedOnlyFromInside, CarefulCallbackHasItsBox,
         CallbackHasItsBox,
                               Cancelling, EndKinds, Closing, Owning, Idle
  <2>6. MemberKeeps' BY <1>3, <2>0 DEF JobShape, SlotUse, OneObject, InHand, Apart, MemberKeeps,
                                       EndKinds, Owning, Idle
  <2> QED BY <2>1, <2>2, <2>3, <2>4, <2>5, <2>6
<1> QED BY <1>1, <1>2, <1>3

(* lp_unsubscribe begins. *)
LEMMA UnsubscribeInv ==
    ASSUME Inv, UNCHANGED caution, NEW t \in Threads, Unsubscribe(t) PROVE Inv'
<1> USE SubscriptionAssumption DEF Inv, TypeOK, Serialized, Outside, MemberRace
<1>1. TypeOK'
  BY DEF Unsubscribe, Goto, Jobs, Owning, JobShape
<1>2. JobShape'
  BY DEF Unsubscribe, Goto, JobShape, EndKinds, Closing, Owning, Finish, Idle
<1>3. Life'
  BY DEF Unsubscribe, Goto, JobShape, Life, SlotUse, OneObject, InHand, Apart, EndKinds,
         Closing, Owning, Finish, Idle
<1>4. SlotUse'
  BY DEF Unsubscribe, Goto, JobShape, Life, SlotUse, OneObject, InHand, Apart,
         TicketsDieWithTheOwner, EndKinds, Closing, Owning, Finish, Idle
<1>5. SerialEnd'
  BY DEF Unsubscribe, Goto, JobShape, Life, SlotUse, OneObject, InHand, Apart, SerialEnd,
         NoCancelWhileEnding, QuietPastCancel, HandleKeepsBox, FreedOnlyFromInside, CarefulCallbackHasItsBox,
         CallbackHasItsBox, Cancelling,
         EndKinds, Closing, Owning, Finish, Idle
<1>6. MemberKeeps'
  BY DEF Unsubscribe, Goto, JobShape, SlotUse, OneObject, InHand, Apart, MemberKeeps, EndKinds,
         Closing, Owning, Finish, Idle
<1> QED BY <1>1, <1>2, <1>3, <1>4, <1>5, <1>6

(* lp_unsubscribe returns. *)
LEMMA DrainedInv ==
    ASSUME Inv, UNCHANGED caution, NEW t \in Threads, Drained(t) PROVE Inv'
<1> USE SubscriptionAssumption DEF Inv, TypeOK, Serialized, Outside, MemberRace
<1>1. CASE job[t].kind \in EndKinds
  <2>0. /\ job[t].at = "drain"
        /\ \A u \in Threads \ {t} : cb[u] # job[t].sub
        /\ lp' = [lp EXCEPT ![job[t].sub] = "freed"]
        /\ UNCHANGED <<cell, dropped, box, slot, cb>>
        /\ job' = [job EXCEPT ![t].at = "drop"]
    BY <1>1 DEF Drained, AfterRelease, Goto, Finish, Idle, EndKinds
  <2>1. TypeOK' BY <1>1, <2>0 DEF Jobs, Owning, JobShape, Idle
  <2>2. JobShape' BY <1>1, <2>0 DEF JobShape, EndKinds, Owning, Idle
  <2>3. Life' BY <1>1, <2>0 DEF JobShape, Life, EndKinds, Closing, Idle
  <2>4. SlotUse' BY <1>1, <2>0 DEF JobShape, Life, SlotUse, OneObject, InHand, Apart,
                                   TicketsDieWithTheOwner, EndKinds, Owning, Idle
  <2>5. SerialEnd' BY <1>1, <2>0 DEF JobShape, Life, SlotUse, OneObject, InHand, Apart,
                                     SerialEnd, NoCancelWhileEnding, QuietPastCancel,
                                     HandleKeepsBox, FreedOnlyFromInside, CarefulCallbackHasItsBox,
         CallbackHasItsBox,
                               Cancelling, EndKinds, Closing, Owning, Idle
  <2>6. MemberKeeps' BY <1>1, <2>0 DEF JobShape, SlotUse, OneObject, InHand, Apart, MemberKeeps,
                                       EndKinds, Owning, Idle
  <2> QED BY <2>1, <2>2, <2>3, <2>4, <2>5, <2>6
<1>2. CASE job[t].kind \notin EndKinds
  <2>0. /\ job[t].at = "drain"
        /\ \A u \in Threads \ {t} : cb[u] # job[t].sub
        /\ lp' = [lp EXCEPT ![job[t].sub] = "freed"]
        /\ UNCHANGED <<cell, dropped, box, slot, cb>>
        /\ job' = [job EXCEPT ![t] = Idle]
    BY <1>2 DEF Drained, AfterRelease, Goto, Finish, Idle, EndKinds
  <2>1. TypeOK' BY <1>2, <2>0 DEF Jobs, Owning, JobShape, Idle
  <2>2. JobShape' BY <1>2, <2>0 DEF JobShape, EndKinds, Owning, Idle
  <2>3. Life' BY <1>2, <2>0 DEF JobShape, Life, EndKinds, Closing, Idle
  <2>4. SlotUse' BY <1>2, <2>0 DEF JobShape, Life, SlotUse, OneObject, InHand, Apart,
                                   TicketsDieWithTheOwner, EndKinds, Owning, Idle
  <2>5. SerialEnd' BY <1>2, <2>0 DEF JobShape, Life, SlotUse, OneObject, InHand, Apart,
                                     SerialEnd, NoCancelWhileEnding, QuietPastCancel,
                                     HandleKeepsBox, FreedOnlyFromInside, CarefulCallbackHasItsBox,
         CallbackHasItsBox,
                               Cancelling, EndKinds, Closing, Owning, Idle
  <2>6. MemberKeeps' BY <1>2, <2>0 DEF JobShape, SlotUse, OneObject, InHand, Apart, MemberKeeps,
                                       EndKinds, Owning, Idle
  <2> QED BY <2>1, <2>2, <2>3, <2>4, <2>5, <2>6
<1> QED BY <1>1, <1>2

(* The owner drops the cell. *)
LEMMA DropCellInv ==
    ASSUME Inv, UNCHANGED caution, NEW t \in Threads, DropCell(t) PROVE Inv'
<1> USE SubscriptionAssumption DEF Inv, TypeOK, Serialized, Outside, MemberRace
<1>1. TypeOK'
  BY DEF DropCell, Goto, Jobs, Owning, JobShape, Life, EndKinds
<1>2. JobShape'
  BY DEF DropCell, Goto, JobShape, EndKinds, Closing, Owning, Finish, Idle
<1>3. Life'
  BY DEF DropCell, Goto, JobShape, Life, SlotUse, OneObject, InHand, Apart, EndKinds, Closing,
         Owning, Finish, Idle
<1>4. SlotUse'
  BY DEF DropCell, Goto, JobShape, Life, SlotUse, OneObject, InHand, Apart,
         TicketsDieWithTheOwner, EndKinds, Closing, Owning, Finish, Idle
<1>5. SerialEnd'
  BY DEF DropCell, Goto, JobShape, Life, SlotUse, OneObject, InHand, Apart, SerialEnd,
         NoCancelWhileEnding, QuietPastCancel, HandleKeepsBox, FreedOnlyFromInside, CarefulCallbackHasItsBox,
         CallbackHasItsBox, Cancelling,
         EndKinds, Closing, Owning, Finish, Idle
<1>6. MemberKeeps'
  BY DEF DropCell, Goto, JobShape, SlotUse, OneObject, InHand, Apart, MemberKeeps, EndKinds,
         Closing, Owning, Finish, Idle
<1> QED BY <1>1, <1>2, <1>3, <1>4, <1>5, <1>6

(* The box is freed. *)
LEMMA FreeBoxInv ==
    ASSUME Inv, UNCHANGED caution, NEW t \in Threads, FreeBox(t) PROVE Inv'
<1> USE SubscriptionAssumption DEF Inv, TypeOK, Serialized, Outside, MemberRace
<1>1. TypeOK'
  BY DEF FreeBox, Owned, Finish, Idle, Jobs, Owning, JobShape
<1>2. JobShape'
  BY DEF FreeBox, Owned, Finish, Idle, JobShape, EndKinds, Closing, Owning, Goto
<1>3. Life'
  BY DEF FreeBox, Owned, Finish, Idle, JobShape, Life, SlotUse, OneObject, InHand, Apart,
         EndKinds, Closing, Owning, Goto
<1>4. SlotUse'
  BY DEF FreeBox, Owned, Finish, Idle, JobShape, Life, SlotUse, OneObject, InHand, Apart,
         TicketsDieWithTheOwner, EndKinds, Closing, Owning, Goto
<1>5. SerialEnd'
  BY EndedIsFreed DEF FreeBox, Owned, Finish, Idle, JobShape, Life, SlotUse, OneObject, InHand,
                      Apart, SerialEnd, NoCancelWhileEnding, QuietPastCancel, HandleKeepsBox,
                      FreedOnlyFromInside, CarefulCallbackHasItsBox, CallbackHasItsBox, Cancelling, EndKinds, Closing, Owning, Goto
<1>6. MemberKeeps'
  BY DEF FreeBox, Owned, Finish, Idle, JobShape, SlotUse, OneObject, InHand, Apart, MemberKeeps,
         EndKinds, Closing, Owning, Goto
<1> QED BY <1>1, <1>2, <1>3, <1>4, <1>5, <1>6

(* An event is delivered. *)
LEMMA DeliverInv ==
    ASSUME Inv, UNCHANGED caution, NEW t \in Threads, NEW s \in Subs, Deliver(t, s) PROVE Inv'
<1> USE SubscriptionAssumption DEF Inv, TypeOK, Serialized, Outside, MemberRace
<1>1. TypeOK'
  BY DEF Deliver, Ready, Jobs, Owning, JobShape
<1>2. JobShape'
  BY DEF Deliver, Ready, JobShape, EndKinds, Closing, Owning, Goto, Finish, Idle
<1>3. Life'
  BY DEF Deliver, Ready, JobShape, Life, SlotUse, OneObject, InHand, Apart, EndKinds, Closing,
         Owning, Goto, Finish, Idle
<1>4. SlotUse'
  BY DEF Deliver, Ready, JobShape, Life, SlotUse, OneObject, InHand, Apart,
         TicketsDieWithTheOwner, EndKinds, Closing, Owning, Goto, Finish, Idle
<1>5. SerialEnd'
  BY EndedIsFreed DEF Deliver, Ready, JobShape, Life, SlotUse, OneObject, InHand, Apart,
                      SerialEnd, NoCancelWhileEnding, QuietPastCancel, HandleKeepsBox,
                      FreedOnlyFromInside, CarefulCallbackHasItsBox, CallbackHasItsBox, Cancelling, EndKinds, Closing, Owning, Goto, Finish,
                      Idle
<1>6. MemberKeeps'
  BY DEF Deliver, Ready, JobShape, SlotUse, OneObject, InHand, Apart, MemberKeeps, EndKinds,
         Closing, Owning, Goto, Finish, Idle
<1> QED BY <1>1, <1>2, <1>3, <1>4, <1>5, <1>6

(* The event callback returns. *)
LEMMA DeliverReturnsInv ==
    ASSUME Inv, UNCHANGED caution, NEW t \in Threads, DeliverReturns(t) PROVE Inv'
<1> USE SubscriptionAssumption DEF Inv, TypeOK, Serialized, Outside, MemberRace
<1>1. TypeOK'
  BY DEF DeliverReturns, Ready, Jobs, Owning, JobShape
<1>2. JobShape'
  BY DEF DeliverReturns, Ready, JobShape, EndKinds, Closing, Owning, Goto, Finish, Idle
<1>3. Life'
  BY DEF DeliverReturns, Ready, JobShape, Life, SlotUse, OneObject, InHand, Apart, EndKinds,
         Closing, Owning, Goto, Finish, Idle
<1>4. SlotUse'
  BY DEF DeliverReturns, Ready, JobShape, Life, SlotUse, OneObject, InHand, Apart,
         TicketsDieWithTheOwner, EndKinds, Closing, Owning, Goto, Finish, Idle
<1>5. SerialEnd'
  BY DEF DeliverReturns, Ready, JobShape, Life, SlotUse, OneObject, InHand, Apart, SerialEnd,
         NoCancelWhileEnding, QuietPastCancel, HandleKeepsBox, FreedOnlyFromInside, CarefulCallbackHasItsBox,
         CallbackHasItsBox, Cancelling,
         EndKinds, Closing, Owning, Goto, Finish, Idle
<1>6. MemberKeeps'
  BY DEF DeliverReturns, Ready, JobShape, SlotUse, OneObject, InHand, Apart, MemberKeeps,
         EndKinds, Closing, Owning, Goto, Finish, Idle
<1> QED BY <1>1, <1>2, <1>3, <1>4, <1>5, <1>6

(* The initial state satisfies the inductive invariant. *)
LEMMA InitInv == Init => Inv
BY SubscriptionAssumption
   DEF Init, Inv, TypeOK, Cautions, Serialized, Outside, MemberRace, Jobs, JobShape, Life, SlotUse, OneObject, InHand, Apart,
       TicketsDieWithTheOwner, SerialEnd, NoCancelWhileEnding, QuietPastCancel,
       HandleKeepsBox, FreedOnlyFromInside, CarefulCallbackHasItsBox,
         CallbackHasItsBox, MemberKeeps, Idle, Owning, EndKinds, Closing

(* A step that begins something preserves it. *)
LEMMA StartInv == ASSUME Inv, UNCHANGED caution, NEW t \in Threads, Start(t) PROVE Inv'
<1>1. ASSUME NEW x \in Slots, NEW s \in Subs, Subscribe(t, x, s) PROVE Inv'
  BY <1>1, SubscribeInv
<1>2. ASSUME NEW x \in Slots, Destroy(t, x) PROVE Inv'
  BY <1>2, StartResetInv DEF Destroy, EndKinds
<1>3. ASSUME NEW x \in Slots, MemberCancel(t, x) PROVE Inv'
  BY <1>3, MemberInv
<1>4. ASSUME NEW x \in Slots, NEW y \in Slots, AssignOver(t, x, y) PROVE Inv'
  BY <1>4, StartResetInv DEF AssignOver, EndKinds
<1>5. ASSUME NEW x \in Slots, NEW y \in Slots, Move(t, y, x) PROVE Inv'
  BY <1>5, MoveInv
<1>6. ASSUME NEW s \in Subs, TicketCancel(t, s) PROVE Inv'
  BY <1>6, TicketInv
<1>7. ASSUME NEW s \in Subs, Deliver(t, s) PROVE Inv'
  BY <1>7, DeliverInv
<1> QED BY <1>1, <1>2, <1>3, <1>4, <1>5, <1>6, <1>7 DEF Start

(* Every step, or none, preserves it. *)
LEMMA NextInv == Inv /\ [Next]_vars => Inv'
<1> SUFFICES ASSUME Inv, [Next]_vars PROVE Inv' OBVIOUS
<1>1. ASSUME NEW t \in Threads, Continue(t), UNCHANGED caution PROVE Inv'
  BY <1>1, AcceptedInv, RefusedInv, StoreInv, ExchangeInv, UnsubscribeInv, DrainedInv,
     DropCellInv, FreeBoxInv DEF Continue
<1>2. CASE Next
  BY <1>1, <1>2, StartInv, DeliverReturnsInv DEF Next
<1>3. CASE UNCHANGED vars
  BY <1>3 DEF vars, Inv, TypeOK, Serialized, Outside, MemberRace, JobShape, Life, SlotUse, OneObject, InHand, Apart,
       TicketsDieWithTheOwner, SerialEnd, NoCancelWhileEnding, QuietPastCancel,
       HandleKeepsBox, FreedOnlyFromInside, CarefulCallbackHasItsBox,
         CallbackHasItsBox, Cancelling, MemberKeeps, Owning, EndKinds, Closing
<1> QED BY <1>2, <1>3

(* The inductive invariant holds in every reachable state. *)
THEOREM Invariance == Spec => []Inv
BY InitInv, NextInv, PTL DEF Spec

(* Every variable keeps its type, and a dropped cell is an expired one. *)
THEOREM TypeCorrect == Spec => []TypeOK
<1>1. Inv => TypeOK BY DEF Inv
<1> QED BY Invariance, <1>1, PTL

(* However tickets, moves and destructors race, one of them alone calls    *)
(* lp_unsubscribe, on a handle that is still live.                         *)
THEOREM OneUnsubscribe == Spec => []UnsubscribedOnce
<1>1. Inv => UnsubscribedOnce
  BY DEF Inv, Life, JobShape, Closing, UnsubscribedOnce
<1> QED BY Invariance, <1>1, PTL

(* A handle that can still call back is owned by exactly one object, or is *)
(* in the hands of the thread that stores or closes it.                    *)
THEOREM OneOwner == Spec => []LiveHasOneOwner
<1>1. ASSUME Inv, NEW s \in Subs, lp[s] = "live", cell[s] = "armed"
      PROVE  Cardinality({x \in Slots : slot[x] = s}) = 1
  <2>1. PICK x \in Slots : slot[x] = s
    BY <1>1 DEF Inv, SlotUse, TicketsDieWithTheOwner
  <2>2. {y \in Slots : slot[y] = s} = {x}
    BY <1>1, <2>1, SubscriptionAssumption DEF Inv, SlotUse, OneObject
  <2> QED BY <2>2, FS_Singleton
<1>2. ASSUME Inv, NEW s \in Subs, lp[s] = "live", cell[s] # "armed"
      PROVE  \E t \in Threads : job[t].sub = s /\ job[t].at \in {"store", "unsubscribe"}
  BY <1>2 DEF Inv, TypeOK, Life, Closing
<1>3. Inv => LiveHasOneOwner
  BY <1>1, <1>2 DEF LiveHasOneOwner
<1> QED BY Invariance, <1>3, PTL

(* A ticket answers false once no object owns its subscription. *)
THEOREM TicketsExpire == Spec => []TicketsDieWithTheOwner
<1>1. Inv => TicketsDieWithTheOwner BY DEF Inv, SlotUse
<1> QED BY Invariance, <1>1, PTL

(* Together: whatever races, a handle has one owner, which alone closes    *)
(* it, and its tickets end with it.                                        *)
THEOREM HandlesAreOwnedOnce == Spec => []OwnedOnce
BY OneUnsubscribe, OneOwner, TicketsExpire, PTL DEF OwnedOnce

(* What expired stays expired, whatever is moved or subscribed later. *)
THEOREM ExpiredStaysExpired == Spec => ExpiryIsForGood
<1> DEFINE Stays == \A s \in Subs : cell[s] = "null" => cell'[s] = "null"
<1>1. ASSUME Inv, NEW t \in Threads, Start(t) PROVE Stays
  BY <1>1 DEF Start, Subscribe, StartReset, Destroy, AssignOver, Move, TicketCancel,
              MemberCancel, Deliver
<1>2. ASSUME Inv, NEW t \in Threads, Continue(t) PROVE Stays
  <2>1. CASE Store(t)
    BY <1>2, <2>1 DEF Inv, TypeOK, Life, Store
  <2>2. CASE Exchange(t)
    BY <1>2, <2>2 DEF Inv, TypeOK, Exchange
  <2> QED BY <1>2, <2>1, <2>2
          DEF Continue, Accepted, Refused, Unsubscribe, Drained, DropCell, FreeBox
<1>3. ASSUME NEW t \in Threads, DeliverReturns(t) PROVE Stays
  BY <1>3 DEF DeliverReturns
<1>4. Inv /\ [Next]_vars => [Stays]_vars
  BY <1>1, <1>2, <1>3 DEF Next
<1> QED BY Invariance, <1>4, PTL DEF Spec, ExpiryIsForGood

(* If no cancel overlaps the owner's end and no callback ends its own      *)
(* subscription, no callback runs in a freed box.                          *)
THEOREM SerialCallbacksAreSafe == Spec => []CarefulCallbackHasItsBox
<1>1. Inv => CarefulCallbackHasItsBox BY DEF Inv, SerialEnd, CarefulCallbackHasItsBox
<1> QED BY Invariance, <1>1, PTL

(* If cancel() on the object does not race the object's end, it finds the  *)
(* shared cell in place; tickets may race as they like.                    *)
THEOREM CancelKeepsToItsCell == Spec => []CancelFindsItsCell
<1>1. ASSUME Inv, ~MemberRace, NEW t \in Threads, job[t].kind = "member"
      PROVE  job[t].sub \notin dropped
  <2>1. job[t].slot \in Slots /\ slot[job[t].slot] = job[t].sub
    BY <1>1 DEF Inv, JobShape, MemberKeeps, Owning
  <2>2. \A u \in Threads : job[u].at = "free" => job[t].slot # job[u].slot
    BY <1>1 DEF Inv, JobShape, MemberKeeps, Owning, EndKinds
  <2> QED BY <1>1, <2>1, <2>2 DEF Inv, MemberKeeps
<1>2. Inv => CancelFindsItsCell
  BY <1>1 DEF CancelFindsItsCell, CellOutlivesCancel, CellAlive
<1> QED BY Invariance, <1>2, PTL

(* If no cancel overlaps the owner's end, the only callback that can run   *)
(* in a freed box is the one that ended its own subscription.              *)
THEOREM OnlyTheCallbackItself == Spec => []FreedOnlyFromInside
<1>1. Inv => FreedOnlyFromInside BY DEF Inv, SerialEnd
<1> QED BY Invariance, <1>1, PTL

(* So a program that keeps its cancels apart from the ends of its owners,  *)
(* and ends no subscription from inside its callback, uses nothing that    *)
(* has been freed; one that does end them there keeps the damage to the    *)
(* callback that did it.                                                   *)
THEOREM CareSuffices == Spec => []CareIsEnough
<1>1. CarefulCallbackHasItsBox /\ FreedOnlyFromInside /\ CancelFindsItsCell => CareIsEnough
  BY DEF CareIsEnough
<1> QED BY <1>1, SerialCallbacksAreSafe, OnlyTheCallbackItself, CancelKeepsToItsCell, PTL

(***************************************************************************)
(* Subscription implements SoleOwner.                                      *)
(***************************************************************************)
(* The first state is SoleOwner's.                                         *)
LEMMA InitIsSole == Init => Sole!Init
BY SubscriptionAssumption DEF Init, Sole!Init, Stage, Holds

(* What SoleOwner is told depends on handles, cells, objects and callbacks.*)
LEMMA SoleStutter ==
    ASSUME UNCHANGED <<cell, lp, slot, cb>> PROVE UNCHANGED Sole!vars
BY DEF Sole!vars, Stage, Holds

(* lp_subscribe accepts: the subscription is taken.                        *)
LEMMA AcceptedTakes ==
    ASSUME Inv, NEW t \in Threads, Accepted(t) PROVE Sole!Next
<1> USE DEF Inv, TypeOK
<1> DEFINE s == job[t].sub
           st == [r \in Subs |-> Stage(r)]
           hd == [x \in Slots |-> Holds(x)]
<1>1. s \in Subs /\ cell[s] = "unborn" /\ lp[s] = "none"
  BY DEF Accepted, JobShape, Life
<1>2. st[s] = "none" /\ st' = [st EXCEPT ![s] = "taken"]
  BY <1>1 DEF Accepted, Stage
<1>3. hd' = hd /\ cb' = cb
  BY DEF Accepted, Holds
<1> QED BY <1>1, <1>2, <1>3 DEF Sole!Next, Sole!Take, Sole!Becomes

(* The new object is stored: it is kept, by an object that held nothing.   *)
LEMMA StoreKeeps ==
    ASSUME Inv, NEW t \in Threads, Store(t) PROVE Sole!Next
<1> USE SubscriptionAssumption DEF Inv, TypeOK
<1> DEFINE s == job[t].sub
           y == job[t].slot
           st == [r \in Subs |-> Stage(r)]
           hd == [x \in Slots |-> Holds(x)]
<1>1. /\ s \in Subs /\ cell[s] = "unborn" /\ lp[s] = "live"
      /\ y \in Slots /\ slot[y] = None
  BY DEF Store, JobShape, Life, SlotUse, InHand, Owning
<1>2. \A x \in Slots : slot[x] # s
  BY <1>1 DEF SlotUse, OneObject
<1>3. st[s] = "taken" /\ st' = [st EXCEPT ![s] = "held"]
  BY <1>1 DEF Store, Stage
<1>4. hd[y] = None /\ hd' = [hd EXCEPT ![y] = s]
  BY <1>1, <1>2 DEF Store, Holds
<1>5. cb' = cb
  BY DEF Store
<1> QED BY <1>1, <1>3, <1>4, <1>5 DEF Sole!Next, Sole!Keep, Sole!Becomes

(* An object takes over what another holds, or finds nothing to take over. *)
LEMMA Handing ==
    ASSUME Inv, NEW x \in Slots, NEW y \in Slots, x # y,
           slot[x] # None => cell[slot[x]] # "armed",
           slot' = [slot EXCEPT ![x] = slot[y], ![y] = None],
           UNCHANGED <<cell, lp, cb>>
    PROVE  [Sole!Next]_(Sole!vars)
<1> USE SubscriptionAssumption DEF Inv, TypeOK
<1> DEFINE st == [r \in Subs |-> Stage(r)]
           hd == [z \in Slots |-> Holds(z)]
<1>1. st' = st
  BY DEF Stage
<1>2. hd[x] = None
  BY DEF Holds
<1>3. hd' = [hd EXCEPT ![x] = hd[y], ![y] = None]
  BY DEF Holds
<1>4. CASE hd[y] # None
  BY <1>1, <1>2, <1>3, <1>4 DEF Sole!Next, Sole!Hand
<1>5. CASE hd[y] = None
  <2>1. hd' = hd
    BY <1>2, <1>3, <1>5
  <2> QED BY <1>1, <2>1 DEF Sole!vars
<1> QED BY <1>4, <1>5

(* The winner of the exchange takes the subscription from the object that  *)
(* holds it, whoever the winner is; a loser changes nothing.               *)
LEMMA ExchangeGivesUp ==
    ASSUME Inv, NEW t \in Threads, Exchange(t) PROVE [Sole!Next]_(Sole!vars)
<1> USE SubscriptionAssumption DEF Inv, TypeOK
<1> DEFINE s == job[t].sub
           st == [r \in Subs |-> Stage(r)]
           hd == [x \in Slots |-> Holds(x)]
<1>1. /\ s \in Subs /\ cell[s] # "unborn"
      /\ cell' = [cell EXCEPT ![s] = "null"]
      /\ UNCHANGED <<lp, slot, cb>>
  BY DEF Exchange, JobShape, Life
<1>2. CASE cell[s] = "armed"
  <2>1. PICK x \in Slots : slot[x] = s
    BY <1>1, <1>2 DEF SlotUse, TicketsDieWithTheOwner
  <2>2. \A y \in Slots : y # x => slot[y] # s
    BY <1>1, <2>1 DEF SlotUse, OneObject
  <2>3. lp[s] = "live"
    BY <1>1, <1>2 DEF Life
  <2>4. st[s] = "held" /\ st' = [st EXCEPT ![s] = "lost"]
    BY <1>1, <1>2, <2>3 DEF Stage
  <2>5. Holds(x) = s /\ Holds(x)' = None
    BY <1>1, <1>2, <2>1 DEF Holds
  <2>6. \A y \in Slots : y # x => Holds(y)' = Holds(y)
    BY <1>1, <2>2 DEF Holds
  <2>7. hd[x] = s /\ hd' = [hd EXCEPT ![x] = None]
    BY <2>5, <2>6
  <2> QED BY <1>1, <2>4, <2>7 DEF Sole!Next, Sole!GiveUp, Sole!Becomes
<1>3. CASE cell[s] # "armed"
  <2>1. cell' = cell
    BY <1>1, <1>3
  <2> QED BY <1>1, <2>1, SoleStutter
<1> QED BY <1>2, <1>3

(* lp_unsubscribe begins: the subscription given up is closed.             *)
LEMMA UnsubscribeCloses ==
    ASSUME Inv, NEW t \in Threads, Unsubscribe(t) PROVE Sole!Next
<1> USE DEF Inv, TypeOK
<1> DEFINE s == job[t].sub
           st == [r \in Subs |-> Stage(r)]
           hd == [x \in Slots |-> Holds(x)]
<1>1. s \in Subs /\ cell[s] = "null" /\ lp[s] = "live"
  BY DEF Unsubscribe, JobShape, Life
<1>2. st[s] = "lost" /\ st' = [st EXCEPT ![s] = "closing"]
  BY <1>1 DEF Unsubscribe, Stage
<1>3. hd' = hd /\ cb' = cb
  BY DEF Unsubscribe, Holds
<1> QED BY <1>1, <1>2, <1>3 DEF Sole!Next, Sole!Close, Sole!Becomes

(* lp_unsubscribe returns, when no other thread is in the callback.        *)
LEMMA DrainedFrees ==
    ASSUME Inv, NEW t \in Threads, Drained(t) PROVE Sole!Next
<1> USE DEF Inv, TypeOK
<1> DEFINE s == job[t].sub
           st == [r \in Subs |-> Stage(r)]
           hd == [x \in Slots |-> Holds(x)]
<1>1. s \in Subs /\ cell[s] = "null" /\ lp[s] = "closing"
  BY DEF Drained, JobShape, Life
<1>2. st[s] = "closing" /\ st' = [st EXCEPT ![s] = "freed"]
  BY <1>1 DEF Drained, Stage
<1>3. hd' = hd /\ cb' = cb /\ \A u \in Threads \ {t} : cb[u] # s
  BY DEF Drained, Holds
<1>4. Sole!Free(t, s)
  BY <1>2, <1>3 DEF Sole!Free, Sole!Becomes
<1> QED BY <1>1, <1>4 DEF Sole!Next

(* The end of an owner: its object is empty, or takes over from another.   *)
LEMMA FreeBoxHands ==
    ASSUME Inv, NEW t \in Threads, FreeBox(t) PROVE [Sole!Next]_(Sole!vars)
<1> USE SubscriptionAssumption DEF Inv, TypeOK
<1> DEFINE x == job[t].slot
<1>1. /\ job[t].kind \in EndKinds /\ x \in Slots
      /\ slot[x] \in Subs /\ cell[slot[x]] = "null"
      /\ UNCHANGED <<cell, lp, cb>> /\ slot' = Owned(t)
  BY DEF FreeBox, JobShape, Life, SlotUse, InHand, EndKinds, Owning
<1>2. CASE job[t].kind = "assign"
  <2>1. job[t].from \in Slots /\ job[t].from # x
    BY <1>2 DEF JobShape
  <2>2. slot' = [slot EXCEPT ![x] = slot[job[t].from], ![job[t].from] = None]
    BY <1>1, <1>2 DEF Owned
  <2> QED BY <1>1, <2>1, <2>2, Handing
<1>3. CASE job[t].kind # "assign"
  <2>1. slot' = [slot EXCEPT ![x] = None]
    BY <1>1, <1>3 DEF Owned
  <2>2. \A z \in Slots : Holds(z)' = Holds(z)
    BY <1>1, <2>1 DEF Holds
  <2>3. \A r \in Subs : Stage(r)' = Stage(r)
    BY <1>1 DEF Stage
  <2> QED BY <1>1, <2>2, <2>3 DEF Sole!vars
<1> QED BY <1>2, <1>3

(* An event reaches a callback only while the subscription is audible.     *)
LEMMA DeliverIsHeard ==
    ASSUME Inv, NEW t \in Threads, NEW s \in Subs, Deliver(t, s) PROVE Sole!Next
<1> USE DEF Inv, TypeOK
<1>1. Stage(s) \in Sole!Audible
  BY DEF Deliver, Stage, Sole!Audible
<1>2. UNCHANGED <<[r \in Subs |-> Stage(r)], [x \in Slots |-> Holds(x)]>>
  BY DEF Deliver, Stage, Holds
<1> QED BY <1>1, <1>2 DEF Deliver, Sole!Next, Sole!Hear

(* The callback returns.                                                   *)
LEMMA ReturnIsHeard ==
    ASSUME Inv, NEW t \in Threads, DeliverReturns(t) PROVE Sole!Next
<1>1. UNCHANGED <<[r \in Subs |-> Stage(r)], [x \in Slots |-> Holds(x)]>>
  BY DEF DeliverReturns, Stage, Holds
<1> QED BY <1>1 DEF DeliverReturns, Sole!Next, Sole!Heard

(* Every step is a step of SoleOwner, or a stutter.                        *)
LEMMA StepIsSole == Inv /\ [Next]_vars => [Sole!Next]_(Sole!vars)
<1> SUFFICES ASSUME Inv, [Next]_vars PROVE [Sole!Next]_(Sole!vars)
  OBVIOUS
<1>1. ASSUME NEW t \in Threads, Start(t) PROVE [Sole!Next]_(Sole!vars)
  <2>1. ASSUME NEW x \in Slots, NEW y \in Slots, Move(t, y, x)
        PROVE  [Sole!Next]_(Sole!vars)
    <3>1. /\ slot[x] = None /\ x # y
          /\ slot' = [slot EXCEPT ![x] = slot[y], ![y] = None]
          /\ UNCHANGED <<cell, lp, cb>>
      BY <2>1 DEF Move
    <3> QED BY <3>1, Handing
  <2>2. ASSUME NEW s \in Subs, Deliver(t, s) PROVE [Sole!Next]_(Sole!vars)
    BY <2>2, DeliverIsHeard
  <2>3. ASSUME NEW x \in Slots,
               \/ \E s \in Subs : Subscribe(t, x, s)
               \/ Destroy(t, x) \/ MemberCancel(t, x)
               \/ \E y \in Slots : AssignOver(t, x, y)
        PROVE  [Sole!Next]_(Sole!vars)
    BY <2>3, SoleStutter DEF Subscribe, Destroy, MemberCancel, AssignOver, StartReset
  <2>4. ASSUME NEW s \in Subs, TicketCancel(t, s) PROVE [Sole!Next]_(Sole!vars)
    BY <2>4, SoleStutter DEF TicketCancel
  <2> QED BY <1>1, <2>1, <2>2, <2>3, <2>4 DEF Start
<1>2. ASSUME NEW t \in Threads, Continue(t) PROVE [Sole!Next]_(Sole!vars)
  <2>1. CASE Refused(t) \/ DropCell(t)
    BY <2>1, SoleStutter DEF Refused, DropCell
  <2> QED BY <1>2, <2>1, AcceptedTakes, StoreKeeps, ExchangeGivesUp, UnsubscribeCloses,
             DrainedFrees, FreeBoxHands DEF Continue
<1>3. ASSUME NEW t \in Threads, DeliverReturns(t) PROVE [Sole!Next]_(Sole!vars)
  BY <1>3, ReturnIsHeard
<1>4. CASE UNCHANGED vars
  BY <1>4, SoleStutter DEF vars
<1> QED BY <1>1, <1>2, <1>3, <1>4 DEF Next

(* Whatever races, a subscription has a sole owner, which gives it up once;*)
(* it is closed once and freed when nobody else runs its callback.         *)
THEOREM SubscriptionHasASoleOwner == Spec => ImplementsSoleOwner
BY InitIsSole, StepIsSole, Invariance, PTL DEF Spec, ImplementsSoleOwner, Sole!Spec
=============================================================================
