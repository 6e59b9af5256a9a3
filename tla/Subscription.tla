---------------------------- MODULE Subscription ----------------------------
(***************************************************************************)
(* logos::LpSubscription, its move operations and destructor, the shared   *)
(* cell (LpSubCell) that decides who calls lp_unsubscribe, the SubHandle   *)
(* tickets that can also cancel, LpClient::subscribe, and the event        *)
(* callbacks that run on the C ABI's threads (cpp/logos_lp_client.h).      *)
(*                                                                         *)
(* lp_unsubscribe is logos-protocol's.  It is taken at its best: from its  *)
(* start no new callback begins, and it returns only when none runs on     *)
(* another thread (it cannot wait for one it is itself called from).       *)
(***************************************************************************)
EXTENDS FiniteSets

CONSTANTS Threads,    \* threads of the module and of the C ABI
          Subs,       \* subscriptions that can be taken, each used once
          Slots,      \* LpSubscription objects (locals, members, vector cells)
          None        \* no subscription, no slot

ASSUME SubscriptionAssumption == None \notin Subs \cup Slots

VARIABLES
    cell,     \* per sub: the atomic pointer, "unborn", "armed" or "null"
    dropped,  \* the subs whose owner released its reference to the cell
    lp,       \* per sub: the ABI's handle, "none", "live", "closing", "freed"
    box,      \* per sub: the heap callback, "none", "live", "freed"
    slot,     \* per LpSubscription: the sub it owns, or None
    job,      \* per thread: the operation it is inside
    cb,       \* per thread: the sub whose event callback it is running
    caution   \* how carefully this program cancels and ends; it never changes

vars == <<cell, dropped, lp, box, slot, job, cb, caution>>

(* What the program that uses the subscriptions lets itself do.            *)
(* "apart": no cancel overlaps the end of the owner, and no event callback *)
(* ends (destroys, or assigns over) the subscription it is called from.    *)
(* "inside": a callback may end its own, but no cancel overlaps the end.   *)
(* "tickets": tickets race the end, cancel() on the object does not, and   *)
(* no callback ends its own.  "none": all of it happens.                   *)
Cautions == {"apart", "inside", "tickets", "none"}
Serialized == caution \in {"apart", "inside"}
Outside == caution \in {"apart", "tickets"}
MemberRace == caution = "none"

(* What a thread is doing: `kind` is the operation, `at` its next step,    *)
(* `sub` the cell it holds, `slot` the object it works on, `from` the      *)
(* source of a move assignment.                                            *)
Idle == [kind |-> "idle", at |-> "idle", sub |-> None, slot |-> None, from |-> None]

Init ==
    /\ cell = [s \in Subs |-> "unborn"]
    /\ dropped = {}
    /\ lp = [s \in Subs |-> "none"]
    /\ box = [s \in Subs |-> "none"]
    /\ slot = [x \in Slots |-> None]
    /\ job = [t \in Threads |-> Idle]
    /\ cb = [t \in Threads |-> None]
    /\ caution \in Cautions

(***************************************************************************)
(* Who may start what.  An LpSubscription is not shared by the threads     *)
(* that construct, move or destroy it; tickets are.                        *)
(***************************************************************************)
Owning == {"subscribe", "reset", "assign"}

SlotFree(x) ==
    \A u \in Threads :
        job[u].kind \in Owning \cup (IF MemberRace THEN {} ELSE {"member"})
            => x \notin {job[u].slot, job[u].from}

Cancelling(s) ==
    \E u \in Threads : job[u].kind \in {"ticket", "member"} /\ job[u].sub = s

Ending(s) == \E u \in Threads : job[u].kind \in {"reset", "assign"} /\ job[u].sub = s

(* Nothing in reset() stops a callback from ending its own subscription:   *)
(* the program does, or it does not.  One that keeps its cancels apart     *)
(* ends an owner after every cancel has returned, and after the callbacks  *)
(* that ran in the meantime on other threads.                              *)
MayEnd(t, s) ==
    /\ Outside => cb[t] # s
    /\ Serialized => /\ ~Cancelling(s)
                     /\ cell[s] = "null" => \A u \in Threads \ {t} : cb[u] # s

Ready(t) == job[t] = Idle
Goto(t, at) == job' = [job EXCEPT ![t].at = at]
Finish(t) == job' = [job EXCEPT ![t] = Idle]

(***************************************************************************)
(* LpClient::subscribe.                                                    *)
(***************************************************************************)
Subscribe(t, x, s) ==
    /\ Ready(t) /\ SlotFree(x)
    /\ slot[x] = None
    /\ box[s] = "none"
    /\ \A u \in Threads : job[u].sub # s
    /\ box' = [box EXCEPT ![s] = "live"]
    /\ job' = [job EXCEPT ![t] = [Idle EXCEPT !.kind = "subscribe", !.at = "subscribe",
                                              !.sub = s, !.slot = x]]
    /\ UNCHANGED <<cell, dropped, lp, slot, cb>>

Accepted(t) ==
    /\ job[t].at = "subscribe"
    /\ lp' = [lp EXCEPT ![job[t].sub] = "live"]
    /\ Goto(t, "store")
    /\ UNCHANGED <<cell, dropped, box, slot, cb>>

(* lp_subscribe answered null: the box is deleted, nothing is owned.       *)
Refused(t) ==
    /\ job[t].at = "subscribe"
    /\ box' = [box EXCEPT ![job[t].sub] = "freed"]
    /\ Finish(t)
    /\ UNCHANGED <<cell, dropped, lp, slot, cb>>

Store(t) ==
    /\ job[t].at = "store"
    /\ cell' = [cell EXCEPT ![job[t].sub] = "armed"]
    /\ slot' = [slot EXCEPT ![job[t].slot] = job[t].sub]
    /\ Finish(t)
    /\ UNCHANGED <<dropped, lp, box, cb>>

(***************************************************************************)
(* The end of an owner: ~LpSubscription, or reset() in a move assignment.  *)
(***************************************************************************)
(* Fault: reset() frees what it holds without cancelling it first.         *)
StartResetUnreleased(t, x, kind, y) ==
    /\ Ready(t)
    /\ SlotFree(x)
    /\ slot[x] # None
    /\ MayEnd(t, slot[x])
    /\ job' = [job EXCEPT ![t] = [kind |-> kind, at |-> "drop", sub |-> slot[x],
                                  slot |-> x, from |-> y]]
    /\ UNCHANGED <<cell, dropped, lp, box, slot, cb>>

StartReset(t, x, kind, y) ==
    /\ Ready(t)
    /\ SlotFree(x)
    /\ slot[x] # None
    /\ MayEnd(t, slot[x])
    /\ job' = [job EXCEPT ![t] = [kind |-> kind, at |-> "exchange", sub |-> slot[x],
                                  slot |-> x, from |-> y]]
    /\ UNCHANGED <<cell, dropped, lp, box, slot, cb>>

Destroy(t, x) == StartReset(t, x, "reset", None)
AssignOver(t, x, y) == x # y /\ SlotFree(y) /\ StartReset(t, x, "assign", y)

(* Fault: a move leaves the source with what it gave away.                 *)
MoveCopies(t, y, x) ==
    /\ Ready(t) /\ SlotFree(x) /\ SlotFree(y)
    /\ slot[x] = None /\ slot[y] # None
    /\ slot' = [slot EXCEPT ![x] = slot[y]]
    /\ UNCHANGED <<cell, dropped, lp, box, job, cb>>

(* The move constructor (or an assignment over an empty object).           *)
Move(t, y, x) ==
    /\ Ready(t) /\ SlotFree(x) /\ SlotFree(y)
    /\ slot[x] = None /\ slot[y] # None
    /\ slot' = [slot EXCEPT ![x] = slot[y], ![y] = None]
    /\ UNCHANGED <<cell, dropped, lp, box, job, cb>>

(***************************************************************************)
(* Cancelling.  A ticket first locks its weak reference: that fails once   *)
(* the owner has dropped the cell and no other ticket holds it.            *)
(***************************************************************************)
CellAlive(s) ==
    \/ s \notin dropped
    \/ \E u \in Threads : job[u].kind = "ticket" /\ job[u].sub = s /\ job[u].at # "idle"

MayCancel(s) == Serialized => ~Ending(s)

TicketCancel(t, s) ==
    /\ Ready(t)
    /\ cell[s] # "unborn" /\ CellAlive(s)
    /\ MayCancel(s)
    /\ job' = [job EXCEPT ![t] = [Idle EXCEPT !.kind = "ticket", !.at = "exchange", !.sub = s]]
    /\ UNCHANGED <<cell, dropped, lp, box, slot, cb>>

(* LpSubscription::cancel() goes through the object's own reference.       *)
MemberCancel(t, x) ==
    /\ Ready(t)
    /\ slot[x] # None
    /\ MayCancel(slot[x])
    /\ MemberRace \/ SlotFree(x)
    /\ job' = [job EXCEPT ![t] = [Idle EXCEPT !.kind = "member", !.at = "exchange",
                                              !.sub = slot[x], !.slot = x]]
    /\ UNCHANGED <<cell, dropped, lp, box, slot, cb>>

(***************************************************************************)
(* lpSubCellRelease.                                                       *)
(***************************************************************************)
AfterRelease(t) == IF job[t].kind \in {"reset", "assign"} THEN Goto(t, "drop") ELSE Finish(t)

(* Fault: the pointer is loaded, and cleared only by a later store.        *)
LoadThenClear(t) ==
    /\ job[t].at = "exchange"
    /\ IF cell[job[t].sub] = "armed" THEN Goto(t, "unsubscribe") ELSE AfterRelease(t)
    /\ UNCHANGED <<cell, dropped, lp, box, slot, cb>>

(* Fault: a cancel drops the cell together with the pointer.               *)
ExchangeDrops(t) ==
    /\ job[t].at = "exchange"
    /\ cell' = [cell EXCEPT ![job[t].sub] = "null"]
    /\ dropped' = dropped \cup {job[t].sub}
    /\ IF cell[job[t].sub] = "armed" THEN Goto(t, "unsubscribe") ELSE AfterRelease(t)
    /\ UNCHANGED <<lp, box, slot, cb>>

(* The exchange: whoever swaps the pointer out owns the free.              *)
Exchange(t) ==
    /\ job[t].at = "exchange"
    /\ cell' = [cell EXCEPT ![job[t].sub] = "null"]
    /\ IF cell[job[t].sub] = "armed" THEN Goto(t, "unsubscribe") ELSE AfterRelease(t)
    /\ UNCHANGED <<dropped, lp, box, slot, cb>>

(* lp_unsubscribe begins: no further callback starts ...                   *)
Unsubscribe(t) ==
    /\ job[t].at = "unsubscribe"
    /\ lp' = [lp EXCEPT ![job[t].sub] = "closing"]
    /\ Goto(t, "drain")
    /\ UNCHANGED <<cell, dropped, box, slot, cb>>

(* ... and it returns when those running on other threads have ended.      *)
Drained(t) ==
    /\ job[t].at = "drain"
    /\ \A u \in Threads \ {t} : cb[u] # job[t].sub
    /\ lp' = [lp EXCEPT ![job[t].sub] = "freed"]
    /\ AfterRelease(t)
    /\ UNCHANGED <<cell, dropped, box, slot, cb>>

(***************************************************************************)
(* The rest of reset(), and the move that an assignment goes on to.        *)
(***************************************************************************)
DropCell(t) ==
    /\ job[t].at = "drop"
    /\ dropped' = dropped \cup {job[t].sub}
    /\ Goto(t, "free")
    /\ UNCHANGED <<cell, lp, box, slot, cb>>

Owned(t) ==
    LET j == job[t] IN
    IF j.kind = "assign" THEN [slot EXCEPT ![j.slot] = slot[j.from], ![j.from] = None]
                         ELSE [slot EXCEPT ![j.slot] = None]

(* Fault: reset() forgets the box.                                         *)
ForgetBox(t) ==
    /\ job[t].at = "free"
    /\ slot' = Owned(t)
    /\ Finish(t)
    /\ UNCHANGED <<cell, dropped, lp, box, cb>>

FreeBox(t) ==
    /\ job[t].at = "free"
    /\ box' = [box EXCEPT ![job[t].sub] = "freed"]
    /\ slot' = Owned(t)
    /\ Finish(t)
    /\ UNCHANGED <<cell, dropped, lp, cb>>

(***************************************************************************)
(* Delivery.                                                               *)
(***************************************************************************)
Deliver(t, s) ==
    /\ Ready(t) /\ cb[t] = None
    /\ lp[s] = "live"
    /\ cb' = [cb EXCEPT ![t] = s]
    /\ UNCHANGED <<cell, dropped, lp, box, slot, job>>

DeliverReturns(t) ==
    /\ Ready(t) /\ cb[t] # None
    /\ cb' = [cb EXCEPT ![t] = None]
    /\ UNCHANGED <<cell, dropped, lp, box, slot, job>>

(* A step inside an operation already begun.                               *)
Continue(t) ==
    \/ Accepted(t) \/ Refused(t) \/ Store(t)
    \/ Exchange(t) \/ Unsubscribe(t) \/ Drained(t)
    \/ DropCell(t) \/ FreeBox(t)

Start(t) ==
    \/ \E x \in Slots :
          \/ \E s \in Subs : Subscribe(t, x, s)
          \/ Destroy(t, x) \/ MemberCancel(t, x)
          \/ \E y \in Slots : AssignOver(t, x, y) \/ Move(t, y, x)
    \/ \E s \in Subs : TicketCancel(t, s) \/ Deliver(t, s)

Next == /\ \E t \in Threads : Start(t) \/ Continue(t) \/ DeliverReturns(t)
        /\ UNCHANGED caution

(* Threads inside an operation run on, and a callback returns: it does not *)
(* go on cancelling tickets for ever, hence SF.                            *)
Fairness ==
    \A t \in Threads : /\ WF_vars(Continue(t) /\ UNCHANGED caution)
                       /\ SF_vars(DeliverReturns(t) /\ UNCHANGED caution)

Spec == Init /\ [][Next]_vars
FairSpec == Spec /\ Fairness

(***************************************************************************)
(* Properties.                                                             *)
(***************************************************************************)
Jobs == [kind : Owning \cup {"idle", "ticket", "member"},
         at : {"idle", "subscribe", "store", "exchange", "unsubscribe", "drain",
               "drop", "free"},
         sub : Subs \cup {None}, slot : Slots \cup {None}, from : Slots \cup {None}]

TypeOK ==
    /\ cell \in [Subs -> {"unborn", "armed", "null"}]
    /\ dropped \in SUBSET Subs
    /\ lp \in [Subs -> {"none", "live", "closing", "freed"}]
    /\ box \in [Subs -> {"none", "live", "freed"}]
    /\ slot \in [Slots -> Subs \cup {None}]
    /\ job \in [Threads -> Jobs]
    /\ cb \in [Threads -> Subs \cup {None}]
    /\ caution \in Cautions
    /\ \A s \in dropped : cell[s] = "null"

(* The cell picks one winner: nobody calls lp_unsubscribe on a handle that *)
(* another thread closed or is about to close, whatever races.             *)
UnsubscribedOnce ==
    \A t \in Threads : job[t].at = "unsubscribe" =>
        /\ lp[job[t].sub] = "live"
        /\ \A u \in Threads \ {t} :
              job[u].at \in {"unsubscribe", "drain"} => job[u].sub # job[t].sub

(* A handle that can still call back has exactly one owner: the object     *)
(* that holds it, the subscribe() about to store it, or whoever won the    *)
(* exchange and is about to close it.  None is lost by a move.             *)
LiveHasOneOwner ==
    \A s \in Subs : lp[s] = "live" =>
        \/ cell[s] = "armed" /\ Cardinality({x \in Slots : slot[x] = s}) = 1
        \/ \E t \in Threads : job[t].sub = s /\ job[t].at \in {"store", "unsubscribe"}

(* Once its owner is gone a ticket answers false: the cell is null.        *)
TicketsDieWithTheOwner ==
    \A s \in Subs : cell[s] = "armed" => \E x \in Slots : slot[x] = s

(* Whatever moves, ends, cancels and tickets race, a handle is owned by    *)
(* one, closed by one, and nobody's ticket outlives it.                    *)
OwnedOnce == UnsubscribedOnce /\ LiveHasOneOwner /\ TicketsDieWithTheOwner

(* An expired ticket never comes back to life.                             *)
ExpiryIsForGood == [][\A s \in Subs : cell[s] = "null" => cell'[s] = "null"]_vars

(* A callback never runs in a box that has been freed ("the callback never *)
(* fires after the owner is gone").                                        *)
CallbackHasItsBox == \A t \in Threads : cb[t] # None => box[cb[t]] = "live"

(* That is false of a program whose tickets race the owner's destructor,   *)
(* though SubHandle::cancel() is called "safe to race" it.                 *)
RacedCallbackHasItsBox == caution = "tickets" => CallbackHasItsBox

(* A program has it that keeps its cancels apart from the owner's end and  *)
(* never ends a subscription from inside that subscription's callback.     *)
CarefulCallbackHasItsBox == Serialized /\ Outside => CallbackHasItsBox

(* With the cancels apart alone, a box is freed under a callback only by   *)
(* that callback, which ended its own subscription: no other thread is in  *)
(* it then or later.                                                       *)
FreedOnlyFromInside ==
    Serialized => \A t, u \in Threads :
        cb[t] # None /\ cb[u] = cb[t] /\ box[cb[t]] # "live" => u = t

(* A cancel never touches a cell that its last owner has released.         *)
CellOutlivesCancel ==
    \A t \in Threads : job[t].kind = "member" /\ job[t].at = "exchange" => CellAlive(job[t].sub)

(* ... as long as cancel() on the object does not race its destructor,     *)
(* however tickets do.                                                     *)
CancelFindsItsCell == ~MemberRace => CellOutlivesCancel

(* What the discipline of its program buys a subscription: what has been   *)
(* freed is not used if cancels are kept apart from the owner's end and    *)
(* callbacks from ending their own; each half alone buys what it can.      *)
CareIsEnough == CarefulCallbackHasItsBox /\ FreedOnlyFromInside /\ CancelFindsItsCell

(* No event callback cancels or ends another subscription than its own:    *)
(* two that close each other's wait for each other to return, for ever.    *)
CallbacksKeepToThemselves ==
    \A t \in Threads :
        job[t].kind \in {"ticket", "member", "reset", "assign"} /\ cb[t] # None
            => job[t].sub = cb[t]

(* What an ending owner held is unsubscribed and its box freed, in the end,*)
(* whatever tickets do.                                                    *)
OwnerReleasesAll ==
    []CallbacksKeepToThemselves =>
        \A t \in Threads, s \in Subs :
            (job[t].kind \in {"reset", "assign"} /\ job[t].sub = s)
                ~> (lp[s] = "freed" /\ box[s] = "freed")

(* The promise of SoleOwner.  An object holds its subscription as long as  *)
(* the cell is armed; past the exchange it is whoever won it that closes.  *)
Stage(s) ==
    IF lp[s] # "live" THEN lp[s]
    ELSE CASE cell[s] = "unborn" -> "taken"
           [] cell[s] = "armed"  -> "held"
           [] cell[s] = "null"   -> "lost"

Holds(x) == IF slot[x] # None /\ cell[slot[x]] = "armed" THEN slot[x] ELSE None

Sole ==
    INSTANCE SoleOwner WITH
        Holders <- Slots,
        stage <- [s \in Subs |-> Stage(s)],
        holds <- [x \in Slots |-> Holds(x)],
        hearing <- cb

(* Through every race of moves, ends, cancels and tickets a subscription   *)
(* behaves like one with a sole owner.                                     *)
ImplementsSoleOwner == Sole!Spec
=============================================================================
