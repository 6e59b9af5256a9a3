----------------------------- MODULE SubStatus ------------------------------
(***************************************************************************)
(* The status of a target's subscriptions: onSubscriptionStatus,           *)
(* setRestartPolicy, rearmSubscriptions and the status trampoline of       *)
(* LpClient (cpp/logos_lp_client.h).                                       *)
(*                                                                         *)
(* Any thread installs a watcher.  The runtime below the C ABI, which is   *)
(* outside this repository, delivers a target's transitions in order on    *)
(* one thread, and replays the current one to whoever registers.  A        *)
(* watcher runs on that thread and may call the client again: to rearm,    *)
(* its obvious move on Held, or to install another watcher.                *)
(***************************************************************************)
EXTENDS Naturals, Sequences

CONSTANTS Callers,         \* threads that install watchers and set the policy
          Loop,            \* the thread the runtime delivers on
          Watchers,        \* the callbacks
          None,            \* no callback; nobody
          MaxGeneration,   \* bound: establishments
          MaxInstalls      \* bound: calls of onSubscriptionStatus

Threads == Callers \cup {Loop}

\* The codes this build has names for, and one of a newer protocol.
Known  == {"Armed", "Lost", "Held", "Abandoned"}
States == Known \cup {"Unnamed"}

ASSUME SubStatusAssumption ==
    /\ Loop \notin Callers /\ None \notin Threads \cup Watchers
    /\ None \notin States \X Nat
    /\ MaxGeneration \in Nat \ {0} /\ MaxInstalls \in Nat

VARIABLES
    status,      \* m_status
    mutex,       \* m_statusMu: its owner or None
    pc,          \* per thread: where it is in onSubscriptionStatus
    arg,         \* per thread: the watcher it installs
    installs,    \* how many installs have begun
    stage,       \* the Loop's place in statusTrampoline
    copied,      \* the callback it copied out
    told,        \* per watcher: the last transition it was told since it was
                 \* last installed, or None
    registered,  \* the runtime has the trampoline
    target,      \* the runtime's current transition, or None before the first
    policy,      \* "Automatic" or "Manual"
    revive,      \* a rearm is posted
    queue        \* the notices not yet delivered

client  == <<status, mutex, pc, arg, installs, stage, copied, told>>
runtime == <<registered, target, policy, revive, queue>>
vars    == <<client, runtime>>

Init ==
    /\ status = None /\ mutex = None
    /\ pc = [t \in Threads |-> "idle"]
    /\ arg = [t \in Threads |-> None]
    /\ installs = 0
    /\ stage = "idle" /\ copied = None
    /\ told = [w \in Watchers |-> None]
    /\ registered = FALSE /\ target = None
    /\ policy = "Automatic" /\ revive = FALSE
    /\ queue = <<>>

(* A thread is free to call the client: the Loop also from a watcher.      *)
Free(t) == pc[t] = "idle" /\ (t = Loop => stage \in {"idle", "inside"})

(***************************************************************************)
(* onSubscriptionStatus(cb).  With no client it returns at once and        *)
(* changes nothing; a null cb removes the watcher.                         *)
(***************************************************************************)
Install(t, w) ==
    /\ Free(t) /\ installs < MaxInstalls
    /\ installs' = installs + 1
    /\ arg' = [arg EXCEPT ![t] = w]
    /\ pc' = [pc EXCEPT ![t] = "lock"]
    /\ UNCHANGED <<status, mutex, stage, copied, told, runtime>>

LockToStore(t) ==
    /\ pc[t] = "lock" /\ mutex = None
    /\ mutex' = t
    /\ pc' = [pc EXCEPT ![t] = "store"]
    /\ UNCHANGED <<status, arg, installs, stage, copied, told, runtime>>

Store(t) ==
    /\ pc[t] = "store"
    /\ status' = arg[t]
    /\ mutex' = None
    /\ told' = [w \in Watchers |-> IF w = arg[t] THEN None ELSE told[w]]
    /\ pc' = [pc EXCEPT ![t] = "register"]
    /\ UNCHANGED <<arg, installs, stage, copied, runtime>>

(* What the runtime makes of a registration: it replays where it is.       *)
Replay == queue' = IF target = None THEN queue ELSE Append(queue, target)

(* Fault: the trampoline is handed to the runtime only the first time.     *)
RegisterOnce(t) ==
    /\ pc[t] = "register"
    /\ IF registered THEN UNCHANGED queue ELSE Replay
    /\ registered' = TRUE
    /\ pc' = [pc EXCEPT ![t] = "idle"]
    /\ arg' = [arg EXCEPT ![t] = None]
    /\ UNCHANGED <<status, mutex, installs, stage, copied, told, target, policy, revive>>

(* lp_client_set_subscription_status_cb, after the watcher is in place.    *)
Register(t) ==
    /\ pc[t] = "register"
    /\ Replay
    /\ registered' = TRUE
    /\ pc' = [pc EXCEPT ![t] = "idle"]
    /\ arg' = [arg EXCEPT ![t] = None]
    /\ UNCHANGED <<status, mutex, installs, stage, copied, told, target, policy, revive>>

(* setRestartPolicy.                                                       *)
SetRestartPolicy(t, p) ==
    /\ Free(t) /\ p # policy
    /\ policy' = p
    /\ UNCHANGED <<client, registered, target, revive, queue>>

(* rearmSubscriptions: the revive is posted, never carried out here.       *)
Rearm(t) ==
    /\ Free(t) /\ target # None /\ target[1] \in {"Held", "Abandoned"}
    /\ revive' = TRUE
    /\ UNCHANGED <<client, registered, target, policy, queue>>

(***************************************************************************)
(* statusTrampoline, on the Loop.                                          *)
(***************************************************************************)
Deliver ==
    /\ stage = "idle" /\ pc[Loop] = "idle" /\ queue # <<>> /\ mutex = None
    /\ mutex' = Loop
    /\ stage' = "copy"
    /\ UNCHANGED <<status, pc, arg, installs, copied, told, runtime>>

Notice == Head(queue)

(* Fault: a code without a name is coerced to the numerically first value. *)
NamedCoerced(n) == IF n[1] \in Known THEN n ELSE <<"Armed", n[2]>>

(* The switch over the codes: a transition with a name, or None.           *)
Named(n) == IF n[1] \in Known THEN n ELSE None

(* Nothing is installed, or the code has no name: the notice is dropped.   *)
Dropped == status = None \/ Named(Notice) = None

Finish == stage' = "idle" /\ queue' = Tail(queue)

(* Fault: the mutex stays locked while the watcher runs.                   *)
CopyOutLocked ==
    /\ stage = "copy"
    /\ IF Dropped THEN Finish /\ mutex' = None /\ UNCHANGED copied
                  ELSE stage' = "call" /\ copied' = status /\ UNCHANGED <<queue, mutex>>
    /\ UNCHANGED <<status, pc, arg, installs, told, registered, target, policy, revive>>

(* The callback is copied under the mutex and called outside it.           *)
CopyOut ==
    /\ stage = "copy"
    /\ mutex' = None
    /\ IF Dropped THEN Finish /\ UNCHANGED copied
                  ELSE stage' = "call" /\ copied' = status /\ UNCHANGED queue
    /\ UNCHANGED <<status, pc, arg, installs, told, registered, target, policy, revive>>

Call ==
    /\ stage = "call"
    /\ told' = [told EXCEPT ![copied] = Named(Notice)]
    /\ stage' = "inside"
    /\ UNCHANGED <<status, mutex, pc, arg, installs, copied, runtime>>

(* The watcher returns.                                                    *)
WatcherReturns ==
    /\ stage = "inside" /\ pc[Loop] = "idle"
    /\ Finish
    /\ copied' = None
    /\ mutex' = IF mutex = Loop THEN None ELSE mutex
    /\ UNCHANGED <<status, pc, arg, installs, told, registered, target, policy, revive>>

(***************************************************************************)
(* The runtime: one target's establishments and losses.                    *)
(***************************************************************************)
Become(s, g) ==
    /\ target' = <<s, g>>
    /\ queue' = IF registered THEN Append(queue, target') ELSE queue
    /\ UNCHANGED <<client, registered, policy>>

FirstArm == target = None /\ Become("Armed", 1) /\ UNCHANGED revive

Lose == target # None /\ target[1] = "Armed" /\ Become("Lost", target[2]) /\ UNCHANGED revive

(* After a loss: re-armed, given up, held under Manual, or a newer status. *)
AfterLoss ==
    /\ target # None /\ target[1] = "Lost"
    /\ \/ /\ policy = "Automatic" /\ target[2] < MaxGeneration
          /\ Become("Armed", target[2] + 1)
       \/ policy = "Manual" /\ Become("Held", target[2])
       \/ Become("Abandoned", target[2])
       \/ Become("Unnamed", target[2])
    /\ UNCHANGED revive

Revive ==
    /\ revive /\ target[1] \in {"Held", "Abandoned"} /\ target[2] < MaxGeneration
    /\ Become("Armed", target[2] + 1)
    /\ revive' = FALSE

(***************************************************************************)
InstallStep(t) == LockToStore(t) \/ Store(t) \/ Register(t)
Trampoline     == Deliver \/ CopyOut \/ Call \/ WatcherReturns
Runtime        == FirstArm \/ Lose \/ AfterLoss \/ Revive

Next ==
    \/ \E t \in Threads :
          \/ \E w \in Watchers \cup {None} : Install(t, w)
          \/ InstallStep(t)
          \/ \E p \in {"Automatic", "Manual"} : SetRestartPolicy(t, p)
          \/ Rearm(t)
    \/ Trampoline
    \/ Runtime

(* Whoever holds the mutex goes on to give it back.                        *)
Unlock == (\E t \in Threads : Store(t)) \/ CopyOut

(* Threads go on with what they began, the mutex is granted to who keeps   *)
(* asking, and watchers return: one does not go on installing others for   *)
(* ever, hence SF.  Nobody must install, and the runtime must not change.  *)
ThreadFairness(t) == SF_vars(LockToStore(t)) /\ WF_vars(Register(t))

MutexFairness == WF_vars(Unlock)
LoopFairness == SF_vars(Deliver) /\ WF_vars(Call) /\ SF_vars(WatcherReturns)

Fairness == (\A t \in Threads : ThreadFairness(t)) /\ MutexFairness /\ LoopFairness

Spec == Init /\ [][Next]_vars
FairSpec == Spec /\ Fairness

(***************************************************************************)
(* Properties.                                                             *)
(***************************************************************************)
Transitions == (States \X (1 .. MaxGeneration)) \cup {None}

TypeOK ==
    /\ status \in Watchers \cup {None} /\ mutex \in Threads \cup {None}
    /\ pc \in [Threads -> {"idle", "lock", "store", "register"}]
    /\ arg \in [Threads -> Watchers \cup {None}]
    /\ installs \in 0 .. MaxInstalls
    /\ stage \in {"idle", "copy", "call", "inside"}
    /\ stage \in {"call", "inside"} => copied \in Watchers
    /\ told \in [Watchers -> Transitions]
    /\ registered \in BOOLEAN /\ revive \in BOOLEAN
    /\ policy \in {"Automatic", "Manual"}
    /\ target \in Transitions /\ queue \in Seq(Transitions)

(* Nothing of the client or the runtime is in flight.                      *)
Settled == queue = <<>> /\ stage = "idle" /\ \A t \in Threads : pc[t] = "idle"

(* "There is no order in which a caller can miss the arm": whatever order  *)
(* installs, replacements and transitions come in, once nothing is in      *)
(* flight the installed watcher has been told where the target is.         *)
WatcherIsCurrent ==
    Settled /\ status # None /\ target # None /\ target[1] \in Known
        => told[status] = target

(* A status this build has no name for is never reported as one it has: a  *)
(* watcher is not told that its subscriptions are live while they are not. *)
NoFalseArm ==
    Settled /\ status # None /\ target # None /\ target[1] = "Unnamed"
        => told[status] # <<"Armed", target[2]>>

(* So an installed watcher never goes on in a belief that is not true.     *)
WatcherIsNotMisled == WatcherIsCurrent /\ NoFalseArm

(* m_statusMu is held over nothing that waits: whoever has it can give it  *)
(* back at once, and a thread waits for nothing else, but that the Loop    *)
(* ends a delivery only when the watcher is not inside a call of its own.  *)
OnlyTheMutexBlocks ==
    /\ mutex # None => ENABLED <<Unlock>>_vars
    /\ \A t \in Threads :
          /\ pc[t] = "lock" /\ mutex = None => ENABLED <<LockToStore(t)>>_vars
          /\ pc[t] = "register" => ENABLED <<Register(t)>>_vars
    /\ stage = "call" => ENABLED <<Call>>_vars
    /\ stage = "inside" /\ pc[Loop] = "idle" => ENABLED <<WatcherReturns>>_vars

(* A call of onSubscriptionStatus returns and a delivery ends, the ones    *)
(* that watchers make from inside a delivery included.                     *)
CallsReturn ==
    /\ \A t \in Threads : pc[t] # "idle" ~> pc[t] = "idle"
    /\ stage = "copy" ~> stage = "idle"
=============================================================================
