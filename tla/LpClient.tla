------------------------------ MODULE LpClient ------------------------------
(***************************************************************************)
(* logos::LpClient's lazily created lp_client (cpp/logos_lp_client.h):     *)
(* ensure(), the constructor's empty m_client and the destructor, called   *)
(* from any number of threads, one of which is the Qt main thread.         *)
(*                                                                         *)
(* lp_client_create is logos-protocol's.  For a Qt-affine transport it     *)
(* posts the construction to the main thread and blocks; the main thread   *)
(* only runs it from its event loop, that is, while it is not inside a     *)
(* call of its own.  That is why ensure() must hold no lock across it.     *)
(*                                                                         *)
(* Client names are never reused, so a use after lp_client_destroy is      *)
(* visible; Clients bounds how many constructions can succeed.             *)
(***************************************************************************)
EXTENDS FiniteSets

CONSTANTS Threads,    \* every thread that calls through the wrapper
          Main,       \* the Qt main thread, one of them
          Clients,    \* names of the lp_clients that can be constructed
          Null,       \* nullptr
          Waiting,    \* the answer of a call that has not returned yet
          QtAffine    \* lp_client_create marshals to the main thread

ASSUME LpClientAssumption ==
    /\ Main \in Threads
    /\ Null \notin Clients
    /\ Waiting \notin Clients \cup {Null}
    /\ QtAffine \in BOOLEAN

VARIABLES alive,    \* the LpClient object itself exists
          mClient,  \* m_client, the published pointer
          heap,     \* per client: "unborn", "live" or "destroyed"
          pc,       \* per thread: where it is in ensure()
          fresh,    \* per thread: the client it built and has not published
          got       \* per thread: what its last ensure() returned

vars == <<alive, mClient, heap, pc, fresh, got>>

Init ==
    /\ alive = TRUE
    /\ mClient = Null
    /\ heap = [c \in Clients |-> "unborn"]
    /\ pc = [t \in Threads |-> "idle"]
    /\ fresh = [t \in Threads |-> Null]
    /\ got = [t \in Threads |-> Null]

(***************************************************************************)
(* The steps of ensure().                                                  *)
(***************************************************************************)

(* A thread enters ensure(); the main thread leaves its event loop.        *)
Enter(t) ==
    /\ alive
    /\ pc[t] = "idle"
    /\ pc' = [pc EXCEPT ![t] = "load"]
    /\ UNCHANGED <<alive, mClient, heap, fresh, got>>

Return(t, c) ==
    /\ got' = [got EXCEPT ![t] = c]
    /\ pc' = [pc EXCEPT ![t] = "using"]

LoadOrCreate(t) ==
    /\ pc[t] = "load"
    /\ IF mClient # Null
       THEN Return(t, mClient)
       ELSE /\ pc' = [pc EXCEPT ![t] = "create"]
            /\ UNCHANGED got
    /\ UNCHANGED <<alive, mClient, heap, fresh>>

(* Fault: a mutex held from the load to the return of lp_client_create.    *)
LoadUnderMutex(t) ==
    /\ \A u \in Threads \ {t} : pc[u] \notin {"create", "publish", "failed"}
    /\ LoadOrCreate(t)

(* The fast path: an acquire load of m_client.                             *)
Load(t) == LoadOrCreate(t)

(* lp_client_create can run here: inline, or on the main event loop.       *)
CanConstruct(t) ==
    /\ pc[t] = "create"
    /\ (QtAffine /\ t # Main) => pc[Main] = "idle"

Construct(t) ==
    /\ CanConstruct(t)
    /\ \E c \in Clients :
          /\ heap[c] = "unborn"
          /\ heap' = [heap EXCEPT ![c] = "live"]
          /\ fresh' = [fresh EXCEPT ![t] = c]
    /\ pc' = [pc EXCEPT ![t] = "publish"]
    /\ UNCHANGED <<alive, mClient, got>>

(* lp_client_create returns NULL (bad target, no transport).               *)
ConstructFails(t) ==
    /\ CanConstruct(t)
    /\ pc' = [pc EXCEPT ![t] = "failed"]
    /\ UNCHANGED <<alive, mClient, heap, fresh, got>>

(* A failed creation answers whatever a racer published; it is not cached. *)
AnswerFailed(t) ==
    /\ pc[t] = "failed"
    /\ Return(t, mClient)
    /\ UNCHANGED <<alive, mClient, heap, fresh>>

(* Fault: the publication is a plain store.                                *)
PublishByStore(t) ==
    /\ pc[t] = "publish"
    /\ mClient' = fresh[t]
    /\ fresh' = [fresh EXCEPT ![t] = Null]
    /\ Return(t, fresh[t])
    /\ UNCHANGED <<alive, heap>>

(* The compare-exchange: the winner publishes, a loser learns `expected`.  *)
Publish(t) ==
    /\ pc[t] = "publish"
    /\ IF mClient = Null
       THEN /\ mClient' = fresh[t]
            /\ fresh' = [fresh EXCEPT ![t] = Null]
            /\ Return(t, fresh[t])
       ELSE /\ pc' = [pc EXCEPT ![t] = "lost"]
            /\ UNCHANGED <<mClient, fresh, got>>
    /\ UNCHANGED <<alive, heap>>

(* Fault: the loser keeps nothing and frees nothing.                       *)
DiscardNothing(t) ==
    /\ pc[t] = "lost"
    /\ fresh' = [fresh EXCEPT ![t] = Null]
    /\ Return(t, mClient)
    /\ UNCHANGED <<alive, mClient, heap>>

(* Fault: the loser answers its own client after destroying it.            *)
DiscardAndReturnOwn(t) ==
    /\ pc[t] = "lost"
    /\ heap' = [heap EXCEPT ![fresh[t]] = "destroyed"]
    /\ fresh' = [fresh EXCEPT ![t] = Null]
    /\ Return(t, fresh[t])
    /\ UNCHANGED <<alive, mClient>>

(* The loser destroys its own client and returns the published one.        *)
Discard(t) ==
    /\ pc[t] = "lost"
    /\ heap' = [heap EXCEPT ![fresh[t]] = "destroyed"]
    /\ fresh' = [fresh EXCEPT ![t] = Null]
    /\ Return(t, mClient)
    /\ UNCHANGED <<alive, mClient>>

(* The lp_* call made with the answer has returned.                        *)
Leave(t) ==
    /\ pc[t] = "using"
    /\ pc' = [pc EXCEPT ![t] = "idle"]
    /\ UNCHANGED <<alive, mClient, heap, fresh, got>>

(* ~LpClient.  As for any C++ object, no member call is still running.     *)
Destroy ==
    /\ alive
    /\ \A t \in Threads : pc[t] = "idle"
    /\ alive' = FALSE
    /\ heap' = [c \in Clients |-> IF c = mClient THEN "destroyed" ELSE heap[c]]
    /\ mClient' = Null
    /\ got' = [t \in Threads |-> Null]
    /\ UNCHANGED <<pc, fresh>>

Step(t) == \/ Enter(t) \/ Load(t) \/ Construct(t) \/ ConstructFails(t)
           \/ AnswerFailed(t) \/ Publish(t) \/ Discard(t) \/ Leave(t)

Next == (\E t \in Threads : Step(t)) \/ Destroy

(***************************************************************************)
(* A thread inside ensure() keeps running, a call made with the answer     *)
(* returns, and the event loop of the main thread eventually serves a      *)
(* posted construction even if the thread also keeps making calls of its   *)
(* own (posted events are served in order between calls): hence SF.        *)
(***************************************************************************)
ThreadFairness(t) ==
    /\ WF_vars(Load(t))
    /\ SF_vars(Construct(t) \/ ConstructFails(t))
    /\ WF_vars(AnswerFailed(t) \/ Publish(t) \/ Discard(t))
    /\ WF_vars(Leave(t))

Fairness == \A t \in Threads : ThreadFairness(t)

Spec == Init /\ [][Next]_vars
FairSpec == Spec /\ Fairness

(***************************************************************************)
(* Properties.                                                             *)
(***************************************************************************)
PC == {"idle", "load", "create", "publish", "failed", "lost", "using"}

TypeOK ==
    /\ alive \in BOOLEAN
    /\ mClient \in Clients \cup {Null}
    /\ heap \in [Clients -> {"unborn", "live", "destroyed"}]
    /\ pc \in [Threads -> PC]
    /\ fresh \in [Threads -> Clients \cup {Null}]
    /\ got \in [Threads -> Clients \cup {Null}]

(* The client a caller goes on to use is the published one and has not     *)
(* been destroyed by a racer that lost.                                    *)
UsesTheLivePublishedClient ==
    \A t \in Threads : pc[t] = "using" /\ got[t] # Null =>
        got[t] = mClient /\ heap[mClient] = "live"

(* No client is leaked: one that is live is published, or still belongs to *)
(* the thread that is deciding its fate.  After ~LpClient none is left.    *)
NoClientLeaked ==
    \A c \in Clients : heap[c] = "live" =>
        alive /\ (c = mClient \/ \E t \in Threads : fresh[t] = c)

(* Once published the pointer never changes while the wrapper lives, so    *)
(* two calls can never talk through different clients.                     *)
PublishedIsStable ==
    [][mClient # Null => mClient' = mClient \/ ~alive']_vars

(* Every call through ensure() returns, also when the main thread itself   *)
(* is the one waiting for the client a worker is building: no deadlock.    *)
EnsureReturns == \A t \in Threads : pc[t] = "load" ~> pc[t] = "using"

(* A thread inside ensure() never waits for another one: each of its steps *)
(* can be taken at once, and a construction waits only for the event loop  *)
(* of the main thread.                                                     *)
NobodyBlocks ==
    \A t \in Threads :
        /\ pc[t] = "load" => ENABLED <<Load(t)>>_vars
        /\ CanConstruct(t) => ENABLED <<Construct(t) \/ ConstructFails(t)>>_vars
        /\ pc[t] \in {"failed", "publish", "lost"} =>
               ENABLED <<AnswerFailed(t) \/ Publish(t) \/ Discard(t)>>_vars
        /\ pc[t] = "using" => ENABLED <<Leave(t)>>_vars

(* ensure() implements the create-once promise.                            *)
Abstract ==
    INSTANCE CreateOnce WITH
        published <- mClient,
        answer <- [t \in Threads |->
                     IF pc[t] \in {"idle", "using"} THEN got[t] ELSE Waiting]

ImplementsCreateOnce == Abstract!Spec
=============================================================================
