--------------------------- MODULE LpClient_proofs ---------------------------
(***************************************************************************)
(* Machine-checked theorems about LpClient, for every set of threads and   *)
(* clients and for both kinds of transport.                                *)
(***************************************************************************)
EXTENDS LpClient, TLAPS

(* A thread owns an unpublished client exactly between building it and     *)
(* publishing or discarding it; no two threads own the same one.           *)
FreshOwned ==
    /\ \A t \in Threads : fresh[t] # Null <=> pc[t] \in {"publish", "lost"}
    /\ \A t \in Threads : fresh[t] # Null =>
            heap[fresh[t]] = "live" /\ fresh[t] # mClient
    /\ \A t, u \in Threads : t # u /\ fresh[t] # Null => fresh[t] # fresh[u]

(* The published client is live, and a thread lost only to a published one. *)
PublishedLive ==
    /\ mClient # Null => heap[mClient] = "live" /\ alive
    /\ \A t \in Threads : pc[t] = "lost" => mClient # Null
    /\ ~alive => \A t \in Threads : pc[t] = "idle"

AnswerIsPublished ==
    \A t \in Threads : pc[t] = "using" /\ got[t] # Null => got[t] = mClient

Inv == TypeOK /\ FreshOwned /\ PublishedLive /\ AnswerIsPublished /\ NoClientLeaked

USE DEF PC, Return

(* The initial state satisfies the inductive invariant. *)
LEMMA InitInv == Init => Inv
BY LpClientAssumption
   DEF Init, Inv, TypeOK, FreshOwned, PublishedLive, AnswerIsPublished, NoClientLeaked

(* Every step of ensure() by one thread preserves it. *)
LEMMA StepInv == ASSUME Inv, NEW t \in Threads, Step(t) PROVE Inv'
<1> USE LpClientAssumption DEF Inv, TypeOK
<1>1. CASE Enter(t)
  BY <1>1 DEF Enter, FreshOwned, PublishedLive, AnswerIsPublished, NoClientLeaked
<1>2. CASE Load(t)
  BY <1>2 DEF Load, LoadOrCreate, FreshOwned, PublishedLive, AnswerIsPublished, NoClientLeaked
<1>3. CASE Construct(t)
  <2> PICK c \in Clients : /\ heap[c] = "unborn"
                           /\ heap' = [heap EXCEPT ![c] = "live"]
                           /\ fresh' = [fresh EXCEPT ![t] = c]
    BY <1>3 DEF Construct
  <2>0. /\ pc[t] = "create" /\ pc' = [pc EXCEPT ![t] = "publish"]
        /\ UNCHANGED <<alive, mClient, got>>
    BY <1>3 DEF Construct, CanConstruct
  <2>1. TypeOK' BY <2>0
  <2>2. FreshOwned' BY <2>0 DEF FreshOwned, PublishedLive
  <2>3. PublishedLive' BY <2>0 DEF PublishedLive
  <2>4. AnswerIsPublished' BY <2>0 DEF AnswerIsPublished
  <2>5. NoClientLeaked' BY <2>0 DEF NoClientLeaked, PublishedLive, FreshOwned
  <2> QED BY <2>1, <2>2, <2>3, <2>4, <2>5
<1>4. CASE ConstructFails(t)
  BY <1>4 DEF ConstructFails, CanConstruct, FreshOwned, PublishedLive, AnswerIsPublished,
              NoClientLeaked
<1>5. CASE AnswerFailed(t)
  BY <1>5 DEF AnswerFailed, FreshOwned, PublishedLive, AnswerIsPublished, NoClientLeaked
<1>6. CASE Publish(t)
  <2>1. CASE mClient = Null
    <3>0. /\ pc[t] = "publish" /\ pc' = [pc EXCEPT ![t] = "using"]
          /\ mClient' = fresh[t] /\ fresh' = [fresh EXCEPT ![t] = Null]
          /\ got' = [got EXCEPT ![t] = fresh[t]]
          /\ UNCHANGED <<alive, heap>>
      BY <1>6, <2>1 DEF Publish
    <3>1. TypeOK' BY <3>0
    <3>2. FreshOwned' BY <3>0 DEF FreshOwned
    <3>3. PublishedLive' BY <3>0 DEF FreshOwned, PublishedLive
    <3>4. AnswerIsPublished' BY <2>1, <3>0 DEF AnswerIsPublished
    <3>5. NoClientLeaked' BY <2>1, <3>0 DEF NoClientLeaked
    <3> QED BY <3>1, <3>2, <3>3, <3>4, <3>5
  <2>2. CASE mClient # Null
    BY <1>6, <2>2 DEF Publish, FreshOwned, PublishedLive, AnswerIsPublished, NoClientLeaked
  <2> QED BY <2>1, <2>2
<1>7. CASE Discard(t)
  <2>0. /\ pc[t] = "lost" /\ pc' = [pc EXCEPT ![t] = "using"]
        /\ heap' = [heap EXCEPT ![fresh[t]] = "destroyed"]
        /\ fresh' = [fresh EXCEPT ![t] = Null]
        /\ got' = [got EXCEPT ![t] = mClient]
        /\ fresh[t] \in Clients
        /\ UNCHANGED <<alive, mClient>>
    BY <1>7 DEF Discard, FreshOwned
  <2>1. TypeOK' BY <2>0
  <2>2. FreshOwned' BY <2>0 DEF FreshOwned
  <2>3. PublishedLive' BY <2>0 DEF FreshOwned, PublishedLive
  <2>4. AnswerIsPublished' BY <2>0 DEF AnswerIsPublished
  <2>5. NoClientLeaked' BY <2>0 DEF NoClientLeaked
  <2> QED BY <2>1, <2>2, <2>3, <2>4, <2>5
<1>8. CASE Leave(t)
  BY <1>8 DEF Leave, FreshOwned, PublishedLive, AnswerIsPublished, NoClientLeaked
<1> QED BY <1>1, <1>2, <1>3, <1>4, <1>5, <1>6, <1>7, <1>8 DEF Step

(* So does the destructor: nothing else is running, so nothing is owned. *)
LEMMA DestroyInv == ASSUME Inv, Destroy PROVE Inv'
<1> USE LpClientAssumption DEF Inv, TypeOK, Destroy
<1>1. \A t \in Threads : fresh[t] = Null
  BY DEF FreshOwned
<1>2. TypeOK' OBVIOUS
<1>3. FreshOwned' BY <1>1 DEF FreshOwned
<1>4. PublishedLive' BY DEF PublishedLive
<1>5. AnswerIsPublished' BY DEF AnswerIsPublished
<1>6. NoClientLeaked' BY <1>1 DEF NoClientLeaked
<1> QED BY <1>2, <1>3, <1>4, <1>5, <1>6

(* Every step, or none, preserves it. *)
LEMMA NextInv == Inv /\ [Next]_vars => Inv'
<1> SUFFICES ASSUME Inv, [Next]_vars PROVE Inv' OBVIOUS
<1>1. CASE Next BY <1>1, StepInv, DestroyInv DEF Next
<1>2. CASE UNCHANGED vars
  BY <1>2 DEF vars, Inv, TypeOK, FreshOwned, PublishedLive, AnswerIsPublished, NoClientLeaked
<1> QED BY <1>1, <1>2

(* The inductive invariant holds in every reachable state. *)
THEOREM Invariance == Spec => []Inv
BY InitInv, NextInv, PTL DEF Spec

(* Every variable of the wrapper keeps its type. *)
THEOREM TypeCorrect == Spec => []TypeOK
<1>1. Inv => TypeOK BY DEF Inv
<1> QED BY Invariance, <1>1, PTL

(* A caller always goes on to use the one published, live client: no       *)
(* racer's discard can free the client another call is using.              *)
THEOREM CallersShareTheLiveClient == Spec => []UsesTheLivePublishedClient
<1>1. Inv => UsesTheLivePublishedClient
  BY DEF Inv, AnswerIsPublished, PublishedLive, UsesTheLivePublishedClient
<1> QED BY Invariance, <1>1, PTL

(* No interleaving of first calls, failed creations and destruction leaks  *)
(* an lp_client.                                                           *)
THEOREM NeverLeaks == Spec => []NoClientLeaked
<1>1. Inv => NoClientLeaked BY DEF Inv
<1> QED BY Invariance, <1>1, PTL

(* The published pointer changes once, until the wrapper is destroyed. *)
THEOREM PublicationIsStable == Spec => PublishedIsStable
<1>1. Inv /\ [Next]_vars => [mClient # Null => mClient' = mClient \/ ~alive']_vars
  BY DEF Next, Step, vars, Inv, Enter, Load, LoadOrCreate, Construct, ConstructFails,
         AnswerFailed, Publish, Discard, Leave, Destroy
<1> QED BY Invariance, <1>1, PTL DEF Spec, PublishedIsStable

(* The initial states map to initial states of the create-once promise.    *)
LEMMA InitImplements == Init => Abstract!Init
BY DEF Init, Abstract!Init

(* Every step is a step of CreateOnce, or a stutter.                       *)
LEMMA StepImplements == Inv /\ [Next]_vars => [Abstract!Next]_(Abstract!vars)
<1> SUFFICES ASSUME Inv, [Next]_vars PROVE [Abstract!Next]_(Abstract!vars)
  OBVIOUS
<1> DEFINE ans == [t \in Threads |->
                     IF pc[t] \in {"idle", "using"} THEN got[t] ELSE Waiting]
<1> USE LpClientAssumption DEF Inv, TypeOK
<1>0. TypeOK' BY NextInv DEF Inv
<1>1. ASSUME NEW t \in Threads, Step(t) PROVE [Abstract!Next]_(Abstract!vars)
  <2>1. CASE Enter(t)
    <3>1. ans[t] # Waiting /\ ans' = [ans EXCEPT ![t] = Waiting] /\ mClient' = mClient
      BY <2>1 DEF Enter
    <3> QED BY <3>1 DEF Abstract!Next, Abstract!Ask
  <2>2. CASE Load(t) /\ mClient # Null
    <3>1. ans[t] = Waiting /\ ans' = [ans EXCEPT ![t] = mClient] /\ mClient' = mClient
      BY <2>2 DEF Load, LoadOrCreate
    <3> QED BY <3>1 DEF Abstract!Next, Abstract!Answer
  <2>3. CASE Load(t) /\ mClient = Null
    <3>1. ans' = ans /\ mClient' = mClient
      BY <2>3 DEF Load, LoadOrCreate
    <3> QED BY <3>1 DEF Abstract!vars
  <2>4. CASE Construct(t) \/ ConstructFails(t)
    <3>1. ans' = ans /\ mClient' = mClient
      BY <2>4 DEF Construct, ConstructFails, CanConstruct
    <3> QED BY <3>1 DEF Abstract!vars
  <2>5. CASE AnswerFailed(t)
    <3>1. ans[t] = Waiting /\ ans' = [ans EXCEPT ![t] = mClient] /\ mClient' = mClient
      BY <2>5 DEF AnswerFailed
    <3> QED BY <3>1 DEF Abstract!Next, Abstract!Answer
  <2>6. CASE Publish(t) /\ mClient = Null
    <3>1. /\ ans[t] = Waiting /\ ans' = [ans EXCEPT ![t] = fresh[t]]
          /\ fresh[t] \in Clients /\ mClient' = fresh[t]
      BY <2>6 DEF Publish, FreshOwned
    <3> QED BY <2>6, <3>1 DEF Abstract!Next, Abstract!Choose
  <2>7. CASE Publish(t) /\ mClient # Null
    <3>1. ans' = ans /\ mClient' = mClient
      BY <2>7 DEF Publish
    <3> QED BY <3>1 DEF Abstract!vars
  <2>8. CASE Discard(t)
    <3>1. ans[t] = Waiting /\ ans' = [ans EXCEPT ![t] = mClient] /\ mClient' = mClient
      BY <2>8 DEF Discard
    <3> QED BY <3>1 DEF Abstract!Next, Abstract!Answer
  <2>9. CASE Leave(t)
    <3>1. ans' = ans /\ mClient' = mClient
      BY <2>9 DEF Leave
    <3> QED BY <3>1 DEF Abstract!vars
  <2> QED BY <1>1, <2>1, <2>2, <2>3, <2>4, <2>5, <2>6, <2>7, <2>8, <2>9 DEF Step
<1>2. CASE Destroy
  <2>1. \A t \in Threads : ans[t] # Waiting
    BY <1>2 DEF Destroy
  <2>2. mClient' = Null /\ ans' = [t \in Threads |-> Null]
    BY <1>2 DEF Destroy
  <2> QED BY <2>1, <2>2 DEF Abstract!Next, Abstract!Close
<1>3. CASE UNCHANGED vars
  BY <1>3 DEF vars, Abstract!vars
<1> QED BY <1>1, <1>2, <1>3 DEF Next

(* ensure() implements the create-once promise of CreateOnce.              *)
THEOREM EnsureImplementsCreateOnce == Spec => ImplementsCreateOnce
BY InitImplements, StepImplements, Invariance, PTL
   DEF Spec, ImplementsCreateOnce, Abstract!Spec

(***************************************************************************)
(* Progress.  The prover does not look inside ENABLED: that the guards in  *)
(* NobodyBlocks are all that its steps wait for is TLC's to say, and a     *)
(* premise here.                                                           *)
(***************************************************************************)
(* The fairness of one thread, out of that of all.                         *)
LEMMA FairToThread ==
    ASSUME NEW t \in Threads
    PROVE  FairSpec => []Inv /\ [][Next]_vars /\ ThreadFairness(t)
<1>1. FairSpec => Spec /\ Fairness BY DEF FairSpec
<1>2. Fairness => ThreadFairness(t) BY DEF Fairness
<1>3. Spec => [][Next]_vars BY PTL DEF Spec
<1> QED BY <1>1, <1>2, <1>3, Invariance, PTL

(* Where the steps of a thread leave it, and that no other thread moves it.*)
LEMMA Positions ==
    ASSUME NEW t \in Threads, Inv, [Next]_vars
    PROVE  /\ pc[t] = "load" => pc'[t] \in {"load", "create", "using"}
           /\ pc[t] = "create" => pc'[t] \in {"create", "publish", "failed"}
           /\ pc[t] = "failed" => pc'[t] \in {"failed", "using"}
           /\ pc[t] = "publish" => pc'[t] \in {"publish", "lost", "using"}
           /\ pc[t] = "lost" => pc'[t] \in {"lost", "using"}
           /\ pc[t] = "using" => pc'[t] \in {"using", "idle"}
<1> USE DEF Inv, TypeOK
<1>1. ASSUME NEW u \in Threads, Step(u)
      PROVE  \/ pc' = pc
             \/ /\ pc[u] = "idle" /\ pc' = [pc EXCEPT ![u] = "load"]
             \/ /\ pc[u] = "load" /\ \/ pc' = [pc EXCEPT ![u] = "create"]
                                     \/ pc' = [pc EXCEPT ![u] = "using"]
             \/ /\ pc[u] = "create" /\ \/ pc' = [pc EXCEPT ![u] = "publish"]
                                       \/ pc' = [pc EXCEPT ![u] = "failed"]
             \/ /\ pc[u] = "publish" /\ \/ pc' = [pc EXCEPT ![u] = "lost"]
                                        \/ pc' = [pc EXCEPT ![u] = "using"]
             \/ /\ pc[u] \in {"failed", "lost"} /\ pc' = [pc EXCEPT ![u] = "using"]
             \/ /\ pc[u] = "using" /\ pc' = [pc EXCEPT ![u] = "idle"]
  BY <1>1 DEF Step, Enter, Load, LoadOrCreate, Construct, ConstructFails, CanConstruct,
              AnswerFailed, Publish, Discard, Leave
<1>2. CASE \E u \in Threads : Step(u) BY <1>1, <1>2
<1>3. CASE Destroy BY <1>3 DEF Destroy
<1>4. CASE UNCHANGED vars BY <1>4 DEF vars
<1> QED BY <1>2, <1>3, <1>4 DEF Next

(* Apart from the construction a thread needs nothing but its own turn.    *)
LEMMA OwnTurn ==
    ASSUME NEW t \in Threads
    PROVE  FairSpec /\ []NobodyBlocks =>
               /\ pc[t] = "load" ~> pc[t] = "create" \/ pc[t] = "using"
               /\ pc[t] = "failed" \/ pc[t] = "publish" \/ pc[t] = "lost" ~> pc[t] = "using"
               /\ pc[t] = "using" ~> pc[t] = "idle"
<1> DEFINE Ended == AnswerFailed(t) \/ Publish(t) \/ Discard(t)
<1>1. Inv /\ [Next]_vars =>
          /\ pc[t] = "load" => (pc[t] = "load" \/ pc[t] = "create" \/ pc[t] = "using")'
          /\ pc[t] = "failed" => (pc[t] = "failed" \/ pc[t] = "using")'
          /\ pc[t] = "publish" => (pc[t] = "publish" \/ pc[t] = "lost" \/ pc[t] = "using")'
          /\ pc[t] = "lost" => (pc[t] = "lost" \/ pc[t] = "using")'
          /\ pc[t] = "using" => (pc[t] = "using" \/ pc[t] = "idle")'
  BY Positions
<1>2. Inv /\ <<Load(t)>>_vars => (pc[t] = "create" \/ pc[t] = "using")'
  BY DEF Load, LoadOrCreate, Inv, TypeOK
<1>3. Inv /\ <<Ended>>_vars =>
          /\ pc[t] = "publish" => (pc[t] = "lost" \/ pc[t] = "using")'
          /\ pc[t] \in {"failed", "lost"} => (pc[t] = "using")'
  BY DEF AnswerFailed, Publish, Discard, Inv, TypeOK
<1>4. Inv /\ <<Leave(t)>>_vars => (pc[t] = "idle")'
  BY DEF Leave, Inv, TypeOK
<1>5. NobodyBlocks =>
          /\ pc[t] = "load" => ENABLED <<Load(t)>>_vars
          /\ pc[t] = "failed" \/ pc[t] = "publish" \/ pc[t] = "lost" => ENABLED <<Ended>>_vars
          /\ pc[t] = "using" => ENABLED <<Leave(t)>>_vars
  BY DEF NobodyBlocks
<1>6. pc[t] = "failed" \/ pc[t] = "lost" => pc[t] \in {"failed", "lost"} OBVIOUS
<1> QED BY <1>1, <1>2, <1>3, <1>4, <1>5, <1>6, FairToThread, PTL DEF ThreadFairness

(* A construction that can run again and again is run.                     *)
LEMMA Constructs ==
    ASSUME NEW t \in Threads
    PROVE  FairSpec /\ []NobodyBlocks =>
               ([]<>(pc[t] = "create" => CanConstruct(t)) =>
                    (pc[t] = "create" ~> pc[t] = "failed" \/ pc[t] = "publish"))
<1> DEFINE Build == Construct(t) \/ ConstructFails(t)
<1>1. Inv /\ [Next]_vars /\ pc[t] = "create" =>
          (pc[t] = "create" \/ pc[t] = "failed" \/ pc[t] = "publish")'
  BY Positions
<1>2. Inv /\ <<Build>>_vars => (pc[t] = "failed" \/ pc[t] = "publish")'
  BY DEF Construct, ConstructFails, CanConstruct, Inv, TypeOK
<1>3. NobodyBlocks => (CanConstruct(t) => ENABLED <<Build>>_vars)
  BY DEF NobodyBlocks
<1> QED BY <1>1, <1>2, <1>3, FairToThread, PTL DEF ThreadFairness

(* The main thread comes back to its event loop again and again.           *)
LEMMA MainComesBack == FairSpec /\ []NobodyBlocks => []<>(pc[Main] = "idle")
<1> PICK t \in Threads : t = Main BY LpClientAssumption
<1>1. pc[t] = "create" => CanConstruct(t) BY DEF CanConstruct
<1>2. FairSpec /\ []NobodyBlocks =>
          ([]<>(pc[t] = "create" => CanConstruct(t)) =>
              (pc[t] = "create" ~> pc[t] = "failed" \/ pc[t] = "publish"))
  BY Constructs
<1>3. FairSpec /\ []NobodyBlocks =>
          /\ pc[t] = "load" ~> pc[t] = "create" \/ pc[t] = "using"
          /\ pc[t] = "failed" \/ pc[t] = "publish" \/ pc[t] = "lost" ~> pc[t] = "using"
          /\ pc[t] = "using" ~> pc[t] = "idle"
  BY OwnTurn
<1>4. FairSpec => []Inv BY FairToThread, PTL
<1>5. Inv => \/ pc[t] = "idle" \/ pc[t] = "load" \/ pc[t] = "create"
             \/ pc[t] = "failed" \/ pc[t] = "publish" \/ pc[t] = "lost"
             \/ pc[t] = "using"
  BY DEF Inv, TypeOK
<1>6. pc[t] = "idle" => pc[Main] = "idle" OBVIOUS
<1> QED BY <1>1, <1>2, <1>3, <1>4, <1>5, <1>6, PTL

(* Every call through ensure() returns, over either kind of transport: a   *)
(* worker whose construction needs the main thread gets it, since that one *)
(* waits for nobody when it is in ensure() itself.                         *)
THEOREM EnsureAlwaysReturns == FairSpec /\ []NobodyBlocks => EnsureReturns
<1>1. ASSUME NEW t \in Threads
      PROVE  FairSpec /\ []NobodyBlocks => (pc[t] = "load" ~> pc[t] = "using")
  <2>1. pc[Main] = "idle" => (pc[t] = "create" => CanConstruct(t))
    BY DEF CanConstruct
  <2>2. FairSpec /\ []NobodyBlocks => []<>(pc[t] = "create" => CanConstruct(t))
    BY <2>1, MainComesBack, PTL
  <2>3. FairSpec /\ []NobodyBlocks =>
            (pc[t] = "create" ~> pc[t] = "failed" \/ pc[t] = "publish")
    BY <1>1, <2>2, Constructs
  <2>4. FairSpec /\ []NobodyBlocks =>
            /\ pc[t] = "load" ~> pc[t] = "create" \/ pc[t] = "using"
            /\ pc[t] = "failed" \/ pc[t] = "publish" \/ pc[t] = "lost" ~> pc[t] = "using"
    BY <1>1, OwnTurn
  <2> QED BY <2>3, <2>4, PTL
<1> QED BY <1>1 DEF EnsureReturns
=============================================================================
