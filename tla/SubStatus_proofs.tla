--------------------------- MODULE SubStatus_proofs ---------------------------
(***************************************************************************)
(* Machine-checked theorems about SubStatus, for any number of installing  *)
(* threads, watchers, installs and establishments.  Two facts carry them:  *)
(* what is still on its way to the installed watcher ends with the         *)
(* target's current transition, and an arm on its way is followed by the   *)
(* loss that ended it.                                                     *)
(***************************************************************************)
EXTENDS SubStatus, TLAPS

Notices == States \X (1 .. MaxGeneration)

(* An install has put its watcher in place and not yet registered: the     *)
(* runtime is about to replay.                                             *)
Pending == \E t \in Threads : pc[t] = "register"

(* The Loop's place in the trampoline: it works on the head of the queue,  *)
(* and calls only for a notice with a name.                                *)
Stages ==
    /\ stage # "idle" => queue # <<>>
    /\ stage \in {"call", "inside"} => copied \in Watchers
    /\ stage = "call" => Notice[1] \in Known

(* Nothing is delivered, and nobody told, before the first registration;   *)
(* a rearm is posted only for a target that has been armed.                *)
Registration ==
    /\ revive => target # None
    /\ status # None => registered \/ Pending
    /\ ~registered => queue = <<>> /\ \A w \in Watchers : told[w] = None

(* The watcher knows where the target is, if that has a name.              *)
Current == target[1] \in Known => told[status] = target

(* What is on its way to the installed watcher ends with the target's      *)
(* current transition, or a replay of that is about to be asked for.       *)
Promised ==
    status # None /\ target # None =>
        \/ Pending
        \/ queue = <<>> /\ Current
        \/ /\ queue # <<>> /\ queue[Len(queue)] = target
           /\ \/ Len(queue) > 1
              \/ stage \in {"idle", "copy"}
              \/ copied = status /\ (stage = "call" \/ Current)

(* The loss of the target's present establishment, at place i.             *)
LossAt(i) == queue[i] = <<"Lost", target[2]>>

(* An arm that is over is followed in the queue by the loss that ended it. *)
InOrder ==
    target # None /\ target[1] # "Armed" =>
        \A i \in 1 .. Len(queue) :
            queue[i] = <<"Armed", target[2]>> => \E j \in (i + 1) .. Len(queue) : LossAt(j)

(* Place i of the queue is still going to be told to the installed watcher.*)
ToCome(i) ==
    i = 1 => stage \in {"idle", "copy"} \/ (stage = "call" /\ copied = status)

(* A watcher told of an arm that is over is going to be told of its loss.  *)
Followed ==
    /\ status # None /\ target # None /\ target[1] # "Armed"
    /\ told[status] = <<"Armed", target[2]>>
    => \E i \in 1 .. Len(queue) : ToCome(i) /\ LossAt(i)

Typed == TypeOK /\ queue \in Seq(Notices)

IInv == Typed /\ Stages /\ Registration /\ Promised /\ InOrder /\ Followed

(***************************************************************************)
(* Sequences and notices.                                                  *)
(***************************************************************************)
(* Appending adds one place at the end.                                    *)
LEMMA Appended ==
    ASSUME NEW q \in Seq(Notices), NEW n \in Notices
    PROVE  /\ Append(q, n) \in Seq(Notices) /\ Append(q, n) # <<>>
           /\ Len(Append(q, n)) = Len(q) + 1 /\ Len(q) \in Nat
           /\ Append(q, n)[Len(q) + 1] = n
           /\ \A i \in 1 .. Len(q) : Append(q, n)[i] = q[i]
OBVIOUS

(* Taking the head off moves the places down by one.                       *)
LEMMA Shifted ==
    ASSUME NEW q \in Seq(Notices), q # <<>>
    PROVE  /\ Tail(q) \in Seq(Notices) /\ Len(q) \in Nat \ {0}
           /\ Head(q) = q[1] /\ Head(q) \in Notices
           /\ Len(Tail(q)) = Len(q) - 1
           /\ \A i \in 1 .. (Len(q) - 1) : Tail(q)[i] = q[i + 1]
           /\ Tail(q) = <<>> <=> Len(q) = 1
<1>1. Len(q) \in Nat \ {0} /\ Head(q) = q[1] /\ q[1] \in Notices
  OBVIOUS
<1>2. Tail(q) \in Seq(Notices) /\ Len(Tail(q)) = Len(q) - 1
  OBVIOUS
<1>3. \A i \in 1 .. (Len(q) - 1) : Tail(q)[i] = q[i + 1]
  OBVIOUS
<1>4. Tail(q) = <<>> <=> Len(Tail(q)) = 0
  BY <1>2
<1>5. Len(Tail(q)) = 0 <=> Len(q) = 1
  BY <1>1, <1>2
<1> QED BY <1>1, <1>2, <1>3, <1>4, <1>5

(* No notice is None, and a transition that is not None is a notice.       *)
LEMMA NoticesAreSome ==
    /\ None \notin Notices
    /\ \A n \in Transitions : n # None => n \in Notices
    /\ \A n \in Notices : n \in Transitions /\ n[1] \in States /\ n[2] \in 1 .. MaxGeneration
    /\ \A n \in Notices : n = <<n[1], n[2]>>
    /\ \A n \in Notices : Named(n) = None <=> n[1] \notin Known
<1>1. Notices \subseteq States \X Nat
  BY SubStatusAssumption DEF Notices
<1>2. None \notin Notices
  BY <1>1, SubStatusAssumption
<1>3. \A n \in Transitions : n # None => n \in Notices
  BY DEF Transitions, Notices
<1>4. \A n \in Notices : /\ n \in Transitions /\ n[1] \in States /\ n[2] \in 1 .. MaxGeneration
                         /\ n = <<n[1], n[2]>>
  BY DEF Transitions, Notices
<1>5. \A n \in Notices : Named(n) = None <=> n[1] \notin Known
  BY <1>2 DEF Named
<1> QED BY <1>2, <1>3, <1>4, <1>5

(***************************************************************************)
(* Steps.                                                                  *)
(***************************************************************************)
core == <<status, stage, copied, told, registered, target, queue>>

(* A step that touches neither watcher nor delivery nor runtime, and       *)
(* leaves every pending registration pending.                              *)
LEMMA CoreKeeps ==
    ASSUME IInv, UNCHANGED core, Pending => Pending', revive' => target # None, TypeOK'
    PROVE  IInv'
BY DEF IInv, Typed, Stages, Registration, Promised, InOrder, Followed, LossAt, ToCome,
       Current, Notice, core

(* Beginning an install, waiting for the mutex, the policy, a rearm.       *)
LEMMA InstallKeeps ==
    ASSUME IInv, NEW t \in Threads, NEW w \in Watchers \cup {None}, Install(t, w)
    PROVE  IInv'
<1>1. TypeOK'
  BY SubStatusAssumption DEF IInv, Typed, TypeOK, Install, client, runtime
<1>2. Pending => Pending'
  BY DEF IInv, Typed, TypeOK, Install, Free, Pending
<1>3. UNCHANGED core /\ (revive' => target # None)
  BY DEF Install, core, runtime, IInv, Registration
<1> QED BY <1>1, <1>2, <1>3, CoreKeeps

LEMMA LockToStoreKeeps ==
    ASSUME IInv, NEW t \in Threads, LockToStore(t)
    PROVE  IInv'
<1>1. TypeOK'
  BY DEF IInv, Typed, TypeOK, LockToStore, client, runtime
<1>2. Pending => Pending'
  BY DEF IInv, Typed, TypeOK, LockToStore, Pending
<1>3. UNCHANGED core /\ (revive' => target # None)
  BY DEF LockToStore, core, runtime, IInv, Registration
<1> QED BY <1>1, <1>2, <1>3, CoreKeeps

LEMMA PolicyKeeps ==
    ASSUME IInv, NEW t \in Threads,
           (\E p \in {"Automatic", "Manual"} : SetRestartPolicy(t, p)) \/ Rearm(t)
    PROVE  IInv'
<1>1. TypeOK'
  BY DEF IInv, Typed, TypeOK, SetRestartPolicy, Rearm, client
<1>2. Pending => Pending'
  BY DEF SetRestartPolicy, Rearm, Pending, client
<1>3. UNCHANGED core /\ (revive' => target # None)
  BY DEF SetRestartPolicy, Rearm, core, client, IInv, Registration
<1> QED BY <1>1, <1>2, <1>3, CoreKeeps

(* The watcher is put in place, told nothing yet, its replay pending.      *)
LEMMA StoreKeeps ==
    ASSUME IInv, NEW t \in Threads, Store(t)
    PROVE  IInv'
<1>1. TypeOK'
  BY DEF IInv, Typed, TypeOK, Store, client, runtime, Transitions
<1>2. Pending'
  BY DEF IInv, Typed, TypeOK, Store, Pending
<1>3. status' # None => status' \in Watchers /\ told'[status'] = None
  BY DEF IInv, Typed, TypeOK, Store
<1>4. Typed' /\ Stages' /\ InOrder'
  BY <1>1 DEF IInv, Typed, Stages, InOrder, LossAt, Notice, Store, runtime
<1>5. Registration'
  <2>1. \A w \in Watchers : told[w] = None => told'[w] = None
    BY DEF Store
  <2> QED BY <1>2, <2>1 DEF IInv, Registration, Store, runtime
<1>6. Promised'
  BY <1>2 DEF Promised
<1>7. Followed'
  <2>1. \A n \in Transitions : n # None => None # <<"Armed", n[2]>>
    BY NoticesAreSome DEF Notices, States, Known
  <2>2. target' \in Transitions
    BY <1>1 DEF TypeOK
  <2> QED BY <1>3, <2>1, <2>2 DEF Followed
<1> QED BY <1>4, <1>5, <1>6, <1>7 DEF IInv

(* The runtime is given the trampoline and replays where the target is.    *)
LEMMA RegisterKeeps ==
    ASSUME IInv, NEW t \in Threads, Register(t)
    PROVE  IInv'
<1>1. TypeOK /\ queue \in Seq(Notices) /\ target \in Transitions
  BY DEF IInv, Typed, TypeOK
<1>2. CASE target = None
  <2>1. TypeOK'
    BY <1>1, <1>2, SubStatusAssumption DEF TypeOK, Register, Replay
  <2> QED BY <1>2, <2>1 DEF IInv, Typed, Stages, Registration, Promised, InOrder, Followed, LossAt,
              Register, Replay, Notice
<1>3. CASE target # None
  <2>1. target \in Notices
    BY <1>1, <1>3, NoticesAreSome
  <2>2. queue' = Append(queue, target)
    BY <1>3 DEF Register, Replay
  <2>3. /\ queue' \in Seq(Notices) /\ queue' # <<>> /\ Len(queue') = Len(queue) + 1
        /\ Len(queue) \in Nat /\ queue'[Len(queue) + 1] = target
        /\ \A i \in 1 .. Len(queue) : queue'[i] = queue[i]
    BY <1>1, <2>1, <2>2, Appended
  <2>4. UNCHANGED <<status, mutex, installs, stage, copied, told, target, policy, revive>> /\ registered'
    BY DEF Register
  <2>5. Seq(Notices) \subseteq Seq(Transitions)
    BY NoticesAreSome
  <2>6. Typed'
    BY <1>1, <2>3, <2>4, <2>5, SubStatusAssumption DEF Typed, TypeOK, Register
  <2>7. Stages'
    <3>1. stage # "idle" => queue # <<>> /\ Head(queue') = Head(queue)
      BY <1>1, <2>1, <2>2 DEF IInv, Stages
    <3> QED BY <2>3, <2>4, <3>1 DEF IInv, Stages, Notice
  <2>8. Registration'
    BY <2>4 DEF IInv, Registration
  <2>9. Promised'
    <3>1. Len(queue') > 1 \/ stage' = "idle"
      BY <1>1, <2>3, <2>4 DEF IInv, Stages
    <3> QED BY <2>3, <2>4, <3>1 DEF Promised
  <2>10. InOrder'
    <3> SUFFICES ASSUME target[1] # "Armed", NEW i \in 1 .. Len(queue'),
                        queue'[i] = <<"Armed", target[2]>>
                 PROVE  \E j \in (i + 1) .. Len(queue') : queue'[j] = <<"Lost", target[2]>>
      BY <2>4 DEF InOrder, LossAt
    <3>1. i \in 1 .. Len(queue) /\ queue[i] = <<"Armed", target[2]>>
      BY <2>1, <2>3
    <3>2. PICK j \in (i + 1) .. Len(queue) : queue[j] = <<"Lost", target[2]>>
      BY <1>3, <3>1 DEF IInv, InOrder, LossAt
    <3> QED BY <2>3, <3>1, <3>2
  <2>11. Followed'
    BY <2>3, <2>4 DEF IInv, Followed, LossAt, ToCome
  <2> QED BY <2>6, <2>7, <2>8, <2>9, <2>10, <2>11 DEF IInv
<1> QED BY <1>2, <1>3

(* The trampoline takes the mutex.                                         *)
LEMMA DeliverKeeps ==
    ASSUME IInv, Deliver
    PROVE  IInv'
<1>1. Typed'
  BY DEF IInv, Typed, TypeOK, Deliver, Threads, runtime
<1> QED BY <1>1 DEF IInv, Stages, Registration, Promised, InOrder, Followed, LossAt, ToCome, Current,
            Pending, Notice, Deliver, runtime

(* Taking a notice off the queue keeps the order of the others.            *)
LEMMA FinishKeepsOrder ==
    ASSUME IInv, queue # <<>>, Finish, target' = target
    PROVE  InOrder'
<1>1. queue \in Seq(Notices) /\ queue' = Tail(queue)
  BY DEF IInv, Typed, Finish
<1>2. /\ Len(queue) \in Nat \ {0} /\ Len(queue') = Len(queue) - 1
      /\ \A i \in 1 .. (Len(queue) - 1) : queue'[i] = queue[i + 1]
  BY <1>1, Shifted
<1> SUFFICES ASSUME target # None, target[1] # "Armed", NEW i \in 1 .. Len(queue'),
                    queue'[i] = <<"Armed", target[2]>>
             PROVE  \E j \in (i + 1) .. Len(queue') : queue'[j] = <<"Lost", target[2]>>
  BY DEF InOrder, LossAt
<1>3. i + 1 \in 1 .. Len(queue) /\ queue[i + 1] = <<"Armed", target[2]>>
  BY <1>2
<1>4. PICK j \in ((i + 1) + 1) .. Len(queue) : queue[j] = <<"Lost", target[2]>>
  <2>1. \A n \in 1 .. Len(queue) : queue[n] = <<"Armed", target[2]>> =>
           \E j \in (n + 1) .. Len(queue) : queue[j] = <<"Lost", target[2]>>
    BY DEF IInv, InOrder, LossAt
  <2> QED BY <1>3, <2>1
<1>5. j \in Nat /\ i \in Nat /\ j >= i + 2 /\ j <= Len(queue)
  BY <1>2, <1>4
<1>6. j - 1 \in (i + 1) .. Len(queue') /\ j - 1 \in 1 .. (Len(queue) - 1) /\ (j - 1) + 1 = j
  BY <1>2, <1>5
<1>7. queue'[j - 1] = queue[j]
  BY <1>2, <1>6
<1> QED BY <1>4, <1>6, <1>7

(* A place after the head is told to the watcher that is then installed.   *)
LEMMA FinishKeepsFollowed ==
    ASSUME IInv, queue # <<>>, Finish, target' = target, status' = status, told' = told,
           queue[1] # <<"Lost", target[2]>> \/ ~ToCome(1)
    PROVE  Followed'
<1>1. queue \in Seq(Notices) /\ queue' = Tail(queue) /\ stage' = "idle"
  BY DEF IInv, Typed, Finish
<1>2. /\ Len(queue) \in Nat \ {0} /\ Len(queue') = Len(queue) - 1
      /\ \A i \in 1 .. (Len(queue) - 1) : queue'[i] = queue[i + 1]
  BY <1>1, Shifted
<1> SUFFICES ASSUME status # None, target # None, target[1] # "Armed",
                    told[status] = <<"Armed", target[2]>>
             PROVE  \E i \in 1 .. Len(queue') : ToCome(i)' /\ queue'[i] = <<"Lost", target[2]>>
  BY DEF Followed, LossAt
<1>3. PICK i \in 1 .. Len(queue) : ToCome(i) /\ queue[i] = <<"Lost", target[2]>>
  BY DEF IInv, Followed, LossAt
<1>4. i # 1
  BY <1>3
<1>5. i - 1 \in 1 .. Len(queue') /\ queue'[i - 1] = queue[i]
  BY <1>2, <1>3, <1>4
<1>6. ToCome(i - 1)'
  BY <1>1 DEF ToCome
<1> QED BY <1>3, <1>5, <1>6

(* The queue's end is still its end when the head goes.                    *)
LEMMA FinishKeepsEnd ==
    ASSUME IInv, queue # <<>>, Finish
    PROVE  /\ Len(queue) \in Nat \ {0} /\ (queue' = <<>> <=> Len(queue) = 1)
           /\ queue' # <<>> => Len(queue) > 1 /\ queue'[Len(queue')] = queue[Len(queue)]
           /\ queue' \in Seq(Notices) /\ queue' \in Seq(Transitions)
<1>1. queue \in Seq(Notices) /\ queue' = Tail(queue)
  BY DEF IInv, Typed, Finish
<1>2. /\ Len(queue) \in Nat \ {0} /\ Len(queue') = Len(queue) - 1 /\ queue' \in Seq(Notices)
      /\ \A i \in 1 .. (Len(queue) - 1) : queue'[i] = queue[i + 1]
      /\ queue' = <<>> <=> Len(queue) = 1
  BY <1>1, Shifted
<1>3. Seq(Notices) \subseteq Seq(Transitions)
  BY NoticesAreSome
<1> QED BY <1>2, <1>3

(* The watcher is copied out, or the notice is dropped.                    *)
LEMMA CopyOutKeeps ==
    ASSUME IInv, CopyOut
    PROVE  IInv'
<1>1. TypeOK /\ queue \in Seq(Notices) /\ stage = "copy" /\ queue # <<>>
  BY DEF IInv, Typed, Stages, CopyOut
<1>2. Notice = queue[1] /\ queue[1] \in Notices
  BY <1>1, Shifted DEF Notice
<1>3. UNCHANGED <<status, pc, arg, installs, told, registered, target, policy, revive>> /\ mutex' = None
  BY DEF CopyOut
<1>4. Pending' = Pending
  BY <1>3 DEF Pending
<1>5. CASE Dropped
  <2>1. Finish /\ UNCHANGED copied
    BY <1>5 DEF CopyOut
  <2>2. stage' = "idle"
    BY <2>1 DEF Finish
  <2>3. status = None \/ queue[1][1] \notin Known
    BY <1>2, <1>5, NoticesAreSome DEF Dropped
  <2>4. Typed'
    BY <1>1, <1>3, <2>1, <2>2, FinishKeepsEnd DEF Typed, TypeOK
  <2>5. Stages' /\ Registration'
    <3>1. queue = <<>> => queue' = <<>>
      BY <1>1
    <3>2. registered
      BY <1>1 DEF IInv, Registration
    <3> QED BY <1>3, <1>4, <2>2, <3>2 DEF IInv, Stages, Registration
  <2>6. InOrder'
    BY <1>1, <1>3, <2>1, FinishKeepsOrder
  <2>7. Followed'
    <3>1. CASE status = None
      BY <1>3, <3>1 DEF Followed
    <3>2. CASE queue[1][1] \notin Known
      <4>1. queue[1] # <<"Lost", target[2]>>
        BY <3>2 DEF Known
      <4> QED BY <1>1, <1>3, <2>1, <4>1, FinishKeepsFollowed
    <3> QED BY <2>3, <3>1, <3>2
  <2>8. Promised'
    <3> SUFFICES ASSUME status # None, target # None, ~Pending PROVE Promised'
      BY <1>3, <1>4 DEF Promised
    <3>1. queue[Len(queue)] = target
      BY <1>1 DEF IInv, Promised
    <3>2. CASE queue' = <<>>
      <4>1. target[1] \notin Known
        BY <1>1, <2>1, <2>3, <3>1, <3>2, FinishKeepsEnd
      <4> QED BY <1>3, <3>2, <4>1 DEF Promised, Current
    <3>3. CASE queue' # <<>>
      BY <1>1, <1>3, <2>1, <2>2, <3>1, <3>3, FinishKeepsEnd DEF Promised
    <3> QED BY <3>2, <3>3
  <2> QED BY <2>4, <2>5, <2>6, <2>7, <2>8 DEF IInv
<1>6. CASE ~Dropped
  <2>1. stage' = "call" /\ copied' = status /\ queue' = queue
    BY <1>6 DEF CopyOut
  <2>2. status \in Watchers /\ Notice[1] \in Known
    BY <1>1, <1>2, <1>6, NoticesAreSome DEF Dropped, TypeOK
  <2>3. Typed'
    BY <1>1, <1>3, <2>1, <2>2 DEF Typed, TypeOK
  <2>4. Stages' /\ Registration'
    BY <1>1, <1>3, <1>4, <2>1, <2>2 DEF IInv, Stages, Registration, Notice
  <2>5. InOrder'
    BY <1>3, <2>1 DEF IInv, InOrder, LossAt
  <2>6. Followed'
    BY <1>1, <1>3, <2>1 DEF IInv, Followed, LossAt, ToCome
  <2>7. Promised'
    BY <1>1, <1>3, <1>4, <2>1 DEF IInv, Promised, Current
  <2> QED BY <2>3, <2>4, <2>5, <2>6, <2>7 DEF IInv
<1> QED BY <1>5, <1>6

(* The watcher that was copied is called, installed or not.                *)
LEMMA CallKeeps ==
    ASSUME IInv, Call
    PROVE  IInv'
<1>1. TypeOK /\ queue \in Seq(Notices) /\ stage = "call" /\ queue # <<>> /\ copied \in Watchers
  BY DEF IInv, Typed, Stages, Call
<1>2. Notice = queue[1] /\ queue[1] \in Notices /\ queue[1][1] \in Known
  BY <1>1, Shifted DEF Notice, IInv, Stages
<1>3. Named(Notice) = queue[1] /\ queue[1] \in Transitions
  BY <1>2, NoticesAreSome DEF Named
<1>4. /\ UNCHANGED <<status, mutex, pc, arg, installs, copied, runtime>>
      /\ stage' = "inside" /\ told' = [told EXCEPT ![copied] = queue[1]]
  BY <1>3 DEF Call
<1>5. UNCHANGED <<registered, target, policy, revive, queue>> /\ Pending' = Pending
  BY <1>4 DEF runtime, Pending
<1>6. \A w \in Watchers : told'[w] = IF w = copied THEN queue[1] ELSE told[w]
  BY <1>1, <1>4 DEF TypeOK
<1>7. Typed'
  BY <1>1, <1>3, <1>4, <1>5 DEF Typed, TypeOK
<1>8. Stages' /\ Registration'
  BY <1>1, <1>4, <1>5 DEF IInv, Stages, Registration
<1>9. InOrder'
  BY <1>5 DEF IInv, InOrder, LossAt
<1>10. Followed'
  <2> SUFFICES ASSUME status # None, target # None, target[1] # "Armed",
                      told'[status] = <<"Armed", target[2]>>
               PROVE  \E i \in 1 .. Len(queue) : ToCome(i)' /\ queue[i] = <<"Lost", target[2]>>
    BY <1>4, <1>5 DEF Followed, LossAt
  <2>1. status \in Watchers /\ Len(queue) \in Nat \ {0}
    BY <1>1, Shifted DEF TypeOK
  <2>2. PICK i \in 2 .. Len(queue) : queue[i] = <<"Lost", target[2]>>
    <3>1. CASE status = copied
      <4>1. queue[1] = <<"Armed", target[2]>>
        BY <1>6, <2>1, <3>1
      <4>2. \A n \in 1 .. Len(queue) : queue[n] = <<"Armed", target[2]>> =>
               \E j \in (n + 1) .. Len(queue) : queue[j] = <<"Lost", target[2]>>
        BY DEF IInv, InOrder, LossAt
      <4>3. 1 \in 1 .. Len(queue) /\ 1 + 1 = 2
        BY <2>1
      <4>4. \E j \in (1 + 1) .. Len(queue) : queue[j] = <<"Lost", target[2]>>
        BY <4>1, <4>2, <4>3
      <4> QED BY <4>3, <4>4
    <3>2. CASE status # copied
      <4>1. told[status] = <<"Armed", target[2]>>
        BY <1>6, <2>1, <3>2
      <4>2. PICK i \in 1 .. Len(queue) : ToCome(i) /\ queue[i] = <<"Lost", target[2]>>
        BY <4>1 DEF IInv, Followed, LossAt
      <4>3. i # 1
        BY <1>1, <3>2, <4>2 DEF ToCome
      <4> QED BY <2>1, <4>2, <4>3
    <3> QED BY <3>1, <3>2
  <2>3. ToCome(i)' /\ i \in 1 .. Len(queue)
    BY <2>1, <2>2 DEF ToCome
  <2> QED BY <2>2, <2>3
<1>11. Promised'
  <2> SUFFICES ASSUME status # None, target # None, ~Pending PROVE Promised'
    BY <1>4, <1>5 DEF Promised
  <2>1. status \in Watchers
    BY <1>1 DEF TypeOK
  <2>2. queue[Len(queue)] = target /\ (Len(queue) > 1 \/ copied = status)
    BY <1>1 DEF IInv, Promised
  <2>3. CASE Len(queue) > 1
    BY <1>1, <1>4, <1>5, <2>2, <2>3 DEF Promised
  <2>4. CASE ~(Len(queue) > 1)
    <3>1. Len(queue) = 1
      BY <1>1, <2>4, Shifted
    <3>2. told'[status] = target
      BY <1>6, <2>1, <2>2, <2>4, <3>1
    <3> QED BY <1>1, <1>4, <1>5, <2>2, <2>4, <3>2 DEF Promised, Current
  <2> QED BY <2>3, <2>4
<1> QED BY <1>7, <1>8, <1>9, <1>10, <1>11 DEF IInv

(* The watcher has returned and the notice is done with.                   *)
LEMMA WatcherReturnsKeeps ==
    ASSUME IInv, WatcherReturns
    PROVE  IInv'
<1>1. TypeOK /\ queue \in Seq(Notices) /\ stage = "inside" /\ queue # <<>> /\ Finish
  BY DEF IInv, Typed, Stages, WatcherReturns
<1>2. UNCHANGED <<status, pc, arg, installs, told, registered, target, policy, revive>>
  BY DEF WatcherReturns
<1>3. stage' = "idle" /\ Pending' = Pending
  BY <1>1, <1>2 DEF Finish, Pending
<1>4. Typed'
  <2>1. mutex' \in Threads \cup {None}
    BY <1>1 DEF WatcherReturns, TypeOK
  <2> QED BY <1>1, <1>2, <1>3, <2>1, FinishKeepsEnd DEF Typed, TypeOK
<1>5. Stages' /\ Registration'
  <2>1. registered
    BY <1>1 DEF IInv, Registration
  <2> QED BY <1>2, <1>3, <2>1 DEF IInv, Stages, Registration
<1>6. InOrder'
  BY <1>1, <1>2, FinishKeepsOrder
<1>7. Followed'
  <2>1. ~ToCome(1)
    BY <1>1 DEF ToCome
  <2> QED BY <1>1, <1>2, <2>1, FinishKeepsFollowed
<1>8. Promised'
  <2> SUFFICES ASSUME status # None, target # None, ~Pending PROVE Promised'
    BY <1>2, <1>3 DEF Promised
  <2>1. queue[Len(queue)] = target /\ (Len(queue) > 1 \/ Current)
    BY <1>1 DEF IInv, Promised
  <2>2. CASE queue' = <<>>
    <3>1. Current
      <4>1. Len(queue) = 1
        BY <1>1, <2>2, FinishKeepsEnd
      <4> QED BY <2>1, <4>1
    <3> QED BY <1>2, <2>2, <3>1 DEF Promised, Current
  <2>3. CASE queue' # <<>>
    BY <1>1, <1>2, <1>3, <2>1, <2>3, FinishKeepsEnd DEF Promised
  <2> QED BY <2>2, <2>3
<1> QED BY <1>4, <1>5, <1>6, <1>7, <1>8 DEF IInv

(* The target makes its next transition, of an establishment known by then.*)
LEMMA BecomeKeeps ==
    ASSUME IInv, NEW s \in States, NEW g \in 1 .. MaxGeneration, Become(s, g), revive' \in BOOLEAN,
           \/ s = "Armed"
           \/ s = "Lost"
           \/ target # None /\ target[1] # "Armed" /\ target[2] = g
    PROVE  IInv'
<1>1. TypeOK /\ queue \in Seq(Notices)
  BY DEF IInv, Typed
<1>2. /\ target' = <<s, g>> /\ target' \in Notices /\ target' # None /\ target' \in Transitions
      /\ target'[1] = s /\ target'[2] = g
  BY NoticesAreSome DEF Become, Notices
<1>3. /\ UNCHANGED <<status, mutex, pc, arg, installs, stage, copied, told, registered, policy>>
      /\ Pending' = Pending
  BY DEF Become, client, Pending
<1>4. CASE ~registered
  <2>1. queue' = queue /\ queue = <<>> /\ \A w \in Watchers : told[w] = None
    BY <1>4 DEF Become, IInv, Registration
  <2>2. Typed' /\ Stages' /\ Registration'
    BY <1>1, <1>2, <1>3, <2>1 DEF Typed, TypeOK, IInv, Stages, Registration, Notice
  <2>3. Promised'
    BY <1>3, <1>4 DEF IInv, Registration, Promised
  <2>4. InOrder'
    BY <2>1 DEF InOrder
  <2>5. Followed'
    <3>1. status # None => told[status] = None
      BY <1>1, <2>1 DEF TypeOK
    <3>2. <<"Armed", g>> # None
      BY NoticesAreSome DEF Notices, States, Known
    <3> QED BY <1>2, <1>3, <3>1, <3>2 DEF Followed
  <2> QED BY <2>2, <2>3, <2>4, <2>5 DEF IInv
<1>5. CASE registered
  <2>1. queue' = Append(queue, target')
    BY <1>5 DEF Become
  <2>2. /\ queue' \in Seq(Notices) /\ queue' # <<>> /\ Len(queue') = Len(queue) + 1
        /\ Len(queue) \in Nat /\ queue'[Len(queue) + 1] = target'
        /\ \A i \in 1 .. Len(queue) : queue'[i] = queue[i]
    BY <1>1, <1>2, <2>1, Appended
  <2>3. Seq(Notices) \subseteq Seq(Transitions)
    BY NoticesAreSome
  <2>4. Typed'
    BY <1>1, <1>2, <1>3, <2>2, <2>3 DEF Typed, TypeOK
  <2>5. Stages' /\ Registration'
    <3>1. stage # "idle" => queue # <<>> /\ Head(queue') = Head(queue)
      BY <1>1, <1>2, <2>1 DEF IInv, Stages
    <3> QED BY <1>2, <1>3, <1>5, <2>2, <3>1 DEF IInv, Stages, Registration, Notice
  <2>6. Promised'
    <3>1. Len(queue') > 1 \/ stage' = "idle"
      BY <1>1, <1>3, <2>2 DEF IInv, Stages
    <3> QED BY <2>2, <3>1 DEF Promised
  <2>7. CASE s = "Armed"
    <3>1. InOrder' /\ Followed'
      BY <1>2, <2>7 DEF InOrder, Followed
    <3> QED BY <2>4, <2>5, <2>6, <3>1 DEF IInv
  <2>8. CASE s = "Lost"
    <3> PICK n \in Nat : n = Len(queue) + 1
      BY <2>2
    <3>1. queue'[n] = <<"Lost", g>> /\ n \in 1 .. Len(queue') /\ Len(queue') = n
      BY <1>2, <2>2, <2>8
    <3>2. stage # "idle" => n # 1
      BY <1>1, <2>2 DEF IInv, Stages
    <3>3. ToCome(n)'
      BY <1>3, <3>2 DEF ToCome
    <3>4. InOrder'
      <4> SUFFICES ASSUME NEW i \in 1 .. Len(queue'), queue'[i] = <<"Armed", g>>
                   PROVE  \E j \in (i + 1) .. Len(queue') : queue'[j] = <<"Lost", g>>
        BY <1>2 DEF InOrder, LossAt
      <4>1. i # n
        BY <3>1
      <4>2. n \in (i + 1) .. Len(queue')
        BY <3>1, <4>1
      <4> QED BY <3>1, <4>2
    <3>5. Followed'
      <4> SUFFICES \E i \in 1 .. Len(queue') : ToCome(i)' /\ queue'[i] = <<"Lost", g>>
        BY <1>2 DEF Followed, LossAt
      <4> QED BY <3>1, <3>3
    <3> QED BY <2>4, <2>5, <2>6, <3>4, <3>5 DEF IInv
  <2>9. CASE s # "Armed" /\ target # None /\ target[1] # "Armed" /\ target[2] = g
    <3>1. InOrder'
      <4> SUFFICES ASSUME NEW i \in 1 .. Len(queue'), queue'[i] = <<"Armed", g>>
                   PROVE  \E j \in (i + 1) .. Len(queue') : queue'[j] = <<"Lost", g>>
        BY <1>2 DEF InOrder, LossAt
      <4>1. i \in 1 .. Len(queue) /\ queue[i] = <<"Armed", g>>
        BY <1>2, <2>2, <2>9
      <4>2. \A n \in 1 .. Len(queue) : queue[n] = <<"Armed", g>> =>
               \E j \in (n + 1) .. Len(queue) : queue[j] = <<"Lost", g>>
        BY <2>9 DEF IInv, InOrder, LossAt
      <4>3. PICK j \in (i + 1) .. Len(queue) : queue[j] = <<"Lost", g>>
        BY <4>1, <4>2
      <4> QED BY <2>2, <4>1, <4>3
    <3>2. Followed'
      <4> SUFFICES ASSUME status # None, told[status] = <<"Armed", g>>
                   PROVE  \E i \in 1 .. Len(queue') : ToCome(i)' /\ queue'[i] = <<"Lost", g>>
        BY <1>2, <1>3 DEF Followed, LossAt
      <4>1. PICK i \in 1 .. Len(queue) : ToCome(i) /\ queue[i] = <<"Lost", g>>
        BY <2>9 DEF IInv, Followed, LossAt
      <4>2. ToCome(i)' /\ i \in 1 .. Len(queue') /\ queue'[i] = queue[i]
        BY <1>3, <2>2, <4>1 DEF ToCome
      <4> QED BY <4>1, <4>2
    <3> QED BY <2>4, <2>5, <2>6, <3>1, <3>2 DEF IInv
  <2> QED BY <2>7, <2>8, <2>9
<1> QED BY <1>4, <1>5

(* The runtime's transitions: an arm, a loss, or what follows a loss.      *)
LEMMA RuntimeKeeps ==
    ASSUME IInv, Runtime
    PROVE  IInv'
<1>1. /\ revive \in BOOLEAN /\ target \in Transitions /\ MaxGeneration \in Nat \ {0}
      /\ revive => target # None
      /\ target # None => target[2] \in 1 .. MaxGeneration
  BY SubStatusAssumption, NoticesAreSome DEF IInv, Typed, TypeOK, Registration
<1>2. CASE FirstArm
  BY <1>1, <1>2, BecomeKeeps DEF FirstArm, States, Known
<1>3. CASE Lose
  BY <1>1, <1>3, BecomeKeeps DEF Lose, States, Known
<1>4. CASE AfterLoss
  <2>1. CASE target[2] < MaxGeneration /\ Become("Armed", target[2] + 1)
    <3>1. target[2] + 1 \in 1 .. MaxGeneration
      BY <1>1, <1>4, <2>1 DEF AfterLoss
    <3> QED BY <1>1, <1>4, <2>1, <3>1, BecomeKeeps DEF AfterLoss, States, Known
  <2>2. ASSUME NEW s \in {"Held", "Abandoned", "Unnamed"}, Become(s, target[2]) PROVE IInv'
    BY <1>1, <1>4, <2>2, BecomeKeeps DEF AfterLoss, States, Known
  <2> QED BY <1>4, <2>1, <2>2 DEF AfterLoss
<1>5. CASE Revive
  <2>1. target[2] + 1 \in 1 .. MaxGeneration
    BY <1>1, <1>5 DEF Revive
  <2> QED BY <1>1, <1>5, <2>1, BecomeKeeps DEF Revive, States, Known
<1> QED BY <1>2, <1>3, <1>4, <1>5 DEF Runtime

(***************************************************************************)
(* The invariant.                                                          *)
(***************************************************************************)
LEMMA InitIInv == Init => IInv
<1> SUFFICES ASSUME Init PROVE IInv
  OBVIOUS
<1>1. Typed
  <2>1. queue \in Seq(Notices) /\ queue \in Seq(Transitions) /\ None \in Transitions
    BY DEF Init, Transitions
  <2>2. 0 \in 0 .. MaxInstalls
    BY SubStatusAssumption
  <2> QED BY <2>1, <2>2 DEF Init, Typed, TypeOK
<1>2. Stages /\ Registration /\ Promised /\ InOrder /\ Followed
  BY DEF Init, Stages, Registration, Promised, InOrder, Followed
<1> QED BY <1>1, <1>2 DEF IInv

LEMMA NextIInv == IInv /\ [Next]_vars => IInv'
<1> SUFFICES ASSUME IInv, [Next]_vars PROVE IInv'
  OBVIOUS
<1>1. CASE UNCHANGED vars
  BY <1>1, CoreKeeps DEF vars, client, runtime, core, Pending, IInv, Typed, TypeOK, Registration
<1>2. ASSUME NEW t \in Threads, InstallStep(t) PROVE IInv'
  BY <1>2, LockToStoreKeeps, StoreKeeps, RegisterKeeps DEF InstallStep
<1>3. CASE Trampoline
  BY <1>3, DeliverKeeps, CopyOutKeeps, CallKeeps, WatcherReturnsKeeps DEF Trampoline
<1> QED BY <1>1, <1>2, <1>3, InstallKeeps, PolicyKeeps, RuntimeKeeps DEF Next

(* The invariant holds in every behaviour.                                 *)
THEOREM StatusInvariance == Spec => []IInv
BY InitIInv, NextIInv, PTL DEF Spec

(* Type correctness, for any number of threads, watchers, installs and     *)
(* establishments.                                                         *)
THEOREM StatusTypeCorrect == Spec => []TypeOK
<1>1. IInv => TypeOK
  BY DEF IInv, Typed
<1> QED BY <1>1, StatusInvariance, PTL

(* However installs and transitions interleave, a watcher that is          *)
(* installed when nothing is in flight knows where its target is.          *)
THEOREM WatchersAreCurrent == Spec => []WatcherIsCurrent
<1>1. ASSUME IInv, Settled, status # None, target # None, target[1] \in Known
      PROVE  told[status] = target
  <2>1. ~Pending /\ queue = <<>>
    BY <1>1 DEF Settled, Pending
  <2> QED BY <1>1, <2>1 DEF IInv, Promised, Current
<1>2. IInv => WatcherIsCurrent
  BY <1>1 DEF WatcherIsCurrent
<1> QED BY <1>2, StatusInvariance, PTL

(* A target in a state this build cannot name is not believed armed: the   *)
(* watcher told of its last arm has been told of the loss after it.        *)
THEOREM ArmsAreNotFalse == Spec => []NoFalseArm
<1>1. ASSUME IInv, Settled, status # None, target # None, target[1] = "Unnamed"
      PROVE  told[status] # <<"Armed", target[2]>>
  <2>1. Len(queue) = 0
    BY <1>1 DEF Settled
  <2>2. ~ \E i \in 1 .. Len(queue) : LossAt(i)
    BY <2>1
  <2> QED BY <1>1, <2>2 DEF IInv, Followed
<1>2. IInv => NoFalseArm
  BY <1>1 DEF NoFalseArm
<1> QED BY <1>2, StatusInvariance, PTL

(* So whatever its target's state, a watcher that is installed when        *)
(* nothing is in flight is not left with a belief that is false.           *)
THEOREM WatchersAreNotMisled == Spec => []WatcherIsNotMisled
<1>1. WatcherIsCurrent /\ NoFalseArm => WatcherIsNotMisled
  BY DEF WatcherIsNotMisled
<1> QED BY <1>1, WatchersAreCurrent, ArmsAreNotFalse, PTL

(***************************************************************************)
(* Progress.  OnlyTheMutexBlocks is a premise: it says what steps wait     *)
(* for, in terms of ENABLED, which the prover does not look inside.        *)
(***************************************************************************)
(* Who holds the mutex: an installer about to store its watcher, or the    *)
(* Loop copying one out, never both.                                       *)
Held ==
    /\ \A t \in Threads : pc[t] = "store" => mutex = t
    /\ stage = "copy" => mutex = Loop
    /\ stage \in {"copy", "call"} => pc[Loop] = "idle"

LEMMA InitHeld == Init => Held
BY DEF Init, Held, Threads

LEMMA NextHeld == IInv /\ Held /\ [Next]_vars => Held'
<1> SUFFICES ASSUME IInv, Held, [Next]_vars PROVE Held'
  OBVIOUS
<1>0. TypeOK /\ Loop \in Threads /\ None \notin Threads
  BY SubStatusAssumption DEF IInv, Typed, Threads
<1> USE <1>0 DEF Held, TypeOK
<1>1. CASE UNCHANGED vars
  BY <1>1 DEF vars, client
<1>2. ASSUME NEW t \in Threads, NEW w \in Watchers \cup {None}, Install(t, w) PROVE Held'
  BY <1>2 DEF Install, Free
<1>3. ASSUME NEW t \in Threads, LockToStore(t) PROVE Held'
  BY <1>3 DEF LockToStore
<1>4. ASSUME NEW t \in Threads, Store(t) PROVE Held'
  BY <1>4 DEF Store
<1>5. ASSUME NEW t \in Threads, Register(t) PROVE Held'
  BY <1>5 DEF Register
<1>6. ASSUME NEW t \in Threads, (\E p \in {"Automatic", "Manual"} : SetRestartPolicy(t, p)) \/ Rearm(t)
      PROVE  Held'
  BY <1>6 DEF SetRestartPolicy, Rearm, client
<1>7. CASE Deliver
  BY <1>7 DEF Deliver
<1>8. CASE CopyOut
  BY <1>8 DEF CopyOut, Finish
<1>9. CASE Call
  BY <1>9 DEF Call
<1>10. CASE WatcherReturns
  BY <1>10 DEF WatcherReturns, Finish
<1>11. CASE Runtime
  BY <1>11 DEF Runtime, FirstArm, Lose, AfterLoss, Revive, Become, client
<1> QED BY <1>1, <1>2, <1>3, <1>4, <1>5, <1>6, <1>7, <1>8, <1>9, <1>10, <1>11
        DEF Next, InstallStep, Trampoline

THEOREM MutexIsHeldBriefly == Spec => []Held
BY StatusInvariance, InitHeld, NextHeld, PTL DEF Spec

(* How an install goes on: only its own thread's steps move it.            *)
LEMMA InstallMoves ==
    ASSUME NEW t \in Threads, IInv, [Next]_vars
    PROVE  /\ pc[t] = "lock" => pc'[t] \in {"lock", "store"}
           /\ pc[t] = "store" => pc'[t] \in {"store", "register"}
           /\ pc[t] = "register" => pc'[t] \in {"register", "idle"}
<1>0. TypeOK BY DEF IInv, Typed
<1>1. \/ pc' = pc
      \/ \E u \in Threads :
            \/ pc[u] = "idle" /\ pc' = [pc EXCEPT ![u] = "lock"]
            \/ pc[u] = "lock" /\ pc' = [pc EXCEPT ![u] = "store"]
            \/ pc[u] = "store" /\ pc' = [pc EXCEPT ![u] = "register"]
            \/ pc[u] = "register" /\ pc' = [pc EXCEPT ![u] = "idle"]
  <2>1. CASE UNCHANGED vars
    BY <2>1 DEF vars, client
  <2>2. ASSUME NEW u \in Threads, NEW w \in Watchers \cup {None}, Install(u, w)
        PROVE  pc[u] = "idle" /\ pc' = [pc EXCEPT ![u] = "lock"]
    BY <2>2 DEF Install, Free
  <2>3. ASSUME NEW u \in Threads, InstallStep(u)
        PROVE  \/ pc[u] = "lock" /\ pc' = [pc EXCEPT ![u] = "store"]
               \/ pc[u] = "store" /\ pc' = [pc EXCEPT ![u] = "register"]
               \/ pc[u] = "register" /\ pc' = [pc EXCEPT ![u] = "idle"]
    BY <2>3 DEF InstallStep, LockToStore, Store, Register
  <2>4. ASSUME NEW u \in Threads, (\E p \in {"Automatic", "Manual"} : SetRestartPolicy(u, p)) \/ Rearm(u)
        PROVE  pc' = pc
    BY <2>4 DEF SetRestartPolicy, Rearm, client
  <2>5. CASE Trampoline
    BY <2>5 DEF Trampoline, Deliver, CopyOut, Call, WatcherReturns
  <2>6. CASE Runtime
    BY <2>6 DEF Runtime, FirstArm, Lose, AfterLoss, Revive, Become, client
  <2> QED BY <2>1, <2>2, <2>3, <2>4, <2>5, <2>6 DEF Next
<1> QED BY <1>0, <1>1 DEF TypeOK

(* How a delivery goes on.                                                 *)
LEMMA DeliveryMoves ==
    ASSUME IInv, [Next]_vars
    PROVE  /\ stage = "copy" => stage' \in {"copy", "idle", "call"}
           /\ stage = "call" => stage' \in {"call", "inside"}
           /\ stage = "inside" => stage' \in {"inside", "idle"}
<1>1. CASE UNCHANGED vars
  BY <1>1 DEF vars, client
<1>2. ASSUME NEW t \in Threads, NEW w \in Watchers \cup {None}, Install(t, w) PROVE stage' = stage
  BY <1>2 DEF Install
<1>3. ASSUME NEW t \in Threads, InstallStep(t) PROVE stage' = stage
  BY <1>3 DEF InstallStep, LockToStore, Store, Register
<1>4. ASSUME NEW t \in Threads, (\E p \in {"Automatic", "Manual"} : SetRestartPolicy(t, p)) \/ Rearm(t)
      PROVE  stage' = stage
  BY <1>4 DEF SetRestartPolicy, Rearm, client
<1>5. CASE Trampoline
  BY <1>5 DEF Trampoline, Deliver, CopyOut, Call, WatcherReturns, Finish
<1>6. CASE Runtime
  BY <1>6 DEF Runtime, FirstArm, Lose, AfterLoss, Revive, Become, client
<1> QED BY <1>1, <1>2, <1>3, <1>4, <1>5, <1>6 DEF Next

(* What a fair behaviour has in every state.                               *)
LEMMA FairRuns ==
    FairSpec => [](IInv /\ Held) /\ [][Next]_vars /\ MutexFairness /\ LoopFairness
<1>1. FairSpec => Spec /\ MutexFairness /\ LoopFairness BY DEF FairSpec, Fairness
<1> QED BY <1>1, StatusInvariance, MutexIsHeldBriefly, PTL DEF Spec

(* ... and what it owes one thread.                                        *)
LEMMA FairToThread == ASSUME NEW t \in Threads PROVE FairSpec => ThreadFairness(t)
BY DEF FairSpec, Fairness

(* The mutex comes free again and again.                                   *)
LEMMA MutexComesFree == FairSpec /\ []OnlyTheMutexBlocks => []<>(mutex = None)
<1>1. <<Unlock>>_vars => (mutex = None)'
  BY DEF Unlock, Store, CopyOut
<1>2. OnlyTheMutexBlocks => (mutex = None \/ ENABLED <<Unlock>>_vars)
  BY DEF OnlyTheMutexBlocks
<1> QED BY <1>1, <1>2, FairRuns, PTL DEF MutexFairness

(* A call of onSubscriptionStatus returns, from any thread.                *)
LEMMA InstallReturns ==
    ASSUME NEW t \in Threads
    PROVE  FairSpec /\ []OnlyTheMutexBlocks => (pc[t] # "idle" ~> pc[t] = "idle")
<1>1. IInv => \/ pc[t] = "idle" \/ pc[t] = "lock" \/ pc[t] = "store" \/ pc[t] = "register"
  BY DEF IInv, Typed, TypeOK
<1>2. IInv /\ [Next]_vars =>
          /\ pc[t] = "lock" => (pc[t] = "lock" \/ pc[t] = "store")'
          /\ pc[t] = "store" => (pc[t] = "store" \/ pc[t] = "register")'
          /\ pc[t] = "register" => (pc[t] = "register" \/ pc[t] = "idle")'
  BY InstallMoves
<1>3. IInv /\ <<LockToStore(t)>>_vars => (pc[t] = "store")'
  BY DEF LockToStore, IInv, Typed, TypeOK
<1>4. IInv /\ Held /\ pc[t] = "store" /\ <<Unlock>>_vars => (pc[t] = "register")'
  <2> SUFFICES ASSUME IInv, Held, pc[t] = "store", Unlock PROVE pc'[t] = "register"
    OBVIOUS
  <2>1. ~CopyOut
    BY DEF CopyOut, Held
  <2>2. PICK u \in Threads : Store(u)
    BY <2>1 DEF Unlock
  <2>3. u = t
    BY <2>2 DEF Store, Held
  <2> QED BY <2>2, <2>3 DEF Store, IInv, Typed, TypeOK
<1>5. IInv /\ <<Register(t)>>_vars => (pc[t] = "idle")'
  BY DEF Register, IInv, Typed, TypeOK
<1>6. Held /\ OnlyTheMutexBlocks =>
          /\ pc[t] = "lock" /\ mutex = None => ENABLED <<LockToStore(t)>>_vars
          /\ pc[t] = "store" => ENABLED <<Unlock>>_vars
          /\ pc[t] = "register" => ENABLED <<Register(t)>>_vars
  BY SubStatusAssumption DEF OnlyTheMutexBlocks, Held
<1> QED BY <1>1, <1>2, <1>3, <1>4, <1>5, <1>6, FairRuns, FairToThread, MutexComesFree, PTL
        DEF ThreadFairness, MutexFairness

(* A call of onSubscriptionStatus returns and a delivery ends, however the *)
(* two contend for m_statusMu, and also when watchers install others from  *)
(* inside a delivery.                                                      *)
THEOREM CallsAlwaysReturn == FairSpec /\ []OnlyTheMutexBlocks => CallsReturn
<1>1. FairSpec /\ []OnlyTheMutexBlocks => \A t \in Threads : pc[t] # "idle" ~> pc[t] = "idle"
  <2>1. ASSUME NEW t \in Threads
        PROVE  FairSpec /\ []OnlyTheMutexBlocks => (pc[t] # "idle" ~> pc[t] = "idle")
    BY <2>1, InstallReturns
  <2> QED BY <2>1
<1>2. FairSpec /\ []OnlyTheMutexBlocks => (stage = "copy" ~> stage = "idle")
  <2> PICK t \in Threads : t = Loop
    BY DEF Threads
  <2>1. IInv /\ [Next]_vars =>
            /\ stage = "copy" => (stage = "copy" \/ stage = "idle" \/ stage = "call")'
            /\ stage = "call" => (stage = "call" \/ stage = "inside")'
            /\ stage = "inside" => (stage = "inside" \/ stage = "idle")'
    BY DeliveryMoves
  <2>2. IInv /\ Held /\ stage = "copy" /\ <<Unlock>>_vars => (stage = "idle" \/ stage = "call")'
    <3> SUFFICES ASSUME IInv, Held, stage = "copy", Unlock PROVE stage' \in {"idle", "call"}
      OBVIOUS
    <3>1. ASSUME NEW u \in Threads PROVE ~Store(u)
      BY DEF Store, Held
    <3>2. CopyOut
      BY <3>1 DEF Unlock
    <3> QED BY <3>2 DEF CopyOut, Finish
  <2>3. <<Call>>_vars => (stage = "inside")'
    BY DEF Call
  <2>4. <<WatcherReturns>>_vars => (stage = "idle")'
    BY DEF WatcherReturns, Finish
  <2>5. Held /\ OnlyTheMutexBlocks =>
            /\ stage = "copy" => ENABLED <<Unlock>>_vars
            /\ stage = "call" => ENABLED <<Call>>_vars
            /\ stage = "inside" /\ pc[t] = "idle" => ENABLED <<WatcherReturns>>_vars
    BY SubStatusAssumption DEF OnlyTheMutexBlocks, Held, Threads
  <2>6. FairSpec /\ []OnlyTheMutexBlocks => (pc[t] # "idle" ~> pc[t] = "idle")
    BY InstallReturns
  <2>7. pc[t] = "idle" \/ pc[t] # "idle"
    OBVIOUS
  <2> QED BY <2>1, <2>2, <2>3, <2>4, <2>5, <2>6, <2>7, FairRuns, PTL
      DEF MutexFairness, LoopFairness
<1> QED BY <1>1, <1>2 DEF CallsReturn
=============================================================================
