--------------------------- MODULE LpInvoke_proofs ---------------------------
(***************************************************************************)
(* Machine-checked theorems about LpInvoke, for any number of concurrent   *)
(* calls.  The invariant follows one call through its stages and says of   *)
(* each what the ABI owes, where the box is and what has been told.        *)
(***************************************************************************)
EXTENDS LpInvoke, TLAPS

(* The strings of a blocking reply.                                        *)
Handed(res, errText) == {<<"res", res>>, <<"err", errText>>} \ ({"res", "err"} \X {"absent"})

(* Before the ABI is asked nothing exists that could be lost.              *)
Untouched(k) == abi[k] = "none" /\ box[k] = "none" /\ fired[k] = 0 /\ strings[k] = {}

(* The ABI has the box: it is there until the callback has returned, and   *)
(* the completion is the callback's.                                       *)
HandedOver(k) ==
    /\ strings[k] = {}
    /\ \/ abi[k] \in {"deciding", "owes"} /\ box[k] = "live" /\ fired[k] = 0
       \/ abi[k] = "calling" /\ box[k] = "live" /\ fired[k] = 1
       \/ abi[k] = "settled" /\ box[k] = "freed" /\ fired[k] = 1

(* The ABI has refused and nobody has dealt with it yet.                   *)
TurnedDown(k) ==
    strings[k] = {} /\ abi[k] = "refused" /\ box[k] = "live" /\ fired[k] = 0

(* The reply of a blocking call waits to be decoded.                       *)
Answered(k) ==
    /\ abi[k] = "settled" /\ box[k] = "none" /\ fired[k] = 0
    /\ \E ok \in BOOLEAN, res, errText \in Bodies :
          strings[k] = Handed(res, errText) /\ truth[k] = WhatHappened(ok, res)

(* The arguments threw: nothing was called, and what was boxed is lost.    *)
Unsent(k) ==
    /\ abi[k] = "none" /\ fired[k] = 0 /\ strings[k] = {}
    /\ op[k] \in Ops /\ box[k] = (IF op[k] \in Blocking THEN "none" ELSE "live")
    /\ truth[k] = "unsent" /\ outcome[k].err = "thrown"

(* The function itself made the completion, or there was none to make.     *)
Settled(k) ==
    /\ strings[k] = {}
    /\ \/ op[k] = "none" /\ abi[k] = "none" /\ box[k] = "none" /\ fired[k] = 0
       \/ op[k] # "none" /\ abi[k] = "none" /\ box[k] = "none" /\ fired[k] = 1
       \/ op[k] \in Blocking /\ abi[k] = "settled" /\ box[k] = "none" /\ fired[k] = 1
       \/ op[k] = "asyncResult" /\ abi[k] = "refused" /\ box[k] = "freed" /\ fired[k] = 1
       \/ op[k] = "async" /\ TurnedDown(k)
       \/ /\ op[k] \in {"async", "asyncResult"} /\ HandedOver(k)
          /\ abi[k] \in {"owes", "calling", "settled"}

(* A call at every stage of its life.                                      *)
Life(k) ==
    \/ stage[k] = "idle" /\ op[k] = "none" /\ Untouched(k)
    \/ stage[k] = "ensure" /\ op[k] \in Ops /\ Untouched(k)
    \/ /\ stage[k] = "inABI" /\ op[k] \in {"async", "asyncResult"}
       /\ HandedOver(k) \/ TurnedDown(k)
    \/ stage[k] = "decode" /\ op[k] \in Blocking /\ Answered(k)
    \/ stage[k] = "done" /\ (Settled(k) \/ Unsent(k))

(* Whoever has been told anything was told the truth.                      *)
Honest(k) ==
    fired[k] = 1 /\ op[k] # "async" =>
        /\ outcome[k].err = "ok" <=>
               truth[k] \in {"succeeded"} \cup IF op[k] = "invoke" THEN {"rejected"} ELSE {}
        /\ truth[k] \in {"noClient", "refused", "failed"} => outcome[k].value = "null"

(* A refusal is on record while it waits to be dealt with, and only calls  *)
(* whose arguments threw are recorded, and told, as such.                  *)
Recorded(k) ==
    /\ abi[k] = "refused" => truth[k] = "refused"
    /\ abi[k] # "refused" => truth[k] # "refused"
    /\ truth[k] = "unsent" \/ outcome[k].err = "thrown" => stage[k] = "done" /\ Unsent(k)

CallInv(k) == Life(k) /\ Honest(k) /\ Recorded(k)

CallsInv == \A k \in Calls : CallInv(k)

IInv == TypeOK /\ CallsInv

(***************************************************************************)
(* What the helpers answer.                                                *)
(***************************************************************************)
(* A reply's strings are found again by their names.                       *)
LEMMA BodiesAreFound ==
    ASSUME NEW k \in Calls, NEW res \in Bodies, NEW errText \in Bodies,
           strings[k] = Handed(res, errText)
    PROVE  BodyOf(k, "res") = res /\ BodyOf(k, "err") = errText
<1>1. \A b \in Bodies : <<"res", b>> \in strings[k] <=> b = res /\ b # "absent"
  BY DEF Handed
<1>2. \A b \in Bodies : <<"err", b>> \in strings[k] <=> b = errText /\ b # "absent"
  BY DEF Handed
<1>3. BodyOf(k, "res") = res
  BY <1>1 DEF BodyOf
<1>4. BodyOf(k, "err") = errText
  BY <1>2 DEF BodyOf
<1> QED BY <1>3, <1>4

(* The decoders answer values and errors.                                  *)
LEMMA DecodersTyped ==
    ASSUME NEW b \in Bodies
    PROVE  Parsed(b) \in Bodies /\ ErrorFrom(b) \in Errors \ {"ok"}
BY DEF Parsed, ErrorFrom, Bodies, Errors

(* What a trampoline tells of an answer is what happened.                  *)
LEMMA TrampolineIsHonest ==
    ASSUME NEW o \in {"async", "asyncResult"}, NEW ok \in BOOLEAN, NEW b \in Bodies
    PROVE  /\ Told(o, ok, b) \in [value : Bodies \cup {"untold"}, err : Errors]
           /\ Told(o, ok, b).err # "thrown"
           /\ WhatHappened(ok, b) \in {"failed", "rejected", "succeeded"}
           /\ o = "asyncResult" =>
                /\ Told(o, ok, b).err = "ok" <=> WhatHappened(ok, b) = "succeeded"
                /\ WhatHappened(ok, b) = "failed" => Told(o, ok, b).value = "null"
BY DEF Told, WhatHappened, Parsed, ErrorFrom, Fold, Bodies, Errors

(* What a blocking call makes of its reply is what happened: invoke()      *)
(* passes a rejection on as the value it is, the wrapper folds it.         *)
LEMMA ReplyIsHonest ==
    ASSUME NEW k \in Calls, Answered(k)
    PROVE  /\ BlockingTold(k) \in [value : Bodies, err : Errors \ {"thrown"}]
           /\ truth[k] \in {"failed", "rejected", "succeeded"}
           /\ BlockingTold(k).err = "ok" <=> truth[k] \in {"rejected", "succeeded"}
           /\ truth[k] = "failed" => BlockingTold(k).value = "null"
           /\ Fold(BlockingTold(k).value, BlockingTold(k).err) \in Errors \ {"thrown"}
           /\ Fold(BlockingTold(k).value, BlockingTold(k).err) = "ok" <=> truth[k] = "succeeded"
<1>1. PICK ok \in BOOLEAN, res \in Bodies, errText \in Bodies :
          strings[k] = Handed(res, errText) /\ truth[k] = WhatHappened(ok, res)
  BY DEF Answered
<1>2. BodyOf(k, "res") = res /\ BodyOf(k, "err") = errText
  BY <1>1, BodiesAreFound
<1>3. BlockingTold(k) = IF truth[k] = "failed"
                        THEN [value |-> "null", err |-> ErrorFrom(errText)]
                        ELSE [value |-> Parsed(res), err |-> "ok"]
  BY <1>2 DEF BlockingTold
<1> QED BY <1>1, <1>3 DEF WhatHappened, Parsed, ErrorFrom, Fold, Bodies, Errors

(***************************************************************************)
(* Steps.                                                                  *)
(***************************************************************************)
(* A step of one call leaves the others alone.                             *)
LEMMA OthersKeep ==
    ASSUME NEW k \in Calls, CallInv(k),
           op'[k] = op[k], stage'[k] = stage[k], abi'[k] = abi[k], box'[k] = box[k],
           fired'[k] = fired[k], outcome'[k] = outcome[k], truth'[k] = truth[k],
           strings'[k] = strings[k]
    PROVE  CallInv(k)'
<1>1. Life(k)'
  BY DEF CallInv, Life, Untouched, HandedOver, TurnedDown, Answered, Settled, Unsent
<1>2. Honest(k)' /\ Recorded(k)'
  BY DEF CallInv, Honest, Recorded, Unsent
<1> QED BY <1>1, <1>2 DEF CallInv

(* A call that is not over in that way has nothing of it on record.        *)
LEMMA NotUnsent ==
    ASSUME NEW k \in Calls, CallInv(k), stage[k] # "done" \/ abi[k] # "none"
    PROVE  /\ truth[k] # "unsent" /\ outcome[k].err # "thrown"
           /\ abi[k] # "refused" => truth[k] # "refused"
BY DEF CallInv, Recorded, Unsent

(* What a step of call k has to show.                                      *)
Frame(k) ==
    \A j \in Calls \ {k} :
        /\ op'[j] = op[j] /\ stage'[j] = stage[j] /\ abi'[j] = abi[j] /\ box'[j] = box[j]
        /\ fired'[j] = fired[j] /\ outcome'[j] = outcome[j] /\ truth'[j] = truth[j]
        /\ strings'[j] = strings[j]

Kept(k) == TypeOK' /\ CallInv(k)' /\ Frame(k)

(* A step that keeps its own call keeps them all.                          *)
LEMMA KeptIsEnough ==
    ASSUME IInv, NEW k \in Calls, Kept(k)
    PROVE  IInv'
<1>1. ASSUME NEW j \in Calls PROVE CallInv(j)'
  <2>1. CASE j = k
    BY <2>1 DEF Kept
  <2>2. CASE j # k
    <3>1. CallInv(j)
      BY DEF IInv, CallsInv
    <3> QED BY <2>2, <3>1, OthersKeep DEF Kept, Frame
  <2> QED BY <2>1, <2>2
<1> QED BY <1>1 DEF IInv, CallsInv, Kept

(* A completion counts one more call back and records what it was told.    *)
LEMMA CompleteTyped ==
    ASSUME TypeOK, NEW k \in Calls,
           NEW told \in [value : Bodies \cup {"untold"}, err : Errors], Complete(k, told)
    PROVE  /\ fired' \in [Calls -> Nat] /\ fired'[k] = fired[k] + 1
           /\ outcome' \in [Calls -> [value : Bodies \cup {"untold"}, err : Errors]]
           /\ outcome'[k] = told
           /\ \A j \in Calls \ {k} : fired'[j] = fired[j] /\ outcome'[j] = outcome[j]
<1>1. fired \in [Calls -> Nat] /\ outcome \in [Calls -> [value : Bodies \cup {"untold"}, err : Errors]]
  BY DEF TypeOK
<1>2. fired' = [fired EXCEPT ![k] = @ + 1] /\ outcome' = [outcome EXCEPT ![k] = told]
  BY DEF Complete
<1>3. fired' \in [Calls -> Nat] /\ fired'[k] = fired[k] + 1
  BY <1>1, <1>2
<1>4. outcome' \in [Calls -> [value : Bodies \cup {"untold"}, err : Errors]] /\ outcome'[k] = told
  BY <1>1, <1>2
<1> QED BY <1>1, <1>2, <1>3, <1>4

(* Starting a call, or being given no callback.                            *)
LEMMA BeginKeeps ==
    ASSUME IInv, NEW k \in Calls, (\E o \in Ops : Begin(k, o)) \/ IgnoreNullCallback(k)
    PROVE  Kept(k)
<1>1. TypeOK /\ CallInv(k) /\ stage[k] = "idle"
  BY DEF IInv, CallsInv, Begin, IgnoreNullCallback
<1>2. op[k] = "none" /\ Untouched(k)
  BY <1>1 DEF CallInv, Life
<1>a. truth[k] \notin {"unsent", "refused"} /\ outcome[k].err # "thrown"
  BY <1>1, <1>2, NotUnsent DEF Untouched
<1>3. CASE \E o \in Ops : Begin(k, o)
  <2>1. PICK o \in Ops : Begin(k, o)
    BY <1>3
  <2>2. TypeOK' /\ Frame(k)
    BY <1>1, <2>1 DEF TypeOK, Begin, Frame
  <2>3. /\ op'[k] \in Ops /\ stage'[k] = "ensure" /\ Untouched(k)'
        /\ truth'[k] = truth[k] /\ outcome'[k] = outcome[k]
    BY <1>1, <1>2, <2>1 DEF TypeOK, Begin, Untouched
  <2> QED BY <1>a, <2>2, <2>3 DEF Kept, CallInv, Life, Honest, Recorded, Untouched
<1>4. CASE IgnoreNullCallback(k)
  <2>1. TypeOK' /\ Frame(k)
    BY <1>1, <1>4 DEF TypeOK, IgnoreNullCallback, Frame
  <2>2. /\ op'[k] = "none" /\ stage'[k] = "done" /\ Untouched(k)'
        /\ truth'[k] = truth[k] /\ outcome'[k] = outcome[k]
    BY <1>1, <1>2, <1>4 DEF TypeOK, IgnoreNullCallback, Untouched
  <2> QED BY <1>a, <2>1, <2>2 DEF Kept, CallInv, Life, Settled, Honest, Recorded, Untouched
<1> QED BY <1>3, <1>4

(* Without a client the function completes the call.                       *)
LEMMA NoClientKeeps ==
    ASSUME IInv, NEW k \in Calls, NoClient(k)
    PROVE  Kept(k)
<1> DEFINE told == [value |-> "null",
                    err |-> IF op[k] = "async" THEN "untold" ELSE "object_unavailable"]
<1>1. TypeOK /\ CallInv(k) /\ stage[k] = "ensure"
  BY DEF IInv, CallsInv, NoClient
<1>2. op[k] \in Ops /\ Untouched(k)
  BY <1>1 DEF CallInv, Life
<1>3. told \in [value : Bodies \cup {"untold"}, err : Errors]
  BY DEF Bodies, Errors
<1>4. Complete(k, told)
  BY DEF NoClient
<1>5. /\ fired' \in [Calls -> Nat] /\ fired'[k] = 1
      /\ outcome' \in [Calls -> [value : Bodies \cup {"untold"}, err : Errors]]
      /\ outcome'[k] = told
      /\ \A j \in Calls \ {k} : fired'[j] = fired[j] /\ outcome'[j] = outcome[j]
  BY <1>1, <1>2, <1>3, <1>4, CompleteTyped DEF Untouched
<1> HIDE DEF told
<1>6. TypeOK' /\ Frame(k)
  BY <1>1, <1>5 DEF TypeOK, NoClient, Frame, Errors
<1>7. /\ stage'[k] = "done" /\ op'[k] = op[k] /\ abi'[k] = "none" /\ box'[k] = "none"
      /\ strings'[k] = {} /\ truth'[k] = "noClient"
  BY <1>1, <1>2 DEF TypeOK, NoClient, Untouched
<1>8. Life(k)'
  BY <1>2, <1>5, <1>7 DEF Life, Settled, Ops
<1>9. Honest(k)' /\ Recorded(k)'
  BY <1>5, <1>7 DEF Honest, Recorded, told
<1> QED BY <1>6, <1>8, <1>9 DEF Kept, CallInv

(* Arguments that throw leave a call to which nothing happens any more.    *)
LEMMA ArgsThrowKeeps ==
    ASSUME IInv, NEW k \in Calls, ArgsThrow(k)
    PROVE  Kept(k)
<1>1. TypeOK /\ CallInv(k) /\ stage[k] = "ensure"
  BY DEF IInv, CallsInv, ArgsThrow
<1>2. op[k] \in Ops /\ Untouched(k)
  BY <1>1 DEF CallInv, Life
<1>3. outcome' \in [Calls -> [value : Bodies \cup {"untold"}, err : Errors]]
  BY <1>1 DEF TypeOK, ArgsThrow, Errors
<1>4. TypeOK' /\ Frame(k)
  BY <1>1, <1>3 DEF TypeOK, ArgsThrow, Frame
<1>5. stage'[k] = "done" /\ Unsent(k)'
  BY <1>1, <1>2 DEF TypeOK, ArgsThrow, Untouched, Unsent
<1> QED BY <1>4, <1>5 DEF Kept, CallInv, Life, Honest, Recorded, Unsent

(* The callback is boxed and the ABI gets the box.                         *)
LEMMA CallAsyncKeeps ==
    ASSUME IInv, NEW k \in Calls, CallAsync(k)
    PROVE  Kept(k)
<1>1. TypeOK /\ CallInv(k) /\ stage[k] = "ensure" /\ op[k] \in Ops \ Blocking
  BY DEF IInv, CallsInv, CallAsync, CallInv, Life
<1>2. Untouched(k)
  BY <1>1 DEF CallInv, Life
<1>3. TypeOK' /\ Frame(k)
  BY <1>1 DEF TypeOK, CallAsync, Frame
<1>4. /\ stage'[k] = "inABI" /\ op'[k] \in {"async", "asyncResult"} /\ abi'[k] = "deciding"
      /\ box'[k] = "live" /\ fired'[k] = 0 /\ strings'[k] = {}
      /\ truth'[k] = truth[k] /\ outcome'[k] = outcome[k]
  BY <1>1, <1>2 DEF TypeOK, CallAsync, Untouched, Ops, Blocking
<1>5. truth[k] \notin {"unsent", "refused"} /\ outcome[k].err # "thrown"
  BY <1>1, <1>2, NotUnsent DEF Untouched
<1> QED BY <1>3, <1>4, <1>5 DEF Kept, CallInv, Life, HandedOver, Honest, Recorded

(* The call was accepted: from here on it is the ABI's.                    *)
LEMMA ReturnAcceptedKeeps ==
    ASSUME IInv, NEW k \in Calls, ReturnAccepted(k)
    PROVE  Kept(k)
<1>1. TypeOK /\ CallInv(k) /\ stage[k] = "inABI" /\ abi[k] \in {"owes", "calling", "settled"}
  BY DEF IInv, CallsInv, ReturnAccepted, ReturnOnce
<1>2. op[k] \in {"async", "asyncResult"} /\ HandedOver(k)
  BY <1>1 DEF CallInv, Life, TurnedDown
<1>3. TypeOK' /\ Frame(k)
  BY <1>1 DEF TypeOK, ReturnAccepted, ReturnOnce, Frame
<1>4. stage'[k] = "done" /\ HandedOver(k)' /\ op'[k] = op[k] /\ abi'[k] = abi[k]
  BY <1>1, <1>2 DEF TypeOK, ReturnAccepted, ReturnOnce, HandedOver
<1>5. Life(k)'
  BY <1>1, <1>2, <1>4 DEF Life, Settled, HandedOver
<1>6. Honest(k)' /\ Recorded(k)'
  BY <1>1, NotUnsent DEF CallInv, Honest, Recorded, ReturnAccepted, ReturnOnce
<1> QED BY <1>3, <1>5, <1>6 DEF Kept, CallInv

(* The call was refused: with an error channel it completes here, once,    *)
(* because the ABI never calls back after a refusal.                       *)
LEMMA ReturnRefusedKeeps ==
    ASSUME IInv, NEW k \in Calls, ReturnRefused(k)
    PROVE  Kept(k)
<1>1. TypeOK /\ CallInv(k) /\ stage[k] = "inABI" /\ abi[k] = "refused"
  BY DEF IInv, CallsInv, ReturnRefused, ReturnWith
<1>2. op[k] \in {"async", "asyncResult"} /\ TurnedDown(k) /\ truth[k] = "refused"
  BY <1>1 DEF CallInv, Life, HandedOver, Recorded
<1>a. outcome[k].err # "thrown"
  BY <1>1, NotUnsent
<1>3. CASE op[k] = "asyncResult"
  <2>1. ReturnWith(k, {"refused"}, TRUE, "freed")
    BY <1>3 DEF ReturnRefused
  <2>2. RefusalTold \in [value : Bodies \cup {"untold"}, err : Errors]
    BY DEF RefusalTold, Bodies, Errors
  <2>3. /\ fired' \in [Calls -> Nat] /\ fired'[k] = 1
        /\ outcome' \in [Calls -> [value : Bodies \cup {"untold"}, err : Errors]]
        /\ outcome'[k] = RefusalTold
        /\ \A j \in Calls \ {k} : fired'[j] = fired[j] /\ outcome'[j] = outcome[j]
    BY <1>1, <1>2, <2>1, <2>2, CompleteTyped DEF ReturnWith, TurnedDown
  <2>4. TypeOK' /\ Frame(k)
    BY <1>1, <2>1, <2>3 DEF TypeOK, ReturnWith, Frame
  <2>5. /\ stage'[k] = "done" /\ op'[k] = "asyncResult" /\ abi'[k] = "refused"
        /\ box'[k] = "freed" /\ strings'[k] = {} /\ truth'[k] = "refused"
    BY <1>1, <1>2, <1>3, <2>1 DEF TypeOK, ReturnWith, TurnedDown
  <2> QED BY <2>3, <2>4, <2>5 DEF Kept, CallInv, Life, Settled, Honest, Recorded, RefusalTold
<1>4. CASE op[k] = "async"
  <2>1. ReturnWith(k, {"refused"}, FALSE, "live")
    BY <1>4 DEF ReturnRefused
  <2>2. TypeOK' /\ Frame(k)
    BY <1>1, <2>1 DEF TypeOK, ReturnWith, Frame
  <2>3. /\ stage'[k] = "done" /\ op'[k] = "async" /\ TurnedDown(k)'
        /\ truth'[k] = truth[k] /\ outcome'[k] = outcome[k]
    BY <1>1, <1>2, <1>4, <2>1 DEF TypeOK, ReturnWith, TurnedDown
  <2> QED BY <1>2, <1>a, <2>2, <2>3 DEF Kept, CallInv, Life, Settled, Honest, Recorded,
                                       TurnedDown
<1> QED BY <1>2, <1>3, <1>4

(* A blocking call comes back with its strings.                            *)
LEMMA CallBlockingKeeps ==
    ASSUME IInv, NEW k \in Calls, NEW ok \in BOOLEAN, NEW res \in Bodies, NEW errText \in Bodies,
           CallBlocking(k, ok, res, errText)
    PROVE  Kept(k)
<1>1. TypeOK /\ CallInv(k) /\ stage[k] = "ensure" /\ op[k] \in Blocking
  BY DEF IInv, CallsInv, CallBlocking
<1>2. Untouched(k)
  BY <1>1 DEF CallInv, Life
<1>3. Handed(res, errText) \in SUBSET ({"res", "err"} \X Bodies)
  BY DEF Handed
<1>4. WhatHappened(ok, res) \in {"failed", "rejected", "succeeded"}
  BY DEF WhatHappened
<1>5. strings' = [strings EXCEPT ![k] = Handed(res, errText)]
  BY DEF CallBlocking, Handed
<1>6. strings' \in [Calls -> SUBSET ({"res", "err"} \X Bodies)]
  BY <1>1, <1>3, <1>5 DEF TypeOK
<1>7. TypeOK' /\ Frame(k)
  BY <1>1, <1>4, <1>5, <1>6 DEF TypeOK, CallBlocking, Frame
<1>8. /\ stage'[k] = "decode" /\ op'[k] = op[k] /\ abi'[k] = "settled" /\ box'[k] = "none"
      /\ fired'[k] = 0 /\ strings'[k] = Handed(res, errText)
      /\ truth'[k] = WhatHappened(ok, res) /\ outcome'[k] = outcome[k]
  BY <1>1, <1>2, <1>5 DEF TypeOK, CallBlocking, Untouched
<1>9. Answered(k)'
  BY <1>8 DEF Answered
<1>10. outcome[k].err # "thrown"
  BY <1>1, NotUnsent
<1> QED BY <1>1, <1>4, <1>7, <1>8, <1>9, <1>10 DEF Kept, CallInv, Life, Honest, Recorded

(* The reply is decoded, truthfully, and both strings are given back.      *)
LEMMA DecodeKeeps ==
    ASSUME IInv, NEW k \in Calls, Decode(k)
    PROVE  Kept(k)
<1> DEFINE raw  == BlockingTold(k)
           told == IF op[k] = "invoke" THEN [raw EXCEPT !.err = IF raw.err = "ok" THEN "ok" ELSE raw.err]
                   ELSE [raw EXCEPT !.err = Fold(raw.value, raw.err)]
<1>1. TypeOK /\ CallInv(k) /\ stage[k] = "decode"
  BY DEF IInv, CallsInv, Decode, DecodeWith
<1>2. op[k] \in Blocking /\ Answered(k)
  BY <1>1 DEF CallInv, Life
<1>3. raw \in [value : Bodies, err : Errors \ {"thrown"}]
  BY <1>2, ReplyIsHonest
<1>4. Complete(k, told)
  BY DEF Decode, DecodeWith
<1>5. /\ told \in [value : Bodies \cup {"untold"}, err : Errors]
      /\ told.value = raw.value
      /\ told.err = IF op[k] = "invoke" THEN raw.err ELSE Fold(raw.value, raw.err)
      /\ told.err # "thrown"
  BY <1>2, <1>3, ReplyIsHonest
<1>6. callerErr' \in Errors
  BY <1>1, <1>3 DEF Decode, DecodeWith, TypeOK, Errors
<1> HIDE DEF told
<1>7. /\ fired' \in [Calls -> Nat] /\ fired'[k] = 1
      /\ outcome' \in [Calls -> [value : Bodies \cup {"untold"}, err : Errors]]
      /\ outcome'[k] = told
      /\ \A j \in Calls \ {k} : fired'[j] = fired[j] /\ outcome'[j] = outcome[j]
  BY <1>1, <1>2, <1>4, <1>5, CompleteTyped DEF Answered
<1>8. strings' = [strings EXCEPT ![k] = {}]
  BY <1>1 DEF Decode, DecodeWith, TypeOK
<1>9. /\ stage' = [stage EXCEPT ![k] = "done"]
      /\ op' = op /\ abi' = abi /\ box' = box /\ truth' = truth
  BY DEF Decode, DecodeWith
<1>10. TypeOK' /\ Frame(k)
  BY <1>1, <1>6, <1>7, <1>8, <1>9 DEF TypeOK, Frame
<1>11. Life(k)'
  BY <1>1, <1>2, <1>7, <1>8, <1>9 DEF Life, Settled, Answered, TypeOK, Blocking
<1>12. Honest(k)'
  BY <1>2, <1>5, <1>7, <1>9, ReplyIsHonest DEF Honest, Blocking
<1>13. Recorded(k)'
  BY <1>2, <1>5, <1>7, <1>9, ReplyIsHonest DEF Recorded, Answered
<1> QED BY <1>10, <1>11, <1>12, <1>13 DEF Kept, CallInv

(* The ABI decides.                                                        *)
LEMMA DecisionKeeps ==
    ASSUME IInv, NEW k \in Calls, Accept(k) \/ Refuse(k)
    PROVE  Kept(k)
<1>1. TypeOK /\ CallInv(k) /\ abi[k] = "deciding"
  BY DEF IInv, CallsInv, Accept, Refuse
<1>2. /\ stage[k] = "inABI" /\ op[k] \in {"async", "asyncResult"} /\ HandedOver(k)
      /\ box[k] = "live" /\ fired[k] = 0
  BY <1>1 DEF CallInv, Life, Untouched, HandedOver, TurnedDown, Answered, Settled, Unsent
<1>a. truth[k] \notin {"unsent", "refused"} /\ outcome[k].err # "thrown"
  BY <1>1, NotUnsent
<1>3. TypeOK' /\ Frame(k)
  <2>1. CASE Accept(k)
    BY <1>1, <2>1 DEF TypeOK, Accept, Frame
  <2>2. CASE Refuse(k)
    BY <1>1, <2>2 DEF TypeOK, Refuse, Frame
  <2> QED BY <2>1, <2>2
<1>4. /\ stage'[k] = "inABI" /\ op'[k] = op[k] /\ box'[k] = "live" /\ fired'[k] = 0
      /\ strings'[k] = {} /\ outcome'[k] = outcome[k]
      /\ \/ abi'[k] = "owes" /\ truth'[k] = truth[k]
         \/ abi'[k] = "refused" /\ truth'[k] = "refused"
  BY <1>1, <1>2 DEF TypeOK, Accept, Refuse, HandedOver
<1> QED BY <1>2, <1>a, <1>3, <1>4 DEF Kept, CallInv, Life, HandedOver, TurnedDown, Honest,
                                      Recorded

(* The callback runs: it is told what happened, for the first time.        *)
LEMMA TrampolineKeeps ==
    ASSUME IInv, NEW k \in Calls, NEW ok \in BOOLEAN, NEW body \in Bodies, Trampoline(k, ok, body)
    PROVE  Kept(k)
<1>1. TypeOK /\ CallInv(k) /\ abi[k] = "owes"
  BY DEF IInv, CallsInv, Trampoline
<1>2. /\ stage[k] \in {"inABI", "done"} /\ op[k] \in {"async", "asyncResult"} /\ HandedOver(k)
      /\ box[k] = "live" /\ fired[k] = 0
  BY <1>1 DEF CallInv, Life, Untouched, HandedOver, TurnedDown, Answered, Settled, Unsent
<1>3. /\ Told(op[k], ok, body) \in [value : Bodies \cup {"untold"}, err : Errors]
      /\ WhatHappened(ok, body) \in {"failed", "rejected", "succeeded"}
  BY <1>2, TrampolineIsHonest
<1>4. /\ fired' \in [Calls -> Nat] /\ fired'[k] = 1
      /\ outcome' \in [Calls -> [value : Bodies \cup {"untold"}, err : Errors]]
      /\ outcome'[k] = Told(op[k], ok, body)
      /\ \A j \in Calls \ {k} : fired'[j] = fired[j] /\ outcome'[j] = outcome[j]
  BY <1>1, <1>2, <1>3, CompleteTyped DEF Trampoline
<1>5. TypeOK' /\ Frame(k)
  BY <1>1, <1>3, <1>4 DEF TypeOK, Trampoline, Frame
<1>6. /\ stage'[k] = stage[k] /\ op'[k] = op[k] /\ abi'[k] = "calling" /\ box'[k] = "live"
      /\ strings'[k] = {} /\ truth'[k] = WhatHappened(ok, body)
  BY <1>1, <1>2 DEF TypeOK, Trampoline, HandedOver
<1>7. Life(k)'
  BY <1>2, <1>4, <1>6 DEF Life, Settled, HandedOver
<1>8. Honest(k)' /\ Recorded(k)'
  BY <1>2, <1>4, <1>6, TrampolineIsHonest DEF Honest, Recorded
<1> QED BY <1>5, <1>7, <1>8 DEF Kept, CallInv

(* The trampoline deletes the box.                                         *)
LEMMA DeleteBoxKeeps ==
    ASSUME IInv, NEW k \in Calls, DeleteBox(k)
    PROVE  Kept(k)
<1>1. TypeOK /\ CallInv(k) /\ abi[k] = "calling"
  BY DEF IInv, CallsInv, DeleteBox
<1>2. /\ stage[k] \in {"inABI", "done"} /\ op[k] \in {"async", "asyncResult"} /\ HandedOver(k)
      /\ fired[k] = 1
  BY <1>1 DEF CallInv, Life, Untouched, HandedOver, TurnedDown, Answered, Settled, Unsent
<1>3. TypeOK' /\ Frame(k)
  BY <1>1 DEF TypeOK, DeleteBox, Frame
<1>4. /\ stage'[k] = stage[k] /\ op'[k] = op[k] /\ abi'[k] = "settled" /\ box'[k] = "freed"
      /\ fired'[k] = 1 /\ strings'[k] = {} /\ truth'[k] = truth[k] /\ outcome'[k] = outcome[k]
  BY <1>1, <1>2 DEF TypeOK, DeleteBox, HandedOver
<1>5. Life(k)'
  BY <1>2, <1>4 DEF Life, Settled, HandedOver
<1>6. Honest(k)' /\ Recorded(k)'
  BY <1>1, <1>2, <1>4, NotUnsent DEF CallInv, Honest, Recorded
<1> QED BY <1>3, <1>5, <1>6 DEF Kept, CallInv

(***************************************************************************)
(* The invariant.                                                          *)
(***************************************************************************)
LEMMA InitIInv == Init => IInv
<1> SUFFICES ASSUME Init PROVE IInv
  OBVIOUS
<1>1. TypeOK
  BY DEF Init, TypeOK, Untold, Bodies, Errors, Ops
<1>2. ASSUME NEW k \in Calls PROVE CallInv(k)
  <2>1. /\ stage[k] = "idle" /\ op[k] = "none" /\ abi[k] = "none" /\ box[k] = "none"
        /\ fired[k] = 0 /\ strings[k] = {} /\ truth[k] = "open" /\ outcome[k] = Untold
    BY DEF Init
  <2> QED BY <2>1 DEF CallInv, Life, Untouched, Honest, Recorded, Untold
<1> QED BY <1>1, <1>2 DEF IInv, CallsInv

LEMMA NextIInv == IInv /\ [Next]_vars => IInv'
<1> SUFFICES ASSUME IInv, [Next]_vars PROVE IInv'
  OBVIOUS
<1>1. CASE UNCHANGED vars
  <2>1. TypeOK'
    BY <1>1 DEF IInv, TypeOK, vars
  <2>2. ASSUME NEW j \in Calls PROVE CallInv(j)'
    BY <1>1, OthersKeep DEF IInv, CallsInv, vars
  <2> QED BY <2>1, <2>2 DEF IInv, CallsInv
<1>2. ASSUME NEW k \in Calls, Caller(k) PROVE Kept(k)
  BY <1>2, BeginKeeps, NoClientKeeps, ArgsThrowKeeps, CallAsyncKeeps, ReturnAcceptedKeeps,
     ReturnRefusedKeeps, CallBlockingKeeps, DecodeKeeps DEF Caller
<1>3. ASSUME NEW k \in Calls, Abi(k) PROVE Kept(k)
  BY <1>3, DecisionKeeps, TrampolineKeeps, DeleteBoxKeeps DEF Abi
<1> QED BY <1>1, <1>2, <1>3, KeptIsEnough DEF Next

(* The invariant holds in every behaviour.                                 *)
THEOREM CallInvariance == Spec => []IInv
BY InitIInv, NextIInv, PTL DEF Spec

(* Type correctness: the variables stay in their sets, for any number of   *)
(* concurrent calls.                                                       *)
THEOREM InvokeTypeCorrect == Spec => []TypeOK
<1>1. IInv => TypeOK
  BY DEF IInv
<1> QED BY <1>1, CallInvariance, PTL

(* A callback that the ABI still owes, or is inside, has its box: neither  *)
(* a refusal nor an early return of the caller frees it first.             *)
THEOREM BoxesOutliveCallbacks == Spec => []BoxOutlivesTheCallback
<1>1. IInv => BoxOutlivesTheCallback
  BY DEF IInv, CallsInv, CallInv, Life, Untouched, HandedOver, TurnedDown, Answered, Settled,
         Unsent, BoxOutlivesTheCallback
<1> QED BY <1>1, CallInvariance, PTL

(* A call that is over has given back both strings, and its box unless     *)
(* invokeAsync did not look at a refusal or its arguments threw.           *)
THEOREM NothingElseLeaksHolds == Spec => []NothingElseLeaks
<1>1. ASSUME IInv, NEW k \in Calls, Over(k)
      PROVE  strings[k] = {} /\ (box[k] = "live" <=> LosesItsBox(k))
  <2>1. (Settled(k) \/ Unsent(k)) /\ abi[k] \in {"none", "refused", "settled"}
    BY <1>1 DEF IInv, CallsInv, CallInv, Life, Over
  <2>2. Recorded(k) /\ Ops \ Blocking = {"async", "asyncResult"}
    BY <1>1 DEF IInv, CallsInv, CallInv, Ops, Blocking
  <2>3. CASE truth[k] = "unsent"
    BY <2>2, <2>3 DEF Recorded, Unsent, LosesItsBox, Ops, Blocking
  <2>4. CASE truth[k] # "unsent"
    BY <2>1, <2>2, <2>4 DEF Settled, HandedOver, TurnedDown, Unsent, Recorded, LosesItsBox,
       Blocking
  <2> QED BY <2>3, <2>4
<1>2. IInv => NothingElseLeaks
  BY <1>1 DEF NothingElseLeaks
<1> QED BY <1>2, CallInvariance, PTL

(* So what a call allocates is there as long as somebody can come to it,   *)
(* and is lost in the two ways that LosesItsBox names and in no other.     *)
THEOREM CallsKeepMemorySound == Spec => []MemoryIsSound
<1>1. BoxOutlivesTheCallback /\ NothingElseLeaks => MemoryIsSound
  BY DEF MemoryIsSound
<1> QED BY <1>1, BoxesOutliveCallbacks, NothingElseLeaksHolds, PTL

(* No call completes twice, and none with an error channel is over without *)
(* having completed or thrown to its caller.                               *)
THEOREM CallsCompleteOnce == Spec => []CompletesOnce
<1>1. ASSUME IInv, NEW k \in Calls
      PROVE  fired[k] <= 1 /\ (outcome[k].err = "thrown" => fired[k] = 0)
  <2>1. Life(k) /\ Recorded(k)
    BY <1>1 DEF IInv, CallsInv, CallInv
  <2>2. fired[k] \in {0, 1}
    BY <2>1 DEF Life, Untouched, HandedOver, TurnedDown, Answered, Settled, Unsent
  <2> QED BY <2>1, <2>2 DEF Recorded, Unsent
<1>2. ASSUME IInv, NEW k \in Calls, Over(k), op[k] \notin {"none", "async"}
      PROVE  fired[k] = 0 <=> outcome[k].err = "thrown"
  <2>1. (Settled(k) \/ Unsent(k)) /\ abi[k] \in {"none", "refused", "settled"}
    BY <1>2 DEF IInv, CallsInv, CallInv, Life, Over
  <2>2. Settled(k) => fired[k] = 1
    BY <1>2, <2>1 DEF Settled, HandedOver, Blocking
  <2> QED BY <1>1, <1>2, <2>1, <2>2 DEF Unsent
<1>3. IInv => CompletesOnce
  BY <1>1, <1>2 DEF CompletesOnce
<1> QED BY <1>3, CallInvariance, PTL

(* A caller is told what happened to its call, whichever way it went.      *)
THEOREM CallersAreToldTheTruth == Spec => []ToldTheTruth
<1>1. IInv => ToldTheTruth
  BY DEF IInv, CallsInv, CallInv, Honest, ToldTheTruth
<1> QED BY <1>1, CallInvariance, PTL

(***************************************************************************)
(* Progress.  An asynchronous call with an error channel has been begun,   *)
(* handed to the ABI, accepted or refused; that NoCallSticks names all its *)
(* steps wait for is a premise, since the prover does not look inside      *)
(* ENABLED.                                                                *)
(***************************************************************************)
Begun(k)    == op[k] = "asyncResult" /\ stage[k] = "ensure"
Deciding(k) == op[k] = "asyncResult" /\ stage[k] = "inABI" /\ abi[k] = "deciding"
Accepted(k) == op[k] = "asyncResult" /\ abi[k] = "owes"
Refused(k)  == op[k] = "asyncResult" /\ stage[k] = "inABI" /\ abi[k] = "refused"

(* Such a call has completed or thrown, or is at one of the four.          *)
LEMMA CompletedOrUnderWay ==
    ASSUME IInv, NEW k \in Calls, op[k] = "asyncResult"
    PROVE  Heard(k) \/ Begun(k) \/ Deciding(k) \/ Accepted(k) \/ Refused(k)
<1>1. Life(k)
  BY DEF IInv, CallsInv, CallInv
<1> QED BY <1>1 DEF Life, Untouched, HandedOver, TurnedDown, Settled, Unsent, Blocking,
                    Heard, Begun, Deciding, Accepted, Refused

(* A step is of the call itself, of the ABI for it, or leaves it alone.    *)
LEMMA StepsOfACall ==
    ASSUME IInv, NEW k \in Calls, [Next]_vars
    PROVE  \/ Caller(k)
           \/ Abi(k)
           \/ /\ op'[k] = op[k] /\ stage'[k] = stage[k] /\ abi'[k] = abi[k]
              /\ fired'[k] = fired[k] /\ outcome'[k] = outcome[k]
<1>1. CASE UNCHANGED vars
  BY <1>1 DEF vars
<1>2. ASSUME NEW j \in Calls, Caller(j) \/ Abi(j) PROVE Frame(j)
  <2>1. CASE Caller(j)
    BY <2>1, BeginKeeps, NoClientKeeps, ArgsThrowKeeps, CallAsyncKeeps, ReturnAcceptedKeeps,
       ReturnRefusedKeeps, CallBlockingKeeps, DecodeKeeps DEF Caller, Kept
  <2>2. CASE Abi(j)
    BY <2>2, DecisionKeeps, TrampolineKeeps, DeleteBoxKeeps DEF Abi, Kept
  <2> QED BY <1>2, <2>1, <2>2
<1> QED BY <1>1, <1>2 DEF Next, Frame

(* What the caller's own step makes of a call.                             *)
LEMMA CallerMoves ==
    ASSUME IInv, NEW k \in Calls, Caller(k)
    PROVE  /\ Begun(k) => Deciding(k)' \/ Heard(k)'
           /\ ~Deciding(k)
           /\ Accepted(k) => Accepted(k)'
           /\ Refused(k) => Heard(k)'
<1>0. TypeOK /\ Life(k) BY DEF IInv, CallsInv, CallInv
<1> USE DEF Begun, Deciding, Accepted, Refused, Blocking, Heard
<1>1. CASE (\E o \in Ops : Begin(k, o)) \/ IgnoreNullCallback(k)
  BY <1>0, <1>1 DEF Begin, IgnoreNullCallback, Life
<1>2. CASE NoClient(k)
  BY <1>0, <1>2 DEF NoClient, Complete, TypeOK, Life, Untouched
<1>3. CASE CallAsync(k)
  BY <1>0, <1>3 DEF CallAsync, TypeOK, Life, Untouched
<1>4. CASE ReturnAccepted(k)
  BY <1>0, <1>4 DEF ReturnAccepted, ReturnOnce, TypeOK, Life
<1>5. CASE ReturnRefused(k)
  BY <1>0, <1>5 DEF ReturnRefused, ReturnWith, Complete, TypeOK, Life, HandedOver, TurnedDown
<1>6. CASE \E ok \in BOOLEAN, res, errText \in Bodies : CallBlocking(k, ok, res, errText)
  BY <1>0, <1>6 DEF CallBlocking, Life, Untouched
<1>7. CASE Decode(k)
  BY <1>0, <1>7 DEF Decode, DecodeWith, Life
<1>8. CASE ArgsThrow(k)
  BY <1>0, <1>8 DEF ArgsThrow, TypeOK, Life, Untouched
<1> QED BY <1>1, <1>2, <1>3, <1>4, <1>5, <1>6, <1>7, <1>8 DEF Caller

(* What the ABI's step makes of it.                                        *)
LEMMA AbiMoves ==
    ASSUME IInv, NEW k \in Calls, Abi(k)
    PROVE  /\ ~Begun(k) /\ ~Refused(k)
           /\ Deciding(k) => Accepted(k)' \/ Refused(k)'
           /\ Accepted(k) => Heard(k)'
<1>0. TypeOK /\ Life(k) BY DEF IInv, CallsInv, CallInv
<1> USE DEF Begun, Deciding, Accepted, Refused, Blocking, Heard
<1>1. CASE Accept(k) \/ Refuse(k)
  BY <1>0, <1>1 DEF Accept, Refuse, TypeOK, Life, Untouched
<1>2. CASE \E ok \in BOOLEAN, body \in Bodies : Trampoline(k, ok, body)
  BY <1>0, <1>2 DEF Trampoline, Complete, TypeOK, Life, Untouched, HandedOver, TurnedDown,
     Settled, Unsent
<1>3. CASE DeleteBox(k)
  BY <1>0, <1>3 DEF DeleteBox, Life, Untouched
<1> QED BY <1>1, <1>2, <1>3 DEF Abi

(* Every asynchronous call with an error channel completes: with the value *)
(* the ABI calls back with, or on the path of a missing client or a        *)
(* refusal; or its arguments threw.                                        *)
THEOREM AsyncResultsComplete == FairSpec /\ []NoCallSticks => AsyncResultCompletes
<1>1. ASSUME NEW k \in Calls
      PROVE  FairSpec /\ []NoCallSticks => (op[k] = "asyncResult" ~> Heard(k))
  <2>1. FairSpec => []IInv /\ [][Next]_vars /\ CallFairness(k)
    <3>1. FairSpec => Spec /\ Fairness BY DEF FairSpec
    <3>2. Fairness => CallFairness(k) BY DEF Fairness
    <3>3. Spec => [][Next]_vars BY PTL DEF Spec
    <3> QED BY <3>1, <3>2, <3>3, CallInvariance, PTL
  <2>2. IInv => (op[k] = "asyncResult" =>
                   Heard(k) \/ Begun(k) \/ Deciding(k) \/ Accepted(k) \/ Refused(k))
    BY CompletedOrUnderWay
  <2>3. IInv /\ [Next]_vars =>
            /\ Begun(k) => (Begun(k) \/ Deciding(k) \/ Heard(k))'
            /\ Deciding(k) => (Deciding(k) \/ Accepted(k) \/ Refused(k))'
            /\ Accepted(k) => (Accepted(k) \/ Heard(k))'
            /\ Refused(k) => (Refused(k) \/ Heard(k))'
    BY StepsOfACall, CallerMoves, AbiMoves DEF Begun, Deciding, Accepted, Refused
  <2>4. IInv /\ <<Proceed(k)>>_vars =>
            /\ Begun(k) => (Deciding(k) \/ Heard(k))'
            /\ Refused(k) => Heard(k)'
    BY CallerMoves DEF Proceed
  <2>5. IInv /\ <<Abi(k)>>_vars =>
            /\ Deciding(k) => (Accepted(k) \/ Refused(k))'
            /\ Accepted(k) => Heard(k)'
    BY AbiMoves
  <2>6. IInv /\ NoCallSticks =>
            /\ Begun(k) \/ Refused(k) => ENABLED <<Proceed(k)>>_vars
            /\ Deciding(k) \/ Accepted(k) => ENABLED <<Abi(k)>>_vars
    <3>1. IInv => (Begun(k) => abi[k] # "deciding")
      BY DEF IInv, CallsInv, CallInv, Life, Untouched, Begun
    <3> QED BY <3>1 DEF NoCallSticks, Begun, Deciding, Accepted, Refused
  <2> QED BY <2>1, <2>2, <2>3, <2>4, <2>5, <2>6, PTL DEF CallFairness
<1> QED BY <1>1 DEF AsyncResultCompletes
=============================================================================
