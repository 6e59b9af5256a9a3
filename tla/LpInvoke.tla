------------------------------ MODULE LpInvoke ------------------------------
(***************************************************************************)
(* One remote call through logos::LpClient: invoke, invokeAsync and        *)
(* invokeAsyncResult, their trampolines, the heap box that carries the     *)
(* callback through the C ABI, and the fold of a provider's rejection that *)
(* the generated wrapper puts on top (cpp/logos_lp_client.h,               *)
(* cpp-generator/generator_lib.cpp).                                       *)
(*                                                                         *)
(* The ABI's side is logos-protocol's: lp_invoke_async refuses a call      *)
(* synchronously, and then never calls back, or accepts it and calls back  *)
(* once, on a thread of its own choosing, possibly before it returns.      *)
(***************************************************************************)
EXTENDS Naturals

CONSTANT Calls    \* the calls that are made

(* A reply's text, by what the SDK can tell apart: absent, not JSON, JSON  *)
(* null, a plain value, an object with a `code` but not a rejection (an    *)
(* error object, or user data shaped like one), the canonical rejection.   *)
Bodies == {"absent", "malformed", "null", "value", "object", "rejection"}

Ops == {"invoke", "sync", "async", "asyncResult"}

(* "invoke" is LpClient::invoke called directly with a CallError the       *)
(* caller reuses; the others are the three generated wrapper methods.      *)
Blocking == {"invoke", "sync"}

VARIABLES
    op,         \* per call: the operation, or "none"
    stage,      \* per call: where the calling thread is
    abi,        \* per call: what the C ABI is doing for it
    box,        \* per call: the heap callback, "none", "live" or "freed"
    fired,      \* per call: how many times its callback ran
    outcome,    \* per call: the value and the error it was told
    truth,      \* per call: what really happened to it (history)
    strings,    \* per call: the C strings lp_invoke handed out, not yet freed
    callerErr   \* the CallError one caller reuses for its direct calls

vars == <<op, stage, abi, box, fired, outcome, truth, strings, callerErr>>

Untold == [value |-> "untold", err |-> "untold"]

Init ==
    /\ op = [k \in Calls |-> "none"]
    /\ stage = [k \in Calls |-> "idle"]
    /\ abi = [k \in Calls |-> "none"]
    /\ box = [k \in Calls |-> "none"]
    /\ fired = [k \in Calls |-> 0]
    /\ outcome = [k \in Calls |-> Untold]
    /\ truth = [k \in Calls |-> "open"]
    /\ strings = [k \in Calls |-> {}]
    /\ callerErr = "ok"

(***************************************************************************)
(* Decoding.                                                               *)
(***************************************************************************)
Parsed(body) == IF body \in {"absent", "malformed"} THEN "null" ELSE body

(* The error object is decoded field by field over a non-ok default.       *)
ErrorFrom(body) ==
    IF body \in {"object", "rejection"} THEN "reported" ELSE "call_failed"

(* The generated wrapper: a rejection answered as the RESULT is an error.  *)
Fold(value, err) ==
    IF err = "ok" /\ value = "rejection" THEN "rejected" ELSE err

(* What a trampoline hands to the user's callback.                         *)
Told(o, ok, body) ==
    LET value == IF ok THEN Parsed(body) ELSE "null"
        err   == IF ok THEN "ok" ELSE ErrorFrom(body)
    IN  IF o = "async" THEN [value |-> value, err |-> "untold"]
                       ELSE [value |-> value, err |-> Fold(value, err)]

WhatHappened(ok, body) ==
    IF ~ok THEN "failed"
    ELSE IF body = "rejection" THEN "rejected" ELSE "succeeded"

Complete(k, told) ==
    /\ fired' = [fired EXCEPT ![k] = @ + 1]
    /\ outcome' = [outcome EXCEPT ![k] = told]

(***************************************************************************)
(* The calling thread.                                                     *)
(***************************************************************************)
Begin(k, o) ==
    /\ stage[k] = "idle"
    /\ o = "invoke" => \A j \in Calls : op[j] = "invoke" => stage[j] = "done"
    /\ op' = [op EXCEPT ![k] = o]
    /\ stage' = [stage EXCEPT ![k] = "ensure"]
    /\ UNCHANGED <<abi, box, fired, outcome, truth, strings, callerErr>>

(* An asynchronous wrapper given no callback returns without calling.      *)
IgnoreNullCallback(k) ==
    /\ stage[k] = "idle"
    /\ stage' = [stage EXCEPT ![k] = "done"]
    /\ UNCHANGED <<op, abi, box, fired, outcome, truth, strings, callerErr>>

(* ensure() answered null: the function makes the completion itself.       *)
NoClient(k) ==
    /\ stage[k] = "ensure"
    /\ stage' = [stage EXCEPT ![k] = "done"]
    /\ truth' = [truth EXCEPT ![k] = "noClient"]
    /\ Complete(k, [value |-> "null",
                    err |-> IF op[k] = "async" THEN "untold" ELSE "object_unavailable"])
    /\ callerErr' = IF op[k] = "invoke" THEN "object_unavailable" ELSE callerErr
    /\ UNCHANGED <<op, abi, box, strings>>

(* dump() throws on arguments with a string that is not UTF-8.  The caller *)
(* has the exception and nothing else is called; a callback is in its box  *)
(* by then, which nobody is left to free.                                  *)
ArgsThrow(k) ==
    /\ stage[k] = "ensure"
    /\ stage' = [stage EXCEPT ![k] = "done"]
    /\ box' = [box EXCEPT ![k] = IF op[k] \in Blocking THEN @ ELSE "live"]
    /\ truth' = [truth EXCEPT ![k] = "unsent"]
    /\ outcome' = [outcome EXCEPT ![k] = [value |-> "untold", err |-> "thrown"]]
    /\ UNCHANGED <<op, abi, fired, strings, callerErr>>

(* The callback goes into a box, the arguments are dumped, and the box's   *)
(* address goes into the ABI.                                              *)
CallAsync(k) ==
    /\ stage[k] = "ensure"
    /\ op[k] \notin Blocking
    /\ stage' = [stage EXCEPT ![k] = "inABI"]
    /\ abi' = [abi EXCEPT ![k] = "deciding"]
    /\ box' = [box EXCEPT ![k] = "live"]
    /\ UNCHANGED <<op, fired, outcome, truth, strings, callerErr>>

ReturnOnce(k, when) ==
    /\ stage[k] = "inABI"
    /\ abi[k] \in when
    /\ stage' = [stage EXCEPT ![k] = "done"]
    /\ UNCHANGED <<op, abi, box, fired, outcome, truth, strings, callerErr>>

(* Fault: the calling thread waits for the callback.                       *)
ReturnCalledBack(k) == ReturnOnce(k, {"settled"})

(* lp_invoke_async returned LP_OK; the callback may have run already.      *)
ReturnAccepted(k) == ReturnOnce(k, {"owes", "calling", "settled"})

RefusalTold == [value |-> "null", err |-> "call_failed"]

(* The call is over with nothing more from the ABI; it may be the one that *)
(* makes the completion, and `left` is what becomes of the box.            *)
ReturnWith(k, when, completes, left) ==
    /\ stage[k] = "inABI"
    /\ abi[k] \in when
    /\ stage' = [stage EXCEPT ![k] = "done"]
    /\ box' = [box EXCEPT ![k] = left]
    /\ IF completes THEN Complete(k, RefusalTold) ELSE UNCHANGED <<fired, outcome>>
    /\ UNCHANGED <<op, abi, truth, strings, callerErr>>

(* Fault: the result of lp_invoke_async is not looked at.                  *)
ReturnUnchecked(k) == ReturnWith(k, {"refused"}, FALSE, "live")

(* Fault: anything but a completed call is taken for a refusal.            *)
ReturnImpatient(k) == ReturnWith(k, {"owes", "refused"}, TRUE, "freed")

(* lp_invoke_async refused.  invokeAsyncResult takes the function out of   *)
(* the box, frees the box and calls it; invokeAsync ignores the result.    *)
ReturnRefused(k) ==
    IF op[k] = "asyncResult" THEN ReturnWith(k, {"refused"}, TRUE, "freed")
                             ELSE ReturnWith(k, {"refused"}, FALSE, "live")

(* The arguments are dumped; lp_invoke returns its code and up to two      *)
(* strings the caller must free.                                           *)
CallBlocking(k, ok, res, errText) ==
    /\ stage[k] = "ensure"
    /\ op[k] \in Blocking
    /\ stage' = [stage EXCEPT ![k] = "decode"]
    /\ abi' = [abi EXCEPT ![k] = "settled"]
    /\ truth' = [truth EXCEPT ![k] = WhatHappened(ok, res)]
    /\ strings' = [strings EXCEPT ![k] =
                     {<<"res", res>>, <<"err", errText>>} \ ({"res", "err"} \X {"absent"})]
    /\ UNCHANGED <<op, box, fired, outcome, callerErr>>

BodyOf(k, name) ==
    IF \E b \in Bodies : <<name, b>> \in strings[k]
    THEN CHOOSE b \in Bodies : <<name, b>> \in strings[k]
    ELSE "absent"

BlockingTold(k) ==
    IF truth[k] = "failed"
    THEN [value |-> "null", err |-> ErrorFrom(BodyOf(k, "err"))]
    ELSE [value |-> Parsed(BodyOf(k, "res")), err |-> "ok"]

(* The reply is decoded into value and error and the strings are freed but *)
(* for `kept`.  A direct call writes the caller's CallError, which reads   *)
(* `clear` after a success; a wrapper starts from one of its own and folds *)
(* a rejection into it.                                                    *)
DecodeWith(k, kept, clear) ==
    LET raw == BlockingTold(k)
        err == IF raw.err = "ok" THEN clear ELSE raw.err
    IN  /\ stage[k] = "decode"
        /\ stage' = [stage EXCEPT ![k] = "done"]
        /\ strings' = [strings EXCEPT ![k] = @ \cap (kept \X Bodies)]
        /\ IF op[k] = "invoke"
           THEN Complete(k, [raw EXCEPT !.err = err]) /\ callerErr' = err
           ELSE /\ Complete(k, [raw EXCEPT !.err = Fold(raw.value, raw.err)])
                /\ UNCHANGED callerErr
        /\ UNCHANGED <<op, abi, box, truth>>

(* Fault: a success leaves the caller's CallError as it was.               *)
DecodeWithoutClear(k) == DecodeWith(k, {}, callerErr)

(* Fault: only the result string is given back.                            *)
DecodeKeepsErrText(k) == DecodeWith(k, {"err"}, "ok")

Decode(k) == DecodeWith(k, {}, "ok")

(***************************************************************************)
(* The C ABI.                                                              *)
(***************************************************************************)
Accept(k) ==
    /\ abi[k] = "deciding"
    /\ abi' = [abi EXCEPT ![k] = "owes"]
    /\ UNCHANGED <<op, stage, box, fired, outcome, truth, strings, callerErr>>

Refuse(k) ==
    /\ abi[k] = "deciding"
    /\ abi' = [abi EXCEPT ![k] = "refused"]
    /\ truth' = [truth EXCEPT ![k] = "refused"]
    /\ UNCHANGED <<op, stage, box, fired, outcome, strings, callerErr>>

(* A trampoline: it decodes the reply and runs the function in the box ... *)
Trampoline(k, ok, body) ==
    /\ abi[k] = "owes"
    /\ abi' = [abi EXCEPT ![k] = "calling"]
    /\ truth' = [truth EXCEPT ![k] = WhatHappened(ok, body)]
    /\ Complete(k, Told(op[k], ok, body))
    /\ UNCHANGED <<op, stage, box, strings, callerErr>>

(* ... and deletes the box when the function has returned.                 *)
DeleteBox(k) ==
    /\ abi[k] = "calling"
    /\ abi' = [abi EXCEPT ![k] = "settled"]
    /\ box' = [box EXCEPT ![k] = "freed"]
    /\ UNCHANGED <<op, stage, fired, outcome, truth, strings, callerErr>>

Caller(k) ==
    \/ \E o \in Ops : Begin(k, o)
    \/ IgnoreNullCallback(k)
    \/ NoClient(k)
    \/ ArgsThrow(k)
    \/ CallAsync(k)
    \/ ReturnAccepted(k)
    \/ ReturnRefused(k)
    \/ \E ok \in BOOLEAN, res, errText \in Bodies : CallBlocking(k, ok, res, errText)
    \/ Decode(k)

Abi(k) ==
    \/ Accept(k)
    \/ Refuse(k)
    \/ \E ok \in BOOLEAN, body \in Bodies : Trampoline(k, ok, body)
    \/ DeleteBox(k)

Next == \E k \in Calls : Caller(k) \/ Abi(k)

(* A thread inside a call keeps running, and the ABI answers what it was   *)
(* handed: a refusal or a callback comes (its timeout sees to that).       *)
Proceed(k) == stage[k] # "idle" /\ Caller(k)
CallFairness(k) == WF_vars(Proceed(k)) /\ WF_vars(Abi(k))

Fairness == \A k \in Calls : CallFairness(k)

Spec == Init /\ [][Next]_vars
FairSpec == Spec /\ Fairness

(***************************************************************************)
(* Properties.                                                             *)
(***************************************************************************)
Errors == {"untold", "thrown", "ok", "call_failed", "object_unavailable", "reported",
           "rejected"}

TypeOK ==
    /\ op \in [Calls -> Ops \cup {"none"}]
    /\ stage \in [Calls -> {"idle", "ensure", "inABI", "decode", "done"}]
    /\ abi \in [Calls -> {"none", "deciding", "refused", "owes", "calling", "settled"}]
    /\ box \in [Calls -> {"none", "live", "freed"}]
    /\ fired \in [Calls -> Nat]
    /\ outcome \in [Calls -> [value : Bodies \cup {"untold"}, err : Errors]]
    /\ truth \in [Calls -> {"open", "unsent", "noClient", "refused", "failed", "rejected",
                           "succeeded"}]
    /\ strings \in [Calls -> SUBSET ({"res", "err"} \X Bodies)]
    /\ callerErr \in Errors

(* While the ABI still owes a callback, or is inside one, the box it holds *)
(* the address of is allocated: no path of the caller frees it under it.   *)
BoxOutlivesTheCallback ==
    \A k \in Calls : abi[k] \in {"deciding", "owes", "calling"} => box[k] = "live"

(* Nothing more will happen for this call.                                 *)
Over(k) == stage[k] = "done" /\ abi[k] \in {"none", "refused", "settled"}

(* The two ways in which the code loses a box: invokeAsync does not look   *)
(* at a refusal, and the arguments of an asynchronous call throw.          *)
LosesItsBox(k) ==
    \/ op[k] = "async" /\ truth[k] = "refused"
    \/ op[k] \in Ops \ Blocking /\ truth[k] = "unsent"

(* A call that is over gave everything back, the two C strings and the     *)
(* box, but for a box that it lost in one of those ways.                   *)
NothingElseLeaks ==
    \A k \in Calls : Over(k) => strings[k] = {} /\ (box[k] = "live" <=> LosesItsBox(k))

(* Between too early and never: what a call allocates is there as long as  *)
(* somebody can still come to it, and stays for good in two cases only.    *)
MemoryIsSound == BoxOutlivesTheCallback /\ NothingElseLeaks

(* No call completes twice.  Of the blocking and the error-carrying calls  *)
(* none ends without its one completion, but for those whose arguments     *)
(* threw: their caller has the exception, and then never a completion.     *)
CompletesOnce ==
    \A k \in Calls :
        /\ fired[k] <= 1
        /\ outcome[k].err = "thrown" => fired[k] = 0
        /\ Over(k) /\ op[k] \notin {"none", "async"} =>
               (fired[k] = 0 <=> outcome[k].err = "thrown")

(* What a caller is told is what happened, whichever of the paths (no      *)
(* client, refusal, transport error, malformed error, rejection) it took:  *)
(* ok exactly for a success, and no value beside an error of transport.    *)
(* invoke() itself does not fold a rejection, and the CallError its caller *)
(* reuses describes the latest call, never an earlier one.                 *)
ToldTheTruth ==
    \A k \in Calls : fired[k] = 1 /\ op[k] # "async" =>
        /\ outcome[k].err = "ok" <=>
               truth[k] \in {"succeeded"} \cup IF op[k] = "invoke" THEN {"rejected"} ELSE {}
        /\ truth[k] \in {"noClient", "refused", "failed"} => outcome[k].value = "null"

(* The caller has heard of its call: a completion, or the exception.       *)
Heard(k) == fired[k] = 1 \/ outcome[k].err = "thrown"

(* Every error-carrying asynchronous call eventually completes, or throws  *)
(* to its caller.                                                          *)
AsyncResultCompletes == \A k \in Calls : op[k] = "asyncResult" ~> Heard(k)

(* No call ever sticks: its thread waits only while lp_invoke_async makes  *)
(* up its mind, and the ABI answers what it has taken without waiting for  *)
(* the thread.                                                             *)
NoCallSticks ==
    \A k \in Calls :
        /\ stage[k] \in {"ensure", "inABI", "decode"} /\ abi[k] # "deciding"
               => ENABLED <<Proceed(k)>>_vars
        /\ abi[k] \in {"deciding", "owes", "calling"} => ENABLED <<Abi(k)>>_vars

(* The comment on invokeAsync: "`cb` fires exactly once".  A call that     *)
(* threw was not made, and is not counted here.                            *)
InvokeAsyncFiresOnce ==
    \A k \in Calls : Over(k) /\ op[k] = "async" /\ truth[k] # "unsent" => fired[k] = 1
=============================================================================
