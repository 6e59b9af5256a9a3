--------------------------- MODULE Teardown_proofs ---------------------------
(***************************************************************************)
(* Machine-checked theorems about ModuleExports and Teardown, for every    *)
(* set of threads, contexts and callbacks.  What needs a host that does    *)
(* not overlap its calls until the hook has run (~overlaps) says so.       *)
(*                                                                         *)
(* A module that is being unloaded is still a module: every behaviour of   *)
(* Teardown is one of ModuleExports, so what is proved of the exports      *)
(* carries over, and only what the unload adds needs an invariant of its   *)
(* own.                                                                    *)
(***************************************************************************)
EXTENDS Teardown, TLAPS

(***************************************************************************)
(* The exports.                                                            *)
(***************************************************************************)
(* The emission that holds the mutex is inside the installed callback.     *)
EmissionHoldsCallback ==
    \A t \in Threads : emit[t] = "in" => emitTo[t] = emitCb

(* What lidlTryFireContext has established at each point of it.            *)
Established ==
    \A t \in Threads :
        /\ pc[t] \notin {"idle", "load"} => wired
        /\ pc[t] \in {"emitCheck", "latch", "set", "hook"} => copy[t] # None
        /\ pc[t] \in {"set", "hook"} => named /\ hookFired
        /\ pc[t] = "hook" => seen # None
        /\ pc[t] = "emitCheck" => op[t] # "dispatch"
        /\ pc[t] = "handler" => op[t] = "dispatch"
        /\ due[t] => stored # None

(* Someone is on the way to the latch whenever it can and should be set.   *)
LatchIsDue ==
    stored # None /\ emitCb # None /\ ~hookFired =>
        \E t \in Threads : pc[t] \in {"load", "context", "emitCheck", "latch"}

(* One export at a time until the hook is done, and no second try later.   *)
Serial ==
    ~overlaps =>
        /\ ~hookDone => \A t, u \in Threads : t = u \/ pc[t] = "idle" \/ pc[u] = "idle"
        /\ hookDone => hookFired /\ fires = 1 /\
              \A t \in Threads : pc[t] \in {"idle", "load", "handler"}
        /\ hookFired /\ ~hookDone => \E t \in Threads : pc[t] \in {"set", "hook"}
        /\ ~hookFired => fires = 0
        /\ \A t \in Threads : pc[t] = "set" => fires = 0
        /\ \A t \in Threads : pc[t] = "hook" => fires = 1
        /\ HookBeforeHandlers

Inv == TypeOK /\ EmissionHoldsCallback /\ Established /\ LatchIsDue /\ Serial

(* A context is delivered. *)
LEMMA SetContextInv ==
    ASSUME Inv, UNCHANGED overlaps, NEW t \in Threads, NEW c \in Contexts, SetContext(t, c) PROVE Inv'
<1> USE ModuleExportsAssumption DEF Inv, TypeOK, latch, calls, emission
<1>1. TypeOK' BY DEF SetContext, MayStart, Start, Goto
<1>2. EmissionHoldsCallback' BY DEF SetContext, MayStart, Start, Goto, EmissionHoldsCallback
<1>3. Established' BY DEF SetContext, MayStart, Start, Goto, Established
<1>4. LatchIsDue' BY DEF SetContext, MayStart, Start, Goto, LatchIsDue
<1>5. Serial' BY DEF SetContext, MayStart, Start, Goto, Serial, HookBeforeHandlers,
                     Established
<1> QED BY <1>1, <1>2, <1>3, <1>4, <1>5

(* An emit callback is installed or removed. *)
LEMMA SetEmitCallbackInv ==
    ASSUME Inv, UNCHANGED overlaps, NEW t \in Threads, NEW k \in Callbacks \cup {None}, SetEmitCallback(t, k) PROVE Inv'
<1> USE ModuleExportsAssumption DEF Inv, TypeOK, latch, calls, emission
<1>1. TypeOK' BY DEF SetEmitCallback, MayStart, Start, Goto
<1>2. EmissionHoldsCallback' BY DEF SetEmitCallback, MayStart, Start, Goto,
                                    EmissionHoldsCallback
<1>3. Established' BY DEF SetEmitCallback, MayStart, Start, Goto, Established
<1>4. LatchIsDue' BY DEF SetEmitCallback, MayStart, Start, Goto, LatchIsDue
<1>5. Serial' BY DEF SetEmitCallback, MayStart, Start, Goto, Serial, HookBeforeHandlers,
                     Established
<1> QED BY <1>1, <1>2, <1>3, <1>4, <1>5

(* A method is dispatched. *)
LEMMA DispatchInv ==
    ASSUME Inv, UNCHANGED overlaps, NEW t \in Threads, Dispatch(t) PROVE Inv'
<1> USE ModuleExportsAssumption DEF Inv, TypeOK, latch, calls, emission
<1>1. TypeOK' BY DEF Dispatch, MayStart, Start, Goto
<1>2. EmissionHoldsCallback' BY DEF Dispatch, MayStart, Start, Goto, EmissionHoldsCallback
<1>3. Established' BY DEF Dispatch, MayStart, Start, Goto, Established
<1>4. LatchIsDue' BY DEF Dispatch, MayStart, Start, Goto, LatchIsDue
<1>5. Serial' BY DEF Dispatch, MayStart, Start, Goto, Serial, HookBeforeHandlers, Established
<1> QED BY <1>1, <1>2, <1>3, <1>4, <1>5

(* Wherever an export goes on to after the latch, it is well typed. *)
LEMMA ProceedTypes ==
    ASSUME TypeOK, NEW t \in Threads, Proceed(t)
    PROVE  /\ op' \in [Threads -> {"none", "set_context", "set_emit_callback", "dispatch"}]
           /\ pc' \in [Threads -> {"idle", "load", "context", "emitCheck", "latch", "set",
                                   "hook", "handler"}]
           /\ due' \in [Threads -> BOOLEAN]
<1>1. CASE op[t] = "dispatch"
  BY <1>1 DEF Proceed, Goto, TypeOK
<1>2. CASE op[t] # "dispatch"
  <2>1. /\ op' = [op EXCEPT ![t] = "none"]
        /\ pc' = [pc EXCEPT ![t] = "idle"]
        /\ due' = [due EXCEPT ![t] = FALSE]
    BY <1>2 DEF Proceed, Goto
  <2>2. /\ op \in [Threads -> {"none", "set_context", "set_emit_callback", "dispatch"}]
        /\ pc \in [Threads -> {"idle", "load", "context", "emitCheck", "latch", "set",
                               "hook", "handler"}]
        /\ due \in [Threads -> BOOLEAN]
    BY DEF TypeOK
  <2> QED BY <2>1, <2>2
<1> QED BY <1>1, <1>2

(* The first look at the flag. *)
LEMMA LoadFlagInv ==
    ASSUME Inv, UNCHANGED overlaps, NEW t \in Threads, LoadFlag(t) PROVE Inv'
<1> USE ModuleExportsAssumption DEF Inv, TypeOK, latch, calls, emission
<1>1. TypeOK'
  <2>1. CASE hookFired
    BY <2>1, ProceedTypes DEF LoadFlag
  <2>2. CASE ~hookFired
    BY <2>2 DEF LoadFlag, Goto
  <2> QED BY <2>1, <2>2
<1>2. EmissionHoldsCallback' BY DEF LoadFlag, Proceed, Goto, EmissionHoldsCallback
<1>3. Established' BY DEF LoadFlag, Proceed, Goto, Established
<1>4. LatchIsDue' BY DEF LoadFlag, Proceed, Goto, LatchIsDue
<1>5. Serial' BY DEF LoadFlag, Proceed, Goto, Serial, HookBeforeHandlers, Established
<1> QED BY <1>1, <1>2, <1>3, <1>4, <1>5

(* The context is copied, if there is one. *)
LEMMA CopyContextInv ==
    ASSUME Inv, UNCHANGED overlaps, NEW t \in Threads, CopyContext(t) PROVE Inv'
<1> USE ModuleExportsAssumption DEF Inv, TypeOK, latch, calls, emission
<1>1. TypeOK'
  <2>1. CASE stored = None
    BY <2>1, ProceedTypes DEF CopyContext
  <2>2. CASE stored # None
    BY <2>2 DEF CopyContext, Goto
  <2> QED BY <2>1, <2>2
<1>2. EmissionHoldsCallback' BY DEF CopyContext, Proceed, Goto, EmissionHoldsCallback
<1>3. Established' BY DEF CopyContext, Proceed, Goto, Established
<1>4. LatchIsDue' BY DEF CopyContext, Proceed, Goto, LatchIsDue
<1>5. Serial' BY DEF CopyContext, Proceed, Goto, Serial, HookBeforeHandlers, Established
<1> QED BY <1>1, <1>2, <1>3, <1>4, <1>5

(* requireEmit is tested. *)
LEMMA EmitCheckInv ==
    ASSUME Inv, UNCHANGED overlaps, NEW t \in Threads, EmitCheck(t) PROVE Inv'
<1> USE ModuleExportsAssumption DEF Inv, TypeOK, latch, calls, emission
<1>1. TypeOK'
  <2>1. CASE emitCb = None
    BY <2>1, ProceedTypes DEF EmitCheck
  <2>2. CASE emitCb # None
    BY <2>2 DEF EmitCheck, Goto
  <2> QED BY <2>1, <2>2
<1>2. EmissionHoldsCallback' BY DEF EmitCheck, Proceed, Goto, EmissionHoldsCallback
<1>3. Established' BY DEF EmitCheck, Proceed, Goto, Established
<1>4. LatchIsDue' BY DEF EmitCheck, Proceed, Goto, LatchIsDue
<1>5. Serial' BY DEF EmitCheck, Proceed, Goto, Serial, HookBeforeHandlers, Established
<1> QED BY <1>1, <1>2, <1>3, <1>4, <1>5

(* The flag is set. *)
LEMMA LatchInv ==
    ASSUME Inv, UNCHANGED overlaps, NEW t \in Threads, Latch(t) PROVE Inv'
<1> USE ModuleExportsAssumption DEF Inv, TypeOK, latch, calls, emission
<1>1. TypeOK' BY DEF Latch, Goto
<1>2. EmissionHoldsCallback' BY DEF Latch, Goto, EmissionHoldsCallback
<1>3. Established' BY DEF Latch, Goto, Established
<1>4. LatchIsDue' BY DEF Latch, Goto, LatchIsDue
<1>5. Serial' BY DEF Latch, Goto, Serial, HookBeforeHandlers, Established
<1> QED BY <1>1, <1>2, <1>3, <1>4, <1>5

(* onContextReady begins. *)
LEMMA EnterHookInv ==
    ASSUME Inv, UNCHANGED overlaps, NEW t \in Threads, EnterHook(t) PROVE Inv'
<1> USE ModuleExportsAssumption DEF Inv, TypeOK, latch, calls, emission
<1>1. TypeOK' BY DEF EnterHook, Goto
<1>2. EmissionHoldsCallback' BY DEF EnterHook, Goto, EmissionHoldsCallback
<1>3. Established' BY DEF EnterHook, Goto, Established
<1>4. LatchIsDue' BY DEF EnterHook, Goto, LatchIsDue
<1>5. Serial' BY DEF EnterHook, Goto, Serial, HookBeforeHandlers, Established
<1> QED BY <1>1, <1>2, <1>3, <1>4, <1>5

(* onContextReady returns. *)
LEMMA LeaveHookInv ==
    ASSUME Inv, UNCHANGED overlaps, NEW t \in Threads, LeaveHook(t) PROVE Inv'
<1> USE ModuleExportsAssumption DEF Inv, TypeOK, latch, calls, emission
<1>1. TypeOK' BY ProceedTypes DEF LeaveHook
<1>2. EmissionHoldsCallback' BY DEF LeaveHook, Proceed, Goto, EmissionHoldsCallback
<1>3. Established' BY DEF LeaveHook, Proceed, Goto, Established
<1>4. LatchIsDue' BY DEF LeaveHook, Proceed, Goto, LatchIsDue
<1>5. Serial' BY DEF LeaveHook, Proceed, Goto, Serial, HookBeforeHandlers, Established
<1> QED BY <1>1, <1>2, <1>3, <1>4, <1>5

(* A handler returns. *)
LEMMA LeaveHandlerInv ==
    ASSUME Inv, UNCHANGED overlaps, NEW t \in Threads, LeaveHandler(t) PROVE Inv'
<1> USE ModuleExportsAssumption DEF Inv, TypeOK, latch, calls, emission
<1>1. TypeOK' BY DEF LeaveHandler, Goto
<1>2. EmissionHoldsCallback' BY DEF LeaveHandler, Goto, EmissionHoldsCallback
<1>3. Established' BY DEF LeaveHandler, Goto, Established
<1>4. LatchIsDue' BY DEF LeaveHandler, Goto, LatchIsDue
<1>5. Serial' BY DEF LeaveHandler, Goto, Serial, HookBeforeHandlers, Established
<1> QED BY <1>1, <1>2, <1>3, <1>4, <1>5

(* An emission begins. *)
LEMMA WantEmitInv ==
    ASSUME Inv, UNCHANGED overlaps, NEW t \in Threads, WantEmit(t) PROVE Inv'
<1> USE ModuleExportsAssumption DEF Inv, TypeOK, latch, calls, emission
<1>1. TypeOK' BY DEF WantEmit
<1>2. EmissionHoldsCallback' BY DEF WantEmit, EmissionHoldsCallback
<1>3. Established' BY DEF WantEmit, Established
<1>4. LatchIsDue' BY DEF WantEmit, LatchIsDue
<1>5. Serial' BY DEF WantEmit, Serial, HookBeforeHandlers, Established
<1> QED BY <1>1, <1>2, <1>3, <1>4, <1>5

(* An emission gets the mutex. *)
LEMMA EnterEmitInv ==
    ASSUME Inv, UNCHANGED overlaps, NEW t \in Threads, EnterEmit(t) PROVE Inv'
<1> USE ModuleExportsAssumption DEF Inv, TypeOK, latch, calls, emission
<1>1. TypeOK' BY DEF EnterEmit
<1>2. EmissionHoldsCallback' BY DEF EnterEmit, EmissionHoldsCallback
<1>3. Established' BY DEF EnterEmit, Established
<1>4. LatchIsDue' BY DEF EnterEmit, LatchIsDue
<1>5. Serial' BY DEF EnterEmit, Serial, HookBeforeHandlers, Established
<1> QED BY <1>1, <1>2, <1>3, <1>4, <1>5

(* An emission ends. *)
LEMMA LeaveEmitInv ==
    ASSUME Inv, UNCHANGED overlaps, NEW t \in Threads, LeaveEmit(t) PROVE Inv'
<1> USE ModuleExportsAssumption DEF Inv, TypeOK, latch, calls, emission
<1>1. TypeOK' BY DEF LeaveEmit
<1>2. EmissionHoldsCallback' BY DEF LeaveEmit, EmissionHoldsCallback
<1>3. Established' BY DEF LeaveEmit, Established
<1>4. LatchIsDue' BY DEF LeaveEmit, LatchIsDue
<1>5. Serial' BY DEF LeaveEmit, Serial, HookBeforeHandlers, Established
<1> QED BY <1>1, <1>2, <1>3, <1>4, <1>5

(* The initial state satisfies the inductive invariant. *)
LEMMA InitInv == Init => Inv
<1> SUFFICES ASSUME Init PROVE Inv OBVIOUS
<1> USE ModuleExportsAssumption DEF Init
<1>1. TypeOK BY DEF TypeOK
<1>2. EmissionHoldsCallback /\ Established BY DEF EmissionHoldsCallback, Established
<1>3. LatchIsDue BY DEF LatchIsDue
<1>4. Serial BY DEF Serial, HookBeforeHandlers
<1> QED BY <1>1, <1>2, <1>3, <1>4 DEF Inv

(* Every step, or none, preserves it. *)
LEMMA NextInv == Inv /\ [Next]_vars => Inv'
<1> SUFFICES ASSUME Inv, [Next]_vars PROVE Inv' OBVIOUS
<1>1. ASSUME NEW t \in Threads, Begin(t), UNCHANGED overlaps PROVE Inv'
  BY <1>1, SetContextInv, SetEmitCallbackInv, DispatchInv, WantEmitInv DEF Begin
<1>2. ASSUME NEW t \in Threads, Continue(t), UNCHANGED overlaps PROVE Inv'
  BY <1>2, LoadFlagInv, CopyContextInv, EmitCheckInv, LatchInv, EnterHookInv, LeaveHookInv,
     LeaveHandlerInv DEF Continue
<1>3. ASSUME NEW t \in Threads, Emitting(t), UNCHANGED overlaps PROVE Inv'
  BY <1>3, EnterEmitInv, LeaveEmitInv DEF Emitting
<1>4. CASE Next
  BY <1>1, <1>2, <1>3, <1>4 DEF Next
<1>5. CASE UNCHANGED vars
  BY <1>5 DEF vars, latch, calls, emission, Inv, TypeOK, EmissionHoldsCallback, Established,
              LatchIsDue, Serial, HookBeforeHandlers
<1> QED BY <1>4, <1>5

(* The inductive invariant holds in every reachable state. *)
THEOREM Invariance == Spec => []Inv
BY InitInv, NextInv, PTL DEF Spec

(* Every variable keeps its type; the mutex is held by who is emitting. *)
THEOREM TypeCorrect == Spec => []TypeOK
<1>1. Inv => TypeOK BY DEF Inv
<1> QED BY Invariance, <1>1, PTL

(* In whatever order and overlap the host calls, the hook finds its        *)
(* context, its name, modules() and the emitter in place.                  *)
THEOREM HookIsWired == Spec => []HookFindsAllWired
<1>1. Inv => HookFindsAllWired
  BY DEF Inv, Established, HookFindsAllWired
<1> QED BY Invariance, <1>1, PTL

(* No emission ever uses a callback that has been replaced. *)
THEOREM EmissionsAreCurrent == Spec => []EmitsOnlyToTheInstalled
<1>1. Inv => EmitsOnlyToTheInstalled
  BY DEF Inv, EmissionHoldsCallback, EmitsOnlyToTheInstalled
<1> QED BY Invariance, <1>1, PTL

(* Nobody has to call again: with a context and a callback delivered and   *)
(* no export in flight the hook has been fired.                            *)
THEOREM DeliveredIsFired == Spec => []DeliveredHookFires
<1>1. Inv => DeliveredHookFires
  BY DEF Inv, LatchIsDue, DeliveredHookFires
<1> QED BY Invariance, <1>1, PTL

(* A host that does not overlap its calls gets the documented hook: once,  *)
(* and before any handler whose dispatch found a context.                  *)
THEOREM OrderlyHostsAreServed == Spec => []OrderlyHostGetsTheHook
<1>1. ASSUME Inv, ~overlaps PROVE fires <= 1
  <2>1. CASE hookDone
    BY <1>1, <2>1 DEF Inv, Serial
  <2>2. CASE ~hookDone /\ hookFired
    <3>1. PICK t \in Threads : pc[t] \in {"set", "hook"}
      BY <1>1, <2>2 DEF Inv, Serial
    <3> QED BY <1>1, <3>1 DEF Inv, Serial
  <2>3. CASE ~hookFired
    BY <1>1, <2>3 DEF Inv, Serial
  <2> QED BY <1>1, <2>1, <2>2, <2>3 DEF Inv, TypeOK
<1>2. Inv => OrderlyHostGetsTheHook
  BY <1>1 DEF Inv, Serial, OrderlyHostGetsTheHook, HookFiresOnce
<1> QED BY Invariance, <1>2, PTL

(***************************************************************************)
(* Teardown implements ModuleExports.                                      *)
(***************************************************************************)
(* Exports and emissions during an unload are steps of ModuleExports; the  *)
(* rest of the unload leaves its variables alone.                          *)
LEMMA LifeStepIsAStep == [LifeNext]_lifeVars => [Next]_vars
<1> SUFFICES ASSUME LifeNext PROVE [Next]_vars
  BY DEF lifeVars
<1>1. ASSUME NEW t \in Threads, Exports(t) PROVE Next
  <2>1. overlaps' = overlaps
    BY <1>1 DEF Exports
  <2>2. Begin(t) \/ Continue(t) \/ Emitting(t)
    <3>1. CASE t = Host /\ TakeBackEmit
      BY <3>1 DEF TakeBackEmit, Begin
    <3> QED BY <1>1, <3>1 DEF Exports
  <2> QED BY <2>1, <2>2 DEF Next
<1> QED BY <1>1 DEF LifeNext

(* Every behaviour of a module with its unload is a behaviour of its       *)
(* exports: announcing an unload adds no way to call the module.           *)
THEOREM TeardownImplementsExports == LifeSpec => Spec
<1>1. LifeInit => Init
  BY DEF LifeInit
<1> QED BY <1>1, LifeStepIsAStep, PTL DEF LifeSpec, Spec

(* The hook finds its context, name and modules() also in a module that is *)
(* unloaded at any moment.                                                 *)
THEOREM LifeHookIsWired == LifeSpec => []HookFindsAllWired
BY TeardownImplementsExports, HookIsWired, PTL

(* No emission uses a callback the host has taken back, up to and after    *)
(* the unload.                                                             *)
THEOREM LifeEmissionsAreCurrent == LifeSpec => []EmitsOnlyToTheInstalled
BY TeardownImplementsExports, EmissionsAreCurrent, PTL

(* The hook is never lost between context and callback, unload or not.     *)
THEOREM LifeDeliveredIsFired == LifeSpec => []DeliveredHookFires
BY TeardownImplementsExports, DeliveredIsFired, PTL

(* An orderly host gets the documented hook, unload or not.                *)
THEOREM LifeOrderlyHostsAreServed == LifeSpec => []OrderlyHostGetsTheHook
BY TeardownImplementsExports, OrderlyHostsAreServed, PTL

(***************************************************************************)
(* What the unload adds.                                                   *)
(***************************************************************************)
(* Nothing has been finished, and nobody is finishing anything, before the *)
(* announcement; after it the wiring is there; and whoever finished with   *)
(* the host listening has told it.                                         *)
Heard ==
    /\ host = "running" => ~working /\ ~finished /\ \A t \in Threads : fin[t] = "idle"
    /\ host # "running" => unloadWired
    /\ finished /\ unloadCb = Listener => signalled

LifeInv == LifeTypeOK /\ Heard

LEMMA LifeInitInv == LifeInit => LifeInv
<1> SUFFICES ASSUME LifeInit PROVE LifeInv OBVIOUS
<1> USE TeardownAssumption DEF LifeInit
<1>1. LifeTypeOK BY InitInv DEF LifeTypeOK, Inv
<1>2. Heard BY DEF Heard
<1> QED BY <1>1, <1>2 DEF LifeInv

(* The host's own steps. *)
LEMMA HostStepInv ==
    ASSUME LifeInv, TypeOK', HostStep PROVE LifeInv'
<1> USE TeardownAssumption DEF LifeInv, LifeTypeOK, Heard
<1>1. CASE Listen BY <1>1 DEF Listen
<1>2. CASE AboutToUnload BY <1>2 DEF AboutToUnload
<1>3. ASSUME NEW a \in {"Synchronous", "Asynchronous"}, Answer(a) PROVE LifeInv'
  BY <1>3 DEF Answer
<1>4. CASE HearSignal BY <1>4 DEF HearSignal
<1>5. CASE GraceElapses BY <1>5 DEF GraceElapses
<1>6. CASE StopListening BY <1>6 DEF StopListening
<1> QED BY <1>1, <1>2, <1>3, <1>4, <1>5, <1>6 DEF HostStep

(* The module finishes, from any thread. *)
LEMMA FinishInv ==
    ASSUME LifeInv, TypeOK', NEW t \in Threads, UnloadFinished(t) PROVE LifeInv'
<1> USE TeardownAssumption DEF LifeInv, LifeTypeOK, Heard
<1>1. unloadWired /\ host # "running" BY DEF UnloadFinished
<1>2. fin' = [fin EXCEPT ![t] = "copy"] /\ working' = FALSE
  BY <1>1 DEF UnloadFinished
<1>3. UNCHANGED <<unloadCb, unloadWired, host, answer, held, signalled, finished>>
  BY <1>1 DEF UnloadFinished
<1>4. LifeTypeOK' BY <1>2, <1>3
<1>5. Heard' BY <1>1, <1>2, <1>3
<1> QED BY <1>4, <1>5

(* The host is told, or has no callback to be told by. *)
LEMMA SignalInv ==
    ASSUME LifeInv, TypeOK', NEW t \in Threads, Signal(t) PROVE LifeInv'
<1> USE TeardownAssumption DEF LifeInv, LifeTypeOK, Heard
<1>1. CASE CopyOut(t)
  <2>1. CASE unloadCb = None BY <1>1, <2>1 DEF CopyOut
  <2>2. CASE unloadCb # None BY <1>1, <2>2 DEF CopyOut
  <2> QED BY <2>1, <2>2
<1>2. CASE CallOutside(t) BY <1>2 DEF CallOutside
<1> QED BY <1>1, <1>2 DEF Signal

LEMMA LifeNextInv == LifeInv /\ Inv' /\ [LifeNext]_lifeVars => LifeInv'
<1> SUFFICES ASSUME LifeInv, Inv', [LifeNext]_lifeVars PROVE LifeInv' OBVIOUS
<1>1. TypeOK' BY DEF Inv
<1>2. CASE UNCHANGED teardown
  BY <1>1, <1>2 DEF LifeInv, LifeTypeOK, Heard, teardown
<1>3. ASSUME NEW t \in Threads, Exports(t) PROVE LifeInv'
  BY <1>2, <1>3 DEF Exports
<1>4. CASE StartWork
  BY <1>1, <1>4 DEF StartWork, LifeInv, LifeTypeOK, Heard
<1>5. CASE LifeNext
  BY <1>1, <1>3, <1>4, <1>5, HostStepInv, FinishInv, SignalInv DEF LifeNext
<1> QED BY <1>2, <1>5 DEF lifeVars

(* The inductive invariant holds in every reachable state. *)
THEOREM LifeInvariance == LifeSpec => []LifeInv
<1>1. LifeSpec => []Inv
  BY TeardownImplementsExports, Invariance, PTL
<1> QED BY <1>1, LifeInitInv, LifeNextInv, PTL DEF LifeSpec

(* Every variable of the unload keeps its type.                            *)
THEOREM LifeTypeCorrect == LifeSpec => []LifeTypeOK
<1>1. LifeInv => LifeTypeOK BY DEF LifeInv
<1> QED BY LifeInvariance, <1>1, PTL

(* However the end of the module's work races its answer and the host's    *)
(* wait, a host that listened has been told once the module has finished.  *)
THEOREM FinishedIsAlwaysHeard == LifeSpec => []FinishedIsHeard
<1>1. LifeInv => FinishedIsHeard BY DEF LifeInv, Heard, FinishedIsHeard
<1> QED BY LifeInvariance, <1>1, PTL

(***************************************************************************)
(* Progress.  OnlyEmissionsBlock is a premise: it says what steps wait     *)
(* for, in terms of ENABLED, which the prover does not look inside.        *)
(***************************************************************************)
(* Inside lidlTryFireContext a thread does not emit.                       *)
Silent == \A t \in Threads : pc[t] \notin {"idle", "hook", "handler"} => emit[t] = "no"

(* Between exports and emissions.                                          *)
Out(t) == pc[t] = "idle" /\ emit[t] = "no"

(* What one step makes of its own thread's place in an export ...          *)
LEMMA ExportMoves ==
    ASSUME TypeOK, Silent, NEW t \in Threads, Continue(t)
    PROVE  /\ emit' = emit
           /\ \A u \in Threads \ {t} : pc'[u] = pc[u]
           /\ pc[t] # "idle"
           /\ pc[t] = "load" => pc'[t] \in {"context", "handler", "idle"}
           /\ pc[t] = "context" => pc'[t] \in {"emitCheck", "latch", "handler", "idle"}
           /\ pc[t] = "emitCheck" => pc'[t] \in {"latch", "handler", "idle"}
           /\ pc[t] = "latch" => pc'[t] = "set"
           /\ pc[t] = "set" => pc'[t] = "hook"
           /\ pc[t] = "hook" => pc'[t] \in {"handler", "idle"} /\ emit[t] = "no"
           /\ pc[t] = "handler" => pc'[t] = "idle" /\ emit[t] = "no"
<1> USE DEF TypeOK, emission
<1>0. Proceed(t) => \/ pc' = [pc EXCEPT ![t] = "handler"]
                    \/ pc' = [pc EXCEPT ![t] = "idle"]
  BY DEF Proceed, Goto
<1>1. CASE LoadFlag(t)
  BY <1>0, <1>1 DEF LoadFlag, Goto
<1>2. CASE CopyContext(t)
  BY <1>0, <1>2 DEF CopyContext, Goto
<1>3. CASE EmitCheck(t)
  BY <1>0, <1>3 DEF EmitCheck, Goto
<1>4. CASE Latch(t)
  BY <1>4 DEF Latch, Goto
<1>5. CASE EnterHook(t)
  BY <1>5 DEF EnterHook, Goto
<1>6. CASE LeaveHook(t)
  BY <1>0, <1>6 DEF LeaveHook
<1>7. CASE LeaveHandler(t)
  BY <1>7 DEF LeaveHandler, Goto
<1> QED BY <1>1, <1>2, <1>3, <1>4, <1>5, <1>6, <1>7 DEF Continue

(* ... and in an emission.                                                 *)
LEMMA EmissionMoves ==
    ASSUME TypeOK, NEW t \in Threads, Emitting(t)
    PROVE  /\ pc' = pc
           /\ \A u \in Threads \ {t} : emit'[u] = emit[u]
           /\ \/ EnterEmit(t) /\ emit[t] = "want" /\ emit'[t] \in {"in", "no"}
              \/ LeaveEmit(t) /\ emit[t] = "in" /\ emit'[t] = "no" /\ emitLock = t
BY DEF Emitting, EnterEmit, LeaveEmit, TypeOK, calls

(* A thread begins only when it is out, or emits where it may.             *)
LEMMA BeginMoves ==
    ASSUME TypeOK, NEW t \in Threads, Begin(t)
    PROVE  /\ emit[t] = "no"
           /\ \A u \in Threads \ {t} : pc'[u] = pc[u] /\ emit'[u] = emit[u]
           /\ \/ pc[t] = "idle" /\ pc'[t] = "load" /\ emit' = emit
              \/ pc[t] \in {"idle", "hook", "handler"} /\ pc' = pc /\ emit'[t] = "want"
<1> USE DEF TypeOK, latch, calls, emission
<1>1. ASSUME NEW c \in Contexts, SetContext(t, c)
      PROVE  pc[t] = "idle" /\ emit[t] = "no" /\ pc' = [pc EXCEPT ![t] = "load"] /\ emit' = emit
  BY <1>1 DEF SetContext, MayStart, Start, Goto
<1>2. ASSUME NEW k \in Callbacks \cup {None}, SetEmitCallback(t, k)
      PROVE  pc[t] = "idle" /\ emit[t] = "no" /\ pc' = [pc EXCEPT ![t] = "load"] /\ emit' = emit
  BY <1>2 DEF SetEmitCallback, MayStart, Start, Goto
<1>3. ASSUME Dispatch(t)
      PROVE  pc[t] = "idle" /\ emit[t] = "no" /\ pc' = [pc EXCEPT ![t] = "load"] /\ emit' = emit
  BY <1>3 DEF Dispatch, MayStart, Start, Goto
<1>4. CASE WantEmit(t)
  BY <1>4 DEF WantEmit
<1> QED BY <1>1, <1>2, <1>3, <1>4 DEF Begin

LEMMA SilentInv == TypeOK /\ Silent /\ [Next]_vars => Silent'
<1> SUFFICES ASSUME TypeOK, Silent, [Next]_vars PROVE Silent'
  OBVIOUS
<1>1. CASE UNCHANGED vars
  BY <1>1 DEF vars, calls, emission, Silent
<1>2. ASSUME NEW t \in Threads, Begin(t) PROVE Silent'
  BY <1>2, BeginMoves DEF Silent
<1>3. ASSUME NEW t \in Threads, Continue(t) PROVE Silent'
  <2>1. TypeOK => pc[t] \in {"idle", "load", "context", "emitCheck", "latch", "set", "hook", "handler"}
    BY DEF TypeOK
  <2> QED BY <1>3, <2>1, ExportMoves DEF Silent
<1>4. ASSUME NEW t \in Threads, Emitting(t) PROVE Silent'
  BY <1>4, EmissionMoves DEF Silent
<1> QED BY <1>1, <1>2, <1>3, <1>4 DEF Next

THEOREM LatchIsSilent == Spec => []Silent
<1>1. Init => Silent BY DEF Init, Silent
<1> QED BY <1>1, TypeCorrect, SilentInv, PTL DEF Spec

(* Where any step of the system leaves one thread.                         *)
LEMMA ThreadMoves ==
    ASSUME TypeOK, Silent, NEW t \in Threads, [Next]_vars
    PROVE  /\ pc[t] = "load" => pc'[t] \in {"load", "context", "handler"} \/ Out(t)'
           /\ pc[t] = "context" =>
                  pc'[t] \in {"context", "emitCheck", "latch", "handler"} \/ Out(t)'
           /\ pc[t] = "emitCheck" => pc'[t] \in {"emitCheck", "latch", "handler"} \/ Out(t)'
           /\ pc[t] = "latch" => pc'[t] \in {"latch", "set"}
           /\ pc[t] = "set" => pc'[t] \in {"set", "hook"}
           /\ pc[t] = "hook" => pc'[t] \in {"hook", "handler"} \/ Out(t)'
           /\ pc[t] = "handler" => pc'[t] = "handler" \/ Out(t)'
           /\ pc[t] = "idle" /\ emit[t] # "no" => pc'[t] = "idle"
           /\ emit[t] = "want" => emit'[t] \in {"want", "in", "no"}
           /\ emit[t] = "in" => emit'[t] \in {"in", "no"}
<1> USE DEF Silent, Out
<1>1. CASE UNCHANGED vars
  BY <1>1 DEF vars, calls, emission
<1>2. ASSUME NEW u \in Threads, Begin(u)
      PROVE  /\ pc'[t] = pc[t] \/ (pc[t] = "idle" /\ emit[t] = "no")
             /\ emit'[t] = emit[t] \/ emit[t] = "no"
  <2>1. CASE u = t BY <1>2, <2>1, BeginMoves
  <2>2. CASE u # t BY <1>2, <2>2, BeginMoves
  <2> QED BY <2>1, <2>2
<1>4. CASE \E u \in Threads : Begin(u)
  BY <1>2, <1>4
<1>5. CASE Continue(t)
  <2>1. emit'[t] = emit[t] /\ pc[t] # "idle"
    BY <1>5, ExportMoves
  <2>2. pc'[t] = "idle" => Out(t)'
    <3>1. pc[t] \in {"hook", "handler"} => emit[t] = "no"
      BY <1>5, ExportMoves
    <3>2. emit[t] = "no"
      BY <2>1, <3>1
    <3> QED BY <2>1, <3>2
  <2> HIDE DEF Out
  <2> QED BY <1>5, <2>1, <2>2, ExportMoves
<1>6. CASE \E u \in Threads \ {t} : Continue(u)
  <2>1. pc'[t] = pc[t] /\ emit' = emit
    BY <1>6, ExportMoves
  <2> QED BY <2>1
<1>7. CASE \E u \in Threads : Emitting(u)
  <2>1. PICK u \in Threads : Emitting(u) BY <1>7
  <2>2. pc'[t] = pc[t] BY <2>1, EmissionMoves
  <2>3. CASE u = t BY <2>1, <2>2, <2>3, EmissionMoves
  <2>4. CASE u # t BY <2>1, <2>2, <2>4, EmissionMoves
  <2> QED BY <2>3, <2>4
<1> QED BY <1>1, <1>4, <1>5, <1>6, <1>7 DEF Next

(* What a fair life has in every state, and what it owes a thread.         *)
Sound == TypeOK /\ Silent

LEMMA FairLife ==
    LifeSpec => []Sound /\ [][LifeNext]_lifeVars /\ [][Next]_vars /\ CallbackFairness
<1>1. LifeSpec => Spec /\ LifeFairness /\ [][LifeNext]_lifeVars
  BY TeardownImplementsExports, PTL DEF LifeSpec
<1>2. LifeFairness => CallbackFairness BY DEF LifeFairness
<1>3. TypeOK /\ Silent => Sound BY DEF Sound
<1> QED BY <1>1, <1>2, <1>3, TypeCorrect, LatchIsSilent, PTL DEF Spec

LEMMA FairToThread == ASSUME NEW t \in Threads PROVE LifeSpec => ThreadFairness(t)
<1>1. LifeSpec => LifeFairness BY DEF LifeSpec
<1>2. LifeFairness => ThreadFairness(t) BY DEF LifeFairness
<1> QED BY <1>1, <1>2

(* g_emitMutex comes free again and again.                                 *)
LEMMA EmitMutexComesFree == LifeSpec /\ []OnlyEmissionsBlock => []<>(emitLock = None)
<1>1. Sound /\ <<EmitReturns>>_lifeVars => (emitLock = None)'
  <2> SUFFICES ASSUME Sound, EmitReturns PROVE emitLock' = None
    OBVIOUS
  <2>1. PICK t \in Threads : LeaveEmit(t)
    BY DEF EmitReturns
  <2> QED BY <2>1, EmissionMoves DEF Sound, Emitting, LeaveEmit
<1>2. OnlyEmissionsBlock => (emitLock = None \/ ENABLED <<EmitReturns>>_lifeVars)
  BY DEF OnlyEmissionsBlock
<1> QED BY <1>1, <1>2, FairLife, PTL DEF CallbackFairness

(* An emission ends, whoever else emits.                                   *)
LEMMA EmissionEnds ==
    ASSUME NEW t \in Threads
    PROVE  LifeSpec /\ []OnlyEmissionsBlock => []<>(emit[t] = "no")
<1>1. Sound => emit[t] = "no" \/ emit[t] = "want" \/ emit[t] = "in"
  BY DEF Sound, TypeOK
<1>2. Sound /\ [Next]_vars =>
          /\ emit[t] = "want" => (emit[t] = "want" \/ emit[t] = "in" \/ emit[t] = "no")'
          /\ emit[t] = "in" => (emit[t] = "in" \/ emit[t] = "no")'
  BY ThreadMoves DEF Sound
<1>3. Sound /\ <<EmitStep(t)>>_lifeVars => (emit[t] = "in" \/ emit[t] = "no")'
  BY EmissionMoves DEF Sound, EmitStep, Emitting
<1>4. Sound /\ emit[t] = "in" /\ <<EmitReturns>>_lifeVars => (emit[t] = "no")'
  <2> SUFFICES ASSUME Sound, emit[t] = "in", EmitReturns PROVE emit'[t] = "no"
    OBVIOUS
  <2>1. PICK u \in Threads : LeaveEmit(u)
    BY DEF EmitReturns
  <2>2. emit[u] = "in" /\ emit' = [emit EXCEPT ![u] = "no"]
    BY <2>1 DEF LeaveEmit
  <2>3. u = t
    BY <2>2 DEF Sound, TypeOK
  <2> QED BY <2>2, <2>3 DEF Sound, TypeOK
<1>5. Sound /\ OnlyEmissionsBlock =>
          /\ emit[t] = "want" /\ emitLock = None => ENABLED <<EmitStep(t)>>_lifeVars
          /\ emit[t] = "in" => ENABLED <<EmitReturns>>_lifeVars
  BY ModuleExportsAssumption DEF Sound, TypeOK, OnlyEmissionsBlock
<1> QED BY <1>1, <1>2, <1>3, <1>4, <1>5, FairLife, FairToThread, EmitMutexComesFree, PTL
        DEF ThreadFairness, CallbackFairness

(* Exports and emissions return, on every thread, up to and in an unload,  *)
(* and also when hooks and handlers emit.                                  *)
THEOREM ExportsAlwaysReturn == LifeSpec /\ []OnlyEmissionsBlock => ExportsReturn
<1>1. ASSUME NEW t \in Threads
      PROVE  LifeSpec /\ []OnlyEmissionsBlock =>
                 ((pc[t] # "idle" \/ emit[t] # "no") ~> (pc[t] = "idle" /\ emit[t] = "no"))
  <2>1. Sound => \/ pc[t] = "idle" \/ pc[t] = "load" \/ pc[t] = "context" \/ pc[t] = "emitCheck"
                 \/ pc[t] = "latch" \/ pc[t] = "set" \/ pc[t] = "hook" \/ pc[t] = "handler"
    BY DEF Sound, TypeOK
  <2>2. Sound /\ [Next]_vars =>
            /\ pc[t] = "load" =>
                   (pc[t] = "load" \/ pc[t] = "context" \/ pc[t] = "handler" \/ Out(t))'
            /\ pc[t] = "context" =>
                   (\/ pc[t] = "context" \/ pc[t] = "emitCheck" \/ pc[t] = "latch"
                    \/ pc[t] = "handler" \/ Out(t))'
            /\ pc[t] = "emitCheck" =>
                   (pc[t] = "emitCheck" \/ pc[t] = "latch" \/ pc[t] = "handler" \/ Out(t))'
            /\ pc[t] = "latch" => (pc[t] = "latch" \/ pc[t] = "set")'
            /\ pc[t] = "set" => (pc[t] = "set" \/ pc[t] = "hook")'
            /\ pc[t] = "hook" => (pc[t] = "hook" \/ pc[t] = "handler" \/ Out(t))'
            /\ pc[t] = "handler" => (pc[t] = "handler" \/ Out(t))'
            /\ pc[t] = "idle" => (pc[t] = "idle")' \/ emit[t] = "no"
    BY ThreadMoves DEF Sound
  <2>3. Sound /\ <<ExportStep(t)>>_lifeVars =>
            /\ pc[t] = "load" => ~(pc[t] = "load")'
            /\ pc[t] = "context" => ~(pc[t] = "context")'
            /\ pc[t] = "emitCheck" => ~(pc[t] = "emitCheck")'
            /\ pc[t] = "latch" => ~(pc[t] = "latch")'
            /\ pc[t] = "set" => ~(pc[t] = "set")'
            /\ pc[t] = "hook" => ~(pc[t] = "hook")'
            /\ pc[t] = "handler" => ~(pc[t] = "handler")'
    BY ExportMoves DEF Sound, ExportStep
  <2>4. OnlyEmissionsBlock =>
            /\ pc[t] = "load" \/ pc[t] = "context" \/ pc[t] = "latch" \/ pc[t] = "set"
                   => ENABLED <<ExportStep(t)>>_lifeVars
            /\ pc[t] = "emitCheck" /\ emitLock = None => ENABLED <<ExportStep(t)>>_lifeVars
            /\ (pc[t] = "hook" \/ pc[t] = "handler") /\ emit[t] = "no"
                   => ENABLED <<ExportStep(t)>>_lifeVars
    BY DEF OnlyEmissionsBlock
  <2>5. Out(t) <=> pc[t] = "idle" /\ emit[t] = "no"
    BY DEF Out
  <2>6. LifeSpec /\ []OnlyEmissionsBlock => []<>(emit[t] = "no")
    BY EmissionEnds
  <2> QED BY <2>1, <2>2, <2>3, <2>4, <2>5, <2>6, FairLife, FairToThread, EmitMutexComesFree, PTL
          DEF ThreadFairness
<1> QED BY <1>1 DEF ExportsReturn
=============================================================================
