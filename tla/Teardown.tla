------------------------------ MODULE Teardown ------------------------------
(***************************************************************************)
(* Unloading the module whose exports ModuleExports has:                   *)
(* logos_module_set_unload_done_callback and logos_module_about_to_unload  *)
(* in the generated export unit (cpp-generator/experimental/               *)
(* lidl_gen_cdylib.cpp), aboutToUnload and unloadFinished in the context   *)
(* (cpp/logos_module_context.h).                                           *)
(*                                                                         *)
(* The host is outside this repository; it is what the context's comments  *)
(* promise a module: it installs its callback, announces the unload of a   *)
(* module that it has no call in, waits for an asynchronous one up to a    *)
(* grace period, acts on the first signal, and then stops listening (it    *)
(* clears its callbacks).  The module goes on emitting events meanwhile.   *)
(***************************************************************************)
EXTENDS ModuleExports

CONSTANTS Host,      \* the host's thread; the others are the module's
          Listener   \* the host's unload callback with its user data

ASSUME TeardownAssumption == Host \in Threads /\ Listener # None

VARIABLES
    unloadCb,   \* g_unloadCb with g_unloadUd
    unloadWired,\* m_unloadFinishedCallback is set
    host,       \* where the host is
    working,    \* an asynchronous teardown is unfinished
    answer,     \* what aboutToUnload answered, or "none"
    fin,        \* per thread: where it is in unloadFinished()
    held,       \* per thread: the callback it copied out under the mutex
    signalled,  \* the host has been told
    finished    \* an unloadFinished() since the announcement has returned

teardown == <<unloadCb, unloadWired, host, working, answer, fin, held, signalled, finished>>
lifeVars == <<vars, teardown>>

LifeInit ==
    /\ Init
    /\ unloadCb = None /\ unloadWired = FALSE
    /\ host = "running" /\ working = FALSE /\ answer = "none"
    /\ fin = [t \in Threads |-> "idle"]
    /\ held = [t \in Threads |-> None]
    /\ signalled = FALSE /\ finished = FALSE

Unoccupied(t) == pc[t] = "idle" /\ emit[t] = "no" /\ fin[t] = "idle"

(***************************************************************************)
(* The host.                                                               *)
(***************************************************************************)
(* set_unload_done_callback(cb, user_data).                                *)
Listen ==
    /\ host = "running" /\ unloadCb = None
    /\ Unoccupied(Host)
    /\ unloadCb' = Listener
    /\ UNCHANGED <<unloadWired, host, working, answer, fin, held, signalled, finished>>

(* Fault: the hook is asked before it has a way to say "done".             *)
AboutToUnloadUnwired ==
    /\ host = "running"
    /\ Unoccupied(Host) /\ \A t \in Threads : pc[t] = "idle"
    /\ host' = "asking"
    /\ UNCHANGED <<unloadCb, unloadWired, working, answer, fin, held, signalled, finished>>

(* about_to_unload wires unloadFinished() BEFORE it asks the module ...    *)
AboutToUnload ==
    /\ host = "running"
    /\ Unoccupied(Host) /\ \A t \in Threads : pc[t] = "idle"
    /\ host' = "asking"
    /\ unloadWired' = TRUE
    /\ UNCHANGED <<unloadCb, working, answer, fin, held, signalled, finished>>

(* ... and the module's hook answers.  Asynchronous work may already have  *)
(* been finished inline, or by a worker.                                   *)
Answer(a) ==
    /\ host = "asking" /\ Unoccupied(Host)
    /\ working \/ finished => a = "Asynchronous"
    /\ answer' = a
    /\ host' = IF a = "Asynchronous" THEN "waiting" ELSE "closing"
    /\ UNCHANGED <<unloadCb, unloadWired, working, fin, held, signalled, finished>>

(* The wait ends on the first signal ...                                   *)
HearSignal ==
    /\ host = "waiting" /\ signalled
    /\ host' = "closing"
    /\ UNCHANGED <<unloadCb, unloadWired, working, answer, fin, held, signalled, finished>>

(* ... or when the grace period is over.                                   *)
GraceElapses ==
    /\ host = "waiting" /\ ~signalled
    /\ host' = "closing"
    /\ UNCHANGED <<unloadCb, unloadWired, working, answer, fin, held, signalled, finished>>

(* set_unload_done_callback(NULL): its user data may go after this.        *)
StopListening ==
    /\ host = "closing" /\ Unoccupied(Host)
    /\ unloadCb' = None
    /\ host' = "gone"
    /\ UNCHANGED <<unloadWired, working, answer, fin, held, signalled, finished>>

HostStep ==
    \/ Listen \/ AboutToUnload \/ \E a \in {"Synchronous", "Asynchronous"} : Answer(a)
    \/ HearSignal \/ GraceElapses \/ StopListening

(***************************************************************************)
(* The module.                                                             *)
(***************************************************************************)
(* The hook finds work to be finished.                                     *)
StartWork ==
    /\ host = "asking" /\ ~working /\ ~finished
    /\ working' = TRUE
    /\ UNCHANGED <<unloadCb, unloadWired, host, answer, fin, held, signalled, finished>>

(* unloadFinished(): from any thread, the hook's own included, once or     *)
(* more; without the wiring it is a no-op.                                 *)
UnloadFinished(t) ==
    /\ Unoccupied(t)
    /\ t = Host => host = "asking"
    /\ working \/ finished
    /\ working' = FALSE
    /\ IF unloadWired THEN fin' = [fin EXCEPT ![t] = "copy"] /\ UNCHANGED finished
                      ELSE finished' = TRUE /\ UNCHANGED fin
    /\ UNCHANGED <<unloadCb, unloadWired, host, answer, held, signalled>>

(* The lambda copies callback and user data under g_unloadMutex ...        *)
CopyOut(t) ==
    /\ fin[t] = "copy"
    /\ IF unloadCb = None
       THEN /\ fin' = [fin EXCEPT ![t] = "idle"]
            /\ finished' = TRUE
            /\ UNCHANGED held
       ELSE /\ held' = [held EXCEPT ![t] = unloadCb]
            /\ fin' = [fin EXCEPT ![t] = "call"]
            /\ UNCHANGED finished
    /\ UNCHANGED <<unloadCb, unloadWired, host, working, answer, signalled>>

(* ... and calls it outside.                                               *)
CallOutside(t) ==
    /\ fin[t] = "call"
    /\ signalled' = TRUE
    /\ finished' = TRUE
    /\ held' = [held EXCEPT ![t] = None]
    /\ fin' = [fin EXCEPT ![t] = "idle"]
    /\ UNCHANGED <<unloadCb, unloadWired, host, working, answer>>

Signal(t) == CopyOut(t) \/ CallOutside(t)

(***************************************************************************)
(* The two together.  A host that unloads a module makes no other call     *)
(* into it than to take its emit callback back.                            *)
(***************************************************************************)
TakeBackEmit == host = "closing" /\ Unoccupied(Host) /\ SetEmitCallback(Host, None)

Exports(t) ==
    /\ \/ fin[t] = "idle" /\ Begin(t) /\ (host = "running" \/ UNCHANGED pc)
       \/ Continue(t) \/ Emitting(t)
       \/ t = Host /\ TakeBackEmit
    /\ UNCHANGED <<overlaps, teardown>>

LifeNext ==
    \/ \E t \in Threads : Exports(t)
    \/ (HostStep \/ StartWork \/ \E t \in Threads : UnloadFinished(t) \/ Signal(t))
       /\ UNCHANGED vars

(* Steps of an export, an emission and the host's emit callback, which the *)
(* rest of the module's life does not see.                                 *)
ExportStep(t) == Continue(t) /\ UNCHANGED <<overlaps, teardown>>
EmitStep(t)   == EnterEmit(t) /\ UNCHANGED <<overlaps, teardown>>
EmitReturns   == (\E t \in Threads : LeaveEmit(t)) /\ UNCHANGED <<overlaps, teardown>>

(* A thread inside an export runs on, hooks and handlers return: none goes *)
(* on emitting for ever.  The mutex is granted to each waiter in the end,  *)
(* and the host's callback, which runs under it, returns.                  *)
ThreadFairness(t) ==
    /\ SF_lifeVars(ExportStep(t)) /\ SF_lifeVars(EmitStep(t))
    /\ WF_lifeVars(Signal(t) /\ UNCHANGED vars)
CallbackFairness == WF_lifeVars(EmitReturns)

LifeFairness == (\A t \in Threads : ThreadFairness(t)) /\ CallbackFairness

LifeSpec == LifeInit /\ [][LifeNext]_lifeVars /\ LifeFairness

(***************************************************************************)
(* Properties.                                                             *)
(***************************************************************************)
LifeTypeOK ==
    /\ TypeOK
    /\ unloadCb \in {Listener, None} /\ unloadWired \in BOOLEAN
    /\ host \in {"running", "asking", "waiting", "closing", "gone"}
    /\ working \in BOOLEAN /\ signalled \in BOOLEAN /\ finished \in BOOLEAN
    /\ answer \in {"none", "Synchronous", "Asynchronous"}
    /\ fin \in [Threads -> {"idle", "copy", "call"}]
    /\ held \in [Threads -> {Listener, None}]
    /\ \A t \in Threads : fin[t] = "call" => held[t] # None

(* g_emitMutex is held over the host's callback and nothing else: whoever  *)
(* has it can give it back at once, and an export waits for it and for the *)
(* module's own hook or handler alone.                                     *)
OnlyEmissionsBlock ==
    /\ emitLock # None => ENABLED <<EmitReturns>>_lifeVars
    /\ \A t \in Threads :
          /\ pc[t] \in {"load", "context", "latch", "set"} => ENABLED <<ExportStep(t)>>_lifeVars
          /\ pc[t] = "emitCheck" /\ emitLock = None => ENABLED <<ExportStep(t)>>_lifeVars
          /\ pc[t] \in {"hook", "handler"} /\ emit[t] = "no" => ENABLED <<ExportStep(t)>>_lifeVars
          /\ emit[t] = "want" /\ emitLock = None => ENABLED <<EmitStep(t)>>_lifeVars

(* A module that has finished is heard: the host that listened before it   *)
(* announced never waits out the grace period for it, even when the module *)
(* finished inline, before it answered.                                    *)
FinishedIsHeard ==
    host = "waiting" /\ finished /\ unloadCb = Listener => signalled
=============================================================================
