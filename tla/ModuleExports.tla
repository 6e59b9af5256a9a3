---------------------------- MODULE ModuleExports ----------------------------
(***************************************************************************)
(* The C-ABI export unit that the generator emits for a cdylib module      *)
(* (cpp-generator/experimental/lidl_gen_cdylib.cpp): the statics it keeps, *)
(* the context latch (lidlTryFireContext) that fires onContextReady, the   *)
(* emit callback and its mutex, and the exports that go through them.  The *)
(* receiving end is cpp/logos_module_context.h.                            *)
(*                                                                         *)
(* The host is whoever loaded the module: it delivers a context and an     *)
(* emit callback and dispatches methods, in any order.  The module's own   *)
(* code runs in onContextReady, in handlers and on threads of its own, and *)
(* may emit events in each.                                                *)
(***************************************************************************)
EXTENDS Naturals

CONSTANTS Threads,     \* threads of the host and of the module
          Contexts,    \* contexts the host may deliver
          Callbacks,   \* emit callbacks (with their user data) of the host
          None         \* nullptr, nothing stored

ASSUME ModuleExportsAssumption == None \notin Threads \cup Contexts \cup Callbacks

VARIABLES
    stored,     \* g_ctxStored with g_ctxPath, g_ctxId, g_ctxPersist
    emitCb,     \* g_emitCb with g_emitUd
    emitLock,   \* the thread that holds g_emitMutex, or None
    hookFired,  \* the atomic flag g_hookFired
    wired,      \* both call_once blocks ran: emit wiring and modules()
    seen,       \* the module's own context: None until m_contextReady
    named,      \* moduleName() is set
    fires,      \* how many times onContextReady was entered
    hookDone,   \* an onContextReady has returned
    op,         \* per thread: the export it is inside, or "none"
    pc,         \* per thread: where in it
    copy,       \* per thread: the context it copied out under g_ctxMutex
    due,        \* per thread: a context was stored when its export began
    emit,       \* per thread: "no", "want" (waiting for the mutex), "in"
    emitTo,     \* per thread: the callback its emission is inside
    overlaps    \* this host overlaps exports before the hook; it never changes

latch == <<stored, hookFired, wired, seen, named, fires, hookDone>>
calls == <<op, pc, copy, due>>
emission == <<emitCb, emitLock, emit, emitTo>>
vars == <<latch, calls, emission, overlaps>>

Init ==
    /\ stored = None /\ emitCb = None /\ emitLock = None
    /\ hookFired = FALSE /\ wired = FALSE
    /\ seen = None /\ named = FALSE
    /\ fires = 0 /\ hookDone = FALSE
    /\ op = [t \in Threads |-> "none"]
    /\ pc = [t \in Threads |-> "idle"]
    /\ copy = [t \in Threads |-> None]
    /\ due = [t \in Threads |-> FALSE]
    /\ emit = [t \in Threads |-> "no"]
    /\ emitTo = [t \in Threads |-> None]
    /\ overlaps \in BOOLEAN

Goto(t, l) == pc' = [pc EXCEPT ![t] = l]

(***************************************************************************)
(* The exports.  A host that does not overlap them lets each return before *)
(* it makes the next, until the hook has run.                              *)
(***************************************************************************)
MayStart(t) ==
    /\ pc[t] = "idle" /\ emit[t] = "no"
    /\ overlaps \/ hookDone \/ \A u \in Threads : pc[u] = "idle"

Start(t, export, hasContext) ==
    /\ op' = [op EXCEPT ![t] = export]
    /\ due' = [due EXCEPT ![t] = hasContext]
    /\ Goto(t, "load")
    /\ UNCHANGED copy

(* logos_module_set_context: store, then try with requireEmit.             *)
SetContext(t, c) ==
    /\ MayStart(t)
    /\ stored' = c
    /\ Start(t, "set_context", TRUE)
    /\ UNCHANGED <<hookFired, wired, seen, named, fires, hookDone, emission>>

(* logos_module_set_emit_callback: store under the mutex, then try.        *)
SetEmitCallback(t, cb) ==
    /\ MayStart(t)
    /\ emitLock = None
    /\ emitCb' = cb
    /\ Start(t, "set_emit_callback", stored # None)
    /\ UNCHANGED <<latch, emitLock, emit, emitTo>>

(* logos_module_dispatch: try without requireEmit, then run the handler.   *)
Dispatch(t) ==
    /\ MayStart(t)
    /\ Start(t, "dispatch", stored # None)
    /\ UNCHANGED <<latch, emission>>

(* What follows lidlTryFireContext.                                        *)
Proceed(t) ==
    IF op[t] = "dispatch" THEN Goto(t, "handler") /\ UNCHANGED <<op, due>>
    ELSE /\ Goto(t, "idle")
         /\ op' = [op EXCEPT ![t] = "none"]
         /\ due' = [due EXCEPT ![t] = FALSE]

(***************************************************************************)
(* lidlTryFireContext(requireEmit).                                        *)
(***************************************************************************)
(* Fault: dispatches return early when the flag is not theirs to set.      *)
LoadFlagDispatchSkips(t) ==
    /\ pc[t] = "load"
    /\ wired' = TRUE
    /\ IF hookFired \/ op[t] = "dispatch"
       THEN Proceed(t) ELSE Goto(t, "context") /\ UNCHANGED <<op, due>>
    /\ UNCHANGED <<stored, hookFired, seen, named, fires, hookDone, copy, emission>>

(* Fault: modules() and the emitter are wired only once the hook is due.   *)
LoadFlagUnwired(t) ==
    /\ pc[t] = "load"
    /\ wired' = (wired \/ hookFired)
    /\ IF hookFired THEN Proceed(t) ELSE Goto(t, "context") /\ UNCHANGED <<op, due>>
    /\ UNCHANGED <<stored, hookFired, seen, named, fires, hookDone, copy, emission>>

(* Both wirings, once; then the first look at the flag.                    *)
LoadFlag(t) ==
    /\ pc[t] = "load"
    /\ wired' = TRUE
    /\ IF hookFired THEN Proceed(t) ELSE Goto(t, "context") /\ UNCHANGED <<op, due>>
    /\ UNCHANGED <<stored, hookFired, seen, named, fires, hookDone, copy, emission>>

(* Under g_ctxMutex: nothing to do without a context, else copy it.        *)
CopyContext(t) ==
    /\ pc[t] = "context"
    /\ IF stored = None THEN Proceed(t) /\ UNCHANGED copy
       ELSE /\ copy' = [copy EXCEPT ![t] = stored]
            /\ Goto(t, IF op[t] = "dispatch" THEN "latch" ELSE "emitCheck")
            /\ UNCHANGED <<op, due>>
    /\ UNCHANGED <<latch, emission>>

(* Fault: the lock_guard's scope runs on over the hook.                    *)
EmitCheckKeepsLock(t) ==
    /\ pc[t] = "emitCheck"
    /\ emitLock = None
    /\ IF emitCb = None THEN Proceed(t) /\ UNCHANGED emitLock
       ELSE /\ Goto(t, "latch")
            /\ emitLock' = t
            /\ UNCHANGED <<op, due>>
    /\ UNCHANGED <<latch, copy, emitCb, emit, emitTo>>

(* requireEmit: under g_emitMutex, wait for the host to wire a callback.   *)
EmitCheck(t) ==
    /\ pc[t] = "emitCheck"
    /\ emitLock = None
    /\ IF emitCb = None THEN Proceed(t) ELSE Goto(t, "latch") /\ UNCHANGED <<op, due>>
    /\ UNCHANGED <<latch, copy, emission>>

(* Fault: the flag is never set.                                           *)
LatchNothing(t) ==
    /\ pc[t] = "latch"
    /\ named' = TRUE
    /\ Goto(t, "set")
    /\ UNCHANGED <<stored, hookFired, wired, seen, fires, hookDone, op, copy, due, emission>>

(* The flag is set by a plain store, whatever it is by now.                *)
Latch(t) ==
    /\ pc[t] = "latch"
    /\ hookFired' = TRUE
    /\ named' = TRUE
    /\ Goto(t, "set")
    /\ UNCHANGED <<stored, wired, seen, fires, hookDone, op, copy, due, emission>>

(* _logosCoreSetContext_: the fields, m_contextReady, then the hook.       *)
EnterHook(t) ==
    /\ pc[t] = "set"
    /\ seen' = copy[t]
    /\ fires' = fires + 1
    /\ Goto(t, "hook")
    /\ UNCHANGED <<stored, hookFired, wired, named, hookDone, op, copy, due, emission>>

LeaveHook(t) ==
    /\ pc[t] = "hook" /\ emit[t] = "no"
    /\ hookDone' = TRUE
    /\ Proceed(t)
    /\ UNCHANGED <<stored, hookFired, wired, seen, named, fires, copy, emission>>

LeaveHandler(t) ==
    /\ pc[t] = "handler" /\ emit[t] = "no"
    /\ Goto(t, "idle")
    /\ op' = [op EXCEPT ![t] = "none"]
    /\ due' = [due EXCEPT ![t] = FALSE]
    /\ UNCHANGED <<latch, copy, emission>>

(***************************************************************************)
(* Emitting an event, from the hook, a handler or a thread of the module.  *)
(* Without the wiring the impl's std::function is empty: a no-op.          *)
(***************************************************************************)
WantEmit(t) ==
    /\ pc[t] \in {"idle", "hook", "handler"} /\ emit[t] = "no"
    /\ wired
    /\ emit' = [emit EXCEPT ![t] = "want"]
    /\ UNCHANGED <<latch, calls, emitCb, emitLock, emitTo>>

(* Fault: the callback is copied out and called outside the lock.          *)
EnterEmitUnlocked(t) ==
    /\ emit[t] = "want" /\ emitLock = None
    /\ emit' = [emit EXCEPT ![t] = IF emitCb = None THEN "no" ELSE "in"]
    /\ emitTo' = [emitTo EXCEPT ![t] = emitCb]
    /\ UNCHANGED <<latch, calls, emitCb, emitLock>>

(* g_emitCb is called with g_emitMutex held.                               *)
EnterEmit(t) ==
    /\ emit[t] = "want" /\ emitLock = None
    /\ IF emitCb = None
       THEN emit' = [emit EXCEPT ![t] = "no"] /\ UNCHANGED <<emitLock, emitTo>>
       ELSE /\ emit' = [emit EXCEPT ![t] = "in"]
            /\ emitTo' = [emitTo EXCEPT ![t] = emitCb]
            /\ emitLock' = t
    /\ UNCHANGED <<latch, calls, emitCb>>

LeaveEmit(t) ==
    /\ emit[t] = "in"
    /\ emit' = [emit EXCEPT ![t] = "no"]
    /\ emitTo' = [emitTo EXCEPT ![t] = None]
    /\ emitLock' = IF emitLock = t THEN None ELSE emitLock
    /\ UNCHANGED <<latch, calls, emitCb>>

Begin(t) ==
    \/ \E c \in Contexts : SetContext(t, c)
    \/ \E cb \in Callbacks \cup {None} : SetEmitCallback(t, cb)
    \/ Dispatch(t)
    \/ WantEmit(t)

Continue(t) ==
    \/ LoadFlag(t) \/ CopyContext(t) \/ EmitCheck(t) \/ Latch(t)
    \/ EnterHook(t) \/ LeaveHook(t) \/ LeaveHandler(t)

Emitting(t) == EnterEmit(t) \/ LeaveEmit(t)

Next == /\ \E t \in Threads : Begin(t) \/ Continue(t) \/ Emitting(t)
        /\ UNCHANGED overlaps

Spec == Init /\ [][Next]_vars

(***************************************************************************)
(* Properties.                                                             *)
(***************************************************************************)
TypeOK ==
    /\ stored \in Contexts \cup {None} /\ seen \in Contexts \cup {None}
    /\ emitCb \in Callbacks \cup {None}
    /\ emitLock \in Threads \cup {None}
    /\ hookFired \in BOOLEAN /\ wired \in BOOLEAN /\ named \in BOOLEAN
    /\ fires \in Nat /\ hookDone \in BOOLEAN
    /\ op \in [Threads -> {"none", "set_context", "set_emit_callback", "dispatch"}]
    /\ pc \in [Threads -> {"idle", "load", "context", "emitCheck", "latch", "set",
                           "hook", "handler"}]
    /\ copy \in [Threads -> Contexts \cup {None}]
    /\ due \in [Threads -> BOOLEAN]
    /\ emit \in [Threads -> {"no", "want", "in"}]
    /\ emitTo \in [Threads -> Callbacks \cup {None}]
    /\ overlaps \in BOOLEAN
    /\ \A t \in Threads : emit[t] = "in" <=> emitLock = t

(* In the hook everything it may use is in place: a context, the module's  *)
(* name, modules() and the emitter, whatever order the host called in.     *)
HookFindsAllWired ==
    \A t \in Threads : pc[t] = "hook" => seen # None /\ named /\ wired

(* "Fires exactly once": never a second time.                              *)
HookFiresOnce == fires <= 1

(* "... before any method dispatch": a handler whose dispatch began with a *)
(* context delivered runs after the hook has returned.                     *)
HookBeforeHandlers == \A t \in Threads : pc[t] = "handler" /\ due[t] => hookDone

(* Both hold for a host that does not overlap its exports until then.      *)
OrderlyHostGetsTheHook == ~overlaps => HookFiresOnce /\ HookBeforeHandlers

(* An event goes only to the callback that is installed: once              *)
(* set_emit_callback has returned, the old user data is never used again.  *)
EmitsOnlyToTheInstalled ==
    \A t \in Threads : emit[t] = "in" => emitTo[t] = emitCb

(* Exports and emissions return, also when the hook itself emits.          *)
ExportsReturn ==
    \A t \in Threads : (pc[t] # "idle" \/ emit[t] # "no") ~> (pc[t] = "idle" /\ emit[t] = "no")

(* Once a context and an emit callback are both delivered and the exports  *)
(* in flight return, the hook has run: it is not lost between the two.     *)
DeliveredHookFires ==
    stored # None /\ emitCb # None /\ (\A t \in Threads : pc[t] = "idle") => hookFired
=============================================================================
