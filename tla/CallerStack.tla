----------------------------- MODULE CallerStack -----------------------------
(***************************************************************************)
(* Who called this handler: the per-thread stack behind                    *)
(* logos_module_set_call_caller and logos::currentCaller                   *)
(* (cpp/logos_caller.h), with the dispatches, nested dispatches, workers   *)
(* and context-ready hooks that read it.                                   *)
(*                                                                         *)
(* The glue that wraps one logos_module_dispatch in one push and one pop   *)
(* is outside this repository.                                             *)
(***************************************************************************)
EXTENDS Naturals, Sequences, SequencesExt, CallerDocument

CONSTANTS Threads,
          Inbound,   \* the documents of the calls that arrive
          MaxDepth   \* how deep dispatches nest on one thread

ASSUME CallerStackAssumption == Inbound \subseteq Documents /\ MaxDepth \in Nat

VARIABLES
    stack,     \* per thread: the vector of parsed callers
    frames,    \* per thread: the module code running, innermost last
    hookFired  \* g_hookFired: some export has latched the hook

vars == <<stack, frames, hookFired>>

(* A frame of module code: what it is, the document of the dispatch it is  *)
(* running (a hook has none), and, for the properties, the size the vector *)
(* has while nothing is nested in it.                                      *)
Frame(kind, doc, level) == [kind |-> kind, doc |-> doc, level |-> level]

Init ==
    /\ stack = [t \in Threads |-> <<>>]
    /\ frames = [t \in Threads |-> <<>>]
    /\ hookFired = FALSE

(* currentCaller(): the innermost, or the static Unknown.                  *)
CurrentCaller(t) == IF stack[t] = <<>> THEN Unknown ELSE Last(stack[t])

(* Fault: one slot per thread; a nested push overwrites it.                *)
PushSlot(t, doc) == stack' = [stack EXCEPT ![t] = <<Parse(doc)>>]

(* setCallCaller with a document pushes what it parses to.                 *)
Push(t, doc) == stack' = [stack EXCEPT ![t] = Append(@, Parse(doc))]

(* setCallCaller with NULL pops the innermost; on empty it does nothing.   *)
Pop(t) == stack' = [stack EXCEPT ![t] = IF @ = <<>> THEN @ ELSE Front(@)]

Enter(t, kind, doc, level) == frames' = [frames EXCEPT ![t] = Append(@, Frame(kind, doc, level))]
Leave(t) == frames' = [frames EXCEPT ![t] = Front(@)]
Relabel(f, kind) == [f EXCEPT ![Len(f)].kind = kind]
Become(t, kind) == frames' = [frames EXCEPT ![t] = Relabel(@, kind)]
Top(t) == Last(frames[t])
Running(t, kind) == frames[t] # <<>> /\ Top(t).kind = kind

(***************************************************************************)
(* Dispatches.                                                             *)
(***************************************************************************)
(* A call arrives on a thread that is free, or inside the event loop that  *)
(* a blocking call of a handler or of the hook spins.                      *)
Arrives(t, doc) ==
    /\ frames[t] = <<>> \/ Running(t, "handler") \/ Running(t, "hook")
    /\ Len(frames[t]) < MaxDepth
    /\ Push(t, doc)
    /\ Enter(t, "entry", doc, Len(stack[t]) + 1)
    /\ UNCHANGED hookFired

(* The dispatch finds the hook due ...                                     *)
FindsHookDue(t) ==
    /\ ~hookFired
    /\ Running(t, "entry")
    /\ Become(t, "due")
    /\ UNCHANGED <<stack, hookFired>>

(* ... and fires it, before its handler; another thread may have, too.     *)
FireInDispatch(t) ==
    /\ Running(t, "due")
    /\ hookFired' = TRUE
    /\ frames' = [frames EXCEPT ![t] = Append(Relabel(@, "fired"),
                                              Frame("hook", NotAnObject, Len(stack[t])))]
    /\ UNCHANGED stack

EnterHandler(t) ==
    /\ Running(t, "entry") \/ Running(t, "fired")
    /\ Become(t, "handler")
    /\ UNCHANGED <<stack, hookFired>>

(* Arguments that are no JSON array, or a method nobody has, end a dispatch*)
(* before any handler.                                                     *)
ReturnsEarly(t) ==
    /\ Running(t, "entry") \/ Running(t, "fired")
    /\ Pop(t)
    /\ Leave(t)
    /\ UNCHANGED hookFired

(* The hook is fired at load, by set_context or set_emit_callback.         *)
FireAtLoad(t) ==
    /\ ~hookFired
    /\ frames[t] = <<>>
    /\ hookFired' = TRUE
    /\ Enter(t, "hook", NotAnObject, Len(stack[t]))
    /\ UNCHANGED stack

HookReturns(t) ==
    /\ Running(t, "hook")
    /\ Leave(t)
    /\ UNCHANGED <<stack, hookFired>>

HandlerReturns(t) ==
    /\ Running(t, "handler")
    /\ Pop(t)
    /\ Leave(t)
    /\ UNCHANGED hookFired

(* A host that retries a teardown clears a caller that is not there.       *)
StrayClear(t) ==
    /\ frames[t] = <<>>
    /\ Pop(t)
    /\ UNCHANGED <<frames, hookFired>>

Next ==
    \E t \in Threads :
        \/ \E doc \in Inbound : Arrives(t, doc)
        \/ FindsHookDue(t) \/ FireInDispatch(t) \/ FireAtLoad(t) \/ HookReturns(t)
        \/ EnterHandler(t) \/ HandlerReturns(t) \/ ReturnsEarly(t) \/ StrayClear(t)

Spec == Init /\ [][Next]_vars

(***************************************************************************)
(* Properties.                                                             *)
(***************************************************************************)
Frames == [kind : {"entry", "due", "fired", "handler", "hook"},
           doc : Documents, level : Nat]

TypeOK ==
    /\ stack \in [Threads -> Seq(Identities)]
    /\ frames \in [Threads -> Seq(Frames)]
    /\ hookFired \in BOOLEAN

(* Whatever nested and returned in between, a handler that asks is told    *)
(* the caller of its own dispatch, and a thread with no dispatch is told   *)
(* Unknown: the outer handler never resumes as the inner caller.           *)
HandlersSeeTheirCaller ==
    \A t \in Threads :
        /\ Running(t, "handler") => CurrentCaller(t) = Parse(Top(t).doc)
        /\ frames[t] = <<>> => CurrentCaller(t) = Unknown

(* An identity is whole or Unknown, whatever the document that came with   *)
(* the call: a required field is never empty and no field is left over     *)
(* from an arm that was given up (parseCaller's rules 1 to 6).             *)
WholeOrUnknown == \A t \in Threads : Whole(CurrentCaller(t))

(* A handler that admits one module, isModule(n), admits only a dispatch   *)
(* whose document says so outright: an arm of a newer protocol, a damaged  *)
(* one, or the caller of another frame never widens it.                    *)
NeverWidens ==
    \A t \in Threads, n \in Names \cup {Empty} :
        Running(t, "handler") /\ IsModule(CurrentCaller(t), n)
            => LET doc == Top(t).doc IN
               doc # NotAnObject /\ doc.kind = "module" /\ doc.name = n /\ n # Empty
=============================================================================
