------------------------------ MODULE Exchange ------------------------------
(***************************************************************************)
(* One exchange between a generated Qt-free wrapper and a generated        *)
(* provider: the argument array of the wrapper (makeSourceLp in            *)
(* generator_lib.cpp), the arity gate, decoding, encoding and error        *)
(* answers of logos_module_dispatch (lidl_gen_cdylib.cpp), and what the    *)
(* caller is told.  A second kind of exchange is an event, from the        *)
(* provider to a subscriber.                                               *)
(*                                                                         *)
(* The caller's wrapper was generated from a contract too, not always the  *)
(* one the provider has now.  How and when a call travels is LpInvoke's    *)
(* subject; what becomes of a value is left to constant operators here,    *)
(* which TypedCall gives the generated code's conversions.                 *)
(***************************************************************************)
EXTENDS Terms, Integers, Sequences

CONSTANTS
    Contracts,      \* pairs of a provider's declaration and its caller's; a
                    \* declaration is [kind, name, params, ret, types]
    Providable(_),  \* a provider is generated from this declaration
    Callable(_),    \* a caller's wrapper is
    Passable(_),    \* what a wrapper lets its caller pass for a type, each
                    \* value with what is meant by it, or Junk
    Held(_),        \* what a handler or an emitter may hold of a type
    Encode(_),      \* a value on the wire
    Decode(_, _),   \* an argument of a type off the wire, or Fail
    Read(_, _),     \* what a caller or a subscriber holds of a type
    Back(_, _),     \* that, as the provider would hold it
    Fits(_, _)      \* reference: a value on the wire is good for a type

ASSUME ContractsAssumption ==
    \A c \in Contracts : \A d \in {c[1], c[2]} :
        /\ d.kind \in {"method", "event"}
        /\ Len(d.params) \in Nat /\ DOMAIN d.params = 1 .. Len(d.params)

VARIABLES
    stage,      \* how far the exchange is
    provider,   \* the provider's declaration of the method or event
    caller,     \* the declaration the wrapper was generated from
    meant,      \* what the sender meant by each argument, or Junk
    args,       \* the argument array on the wire
    got,        \* what the handler was called with
    result,     \* what the handler returned
    reply,      \* the answer on the wire
    told        \* what the caller or the subscriber is told

vars == <<stage, provider, caller, meant, args, got, result, reply, told>>

NoReturn == Primitive("void")
Junk     == <<"junk">>
Nothing  == <<"nothing">>

Same == provider = caller

Init ==
    /\ stage = "declared"
    /\ \E c \in Contracts : provider = c[1] /\ caller = c[2]
    /\ meant = <<>> /\ args = <<>> /\ got = Nothing
    /\ result = Nothing /\ reply = Nothing /\ told = Nothing

(* The caller's contract is one that this or an earlier provider was       *)
(* generated from.                                                         *)
Generate ==
    /\ stage = "declared"
    /\ stage' = IF Providable(provider) /\ Callable(caller)
                THEN provider.kind ELSE "refused"
    /\ UNCHANGED <<provider, caller, meant, args, got, result, reply, told>>

(***************************************************************************)
(* A call.                                                                 *)
(***************************************************************************)
(* emitArgsArray: every parameter is pushed, an empty one as null.  At     *)
(* most one argument is made up.                                           *)
Pack ==
    /\ stage = "method"
    /\ LET passes == [i \in DOMAIN caller.params |-> Passable(caller.params[i])]
       IN  \E held \in [DOMAIN passes -> UNION {passes[i] : i \in DOMAIN passes}] :
              /\ \A i \in DOMAIN held : held[i] \in passes[i]
              /\ \A i, k \in DOMAIN held : held[i][2] = Junk /\ held[k][2] = Junk => i = k
              /\ args'  = [i \in DOMAIN held |-> Encode(held[i][1])]
              /\ meant' = [i \in DOMAIN held |-> held[i][2]]
    /\ stage' = "packed"
    /\ UNCHANGED <<provider, caller, got, result, reply, told>>

\* Fault: the required parameters are counted, wherever they stand.
MinArgsCounted(params) == Len(SelectSeq(params, LAMBDA p : ~IsOptional(p)))

(* Up to and with the last required parameter.                             *)
MinArgs(params) ==
    CHOOSE n \in 0 .. Len(params) :
        /\ n # 0 => ~IsOptional(params[n])
        /\ \A i \in n + 1 .. Len(params) : IsOptional(params[i])

MaxArgs(params) == Len(params)

(* The canonical error object a provider answers.                          *)
ErrorAnswer(code) ==
    Obj([k \in {"code", "message", "origin"} |-> <<"str", IF k = "code" THEN code ELSE "m">>])

Decoded ==
    [i \in DOMAIN provider.params |->
        Decode(provider.params[i], IF i <= Len(args) THEN args[i] ELSE Null)]

(* The answer of a method that was not run.                                *)
Answer(j) == reply' = j /\ stage' = "answered" /\ UNCHANGED <<got, result>>

UnknownMethod ==
    /\ stage = "packed" /\ provider.name # caller.name
    /\ Answer(Null)
    /\ UNCHANGED <<provider, caller, meant, args, told>>

CountFits == Len(args) \in MinArgs(provider.params) .. MaxArgs(provider.params)

InvalidArgs ==
    /\ stage = "packed" /\ provider.name = caller.name /\ ~CountFits
    /\ Answer(ErrorAnswer("invalid_args"))
    /\ UNCHANGED <<provider, caller, meant, args, told>>

DecodeFails ==
    /\ stage = "packed" /\ provider.name = caller.name /\ CountFits
    /\ \E i \in DOMAIN Decoded : Decoded[i] = Fail
    /\ Answer(ErrorAnswer("dispatch_failed"))
    /\ UNCHANGED <<provider, caller, meant, args, told>>

CallHandler ==
    /\ stage = "packed" /\ provider.name = caller.name /\ CountFits
    /\ \A i \in DOMAIN Decoded : Decoded[i] # Fail
    /\ got' = <<"called", Decoded>>
    /\ stage' = "running"
    /\ UNCHANGED <<provider, caller, meant, args, result, reply, told>>

(* The author's body; a method of no return answers true.                  *)
HandlerReturns ==
    /\ stage = "running"
    /\ \E v \in IF provider.ret = NoReturn THEN {<<"bool", TRUE>>} ELSE Held(provider.ret) :
          result' = <<"returned", v>> /\ reply' = Encode(v)
    /\ stage' = "answered"
    /\ UNCHANGED <<provider, caller, meant, args, got, told>>

HandlerThrows ==
    /\ stage = "running"
    /\ reply' = ErrorAnswer("dispatch_failed")
    /\ stage' = "answered"
    /\ UNCHANGED <<provider, caller, meant, args, got, result, told>>

(* logosDispatchRejectionJson.                                             *)
IsRejection(j) ==
    /\ j[1] = "obj" /\ DOMAIN j[2] = {"code", "message", "origin"}
    /\ \A k \in DOMAIN j[2] : j[2][k][1] = "str"
    /\ j[2]["code"][2] \in {"dispatch_failed", "invalid_args", "unknown_method"}

Tell ==
    /\ stage = "answered"
    /\ told' = IF IsRejection(reply) THEN <<"error", reply[2]["code"][2]>>
               ELSE <<"value", IF caller.ret = NoReturn THEN Nothing
                               ELSE Read(caller.ret, reply)>>
    /\ stage' = "told"
    /\ UNCHANGED <<provider, caller, meant, args, got, result, reply>>

(***************************************************************************)
(* An event.                                                               *)
(***************************************************************************)
Emit ==
    /\ stage = "event"
    /\ LET values == [i \in DOMAIN provider.params |-> Held(provider.params[i])]
       IN  \E vs \in [DOMAIN values -> UNION {values[i] : i \in DOMAIN values}] :
              /\ \A i \in DOMAIN vs : vs[i] \in values[i]
              /\ meant' = vs
              /\ args' = [i \in DOMAIN vs |-> Encode(vs[i])]
    /\ stage' = "emitted"
    /\ UNCHANGED <<provider, caller, got, result, reply, told>>

(* A payload shorter than the subscriber expects is dropped.               *)
Hear ==
    /\ stage = "emitted"
    /\ told' = IF Len(args) < Len(caller.params) THEN Nothing
               ELSE <<"event", [i \in DOMAIN caller.params |-> Read(caller.params[i], args[i])]>>
    /\ stage' = "told"
    /\ UNCHANGED <<provider, caller, meant, args, got, result, reply>>

Next ==
    \/ Generate
    \/ Pack \/ UnknownMethod \/ InvalidArgs \/ DecodeFails \/ CallHandler
    \/ HandlerReturns \/ HandlerThrows \/ Tell
    \/ Emit \/ Hear

Spec == Init /\ [][Next]_vars

(***************************************************************************)
(* Properties.                                                             *)
(***************************************************************************)
Generated == stage \notin {"declared", "refused"}
Decided   == got # Nothing \/ reply # Nothing
Known     == provider.name = caller.name
Complete  == /\ Len(args) <= Len(provider.params)
             /\ \A i \in Len(args) + 1 .. Len(provider.params) : IsOptional(provider.params[i])
Sent(i)   == IF i <= Len(args) THEN args[i] ELSE Null

(* With the right number of arguments the handler runs exactly if each of  *)
(* them is good for its declared type: no wrapped, truncated or misshapen  *)
(* value reaches it, and no good one is refused.                           *)
HandledIffWellTyped ==
    Generated /\ provider.kind = "method" /\ Decided /\ Known /\ Complete =>
        (got # Nothing <=> \A i \in DOMAIN provider.params : Fits(provider.params[i], Sent(i)))

(* Between two sides generated from one contract an argument arrives as    *)
(* what was meant, through three tables of types that never see each       *)
(* other; an argument left out arrives as empty.                           *)
HandlerGetsWhatWasMeant ==
    got # Nothing =>
        /\ Same => \A i \in DOMAIN got[2] : meant[i] # Junk => got[2][i] = meant[i]
        /\ \A i \in DOMAIN got[2] : i > Len(args) => got[2][i] \in {Empty, <<"json", Null>>}

(* A result, an empty one included, is held by the caller as a value that  *)
(* means the same: handed back it is the value the handler returned.       *)
ResultIsReceived ==
    stage = "told" /\ Same /\ result # Nothing /\ provider.ret # NoReturn =>
        told[1] = "value" /\ Back(provider.ret, told[2]) = result[2]

(* A subscriber hears what was emitted, value for value.                   *)
EventArrives ==
    stage = "told" /\ Same /\ provider.kind = "event" =>
        /\ told[1] = "event"
        /\ \A i \in DOMAIN told[2] : Back(provider.params[i], told[2][i]) = meant[i]

(* Two sides of one contract mean the same by every value that crosses, in *)
(* either direction: bytes keep their tag at any depth, empty stays empty, *)
(* and a type that the caller's flat names cannot express loses nothing.   *)
ValuesArrive == HandlerGetsWhatWasMeant /\ ResultIsReceived /\ EventArrives

(* A caller whose contract has another number of parameters is told so,    *)
(* whichever are optional, and no call that was not carried out reads as   *)
(* one that was.                                                           *)
RefusalIsTold ==
    stage = "told" /\ provider.kind = "method" /\ Known =>
        /\ ~Complete => told = <<"error", "invalid_args">>
        /\ result = Nothing => told[1] = "error"

(***************************************************************************)
(* What the exchange needs of the conversions.                             *)
(***************************************************************************)
(* Everything a wrapper may put on the wire for these parameters.          *)
OnTheWire(params) ==
    {Null} \cup UNION {{Encode(p[1]) : p \in Passable(params[i])} : i \in DOMAIN params}

KeepsArgument(te) ==
    \A p \in Passable(te) :
        p[2] # Junk /\ Fits(te, Encode(p[1])) => Decode(te, Encode(p[1])) = p[2]

KeepsHeld(te) == \A v \in Held(te) : Back(te, Read(te, Encode(v))) = v

NullIsOmitted(te) ==
    IsOptional(te) => Decode(te, Null) \in {Empty, <<"json", Null>>, Fail}

Lawful(p, c) ==
    /\ p.kind = "method" =>
          \A i \in DOMAIN p.params :
              /\ \A j \in OnTheWire(c.params) :
                    Decode(p.params[i], j) # Fail <=> Fits(p.params[i], j)
              /\ NullIsOmitted(p.params[i])
              /\ p = c => KeepsArgument(p.params[i])
    /\ p.kind = "event" /\ p = c => \A i \in DOMAIN p.params : KeepsHeld(p.params[i])
    /\ p.ret # NoReturn /\ p = c =>
          /\ KeepsHeld(p.ret)
          /\ \A v \in Held(p.ret) : ~IsRejection(Encode(v))

(* The conversions of a single value are strict, and between the two sides *)
(* of one contract they lose nothing; of an optional value null is empty,  *)
(* and no result is taken for a rejection.                                 *)
CodecIsLawful ==
    stage = "declared" /\ Providable(provider) /\ Callable(caller) => Lawful(provider, caller)
=============================================================================
