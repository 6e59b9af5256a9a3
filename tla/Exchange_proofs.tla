-------------------------- MODULE Exchange_proofs ---------------------------
(***************************************************************************)
(* Machine-checked theorems about Exchange.  For parameter lists of any    *)
(* length, with optional parameters anywhere, and for any conversions:     *)
(* what the arity gate and the error answers promise.  For conversions     *)
(* that are lawful: what is promised of values.  And for the provider's    *)
(* generated conversions, of types of any depth: that they decode          *)
(* strictly.  Only the last part uses the assumptions of AnyDepth.         *)
(***************************************************************************)
EXTENDS AnyDepth, FiniteSetTheorems, WellFoundedInduction, TLAPS

(***************************************************************************)
(* The arity gate.                                                         *)
(***************************************************************************)
(* There is a last required parameter, or none is required.  The counts    *)
(* that leave out optional parameters only are closed upwards, so that     *)
(* there is a least one: as many steps below the full count as there are   *)
(* others.                                                                 *)
LEMMA MinArgsSpec ==
    ASSUME NEW params, Len(params) \in Nat
    PROVE  /\ MinArgs(params) \in 0 .. Len(params)
           /\ MinArgs(params) # 0 => ~IsOptional(params[MinArgs(params)])
           /\ \A i \in MinArgs(params) + 1 .. Len(params) : IsOptional(params[i])
<1> DEFINE L == Len(params)
           S == {n \in 0 .. L : \A i \in n + 1 .. L : IsOptional(params[i])}
           c == Cardinality(S)
           k == L + 1 - c
<1>1. L \in S
  OBVIOUS
<1>2. ASSUME NEW n \in 0 .. L
      PROVE  IsFiniteSet(n .. L) /\ Cardinality(n .. L) = L + 1 - n
  BY FS_Interval
<1>3. S \subseteq 0 .. L /\ IsFiniteSet(S) /\ c \in 0 .. L + 1
  <2>1. IsFiniteSet(0 .. L) /\ Cardinality(0 .. L) = L + 1
    BY <1>2
  <2>2. S \subseteq 0 .. L
    OBVIOUS
  <2> HIDE DEF S
  <2>3. IsFiniteSet(S) /\ Cardinality(S) <= L + 1
    BY <2>1, <2>2, FS_Subset
  <2> QED BY <2>2, <2>3, FS_CardinalityType
<1>4. ASSUME NEW n \in S PROVE n >= k
  <2>1. n .. L \subseteq S
    OBVIOUS
  <2>2. n \in 0 .. L
    OBVIOUS
  <2> HIDE DEF S
  <2>3. Cardinality(n .. L) <= c
    BY <1>3, <2>1, FS_Subset
  <2> QED BY <1>2, <1>3, <2>2, <2>3
<1>5. k \in S
  <2>1. SUFFICES ASSUME k \notin S PROVE FALSE
    OBVIOUS
  <2>2. c # 0 /\ k \in 0 .. L
    <3> HIDE DEF S
    <3> QED BY <1>1, <1>3, FS_EmptySet
  <2>3. IsFiniteSet(k + 1 .. L) /\ Cardinality(k + 1 .. L) = c - 1
    <3>1. ASSUME NEW a \in 1 .. L + 1
          PROVE  IsFiniteSet(a .. L) /\ Cardinality(a .. L) = L + 1 - a
      <4> HIDE DEF S
      <4>1. a \in Int /\ L \in Int
        OBVIOUS
      <4>2. IsFiniteSet(a .. L) /\ Cardinality(a .. L) = IF a > L THEN 0 ELSE L - a + 1
        BY <4>1, FS_Interval
      <4> QED BY <4>2
    <3> HIDE DEF c
    <3> QED BY <1>3, <2>2, <3>1
  <2>4. \A n \in S : n \in 0 .. L /\ n >= k /\ n # k
    BY <1>3, <1>4, <2>1
  <2> HIDE DEF S
  <2>5. S \subseteq k + 1 .. L
    <3> HIDE DEF c
    <3> QED BY <1>3, <2>2, <2>4
  <2>6. c <= Cardinality(k + 1 .. L)
    <3> HIDE DEF k
    <3> QED BY <2>3, <2>5, FS_Subset
  <2> QED BY <1>3, <2>3, <2>6
<1>6. \A n \in 0 .. L : (\A i \in n + 1 .. L : IsOptional(params[i])) => n >= k
  BY <1>4
<1>7. k \in 0 .. L /\ \A i \in k + 1 .. L : IsOptional(params[i])
  BY <1>5
<1> HIDE DEF k
<1>8. k # 0 => ~IsOptional(params[k])
  <2>1. SUFFICES ASSUME k # 0, IsOptional(params[k]) PROVE FALSE
    OBVIOUS
  <2>2. k - 1 \in 0 .. L /\ \A i \in (k - 1) + 1 .. L : i = k \/ i \in k + 1 .. L
    BY <1>7, <2>1
  <2>3. k - 1 >= k
    BY <1>6, <1>7, <2>1, <2>2
  <2> QED BY <1>7, <2>3
<1> QED BY <1>7, <1>8 DEF MinArgs

(* The gate lets through exactly the calls that leave out nothing but      *)
(* optional parameters.                                                    *)
LEMMA GateIsComplete ==
    ASSUME Len(provider.params) \in Nat, Len(args) \in Nat
    PROVE  CountFits <=> Complete
<1> DEFINE ps == provider.params
           m  == MinArgs(ps)
<1>1. /\ m \in 0 .. Len(ps) /\ (m # 0 => ~IsOptional(ps[m]))
      /\ \A i \in m + 1 .. Len(ps) : IsOptional(ps[i])
  BY MinArgsSpec
<1> HIDE DEF m
<1>2. CountFits <=> Len(args) \in m .. Len(ps)
  BY DEF CountFits, MaxArgs, m
<1>3. ASSUME Len(args) \in m .. Len(ps) PROVE Complete
  BY <1>1, <1>3 DEF Complete
<1>4. ASSUME Complete, ~(Len(args) \in m .. Len(ps)) PROVE FALSE
  <2>1. Len(args) <= Len(ps) /\ \A i \in Len(args) + 1 .. Len(ps) : IsOptional(ps[i])
    BY <1>4 DEF Complete
  <2>2. m \in Len(args) + 1 .. Len(ps) /\ m # 0
    BY <1>1, <1>4, <2>1
  <2> QED BY <1>1, <2>1, <2>2
<1> QED BY <1>2, <1>3, <1>4

(* Every error answer of a provider is told as one.                        *)
LEMMA ErrorsAreRejections ==
    ASSUME NEW code \in {"dispatch_failed", "invalid_args"}
    PROVE  /\ IsRejection(ErrorAnswer(code))
           /\ ErrorAnswer(code)[2]["code"][2] = code
           /\ ErrorAnswer(code) # Nothing
BY DEF IsRejection, ErrorAnswer, Obj, Nothing

(***************************************************************************)
(* The invariant.                                                          *)
(***************************************************************************)
InDecl(d) ==
    /\ d.kind \in {"method", "event"}
    /\ Len(d.params) \in Nat /\ DOMAIN d.params = 1 .. Len(d.params)

Stages == {"declared", "refused", "method", "packed", "running", "answered",
           "event", "emitted", "told"}

OfMethod == {"method", "packed", "running", "answered"}
OfEvent  == {"event", "emitted"}
Sending  == {"packed", "running", "answered", "emitted", "told"}

Fails    == \E i \in DOMAIN Decoded : Decoded[i] = Fail
Results  == IF provider.ret = NoReturn THEN {<<"bool", TRUE>>} ELSE Held(provider.ret)

Declared ==
    /\ stage \in Stages
    /\ InDecl(provider) /\ InDecl(caller)
    /\ stage \in OfMethod => provider.kind = "method"
    /\ stage \in OfEvent  => provider.kind = "event"

(* A sender passes as many arguments as its own contract has, each one as  *)
(* the conversions make it.                                                *)
Packed ==
    stage \in Sending =>
        LET d == IF provider.kind = "method" THEN caller ELSE provider
        IN  /\ Len(args) = Len(d.params) /\ DOMAIN args = DOMAIN d.params
            /\ DOMAIN meant = DOMAIN d.params
            /\ \A i \in DOMAIN args :
                  IF provider.kind = "method"
                  THEN \E p \in Passable(caller.params[i]) :
                          args[i] = Encode(p[1]) /\ meant[i] = p[2]
                  ELSE meant[i] \in Held(provider.params[i]) /\ args[i] = Encode(meant[i])

Called    == Known /\ CountFits /\ ~Fails /\ got = <<"called", Decoded>>
NotCalled == got = Nothing /\ result = Nothing

(* Until the handler is called nothing is answered, and nothing is ever    *)
(* answered to an event.                                                   *)
Unanswered ==
    /\ stage \notin {"running", "answered", "told"} \/ provider.kind = "event" =>
           NotCalled /\ reply = Nothing
    /\ stage = "running" => Called /\ result = Nothing /\ reply = Nothing

(* An answer has one of five origins.                                      *)
Answered ==
    stage \in {"answered", "told"} /\ provider.kind = "method" =>
        \/ ~Known /\ NotCalled /\ reply = Null
        \/ Known /\ ~CountFits /\ NotCalled /\ reply = ErrorAnswer("invalid_args")
        \/ Known /\ CountFits /\ Fails /\ NotCalled /\ reply = ErrorAnswer("dispatch_failed")
        \/ Called /\ result = Nothing /\ reply = ErrorAnswer("dispatch_failed")
        \/ Called /\ \E v \in Results : result = <<"returned", v>> /\ reply = Encode(v)

(* What is told is what was answered, or heard.                            *)
Told ==
    stage = "told" =>
        told = IF provider.kind = "method"
               THEN IF IsRejection(reply) THEN <<"error", reply[2]["code"][2]>>
                    ELSE <<"value", IF caller.ret = NoReturn THEN Nothing
                                    ELSE Read(caller.ret, reply)>>
               ELSE IF Len(args) < Len(caller.params) THEN Nothing
                    ELSE <<"event", [i \in DOMAIN caller.params |->
                                       Read(caller.params[i], args[i])]>>

ExchangeInv == Declared /\ Packed /\ Unanswered /\ Answered /\ Told

LEMMA InitInv == Init => ExchangeInv
<1> SUFFICES ASSUME Init PROVE ExchangeInv
  OBVIOUS
<1>1. PICK c \in Contracts : provider = c[1] /\ caller = c[2]
  BY DEF Init
<1> QED
  BY <1>1, ContractsAssumption
  DEF Init, ExchangeInv, Declared, InDecl, Packed, Unanswered, Answered, Told, Stages,
      OfMethod, OfEvent, Sending, NotCalled

(***************************************************************************)
(* Every step keeps it.                                                    *)
(***************************************************************************)
(* What the invariant says of an exchange that is under way is about the   *)
(* declarations, the arguments and the call, none of which changes after.  *)
LEMMA KeptParts ==
    ASSUME UNCHANGED <<provider, caller, args, got>>
    PROVE  /\ (Known' <=> Known) /\ (CountFits' <=> CountFits) /\ (Fails' <=> Fails)
           /\ (Called' <=> Called) /\ Results' = Results /\ Decoded' = Decoded
BY DEF Known, CountFits, Fails, Called, Results, Decoded

LEMMA PackStep == ExchangeInv /\ Pack => ExchangeInv'
<1> SUFFICES ASSUME ExchangeInv, Pack PROVE ExchangeInv'
  OBVIOUS
<1> DEFINE passes == [i \in DOMAIN caller.params |-> Passable(caller.params[i])]
<1>1. PICK held \in [DOMAIN passes -> UNION {passes[i] : i \in DOMAIN passes}] :
          /\ \A i \in DOMAIN held : held[i] \in passes[i]
          /\ args'  = [i \in DOMAIN held |-> Encode(held[i][1])]
          /\ meant' = [i \in DOMAIN held |-> held[i][2]]
  BY DEF Pack
<1>2. /\ stage = "method" /\ stage' = "packed"
      /\ UNCHANGED <<provider, caller, got, result, reply, told>>
  BY DEF Pack
<1>3. provider.kind = "method" /\ InDecl(caller) /\ NotCalled /\ reply = Nothing
  BY <1>2 DEF ExchangeInv, Declared, OfMethod, Unanswered
<1>4. Declared' /\ Unanswered' /\ Answered' /\ Told'
  BY <1>2, <1>3 DEF ExchangeInv, Declared, Stages, OfMethod, OfEvent, Unanswered, NotCalled,
                    Answered, Told
<1>5. DOMAIN held = 1 .. Len(caller.params) /\ DOMAIN passes = DOMAIN caller.params
  BY <1>1, <1>3 DEF InDecl
<1>6. \A i \in DOMAIN held : held[i] \in Passable(caller.params[i])
  BY <1>1, <1>5
<1>7. args' = [i \in 1 .. Len(caller.params) |-> Encode(held[i][1])]
  BY <1>1, <1>5
<1>8. Len(args') = Len(caller.params) /\ DOMAIN args' = DOMAIN caller.params
  BY <1>3, <1>7 DEF InDecl
<1>9. DOMAIN meant' = DOMAIN caller.params
  BY <1>1, <1>5
<1>10. \A i \in DOMAIN args' : \E p \in Passable(caller.params[i]) :
          args'[i] = Encode(p[1]) /\ meant'[i] = p[2]
  BY <1>1, <1>5, <1>6, <1>7
<1>11. Packed'
  BY <1>2, <1>3, <1>8, <1>9, <1>10 DEF Packed
<1> QED BY <1>4, <1>11 DEF ExchangeInv

LEMMA EmitStep == ExchangeInv /\ Emit => ExchangeInv'
<1> SUFFICES ASSUME ExchangeInv, Emit PROVE ExchangeInv'
  OBVIOUS
<1> DEFINE values == [i \in DOMAIN provider.params |-> Held(provider.params[i])]
<1>1. PICK vs \in [DOMAIN values -> UNION {values[i] : i \in DOMAIN values}] :
          /\ \A i \in DOMAIN vs : vs[i] \in values[i]
          /\ meant' = vs
          /\ args' = [i \in DOMAIN vs |-> Encode(vs[i])]
  BY DEF Emit
<1>2. /\ stage = "event" /\ stage' = "emitted"
      /\ UNCHANGED <<provider, caller, got, result, reply, told>>
  BY DEF Emit
<1>3. provider.kind = "event" /\ InDecl(provider) /\ NotCalled /\ reply = Nothing
  BY <1>2 DEF ExchangeInv, Declared, OfEvent, Unanswered
<1>4. Declared' /\ Unanswered' /\ Answered' /\ Told'
  BY <1>2, <1>3 DEF ExchangeInv, Declared, Stages, OfMethod, OfEvent, Unanswered, NotCalled,
                    Answered, Told
<1>5. DOMAIN vs = 1 .. Len(provider.params) /\ DOMAIN values = DOMAIN provider.params
  BY <1>1, <1>3 DEF InDecl
<1>6. \A i \in DOMAIN vs : vs[i] \in Held(provider.params[i])
  BY <1>1, <1>5
<1>7. args' = [i \in 1 .. Len(provider.params) |-> Encode(vs[i])]
  BY <1>1, <1>5
<1>8. Len(args') = Len(provider.params) /\ DOMAIN args' = DOMAIN provider.params
  BY <1>3, <1>7 DEF InDecl
<1>9. Packed'
  BY <1>1, <1>2, <1>3, <1>5, <1>6, <1>7, <1>8 DEF Packed
<1> QED BY <1>4, <1>9 DEF ExchangeInv

LEMMA NextInv == ExchangeInv /\ [Next]_vars => ExchangeInv'
<1> SUFFICES ASSUME ExchangeInv, [Next]_vars PROVE ExchangeInv'
  OBVIOUS
<1> USE DEF ExchangeInv
<1>1. ASSUME UNCHANGED <<provider, caller, meant, args>>,
             stage \in Sending, stage' \in Sending
      PROVE  Packed'
  BY <1>1 DEF Packed
<1>2. CASE Generate
  <2>1. InDecl(provider)' /\ InDecl(caller)' /\ Declared'
    BY <1>2 DEF Generate, Declared, Stages, OfMethod, OfEvent, InDecl
  <2>2. Packed' /\ Answered' /\ Told'
    BY <1>2, <2>1 DEF Generate, InDecl, Packed, Answered, Told, Sending
  <2>3. Unanswered'
    BY <1>2, <2>1 DEF Generate, InDecl, Unanswered, NotCalled
  <2> QED BY <2>1, <2>2, <2>3
<1>3. CASE Pack
  BY <1>3, PackStep
<1>4. CASE Emit
  BY <1>4, EmitStep
<1>5. CASE UnknownMethod \/ InvalidArgs \/ DecodeFails
  <2>1. /\ stage = "packed" /\ stage' = "answered" /\ provider.kind = "method"
        /\ UNCHANGED <<provider, caller, meant, args, got, result, told>> /\ NotCalled
    BY <1>5 DEF UnknownMethod, InvalidArgs, DecodeFails, Answer, Declared, OfMethod,
                Unanswered
  <2>2. Declared' /\ Packed' /\ Told' /\ Unanswered'
    BY <1>1, <2>1 DEF Declared, InDecl, Stages, OfMethod, OfEvent, Sending, Told, Unanswered
  <2>3. \/ ~Known /\ reply' = Null
        \/ Known /\ ~CountFits /\ reply' = ErrorAnswer("invalid_args")
        \/ Known /\ CountFits /\ Fails /\ reply' = ErrorAnswer("dispatch_failed")
    BY <1>5 DEF UnknownMethod, InvalidArgs, DecodeFails, Answer, Known, Fails
  <2>4. NotCalled'
    BY <2>1 DEF NotCalled
  <2>5. Answered'
    BY <2>1, <2>3, <2>4, KeptParts DEF Answered
  <2> QED BY <2>2, <2>5
<1>6. CASE CallHandler
  <2>1. /\ stage = "packed" /\ stage' = "running" /\ provider.kind = "method"
        /\ UNCHANGED <<provider, caller, meant, args, result, reply, told>>
        /\ NotCalled /\ reply = Nothing
    BY <1>6 DEF CallHandler, Declared, OfMethod, Unanswered
  <2>2. Declared' /\ Packed' /\ Told' /\ Answered'
    BY <1>1, <2>1 DEF Declared, InDecl, Stages, OfMethod, OfEvent, Sending, Told, Answered
  <2>3. Called'
    BY <1>6 DEF CallHandler, Called, Known, CountFits, Fails, Decoded
  <2>4. Unanswered'
    BY <2>1, <2>3 DEF Unanswered, NotCalled
  <2> QED BY <2>2, <2>4
<1>7. CASE HandlerReturns \/ HandlerThrows
  <2>1. /\ stage = "running" /\ stage' = "answered" /\ provider.kind = "method"
        /\ UNCHANGED <<provider, caller, meant, args, got, told>>
        /\ Called /\ result = Nothing
    BY <1>7 DEF HandlerReturns, HandlerThrows, Declared, OfMethod, Unanswered
  <2>2. Declared' /\ Packed' /\ Told' /\ Unanswered'
    BY <1>1, <2>1 DEF Declared, InDecl, Stages, OfMethod, OfEvent, Sending, Told, Unanswered
  <2>3. \/ result' = Nothing /\ reply' = ErrorAnswer("dispatch_failed")
        \/ \E v \in Results : result' = <<"returned", v>> /\ reply' = Encode(v)
    BY <1>7, <2>1 DEF HandlerReturns, HandlerThrows, Results
  <2>4. Answered'
    BY <2>1, <2>3, KeptParts DEF Answered
  <2> QED BY <2>2, <2>4
<1>8. CASE Tell
  <2>1. /\ stage = "answered" /\ stage' = "told" /\ provider.kind = "method"
        /\ UNCHANGED <<provider, caller, meant, args, got, result, reply>>
    BY <1>8 DEF Tell, Declared, OfMethod
  <2>2. Declared' /\ Packed' /\ Unanswered'
    BY <1>1, <2>1 DEF Declared, InDecl, Stages, OfMethod, OfEvent, Sending, Unanswered
  <2>3. Answered'
    BY <2>1, KeptParts DEF Answered, NotCalled
  <2>4. Told'
    BY <1>8, <2>1 DEF Tell, Told
  <2> QED BY <2>2, <2>3, <2>4
<1>9. CASE Hear
  <2>1. /\ stage = "emitted" /\ stage' = "told" /\ provider.kind = "event"
        /\ UNCHANGED <<provider, caller, meant, args, got, result, reply>>
    BY <1>9 DEF Hear, Declared, OfEvent
  <2>2. Declared' /\ Packed' /\ Answered'
    BY <1>1, <2>1 DEF Declared, InDecl, Stages, OfMethod, OfEvent, Sending, Answered
  <2>3. Unanswered'
    BY <2>1 DEF Unanswered, NotCalled
  <2>4. Told'
    BY <1>9, <2>1 DEF Hear, Told
  <2> QED BY <2>2, <2>3, <2>4
<1>10. CASE UNCHANGED vars
  <2>1. Declared' /\ Packed' /\ Told'
    BY <1>10 DEF vars, Declared, InDecl, Packed, Told
  <2>2. Unanswered' /\ Answered'
    BY <1>10, KeptParts DEF vars, Unanswered, Answered, NotCalled
  <2> QED BY <2>1, <2>2
<1> QED BY <1>2, <1>3, <1>4, <1>5, <1>6, <1>7, <1>8, <1>9, <1>10 DEF Next

(* Whatever the parameters and the conversions, an exchange runs through   *)
(* the stages of a call or of an event, with the arguments of the sender's *)
(* contract, at most one handler call, one answer and one telling of it.   *)
THEOREM ExchangeInvariant == Spec => []ExchangeInv
BY InitInv, NextInv, PTL DEF Spec

(***************************************************************************)
(* Refusals, whatever the conversions.                                     *)
(***************************************************************************)
LEMMA ArgumentsAreCounted ==
    ExchangeInv /\ stage \in Sending => Len(args) \in Nat /\ (CountFits <=> Complete)
<1> SUFFICES ASSUME ExchangeInv, stage \in Sending
             PROVE  Len(args) \in Nat /\ (CountFits <=> Complete)
  OBVIOUS
<1>1. Len(args) \in Nat /\ Len(provider.params) \in Nat
  BY DEF ExchangeInv, Declared, InDecl, Packed
<1> QED BY <1>1, GateIsComplete

(* A caller that leaves out a required parameter, or passes one too many,  *)
(* is told so, wherever the optional ones stand; a call that the provider  *)
(* knows and whose handler returned nothing is told as an error.           *)
THEOREM RefusalsAreTold == Spec => []RefusalIsTold
<1>1. ExchangeInv => RefusalIsTold
  <2> SUFFICES ASSUME ExchangeInv, stage = "told", provider.kind = "method", Known
               PROVE  /\ ~Complete => told = <<"error", "invalid_args">>
                      /\ result = Nothing => told[1] = "error"
    BY DEF RefusalIsTold
  <2>1. CountFits <=> Complete
    BY ArgumentsAreCounted DEF Sending
  <2>2. told = IF IsRejection(reply) THEN <<"error", reply[2]["code"][2]>>
               ELSE <<"value", IF caller.ret = NoReturn THEN Nothing
                               ELSE Read(caller.ret, reply)>>
    BY DEF ExchangeInv, Told
  <2>3. \/ ~CountFits /\ reply = ErrorAnswer("invalid_args")
        \/ CountFits /\ reply = ErrorAnswer("dispatch_failed")
        \/ CountFits /\ result # Nothing
    BY DEF ExchangeInv, Answered, Called, Nothing
  <2>4. ASSUME NEW code \in {"dispatch_failed", "invalid_args"}, reply = ErrorAnswer(code)
        PROVE  told = <<"error", code>>
    BY <2>2, <2>4, ErrorsAreRejections
  <2>5. ~CountFits => told = <<"error", "invalid_args">>
    BY <2>3, <2>4
  <2>6. result = Nothing => \E code \in {"dispatch_failed", "invalid_args"} :
                               told = <<"error", code>>
    BY <2>3, <2>4
  <2> QED BY <2>1, <2>5, <2>6
<1> QED BY <1>1, ExchangeInvariant, PTL

(***************************************************************************)
(* Values, with lawful conversions.                                        *)
(***************************************************************************)
LawInv ==
    /\ Providable(provider) /\ Callable(caller) => Lawful(provider, caller)
    /\ Generated => Providable(provider) /\ Callable(caller)

(* What the law says of the two declarations it says at every stage.       *)
LEMMA LawIsKept == Spec /\ []CodecIsLawful => [](ExchangeInv /\ LawInv)
<1>1. Init /\ CodecIsLawful => LawInv
  BY DEF Init, CodecIsLawful, LawInv, Generated
<1>2. ExchangeInv /\ LawInv /\ [Next]_vars => LawInv'
  <2> SUFFICES ASSUME ExchangeInv, LawInv, [Next]_vars PROVE LawInv'
    OBVIOUS
  <2>1. UNCHANGED <<provider, caller>>
    BY DEF Next, vars, Generate, Pack, UnknownMethod, InvalidArgs, DecodeFails, CallHandler,
           HandlerReturns, HandlerThrows, Tell, Emit, Hear
  <2>2. Generated' => Generated \/ (Providable(provider) /\ Callable(caller))
    BY DEF Next, vars, Generate, Pack, UnknownMethod, InvalidArgs, DecodeFails, CallHandler,
           HandlerReturns, HandlerThrows, Tell, Emit, Hear, Generated
  <2> QED BY <2>1, <2>2 DEF LawInv
<1> QED BY <1>1, <1>2, ExchangeInvariant, PTL DEF Spec

(* What reaches a method's decoder is in the wrapper's language.           *)
LEMMA SentIsOnTheWire ==
    ASSUME ExchangeInv, stage \in Sending, provider.kind = "method",
           NEW i \in DOMAIN provider.params
    PROVE  Sent(i) \in OnTheWire(caller.params) /\ Decoded[i] = Decode(provider.params[i], Sent(i))
<1>1. i \in Nat \ {0} /\ DOMAIN args = DOMAIN caller.params /\ DOMAIN args = 1 .. Len(args)
      /\ Len(args) \in Nat
  BY DEF ExchangeInv, Declared, InDecl, Packed
<1>2. CASE i <= Len(args)
  <2>1. PICK p \in Passable(caller.params[i]) : args[i] = Encode(p[1])
    BY <1>1, <1>2 DEF ExchangeInv, Packed
  <2>2. Sent(i) \in OnTheWire(caller.params)
    BY <1>1, <1>2, <2>1 DEF Sent, OnTheWire
  <2> QED BY <2>2 DEF Decoded, Sent
<1>3. CASE ~(i <= Len(args))
  BY <1>3 DEF Decoded, Sent, OnTheWire
<1> QED BY <1>2, <1>3

(* A call with the right number of arguments is handled if they decode.    *)
LEMMA HandledIfDecoded ==
    ASSUME ExchangeInv, Generated, provider.kind = "method", Decided, Known, Complete
    PROVE  stage \in Sending /\ (got # Nothing <=> ~Fails)
<1>1. stage \in {"running", "answered", "told"}
  BY DEF ExchangeInv, Unanswered, NotCalled, Decided
<1>2. CountFits
  BY <1>1, ArgumentsAreCounted DEF Sending
<1> QED BY <1>1, <1>2
        DEF ExchangeInv, Unanswered, Answered, Called, NotCalled, Nothing, Sending

(* With lawful conversions a handler runs exactly when every parameter     *)
(* gets what is good for its type, of contracts with any number of them.   *)
THEOREM HandlersAreWellTyped == Spec /\ []CodecIsLawful => []HandledIffWellTyped
<1>1. ExchangeInv /\ LawInv => HandledIffWellTyped
  <2> SUFFICES ASSUME ExchangeInv, LawInv, Generated, provider.kind = "method", Decided, Known,
                      Complete
               PROVE  got # Nothing <=> \A i \in DOMAIN provider.params :
                                           Fits(provider.params[i], Sent(i))
    BY DEF HandledIffWellTyped
  <2>1. stage \in Sending /\ (got # Nothing <=> ~Fails)
    BY HandledIfDecoded
  <2>2. ASSUME NEW i \in DOMAIN provider.params
        PROVE  Decoded[i] = Fail <=> ~Fits(provider.params[i], Sent(i))
    <3>1. Sent(i) \in OnTheWire(caller.params)
          /\ Decoded[i] = Decode(provider.params[i], Sent(i))
      BY <2>1, SentIsOnTheWire
    <3> QED BY <3>1 DEF LawInv, Lawful
  <2>3. DOMAIN Decoded = DOMAIN provider.params
    BY DEF Decoded
  <2> QED BY <2>1, <2>2, <2>3 DEF Fails
<1> QED BY <1>1, LawIsKept, PTL

(* With lawful conversions what arrives is what was meant: arguments,      *)
(* omitted ones, results and events.                                       *)
LEMMA LawfulValuesArrive == ExchangeInv /\ LawInv => ValuesArrive
<1>1. ASSUME ExchangeInv, LawInv, got # Nothing
      PROVE  /\ Generated /\ stage \in Sending /\ provider.kind = "method"
             /\ Lawful(provider, caller) /\ Called
  <2>1. stage \in {"running", "answered", "told"} /\ provider.kind = "method"
    BY <1>1 DEF ExchangeInv, Declared, InDecl, Unanswered, NotCalled
  <2>2. Called
    BY <1>1, <2>1 DEF ExchangeInv, Unanswered, Answered, NotCalled
  <2>3. Generated /\ stage \in Sending
    BY <2>1 DEF Generated, Sending
  <2> QED BY <1>1, <2>1, <2>2, <2>3 DEF LawInv
<1>2. ExchangeInv /\ LawInv => HandlerGetsWhatWasMeant
  <2> SUFFICES ASSUME ExchangeInv, LawInv, got # Nothing
               PROVE  /\ Same => \A i \in DOMAIN got[2] :
                                    meant[i] # Junk => got[2][i] = meant[i]
                      /\ \A i \in DOMAIN got[2] :
                            i > Len(args) => got[2][i] \in {Empty, <<"json", Null>>}
    BY DEF HandlerGetsWhatWasMeant
  <2>1. /\ Generated /\ stage \in Sending /\ provider.kind = "method"
        /\ Lawful(provider, caller) /\ Called
    BY <1>1
  <2>2. got[2] = Decoded /\ DOMAIN Decoded = DOMAIN provider.params
    BY <2>1 DEF Called, Decoded
  <2>3. ASSUME NEW i \in DOMAIN provider.params, Same, meant[i] # Junk
        PROVE  Decoded[i] = meant[i]
    <3>1. i <= Len(args) /\ i \in DOMAIN args
      BY <2>1, <2>3 DEF Same, ExchangeInv, Declared, InDecl, Packed
    <3>2. PICK p \in Passable(caller.params[i]) : args[i] = Encode(p[1]) /\ meant[i] = p[2]
      BY <2>1, <3>1 DEF ExchangeInv, Packed
    <3>3. Decoded[i] # Fail
      BY <2>1, <2>2 DEF Called, Fails
    <3>4. /\ Sent(i) \in OnTheWire(caller.params)
          /\ Decoded[i] = Decode(provider.params[i], Sent(i)) /\ Sent(i) = args[i]
      BY <2>1, <3>1, SentIsOnTheWire DEF Sent
    <3>5. Fits(provider.params[i], Encode(p[1])) /\ KeepsArgument(provider.params[i])
      BY <2>1, <2>3, <3>2, <3>3, <3>4 DEF Lawful, Same
    <3> QED BY <2>3, <3>2, <3>4, <3>5 DEF KeepsArgument, Same
  <2>4. ASSUME NEW i \in DOMAIN provider.params, i > Len(args)
        PROVE  Decoded[i] \in {Empty, <<"json", Null>>}
    <3>1. IsOptional(provider.params[i])
      BY <2>1, <2>4, ArgumentsAreCounted DEF Called, Complete, ExchangeInv, Declared, InDecl
    <3>2. Decoded[i] = Decode(provider.params[i], Null) /\ Decoded[i] # Fail
      BY <2>1, <2>2, <2>4, ArgumentsAreCounted
      DEF Decoded, Called, Fails, ExchangeInv, Declared, InDecl
    <3>3. NullIsOmitted(provider.params[i])
      BY <2>1 DEF Lawful
    <3> QED BY <3>1, <3>2, <3>3 DEF NullIsOmitted
  <2> QED BY <2>2, <2>3, <2>4
<1>3. ExchangeInv /\ LawInv => ResultIsReceived
  <2> SUFFICES ASSUME ExchangeInv, LawInv, stage = "told", Same, result # Nothing,
                      provider.ret # NoReturn
               PROVE  told[1] = "value" /\ Back(provider.ret, told[2]) = result[2]
    BY DEF ResultIsReceived
  <2>1. provider.kind = "method"
    BY DEF ExchangeInv, Declared, InDecl, Unanswered, NotCalled
  <2>2. Called /\ \E v \in Results : result = <<"returned", v>> /\ reply = Encode(v)
    BY <2>1 DEF ExchangeInv, Answered, NotCalled
  <2>3. PICK v \in Held(provider.ret) : result = <<"returned", v>> /\ reply = Encode(v)
    BY <2>2 DEF Results
  <2>4. got # Nothing
    BY <2>2 DEF Called, Nothing
  <2>5. ~IsRejection(reply) /\ Back(provider.ret, Read(provider.ret, Encode(v))) = v
    BY <1>1, <2>3, <2>4 DEF Lawful, Same, KeepsHeld
  <2>6. told = <<"value", Read(provider.ret, Encode(v))>>
    BY <2>1, <2>3, <2>5 DEF ExchangeInv, Told, Same
  <2> QED BY <2>3, <2>5, <2>6
<1>4. ExchangeInv /\ LawInv => EventArrives
  <2> SUFFICES ASSUME ExchangeInv, LawInv, stage = "told", Same, provider.kind = "event"
               PROVE  /\ told[1] = "event"
                      /\ \A i \in DOMAIN told[2] :
                            Back(provider.params[i], told[2][i]) = meant[i]
    BY DEF EventArrives
  <2>1. Lawful(provider, caller)
    BY DEF LawInv, Generated
  <2>2. told = <<"event", [i \in DOMAIN caller.params |-> Read(caller.params[i], args[i])]>>
    BY DEF ExchangeInv, Told, Packed, Sending, Same, Declared, InDecl
  <2>3. \A i \in DOMAIN provider.params :
           meant[i] \in Held(provider.params[i]) /\ args[i] = Encode(meant[i])
    BY DEF ExchangeInv, Packed, Sending
  <2>4. \A i \in DOMAIN provider.params : KeepsHeld(provider.params[i])
    BY <2>1 DEF Lawful, Same
  <2> QED BY <2>2, <2>3, <2>4 DEF Same, KeepsHeld
<1> QED BY <1>2, <1>3, <1>4 DEF ValuesArrive

THEOREM ValuesDoArrive == Spec /\ []CodecIsLawful => []ValuesArrive
BY LawfulValuesArrive, LawIsKept, PTL

(***************************************************************************)
(* Types of any depth.  The recursions of the generated provider are       *)
(* known by their rules alone; what follows for every type follows for the *)
(* JSON values of least depth for which it would fail.                     *)
(***************************************************************************)

(* Of a set of naturals that is not empty one is the least.                *)
LEMMA LeastNatural ==
    ASSUME NEW S \in SUBSET Nat, S # {} PROVE \E n \in S : \A k \in S : n <= k
<1> DEFINE R == OpToRel(<, Nat)
<1>1. IsWellFoundedOn(R, Nat)
  BY NatLessThanWellFounded
<1>2. PICK n \in S : \A k \in S : ~(<<k, n>> \in R)
  <2> HIDE DEF R
  <2> QED BY <1>1, WFMin
<1>3. R = {ss \in Nat \X Nat : ss[1] < ss[2]}
  BY Zenon DEF OpToRel
<1>4. ASSUME NEW k \in S PROVE n <= k
  <2> HIDE DEF R
  <2>1. n \in Nat /\ k \in Nat
    OBVIOUS
  <2>2. ~(k < n)
    BY <1>2, <1>3, <2>1
  <2> QED BY <2>1, <2>2
<1> QED BY <1>2, <1>4

(* An optional type has a value type, which is not optional.               *)
Strips(te) ==
    /\ ValueTypeOf(te) \in Types
    /\ ~IsOptional(te) => ValueTypeOf(te) = te
    /\ IsOptional(ValueTypeOf(te)) => ValueTypeOf(te).elements = <<>>

LEMMA ValueTypes == ASSUME NEW te \in Types PROVE Strips(te)
<1> DEFINE Bad == {t \in Types : ~Strips(t)}
           Ranks == {Rank(t) : t \in Bad}
<1>1. SUFFICES ASSUME Bad # {} PROVE FALSE
  OBVIOUS
<1>2. Ranks \in SUBSET Nat /\ Ranks # {}
  BY <1>1, TypesAreFinite
<1>3. PICK n \in Ranks : \A k \in Ranks : n <= k
  <2> HIDE DEF Ranks
  <2> QED BY <1>2, LeastNatural
<1>4. PICK t \in Bad : n = Rank(t)
  BY <1>3
<1>5. ASSUME NEW u \in Types, Rank(u) < Rank(t) PROVE Strips(u)
  <2>1. u \in Bad => Rank(t) <= Rank(u)
    BY <1>3, <1>4
  <2>2. Rank(u) \in Nat /\ Rank(t) \in Nat
    BY <1>4, TypesAreFinite
  <2> QED BY <1>5, <2>1, <2>2
<1>6. ValueTypeOf(t) = ValueTypeRule(ValueTypeOf, t)
  BY <1>4, ValueTypeIsRecursive
<1>7. CASE t.kind = "Optional" /\ t.elements # <<>>
  <2>1. t.elements[1] \in Types /\ Rank(t.elements[1]) < Rank(t)
    BY <1>4, <1>7, TypesAreFinite
  <2>2. ValueTypeOf(t) = ValueTypeOf(t.elements[1])
    BY <1>6, <1>7 DEF ValueTypeRule
  <2> QED BY <1>4, <1>5, <1>7, <2>1, <2>2 DEF Strips, IsOptional
<1>8. CASE ~(t.kind = "Optional" /\ t.elements # <<>>)
  <2>1. ValueTypeOf(t) = t
    BY <1>6, <1>8 DEF ValueTypeRule
  <2> QED BY <1>4, <1>8, <2>1 DEF Strips, IsOptional
<1> QED BY <1>7, <1>8

(* What passes the gate, by its kind.                                      *)
IsContainerOf(te, kind, n) ==
    te.kind = kind /\ Len(te.elements) = n /\ te.elements[n] \in Gated

LEMMA GatedKinds ==
    ASSUME NEW te \in Gated
    PROVE  \/ IsPrimitive(te, Scalars \cup Any)
           \/ IsRecord(te, Recs)
           \/ te.kind = "Optional" /\ te.elements # <<>> /\ ValueTypeOf(te) \in Gated
           \/ IsContainerOf(te, "Array", 1)
           \/ IsContainerOf(te, "Map", 2)
<1>1. PICK recs \in SUBSET Recs : Gate(te, FALSE, recs)
  BY DEF Gated
<1>2. te \in Types /\ ValueTypeOf(te) \in Types
  BY ValueTypes DEF Gated, Strips
<1>3. SupportedRule(Gate, ValueTypeOf, te, FALSE, recs)
  BY <1>1, <1>2, GateIsRecursive
<1>4. \/ IsPrimitive(te, Scalars \cup Any)
      \/ IsRecord(te, recs)
      \/ te.kind = "Optional" /\ te.elements # <<>> /\ Gate(ValueTypeOf(te), FALSE, recs)
      \/ te.kind = "Array" /\ Len(te.elements) = 1 /\ Gate(te.elements[1], FALSE, recs)
      \/ te.kind = "Map" /\ Len(te.elements) = 2 /\ Gate(te.elements[2], FALSE, recs)
  BY <1>3 DEF SupportedRule, PrimitiveSupported
<1>5. /\ Len(te.elements) = 1 => te.elements[1] \in Types
      /\ Len(te.elements) = 2 => te.elements[2] \in Types
  BY <1>2, TypesAreFinite
<1>6. IsRecord(te, recs) => IsRecord(te, Recs)
  BY DEF IsRecord
<1>7. te.kind = "Optional" /\ te.elements # <<>> /\ Gate(ValueTypeOf(te), FALSE, recs)
      => ValueTypeOf(te) \in Gated
  BY <1>2 DEF Gated
<1>8. te.kind = "Array" /\ Len(te.elements) = 1 /\ Gate(te.elements[1], FALSE, recs)
      => IsContainerOf(te, "Array", 1)
  BY <1>5 DEF Gated, IsContainerOf
<1>9. te.kind = "Map" /\ Len(te.elements) = 2 /\ Gate(te.elements[2], FALSE, recs)
      => IsContainerOf(te, "Map", 2)
  BY <1>5 DEF Gated, IsContainerOf
<1> QED BY <1>4, <1>6, <1>7, <1>8, <1>9

(* How a gated type is spelled, by its kind.                               *)
LEMMA Spells ==
    ASSUME NEW te \in Gated
    PROVE  /\ IsPrimitive(te, Scalars) => Spelled(te) = <<StdOf[te.name]>>
           /\ IsPrimitive(te, Any) => Spelled(te) = <<"LogosMap">>
           /\ IsRecord(te, Recs) => Spelled(te) = <<"struct", te.name>>
           /\ te.kind = "Optional" /\ te.elements # <<>> =>
                 Spelled(te) = OptionalOf(Spelled(ValueTypeOf(te)))
           /\ IsContainerOf(te, "Array", 1) =>
                 Spelled(te) = IF IsPrimitive(te.elements[1], Any) THEN <<"LogosList">>
                               ELSE <<"std::vector", Spelled(te.elements[1])>>
           /\ IsContainerOf(te, "Map", 2) =>
                 Spelled(te) = IF IsPrimitive(te.elements[2], Any) THEN <<"LogosMap">>
                               ELSE <<"std::map", Spelled(te.elements[2])>>
<1>1. Spelled(te) = SpellingRule(SpellingOf, ValueTypeOf, te, Recs)
  BY SpellingIsRecursive DEF Spelled, Gated
<1>2. ASSUME IsPrimitive(te, Scalars) PROVE Spelled(te) = <<StdOf[te.name]>>
  <2>1. te.kind = "Primitive" /\ te.name \in Scalars /\ te.name \notin Any
    BY <1>2 DEF IsPrimitive, Scalars, Any
  <2>2. te.name \in DOMAIN StdOf
    BY <2>1 DEF Scalars, StdOf
  <2>3. Spelled(te) = TypeToStd(te)
    BY <1>1, <2>1 DEF SpellingRule, IsPrimitive, IsRecord
  <2> QED BY <2>1, <2>2, <2>3 DEF TypeToStd
<1>3. ASSUME IsPrimitive(te, Any) PROVE Spelled(te) = <<"LogosMap">>
  BY <1>1, <1>3 DEF SpellingRule, IsPrimitive, IsRecord
<1>4. ASSUME IsRecord(te, Recs) PROVE Spelled(te) = <<"struct", te.name>>
  BY <1>1, <1>4 DEF SpellingRule, IsPrimitive, IsRecord
<1>5. ASSUME te.kind = "Optional" /\ te.elements # <<>>
      PROVE  Spelled(te) = OptionalOf(Spelled(ValueTypeOf(te)))
  BY <1>1, <1>5 DEF SpellingRule, Spelled, IsPrimitive, IsRecord
<1>6. ASSUME IsContainerOf(te, "Array", 1)
      PROVE  Spelled(te) = IF IsPrimitive(te.elements[1], Any) THEN <<"LogosList">>
                           ELSE <<"std::vector", Spelled(te.elements[1])>>
  BY <1>1, <1>6 DEF SpellingRule, Spelled, IsPrimitive, IsRecord, IsContainerOf
<1>7. ASSUME IsContainerOf(te, "Map", 2)
      PROVE  Spelled(te) = IF IsPrimitive(te.elements[2], Any) THEN <<"LogosMap">>
                           ELSE <<"std::map", Spelled(te.elements[2])>>
  BY <1>1, <1>7 DEF SpellingRule, Spelled, IsPrimitive, IsRecord, IsContainerOf
<1> QED BY <1>2, <1>3, <1>4, <1>5, <1>6, <1>7

(* No C++ value that is decoded is the failure.                            *)
LEMMA ScalarsAreStrict ==
    ASSUME NEW te \in Gated, IsPrimitive(te, Scalars), NEW j \in Wire
    PROVE  (Strict(Spelled(te), j) # Fail) = Inhabitant(te, j)
<1>1. Spelled(te) = <<StdOf[te.name]>> /\ Spelled(te) \in Spellings
  BY Spells DEF Spellings
<1>2. te.kind = "Primitive" /\ te.name \in Scalars
  BY DEF IsPrimitive
<1>3. /\ te.name = "tstr"    => StdOf[te.name] = "std::string"
      /\ te.name = "bool"    => StdOf[te.name] = "bool"
      /\ te.name = "bstr"    => StdOf[te.name] = "bytes"
      /\ te.name = "int"     => StdOf[te.name] = "int64_t"
      /\ te.name = "uint"    => StdOf[te.name] = "uint64_t"
      /\ te.name = "float64" => StdOf[te.name] = "double"
  BY DEF StdOf
<1>4. Strict(Spelled(te), j) = Scalar(StdOf[te.name], j)
  <2>1. Strict(Spelled(te), j) = FromJsonRule(Strict, FieldSpelled, Spelled(te), j)
    BY <1>1, CodecIsRecursive
  <2> QED BY <1>1, <1>2, <1>3, <2>1 DEF FromJsonRule, Untyped, Scalars
<1>5. Inhabitant(te, j) = InhabitsRule(Inhabitant, ValueTypeOf, Spelled(te), te, j)
  BY InhabitantIsRecursive
<1>6. Spelled(te) \notin Untyped
  BY <1>1, <1>2, <1>3 DEF Untyped, Scalars
<1>7. j[1] \in {"int", "float"} => j[2] \in Int
  BY ValuesAreFinite
<1>8. CASE te.name \in {"tstr", "bool"}
  <2>1. Inhabitant(te, j) = (j[1] = IF te.name = "tstr" THEN "str" ELSE "bool")
    BY <1>2, <1>5, <1>6, <1>8 DEF InhabitsRule, IsPrimitive
  <2>2. Scalar(StdOf[te.name], j) = IF j[1] = IF te.name = "tstr" THEN "str" ELSE "bool"
                                    THEN j ELSE Fail
    BY <1>3, <1>8 DEF Scalar
  <2> QED BY <1>4, <2>1, <2>2 DEF Fail
<1>9. CASE te.name = "bstr"
  <2>1. Inhabitant(te, j) = IsTaggedBytes(j)
    BY <1>2, <1>5, <1>6, <1>9 DEF IsTaggedBytes, InhabitsRule, IsPrimitive
  <2>2. Scalar(StdOf[te.name], j) = IF IsTaggedBytes(j) THEN <<"bytes", j[2]["_bytes"][2]>>
                                    ELSE Fail
    BY <1>3, <1>9 DEF Scalar
  <2> QED BY <1>4, <2>1, <2>2 DEF Fail, IsTaggedBytes
<1>10. CASE te.name = "float64"
  BY <1>2, <1>3, <1>4, <1>5, <1>6, <1>10 DEF Scalar, InhabitsRule, IsPrimitive, Fail
<1>11. CASE te.name \in {"int", "uint"}
  <2>1. Inhabitant(te, j) = (/\ j[1] = "int" \/ (j[1] = "float" /\ j[2] % 10 = 0)
                             /\ te.name = "uint" => j[2] >= 0)
    BY <1>2, <1>5, <1>6, <1>11 DEF InhabitsRule, IsPrimitive
  <2>2. Integer(j) # Fail <=> j[1] = "int" \/ (j[1] = "float" /\ j[2] % 10 = 0)
    BY <1>7 DEF Integer, Whole, Fail
  <2>3. Integer(j) # Fail => (Integer(j)[2] >= 0 <=> j[2] >= 0)
    BY <1>7 DEF Integer, Whole, Fail
  <2>4. Scalar(StdOf[te.name], j) = IF te.name = "int" THEN Integer(j) ELSE Unsigned(j)
    BY <1>3, <1>11 DEF Scalar
  <2> QED BY <1>4, <1>11, <2>1, <2>2, <2>3, <2>4 DEF Unsigned
<1> QED BY <1>2, <1>8, <1>9, <1>10, <1>11 DEF Scalars

(* Decoding a value of a type is refused exactly if it does not inhabit it.*)
StrictAt(te, j) == (Strict(Spelled(te), j) # Fail) = Inhabitant(te, j)

(* Untyped JSON takes everything.                                          *)
LEMMA UntypedIsStrict ==
    ASSUME NEW te \in Gated, Spelled(te) \in Untyped, NEW j \in Wire
    PROVE  StrictAt(te, j) /\ Inhabitant(te, j) /\ Strict(Spelled(te), j) = <<"json", j>>
<1>1. Spelled(te) \in Spellings
  BY DEF Spellings
<1>2. Strict(Spelled(te), j) = <<"json", j>>
  BY <1>1, CodecIsRecursive DEF FromJsonRule, Untyped
<1>3. Inhabitant(te, j) = TRUE
  BY InhabitantIsRecursive DEF InhabitsRule
<1>4. Strict(Spelled(te), j) # Fail
  BY <1>2 DEF Fail
<1> QED BY <1>2, <1>3, <1>4 DEF StrictAt

(* An optional spelling takes null, and what the type inside it takes.     *)
LEMMA OptionalSpelling ==
    ASSUME NEW te \in Gated, NEW j \in Wire, StrictAt(te, j), Spelled(te) \notin Untyped
    PROVE  (Strict(OptionalOf(Spelled(te)), j) # Fail) = (j = Null \/ Inhabitant(te, j))
<1>1. OptionalOf(Spelled(te)) \in Spellings
  BY DEF Spellings
<1>2. OptionalOf(Spelled(te)) = <<"std::optional", Spelled(te)>>
  BY DEF OptionalOf
<1>3. Strict(OptionalOf(Spelled(te)), j) = IF j = Null THEN Empty ELSE Strict(Spelled(te), j)
  <2> DEFINE t == OptionalOf(Spelled(te))
  <2>1. Strict(t, j) = FromJsonRule(Strict, FieldSpelled, t, j)
    BY <1>1, CodecIsRecursive
  <2>2. t \notin Untyped /\ t[1] = "std::optional" /\ t[2] = Spelled(te)
    BY <1>2 DEF Untyped
  <2> QED BY <2>1, <2>2 DEF FromJsonRule
<1>4. Inhabitant(te, j) \in BOOLEAN
  BY DEF StrictAt
<1> QED BY <1>3, <1>4 DEF StrictAt, Empty, Fail

LEMMA OptionalIsStrict ==
    ASSUME NEW te \in Gated, IsOptional(te), NEW j \in Wire, StrictAt(ValueTypeOf(te), j)
    PROVE  StrictAt(te, j)
<1>1. te.kind = "Optional" /\ te.elements # <<>> /\ ValueTypeOf(te) \in Gated
  BY GatedKinds DEF IsOptional, IsPrimitive, IsRecord, IsContainerOf
<1>2. Spelled(te) = OptionalOf(Spelled(ValueTypeOf(te)))
  BY <1>1, Spells
<1>3. CASE Spelled(ValueTypeOf(te)) \in Untyped
  BY <1>2, <1>3, UntypedIsStrict DEF OptionalOf
<1>4. CASE Spelled(ValueTypeOf(te)) \notin Untyped
  <2>1. Spelled(te) \notin Untyped
    BY <1>2, <1>4 DEF OptionalOf, Untyped
  <2>2. Inhabitant(te, j) = (j = Null \/ Inhabitant(ValueTypeOf(te), j))
    BY <1>1, <2>1, InhabitantIsRecursive DEF InhabitsRule, IsPrimitive
  <2> QED BY <1>1, <1>2, <1>4, <2>2, OptionalSpelling DEF StrictAt
<1> QED BY <1>3, <1>4

(* A record's field, spelled in either way.                                *)
LEMMA FieldIsStrict ==
    ASSUME NEW r \in Recs, NEW i \in DOMAIN Records[r], NEW k \in Wire,
           \A u \in Gated : StrictAt(u, k)
    PROVE  (Strict(FieldSpelled(Records[r][i]), k) # Fail)
           = (Inhabitant(Records[r][i].type, k) \/ (FieldIsOptional(Records[r][i]) /\ k = Null))
<1> DEFINE f == Records[r][i]
           u == ValueTypeOf(f.type)
<1>1. f.type \in Gated
  BY RecordsAreGated DEF Gated
<1>2. CASE ~FieldIsOptional(f)
  BY <1>1, <1>2 DEF StrictAt, FieldSpelled, FieldSpelling, Spelled
<1>3. CASE FieldIsOptional(f)
  <2>1. FieldSpelled(f) = OptionalOf(Spelled(u))
    BY <1>3 DEF FieldSpelled, FieldSpelling, Spelled
  <2>2. u \in Gated
    <3>1. CASE IsOptional(f.type)
      BY <1>1, <3>1, GatedKinds DEF IsOptional, IsPrimitive, IsRecord, IsContainerOf
    <3>2. CASE ~IsOptional(f.type)
      BY <1>1, <3>2, ValueTypes DEF Strips, Gated
    <3> QED BY <3>1, <3>2
  <2>3. IsOptional(f.type) => Spelled(f.type) = OptionalOf(Spelled(u))
    BY <1>1, Spells, GatedKinds DEF IsOptional, IsPrimitive, IsRecord, IsContainerOf
  <2>4. ~IsOptional(f.type) => u = f.type
    BY <1>1, ValueTypes DEF Strips, Gated
  <2>5. CASE Spelled(u) \in Untyped
    <3>1. Spelled(f.type) = Spelled(u) /\ FieldSpelled(f) = Spelled(u)
      BY <2>1, <2>3, <2>4, <2>5 DEF OptionalOf
    <3>2. Inhabitant(f.type, k) /\ Strict(Spelled(f.type), k) = <<"json", k>>
      BY <1>1, <2>5, <3>1, UntypedIsStrict
    <3> QED BY <3>1, <3>2 DEF Fail
  <2>6. CASE Spelled(u) \notin Untyped
    <3>1. (Strict(FieldSpelled(f), k) # Fail) = (k = Null \/ Inhabitant(u, k))
      BY <2>1, <2>2, <2>6, OptionalSpelling
    <3>2. (k = Null \/ Inhabitant(u, k)) = (Inhabitant(f.type, k) \/ k = Null)
      <4>1. CASE IsOptional(f.type)
        <5>1. Spelled(f.type) \notin Untyped
          BY <2>3, <2>6, <4>1 DEF OptionalOf, Untyped
        <5>2. Inhabitant(f.type, k) = (k = Null \/ Inhabitant(u, k))
          BY <1>1, <4>1, <5>1, InhabitantIsRecursive DEF InhabitsRule, IsPrimitive, IsOptional
        <5> QED BY <5>2
      <4>2. CASE ~IsOptional(f.type)
        BY <2>4, <4>2
      <4> QED BY <4>1, <4>2
    <3> QED BY <1>3, <3>1, <3>2
  <2> QED BY <2>5, <2>6
<1> QED BY <1>2, <1>3

(* A container or a record is decoded if every part of it is.              *)
LEMMA PartsAreStrict ==
    ASSUME NEW te \in Gated, ~IsOptional(te), NEW j \in Wire,
           \A u \in Gated, k \in Wire : Depth(k) < Depth(j) => StrictAt(u, k)
    PROVE  StrictAt(te, j)
<1>1. \A k \in DOMAIN j[2] : j[1] \in {"arr", "obj"} =>
         j[2][k] \in Wire /\ \A u \in Gated : StrictAt(u, j[2][k])
  BY ValuesAreFinite
<1>2. Spelled(te) \in Spellings
  BY DEF Spellings
<1>3. Strict(Spelled(te), j) = FromJsonRule(Strict, FieldSpelled, Spelled(te), j)
  BY <1>2, CodecIsRecursive
<1>4. Inhabitant(te, j) = InhabitsRule(Inhabitant, ValueTypeOf, Spelled(te), te, j)
  BY InhabitantIsRecursive
<1>5. CASE Spelled(te) \in Untyped
  BY <1>5, UntypedIsStrict
<1>6. CASE IsPrimitive(te, Scalars)
  BY <1>6, ScalarsAreStrict DEF StrictAt
<1>7. CASE IsContainerOf(te, "Array", 1) /\ Spelled(te) \notin Untyped
  <2> DEFINE u == te.elements[1]
             f == [i \in DOMAIN j[2] |-> Strict(Spelled(u), j[2][i])]
  <2>1. u \in Gated /\ te.kind = "Array" /\ Len(te.elements) = 1
    BY <1>7 DEF IsContainerOf
  <2>2. Spelled(te) = <<"std::vector", Spelled(u)>>
    BY <1>7, Spells DEF Untyped
  <2>3. Strict(Spelled(te), j) = IF j[1] # "arr" THEN Fail ELSE AllOf("vec", f)
    BY <1>3, <2>2 DEF FromJsonRule, Untyped
  <2>4. Inhabitant(te, j) = (j[1] = "arr" /\ \A i \in DOMAIN j[2] : Inhabitant(u, j[2][i]))
    BY <1>4, <1>7, <2>1 DEF InhabitsRule, IsPrimitive
  <2>5. j[1] = "arr" => \A i \in DOMAIN j[2] : (f[i] = Fail) = ~Inhabitant(u, j[2][i])
    BY <1>1, <2>1 DEF StrictAt
  <2>6. (AllOf("vec", f) = Fail) = (\E i \in DOMAIN j[2] : f[i] = Fail)
    BY DEF AllOf, Fail
  <2> HIDE DEF f
  <2> QED BY <2>3, <2>4, <2>5, <2>6 DEF StrictAt
<1>8. CASE IsContainerOf(te, "Map", 2) /\ Spelled(te) \notin Untyped
  <2> DEFINE u == te.elements[2]
             f == [i \in DOMAIN j[2] |-> Strict(Spelled(u), j[2][i])]
  <2>1. u \in Gated /\ te.kind = "Map" /\ Len(te.elements) = 2
    BY <1>8 DEF IsContainerOf
  <2>2. Spelled(te) = <<"std::map", Spelled(u)>>
    BY <1>8, Spells DEF Untyped
  <2>3. Strict(Spelled(te), j) = IF j[1] # "obj" THEN Fail ELSE AllOf("map", f)
    BY <1>3, <2>2 DEF FromJsonRule, Untyped
  <2>4. Inhabitant(te, j) = (j[1] = "obj" /\ \A i \in DOMAIN j[2] : Inhabitant(u, j[2][i]))
    BY <1>4, <1>8, <2>1 DEF InhabitsRule, IsPrimitive
  <2>5. j[1] = "obj" => \A i \in DOMAIN j[2] : (f[i] = Fail) = ~Inhabitant(u, j[2][i])
    BY <1>1, <2>1 DEF StrictAt
  <2>6. (AllOf("map", f) = Fail) = (\E i \in DOMAIN j[2] : f[i] = Fail)
    BY DEF AllOf, Fail
  <2> HIDE DEF f
  <2> QED BY <2>3, <2>4, <2>5, <2>6 DEF StrictAt
<1>9. CASE IsRecord(te, Recs)
  <2> DEFINE r == te.name
             F(k) == FieldOf(r, k)
             f == [k \in Names(r) |-> Strict(FieldSpelled(F(k)), At(j[2], k))]
  <2>1. te.kind = "Named" /\ r \in Recs /\ Spelled(te) = <<"struct", r>>
    BY <1>9, Spells DEF IsRecord
  <2>2. Strict(Spelled(te), j) = IF j[1] # "obj" THEN Fail ELSE AllOf("struct", f)
    BY <1>3, <2>1 DEF FromJsonRule, Untyped
  <2>3. Spelled(te) \notin Untyped
    BY <2>1 DEF Untyped
  <2>4. Inhabitant(te, j) =
           (j[1] = "obj" /\ \A k \in Names(r) :
               Inhabitant(F(k).type, At(j[2], k)) \/ (FieldIsOptional(F(k)) /\ At(j[2], k) = Null))
    BY <1>4, <2>1, <2>3 DEF InhabitsRule, IsPrimitive
  <2>5. ASSUME j[1] = "obj", NEW k \in Names(r)
        PROVE  (f[k] # Fail) = (Inhabitant(F(k).type, At(j[2], k))
                                \/ (FieldIsOptional(F(k)) /\ At(j[2], k) = Null))
    <3>1. At(j[2], k) \in Wire /\ \A u \in Gated : StrictAt(u, At(j[2], k))
      <4>1. CASE k \in DOMAIN j[2]
        BY <1>1, <2>5, <4>1 DEF At
      <4>2. CASE k \notin DOMAIN j[2]
        BY <2>5, <4>2, ValuesAreFinite DEF At
      <4> QED BY <4>1, <4>2
    <3>2. PICK i \in DOMAIN Records[r] : F(k) = Records[r][i]
      BY <2>5 DEF Names, FieldOf, Field
    <3>3. f[k] = Strict(FieldSpelled(Records[r][i]), At(j[2], k))
      BY <2>5, <3>2
    <3> QED BY <2>1, <3>1, <3>2, <3>3, FieldIsStrict
  <2>6. (AllOf("struct", f) = Fail) = (\E k \in Names(r) : f[k] = Fail)
    BY DEF AllOf, Fail
  <2> HIDE DEF f
  <2> QED BY <2>2, <2>4, <2>5, <2>6 DEF StrictAt
<1>10. CASE IsPrimitive(te, Any)
  BY <1>5, <1>10, Spells DEF Untyped
<1> QED
  <2>1. IsPrimitive(te, Scalars \cup Any) => IsPrimitive(te, Scalars) \/ IsPrimitive(te, Any)
    BY DEF IsPrimitive
  <2> QED BY <1>5, <1>6, <1>7, <1>8, <1>9, <1>10, <2>1, GatedKinds DEF IsOptional

(* The codec of every type, of any depth, is strict: by the least value    *)
(* for which it would not be.                                              *)
THEOREM CodecIsStrict == \A te \in Gated, j \in Wire : StrictAt(te, j)
<1> DEFINE Bad == {j \in Wire : \E te \in Gated : ~StrictAt(te, j)}
           Depths == {Depth(j) : j \in Bad}
<1>1. SUFFICES ASSUME Bad # {} PROVE FALSE
  OBVIOUS
<1>2. Depths \in SUBSET Nat /\ Depths # {}
  BY <1>1, ValuesAreFinite
<1>3. PICK n \in Depths : \A k \in Depths : n <= k
  <2> HIDE DEF Depths
  <2> QED BY <1>2, LeastNatural
<1>4. PICK j \in Bad : n = Depth(j)
  BY <1>3
<1>5. ASSUME NEW u \in Gated, NEW k \in Wire, Depth(k) < Depth(j) PROVE StrictAt(u, k)
  <2>1. k \in Bad => Depth(j) <= Depth(k)
    BY <1>3, <1>4
  <2>2. Depth(k) \in Nat /\ Depth(j) \in Nat
    BY <1>4, ValuesAreFinite
  <2> QED BY <1>5, <2>1, <2>2
<1>6. ASSUME NEW te \in Gated, ~IsOptional(te) PROVE StrictAt(te, j)
  BY <1>4, <1>5, <1>6, PartsAreStrict
<1>7. ASSUME NEW te \in Gated, IsOptional(te) PROVE StrictAt(te, j)
  <2>1. ValueTypeOf(te) \in Gated /\ ~IsOptional(ValueTypeOf(te))
    <3>1. ValueTypeOf(te) \in Gated
      BY <1>7, GatedKinds DEF IsOptional, IsPrimitive, IsRecord, IsContainerOf
    <3>2. IsOptional(ValueTypeOf(te)) => ValueTypeOf(te).elements = <<>>
      BY ValueTypes DEF Strips, Gated
    <3> QED BY <3>1, <3>2, GatedKinds DEF IsOptional, IsPrimitive, IsRecord, IsContainerOf
  <2> QED BY <1>4, <1>6, <1>7, <2>1, OptionalIsStrict
<1> QED BY <1>4, <1>6, <1>7

(* What the reference says of the shapes.                                  *)
LEMMA Shapes ==
    ASSUME NEW te \in Gated, ~IsOptional(te), NEW j \in Wire
    PROVE  /\ Inhabitant(te, j) \in BOOLEAN
           /\ Spelled(te) \in Untyped => Inhabitant(te, j)
           /\ IsPrimitive(te, {"bstr"}) =>
                 Spelled(te) \notin Untyped /\ Inhabitant(te, j) = IsTaggedBytes(j)
           /\ Spelled(te) \notin Untyped /\ Inhabitant(te, j) =>
                 (te.kind = "Array" => j[1] = "arr") /\ (te.kind = "Map" => j[1] = "obj")
<1>1. Inhabitant(te, j) = InhabitsRule(Inhabitant, ValueTypeOf, Spelled(te), te, j)
  BY InhabitantIsRecursive
<1>2. Inhabitant(te, j) \in BOOLEAN /\ (Spelled(te) \in Untyped => Inhabitant(te, j))
  BY <1>1 DEF InhabitsRule
<1>3. ASSUME IsPrimitive(te, {"bstr"})
      PROVE  Spelled(te) \notin Untyped /\ Inhabitant(te, j) = IsTaggedBytes(j)
  <2>1. IsPrimitive(te, Scalars) /\ te.name = "bstr" /\ te.kind = "Primitive"
    BY <1>3 DEF IsPrimitive, Scalars
  <2>2. Spelled(te) = <<"bytes">>
    BY <2>1, Spells DEF StdOf
  <2> QED BY <1>1, <2>1, <2>2 DEF InhabitsRule, IsPrimitive, Untyped, IsTaggedBytes
<1>4. ASSUME Spelled(te) \notin Untyped, Inhabitant(te, j)
      PROVE  (te.kind = "Array" => j[1] = "arr") /\ (te.kind = "Map" => j[1] = "obj")
  BY <1>1, <1>4 DEF InhabitsRule, IsPrimitive
<1> QED BY <1>2, <1>3, <1>4

(* The untyped spellings, and the types that have them.                    *)
LEMMA UntypedKinds ==
    ASSUME NEW te \in Gated, ~IsOptional(te)
    PROVE  Spelled(te) \in Untyped <=>
              \/ IsPrimitive(te, Any)
              \/ te.kind = "Array" /\ Spelled(te) = <<"LogosList">>
              \/ te.kind = "Map" /\ Spelled(te) = <<"LogosMap">>
<1>1. CASE IsPrimitive(te, Scalars)
  <2>1. Spelled(te) = <<StdOf[te.name]>> /\ te.name \in Scalars /\ te.kind = "Primitive"
    BY <1>1, Spells DEF IsPrimitive
  <2>2. \A n \in Scalars : StdOf[n] \notin {"LogosMap", "LogosList"}
    BY DEF StdOf, Scalars
  <2> QED BY <2>1, <2>2 DEF Untyped, IsPrimitive, Any, Scalars
<1>2. CASE IsPrimitive(te, Any)
  BY <1>2, Spells DEF Untyped
<1>3. CASE IsRecord(te, Recs)
  BY <1>3, Spells DEF Untyped, IsRecord, IsPrimitive
<1>4. CASE IsContainerOf(te, "Array", 1)
  BY <1>4, Spells DEF Untyped, IsContainerOf, IsPrimitive
<1>5. CASE IsContainerOf(te, "Map", 2)
  BY <1>5, Spells DEF Untyped, IsContainerOf, IsPrimitive
<1> QED
  <2>1. IsPrimitive(te, Scalars \cup Any) => IsPrimitive(te, Scalars) \/ IsPrimitive(te, Any)
    BY DEF IsPrimitive
  <2> QED BY <1>1, <1>2, <1>3, <1>4, <1>5, <2>1, GatedKinds DEF IsOptional

(* bytes in an argument.                                                   *)
LEMMA LenientBytes ==
    ASSUME NEW j PROVE (BytesLenient(j) # Fail) = (IsTaggedBytes(j) \/ j[1] \in {"str", "int", "arr"})
BY DEF BytesLenient, Fail, IsTaggedBytes

(* A required argument.                                                    *)
LEMMA RequiredIsStrict ==
    ASSUME NEW te \in Gated, ~IsOptional(te), NEW j \in Wire
    PROVE  (Decode(te, j) # Fail) =
              (\/ IsPrimitive(te, {"bstr"}) /\ j[1] \in {"str", "int", "arr"}
               \/ /\ Inhabitant(te, j)
                  /\ te.kind = "Array" => j[1] = "arr"
                  /\ te.kind = "Map"   => j[1] = "obj")
<1>1. Decode(te, j) = ArgumentRule(Decode, Strict, ValueTypeOf, Spelled(te), te, j)
  BY ArgumentIsRecursive
<1>2. <<"json", j>> # Fail
  BY DEF Fail
<1>3. CASE IsPrimitive(te, {"bstr"})
  <2>1. te.kind = "Primitive" /\ te.name = "bstr"
    BY <1>3 DEF IsPrimitive
  <2>2. Spelled(te) \notin Untyped /\ Inhabitant(te, j) = IsTaggedBytes(j)
    BY <1>3, Shapes
  <2>3. Decode(te, j) = BytesLenient(j)
    BY <1>1, <1>3, <2>1, <2>2 DEF ArgumentRule, IsPrimitive, Any, Untyped
  <2> QED BY <1>3, <2>1, <2>2, <2>3, LenientBytes
<1>4. CASE IsPrimitive(te, Any)
  <2>1. te.kind = "Primitive" /\ te.name = "any" /\ Spelled(te) = <<"LogosMap">>
    BY <1>4, Spells DEF IsPrimitive, Any
  <2>2. Decode(te, j) = <<"json", j>>
    BY <1>1, <2>1 DEF ArgumentRule, IsPrimitive, IsOptional, Any
  <2> QED BY <1>2, <2>1, <2>2, Shapes DEF Untyped, IsPrimitive
<1>5. CASE te.kind = "Array" /\ Spelled(te) = <<"LogosList">>
  <2>1. Decode(te, j) = IF j[1] = "arr" THEN <<"json", j>> ELSE Fail
    BY <1>1, <1>5 DEF ArgumentRule, IsPrimitive, IsOptional
  <2> QED BY <1>2, <1>5, <2>1, Shapes DEF Untyped, IsPrimitive
<1>6. CASE te.kind = "Map" /\ Spelled(te) = <<"LogosMap">>
  <2>1. Decode(te, j) = IF j[1] = "obj" THEN <<"json", j>> ELSE Fail
    BY <1>1, <1>6 DEF ArgumentRule, IsPrimitive, IsOptional
  <2> QED BY <1>2, <1>6, <2>1, Shapes DEF Untyped, IsPrimitive
<1>7. CASE Spelled(te) \notin Untyped /\ ~IsPrimitive(te, {"bstr"})
  <2>1. ~IsPrimitive(te, Any)
    BY <1>7, UntypedKinds
  <2>2. Decode(te, j) = Strict(Spelled(te), j)
    BY <1>1, <1>7, <2>1 DEF ArgumentRule, Untyped
  <2>3. (Strict(Spelled(te), j) # Fail) = Inhabitant(te, j)
    BY CodecIsStrict DEF StrictAt
  <2> QED BY <1>7, <2>2, <2>3, Shapes
<1> QED BY <1>3, <1>4, <1>5, <1>6, <1>7, UntypedKinds

(* An argument of any gated type.                                          *)
THEOREM ArgumentsAreStrict == \A te \in Gated, j \in Wire : (Decode(te, j) # Fail) = Fits(te, j)
<1> SUFFICES ASSUME NEW te \in Gated, NEW j \in Wire PROVE (Decode(te, j) # Fail) = Fits(te, j)
  OBVIOUS
<1> DEFINE vt == ValueTypeOf(te)
<1>1. Fits(te, j) = (/\ \/ IsOptional(te) /\ j = Null
                        \/ IsPrimitive(vt, {"bstr"}) /\ j[1] \in {"str", "int", "arr"}
                        \/ /\ Inhabitant(vt, j)
                           /\ vt.kind = "Array" => j[1] = "arr"
                           /\ vt.kind = "Map"   => j[1] = "obj"
                     /\ ~(j = Null /\ IsOptional(te) /\ Spelled(te) \in Untyped
                          /\ ~IsPrimitive(vt, Any)))
  BY FitsIsWellTyped DEF WellTypedRule, ArgumentInhabitsRule, NullRefusedRule
<1>2. CASE ~IsOptional(te)
  <2>1. vt = te
    BY <1>2, ValueTypes DEF Strips, Gated
  <2> QED BY <1>1, <1>2, <2>1, RequiredIsStrict
<1>3. CASE IsOptional(te)
  <2>1. te.kind = "Optional" /\ te.elements # <<>> /\ vt \in Gated
    BY <1>3, GatedKinds DEF IsOptional, IsPrimitive, IsRecord, IsContainerOf
  <2>2. ~IsOptional(vt)
    <3>1. IsOptional(vt) => vt.elements = <<>>
      BY ValueTypes DEF Strips, Gated
    <3> QED BY <2>1, <3>1, GatedKinds DEF IsOptional, IsPrimitive, IsRecord, IsContainerOf
  <2>3. Spelled(te) = OptionalOf(Spelled(vt))
    BY <2>1, Spells
  <2>4. (Decode(vt, j) # Fail) =
              (\/ IsPrimitive(vt, {"bstr"}) /\ j[1] \in {"str", "int", "arr"}
               \/ /\ Inhabitant(vt, j)
                  /\ vt.kind = "Array" => j[1] = "arr"
                  /\ vt.kind = "Map"   => j[1] = "obj")
    BY <2>1, <2>2, RequiredIsStrict
  <2>5. Decode(te, j) = ArgumentRule(Decode, Strict, ValueTypeOf, Spelled(te), te, j)
    BY ArgumentIsRecursive
  <2>6. j = Null => j[1] = "null"
    BY DEF Null
  <2>7. CASE Spelled(vt) \in Untyped
    <3>1. Spelled(te) \in Untyped /\ ~IsPrimitive(vt, {"bstr"})
      BY <2>1, <2>2, <2>3, <2>7, Shapes DEF OptionalOf
    <3>2. Decode(te, j) = Decode(vt, j)
      BY <1>3, <2>1, <2>5, <3>1 DEF ArgumentRule, IsPrimitive
    <3>3. Inhabitant(vt, j)
      BY <2>1, <2>2, <2>7, Shapes
    <3>4. IsPrimitive(vt, Any) \/ vt.kind = "Array" \/ vt.kind = "Map"
      BY <2>1, <2>2, <2>7, UntypedKinds
    <3> QED BY <1>1, <1>3, <2>4, <2>6, <3>1, <3>2, <3>3, <3>4 DEF IsPrimitive
  <2>8. CASE Spelled(vt) \notin Untyped
    <3>1. Spelled(te) \notin Untyped /\ Spelled(te) = <<"std::optional", Spelled(vt)>>
      BY <2>3, <2>8 DEF OptionalOf, Untyped
    <3>2. CASE IsPrimitive(vt, {"bstr"})
      <4>1. Decode(te, j) = IF j = Null THEN Empty ELSE BytesLenient(j)
        BY <1>3, <2>1, <2>5, <3>1, <3>2 DEF ArgumentRule, IsPrimitive, IsOptional
      <4>2. Inhabitant(vt, j) = IsTaggedBytes(j) /\ vt.kind = "Primitive"
        BY <2>1, <2>2, <3>2, Shapes DEF IsPrimitive
      <4>3. Empty # Fail
        BY DEF Empty, Fail
      <4> QED BY <1>1, <1>3, <3>1, <3>2, <4>1, <4>2, <4>3, LenientBytes
    <3>3. CASE ~IsPrimitive(vt, {"bstr"})
      <4>1. Decode(te, j) = Strict(Spelled(te), j)
        BY <1>3, <2>1, <2>5, <3>1, <3>3 DEF ArgumentRule, IsPrimitive, IsOptional, Untyped
      <4>2. (Strict(OptionalOf(Spelled(vt)), j) # Fail) = (j = Null \/ Inhabitant(vt, j))
        BY <2>1, <2>8, CodecIsStrict, OptionalSpelling
      <4> QED BY <1>1, <1>3, <2>1, <2>2, <2>3, <2>8, <3>1, <3>3, <4>1, <4>2, Shapes
    <3> QED BY <3>2, <3>3
  <2> QED BY <2>7, <2>8
<1> QED BY <1>2, <1>3

(* The value type of an optional type.                                     *)
LEMMA OptionalTypes ==
    ASSUME NEW te \in Gated, IsOptional(te)
    PROVE  /\ te.kind = "Optional" /\ te.elements # <<>>
           /\ ValueTypeOf(te) \in Gated /\ ~IsOptional(ValueTypeOf(te))
           /\ Spelled(te) = OptionalOf(Spelled(ValueTypeOf(te)))
<1>1. te.kind = "Optional" /\ te.elements # <<>> /\ ValueTypeOf(te) \in Gated
  BY GatedKinds DEF IsOptional, IsPrimitive, IsRecord, IsContainerOf
<1>2. IsOptional(ValueTypeOf(te)) => ValueTypeOf(te).elements = <<>>
  BY ValueTypes DEF Strips, Gated
<1>3. ~IsOptional(ValueTypeOf(te))
  BY <1>1, <1>2, GatedKinds DEF IsOptional, IsPrimitive, IsRecord, IsContainerOf
<1> QED BY <1>1, <1>3, Spells

(* A type that is not optional does not take null.                         *)
LEMMA NullIsRefused ==
    ASSUME NEW te \in Gated, ~IsOptional(te), Spelled(te) \notin Untyped
    PROVE  Strict(Spelled(te), Null) = Fail
<1>1. Null \in Wire
  BY ValuesAreFinite
<1>2. Inhabitant(te, Null) = InhabitsRule(Inhabitant, ValueTypeOf, Spelled(te), te, Null)
  BY <1>1, InhabitantIsRecursive
<1>3. Null[1] = "null" /\ ~IsTaggedBytes(Null)
  BY DEF Null, IsTaggedBytes
<1>4. CASE IsPrimitive(te, Scalars)
  <2>1. ~Inhabitant(te, Null)
    BY <1>2, <1>3, <1>4 DEF InhabitsRule, IsPrimitive, Scalars
  <2> QED BY <1>1, <2>1, CodecIsStrict DEF StrictAt
<1>5. CASE te.kind \in {"Array", "Map", "Named"}
  <2>1. ~Inhabitant(te, Null)
    BY <1>2, <1>3, <1>5 DEF InhabitsRule, IsPrimitive
  <2> QED BY <1>1, <2>1, CodecIsStrict DEF StrictAt
<1>6. ~IsPrimitive(te, Any)
  BY Spells DEF Untyped
<1> QED
  <2>1. IsPrimitive(te, Scalars \cup Any) => IsPrimitive(te, Scalars) \/ IsPrimitive(te, Any)
    BY DEF IsPrimitive
  <2> QED BY <1>4, <1>5, <1>6, <2>1, GatedKinds DEF IsOptional, IsRecord, IsContainerOf

(***************************************************************************)
(* What is held of a type.                                                 *)
(***************************************************************************)
LEMMA HoldsTyped ==
    ASSUME NEW te \in Gated, NEW v \in Values, Holds(te, v), ~IsOptional(te)
    PROVE  /\ Spelled(te) \in Untyped =>
                 /\ Pair("json", v)
                 /\ te.kind = "Array" => v[2][1] = "arr"
                 /\ te.kind = "Map"   => v[2][1] = "obj"
           /\ Spelled(te) \notin Untyped =>
                 /\ IsPrimitive(te, {"tstr"})    => Pair("str", v)
                 /\ IsPrimitive(te, {"bool"})    => Pair("bool", v)
                 /\ IsPrimitive(te, {"bstr"})    => Pair("bytes", v)
                 /\ IsPrimitive(te, {"float64"}) => Pair("float", v) /\ v[2] \in Int
                 /\ IsPrimitive(te, {"int"})     => Pair("int", v) /\ v[2] \in Int
                 /\ IsPrimitive(te, {"uint"})    => Pair("int", v) /\ v[2] \in 0 .. Width - 1
                 /\ IsContainerOf(te, "Array", 1) =>
                       /\ Parts("vec", v)
                       /\ \A k \in DOMAIN v[2] : v[2][k] \in Values /\ Holds(te.elements[1], v[2][k])
                 /\ IsContainerOf(te, "Map", 2) =>
                       /\ Parts("map", v)
                       /\ \A k \in DOMAIN v[2] : v[2][k] \in Values /\ Holds(te.elements[2], v[2][k])
<1>1. Holds(te, v) = HoldsRule(Holds, ValueTypeOf, Spelled, te, v)
  BY HoldsIsRecursive
<1>2. v[1] \in {"vec", "map", "struct"} => \A k \in DOMAIN v[2] : v[2][k] \in Values
  BY CppValuesAreFinite
<1>3. CASE Spelled(te) \in Untyped
  BY <1>1, <1>3 DEF HoldsRule
<1>4. CASE Spelled(te) \notin Untyped /\ te.kind = "Primitive"
  BY <1>1, <1>4 DEF HoldsRule, IsPrimitive, IsContainerOf
<1>5. CASE Spelled(te) \notin Untyped /\ IsContainerOf(te, "Array", 1)
  BY <1>1, <1>2, <1>5 DEF HoldsRule, IsPrimitive, IsContainerOf, Parts, Pair
<1>6. CASE Spelled(te) \notin Untyped /\ IsContainerOf(te, "Map", 2)
  BY <1>1, <1>2, <1>6 DEF HoldsRule, IsPrimitive, IsContainerOf, Parts, Pair
<1> QED BY <1>3, <1>4, <1>5, <1>6 DEF IsPrimitive, IsContainerOf

(* What a record's field holds.                                            *)
OfField(f, x) ==
    /\ x \in Values
    /\ \/ Holds(ValueTypeOf(f.type), x)
       \/ FieldIsOptional(f) /\ x = Empty /\ Spelled(ValueTypeOf(f.type)) \notin Untyped

LEMMA HoldsRecord ==
    ASSUME NEW te \in Gated, IsRecord(te, Recs), NEW v \in Values, Holds(te, v)
    PROVE  /\ Spelled(te) = <<"struct", te.name>> /\ Parts("struct", v)
           /\ DOMAIN v[2] = Names(te.name)
           /\ \A k \in Names(te.name) : OfField(FieldOf(te.name, k), v[2][k])
<1>1. Holds(te, v) = HoldsRule(Holds, ValueTypeOf, Spelled, te, v)
  BY HoldsIsRecursive
<1>2. Spelled(te) = <<"struct", te.name>> /\ Spelled(te) \notin Untyped
  BY Spells DEF Untyped
<1>3. te.kind = "Named" /\ ~IsOptional(te)
  BY DEF IsRecord, IsOptional
<1>4. /\ Parts("struct", v) /\ DOMAIN v[2] = Names(te.name)
      /\ \A k \in Names(te.name) :
            LET f == FieldOf(te.name, k) x == v[2][k]
            IN  \/ Holds(ValueTypeOf(f.type), x)
                \/ FieldIsOptional(f) /\ x = Empty /\ Spelled(ValueTypeOf(f.type)) \notin Untyped
  BY <1>1, <1>2, <1>3 DEF HoldsRule, IsPrimitive
<1>5. \A k \in Names(te.name) : v[2][k] \in Values
  BY <1>4, CppValuesAreFinite DEF Parts, Pair
<1> QED BY <1>2, <1>4, <1>5 DEF OfField

LEMMA HeldIsNoFailure ==
    ASSUME NEW te \in Gated, NEW v \in Values, Holds(te, v)
    PROVE  v # Fail /\ (~IsOptional(te) => v # Empty)
<1>1. ASSUME NEW u \in Gated, ~IsOptional(u), Holds(u, v) PROVE v # Fail /\ v # Empty
  <2>1. \/ Pair("json", v) \/ Pair("str", v) \/ Pair("bool", v) \/ Pair("bytes", v)
        \/ Pair("float", v) \/ Pair("int", v) \/ Pair("vec", v) \/ Pair("map", v)
        \/ Pair("struct", v)
    <3>1. CASE Spelled(u) \in Untyped
      BY <1>1, <3>1, HoldsTyped
    <3>2. CASE IsRecord(u, Recs)
      BY <1>1, <3>2, HoldsRecord DEF Parts
    <3>3. CASE Spelled(u) \notin Untyped /\ ~IsRecord(u, Recs)
      <4>1. ~IsPrimitive(u, Any)
        BY <3>3, Spells DEF Untyped
      <4>2. IsPrimitive(u, Scalars) =>
               \/ IsPrimitive(u, {"tstr"}) \/ IsPrimitive(u, {"bool"}) \/ IsPrimitive(u, {"bstr"})
               \/ IsPrimitive(u, {"float64"}) \/ IsPrimitive(u, {"int"}) \/ IsPrimitive(u, {"uint"})
        BY DEF IsPrimitive, Scalars
      <4>3. IsPrimitive(u, Scalars \cup Any) => IsPrimitive(u, Scalars) \/ IsPrimitive(u, Any)
        BY DEF IsPrimitive
      <4> QED BY <1>1, <3>3, <4>1, <4>2, <4>3, GatedKinds, HoldsTyped DEF IsOptional, Parts
    <3> QED BY <3>1, <3>2, <3>3
  <2> QED BY <2>1 DEF Pair, Fail, Empty
<1>2. CASE ~IsOptional(te)
  BY <1>1, <1>2
<1>3. CASE IsOptional(te)
  <2>1. Holds(te, v) = HoldsRule(Holds, ValueTypeOf, Spelled, te, v)
    BY HoldsIsRecursive
  <2>2. v = <<"json", Null>> \/ v = Empty \/ Holds(ValueTypeOf(te), v)
    BY <1>3, <2>1 DEF HoldsRule
  <2>3. <<"json", Null>> # Fail /\ Empty # Fail
    BY DEF Fail, Empty
  <2> QED BY <1>1, <1>3, <2>2, <2>3, OptionalTypes
<1> QED BY <1>2, <1>3

(***************************************************************************)
(* A record's field, whatever its spelling: what was decoded of its value  *)
(* type, and what was left out.                                            *)
(***************************************************************************)
LEMMA FieldTypes ==
    ASSUME NEW f, f.type \in Gated
    PROVE  /\ ValueTypeOf(f.type) \in Gated /\ ~IsOptional(ValueTypeOf(f.type))
           /\ FieldSpelled(f) = IF FieldIsOptional(f) THEN OptionalOf(Spelled(ValueTypeOf(f.type)))
                                ELSE Spelled(ValueTypeOf(f.type))
           /\ ~IsOptional(f.type) => ValueTypeOf(f.type) = f.type
<1>1. ~IsOptional(f.type) => ValueTypeOf(f.type) = f.type
  BY ValueTypes DEF Strips, Gated
<1>2. ValueTypeOf(f.type) \in Gated /\ ~IsOptional(ValueTypeOf(f.type))
  BY <1>1, OptionalTypes
<1>3. FieldSpelled(f) = IF FieldIsOptional(f) THEN OptionalOf(Spelled(ValueTypeOf(f.type)))
                        ELSE Spelled(f.type)
  BY DEF FieldSpelled, FieldSpelling, Spelled
<1>4. ~FieldIsOptional(f) => ~IsOptional(f.type)
  BY DEF FieldIsOptional
<1> QED BY <1>1, <1>2, <1>3, <1>4

LEMMA OptionalOfTyped ==
    ASSUME NEW te \in Gated, ~IsOptional(te), Spelled(te) \notin Untyped, NEW j \in Wire
    PROVE  Strict(OptionalOf(Spelled(te)), j) = IF j = Null THEN Empty ELSE Strict(Spelled(te), j)
<1> DEFINE t == OptionalOf(Spelled(te))
<1>1. t = <<"std::optional", Spelled(te)>> /\ t \in Spellings
  BY DEF OptionalOf, Spellings
<1>2. Strict(t, j) = FromJsonRule(Strict, FieldSpelled, t, j)
  BY <1>1, CodecIsRecursive
<1>3. t \notin Untyped /\ t[1] = "std::optional" /\ t[2] = Spelled(te)
  BY <1>1 DEF Untyped
<1> QED BY <1>2, <1>3 DEF FromJsonRule

LEMMA FieldIsDecoded ==
    ASSUME NEW f, f.type \in Gated, NEW x \in Values, Holds(ValueTypeOf(f.type), x),
           NEW j \in Wire, Strict(Spelled(ValueTypeOf(f.type)), j) = x
    PROVE  Strict(FieldSpelled(f), j) = x
<1> DEFINE u == ValueTypeOf(f.type)
<1>1. u \in Gated /\ ~IsOptional(u) /\ x # Fail
  BY FieldTypes, HeldIsNoFailure
<1>2. CASE ~FieldIsOptional(f)
  BY <1>2, FieldTypes
<1>3. CASE FieldIsOptional(f) /\ Spelled(u) \in Untyped
  BY <1>3, FieldTypes DEF OptionalOf
<1>4. CASE FieldIsOptional(f) /\ Spelled(u) \notin Untyped
  <2>1. j # Null
    BY <1>1, <1>4, NullIsRefused
  <2> QED BY <1>1, <1>4, <2>1, FieldTypes, OptionalOfTyped
<1> QED BY <1>2, <1>3, <1>4

LEMMA FieldIsLeftOut ==
    ASSUME NEW f, f.type \in Gated, FieldIsOptional(f),
           Spelled(ValueTypeOf(f.type)) \notin Untyped
    PROVE  Strict(FieldSpelled(f), Null) = Empty
BY FieldTypes, OptionalOfTyped, ValuesAreFinite

(***************************************************************************)
(* What the provider encodes it decodes to the same value.                 *)
(***************************************************************************)
KeptAt(te, v) == Holds(te, v) => Strict(Spelled(te), Encode(v)) = v

LEMMA ScalarsAreKept ==
    ASSUME NEW te \in Gated, IsPrimitive(te, Scalars), NEW v \in Values, Holds(te, v)
    PROVE  /\ Strict(Spelled(te), Encode(v)) = v
           /\ Encode(v) = IF IsPrimitive(te, {"bstr"}) THEN TagBytes(v[2]) ELSE v
<1>1. Spelled(te) = <<StdOf[te.name]>> /\ Spelled(te) \in Spellings
  BY Spells DEF Spellings
<1>2. te.kind = "Primitive" /\ te.name \in Scalars /\ ~IsOptional(te)
  BY DEF IsPrimitive, IsOptional
<1>3. /\ te.name = "tstr"    => StdOf[te.name] = "std::string"
      /\ te.name = "bool"    => StdOf[te.name] = "bool"
      /\ te.name = "bstr"    => StdOf[te.name] = "bytes"
      /\ te.name = "int"     => StdOf[te.name] = "int64_t"
      /\ te.name = "uint"    => StdOf[te.name] = "uint64_t"
      /\ te.name = "float64" => StdOf[te.name] = "double"
  BY DEF StdOf
<1>4. Spelled(te) \notin Untyped
  BY <1>1, <1>2, <1>3 DEF Untyped, Scalars
<1>5. Encode(v) \in Wire /\ Encode(v) = EncodeRule(Encode, v)
  BY CppValuesAreFinite
<1>6. Strict(Spelled(te), Encode(v)) = Scalar(StdOf[te.name], Encode(v))
  <2>1. Strict(Spelled(te), Encode(v)) = FromJsonRule(Strict, FieldSpelled, Spelled(te), Encode(v))
    BY <1>1, <1>5, CodecIsRecursive
  <2> QED BY <1>1, <1>2, <1>3, <2>1 DEF FromJsonRule, Untyped, Scalars
<1>7. CASE te.name = "bstr"
  <2>1. Pair("bytes", v)
    BY <1>2, <1>4, <1>7, HoldsTyped DEF IsPrimitive
  <2>2. Encode(v) = TagBytes(v[2])
    BY <1>5, <2>1 DEF EncodeRule, Pair
  <2>3. TagBytes(v[2])[2] = [k \in {"_bytes"} |-> <<"str", v[2]>>] /\ TagBytes(v[2])[1] = "obj"
    BY DEF TagBytes, Obj
  <2>4. IsTaggedBytes(TagBytes(v[2])) /\ TagBytes(v[2])[2]["_bytes"][2] = v[2]
    BY <2>3 DEF IsTaggedBytes
  <2>5. Scalar("bytes", Encode(v)) = <<"bytes", v[2]>>
    BY <2>2, <2>4 DEF Scalar
  <2> QED BY <1>2, <1>3, <1>6, <1>7, <2>1, <2>2, <2>5 DEF IsPrimitive, Pair
<1>8. CASE te.name \in {"tstr", "bool"}
  <2>1. Pair(IF te.name = "tstr" THEN "str" ELSE "bool", v)
    BY <1>2, <1>4, <1>8, HoldsTyped DEF IsPrimitive
  <2>2. Encode(v) = v
    BY <1>5, <2>1 DEF EncodeRule, Pair
  <2> QED BY <1>3, <1>6, <1>8, <2>1, <2>2 DEF Scalar, Pair, IsPrimitive
<1>9. CASE te.name = "float64"
  <2>1. Pair("float", v)
    BY <1>2, <1>4, <1>9, HoldsTyped DEF IsPrimitive
  <2>2. Encode(v) = v
    BY <1>5, <2>1 DEF EncodeRule, Pair
  <2> QED BY <1>3, <1>6, <1>9, <2>1, <2>2 DEF Scalar, Pair, IsPrimitive
<1>10. CASE te.name \in {"int", "uint"}
  <2>1. Pair("int", v) /\ v[2] \in Int /\ (te.name = "uint" => v[2] >= 0)
    BY <1>2, <1>4, <1>10, HoldsTyped, WidthAssumption DEF IsPrimitive
  <2>2. Encode(v) = v
    BY <1>5, <2>1 DEF EncodeRule, Pair
  <2>3. Integer(v) = v /\ v # Fail
    BY <2>1 DEF Integer, Pair, Fail
  <2>4. Unsigned(v) = IF v[2] >= 0 THEN v ELSE Fail
    BY <2>3 DEF Unsigned
  <2> QED BY <1>3, <1>6, <1>10, <2>1, <2>2, <2>3, <2>4 DEF Scalar, IsPrimitive
<1> QED BY <1>2, <1>7, <1>8, <1>9, <1>10 DEF Scalars

LEMMA UntypedAreKept ==
    ASSUME NEW te \in Gated, Spelled(te) \in Untyped, NEW v \in Values, Holds(te, v)
    PROVE  Strict(Spelled(te), Encode(v)) = v /\ v = <<"json", Encode(v)>>
<1>1. Encode(v) = EncodeRule(Encode, v) /\ Encode(v) \in Wire
  BY CppValuesAreFinite
<1>2. Pair("json", v)
  <2>1. CASE ~IsOptional(te)
    BY <2>1, HoldsTyped
  <2>2. CASE IsOptional(te)
    <3>1. Spelled(ValueTypeOf(te)) \in Untyped
      BY <2>2, OptionalTypes DEF OptionalOf, Untyped
    <3>2. Holds(te, v) = HoldsRule(Holds, ValueTypeOf, Spelled, te, v)
      BY HoldsIsRecursive
    <3>3. v = <<"json", Null>> \/ Holds(ValueTypeOf(te), v)
      BY <2>2, <3>2 DEF HoldsRule
    <3>4. v = <<"json", Null>> => Pair("json", v)
      BY DEF Pair
    <3> QED BY <2>2, <3>1, <3>3, <3>4, OptionalTypes, HoldsTyped
  <2> QED BY <2>1, <2>2
<1>3. Encode(v) = v[2]
  BY <1>1, <1>2 DEF EncodeRule, Pair
<1> QED BY <1>1, <1>2, <1>3, UntypedIsStrict DEF Pair

LEMMA OptionalIsKept ==
    ASSUME NEW te \in Gated, IsOptional(te), NEW v \in Values, KeptAt(ValueTypeOf(te), v)
    PROVE  KeptAt(te, v)
<1> SUFFICES ASSUME Holds(te, v) PROVE Strict(Spelled(te), Encode(v)) = v
  BY DEF KeptAt
<1> DEFINE u == ValueTypeOf(te)
<1>1. CASE Spelled(te) \in Untyped
  BY <1>1, UntypedAreKept
<1>2. CASE Spelled(te) \notin Untyped
  <2>1. Spelled(te) = OptionalOf(Spelled(u)) /\ Spelled(u) \notin Untyped
    BY <1>2, OptionalTypes DEF OptionalOf
  <2>2. Holds(te, v) = HoldsRule(Holds, ValueTypeOf, Spelled, te, v)
    BY HoldsIsRecursive
  <2>3. v = Empty \/ Holds(u, v)
    BY <1>2, <2>2 DEF HoldsRule
  <2>4. Encode(v) \in Wire /\ Encode(v) = EncodeRule(Encode, v)
    BY CppValuesAreFinite
  <2>5. Strict(Spelled(te), Encode(v)) = IF Encode(v) = Null THEN Empty
                                         ELSE Strict(Spelled(u), Encode(v))
    BY <2>1, <2>4, OptionalOfTyped, OptionalTypes
  <2>6. CASE v = Empty
    BY <2>4, <2>5, <2>6 DEF EncodeRule, Empty
  <2>7. CASE Holds(u, v)
    <3>1. Strict(Spelled(u), Encode(v)) = v /\ v # Fail
      BY <2>7, HeldIsNoFailure, OptionalTypes DEF KeptAt
    <3>2. Encode(v) # Null
      BY <2>1, <3>1, NullIsRefused, OptionalTypes
    <3> QED BY <2>5, <3>1, <3>2
  <2> QED BY <2>3, <2>6, <2>7
<1> QED BY <1>1, <1>2

(* What is encoded of a value with parts.                                  *)
LEMMA EncodedParts ==
    ASSUME NEW v \in Values, v[1] \in {"vec", "map", "struct"}
    PROVE  LET present == IF v[1] = "struct" THEN {k \in DOMAIN v[2] : v[2][k] # Empty}
                          ELSE DOMAIN v[2]
               f == [k \in present |-> Encode(v[2][k])]
           IN  /\ Encode(v) = (IF v[1] = "vec" THEN Arr(f) ELSE Obj(f)) /\ Encode(v) \in Wire
               /\ \A k \in present :
                     /\ v[2][k] \in Values /\ Encode(v[2][k]) \in Wire
                     /\ Depth(Encode(v[2][k])) < Depth(Encode(v))
<1> DEFINE present == IF v[1] = "struct" THEN {k \in DOMAIN v[2] : v[2][k] # Empty}
                      ELSE DOMAIN v[2]
           f == [k \in present |-> Encode(v[2][k])]
<1>1. Encode(v) = EncodeRule(Encode, v) /\ Encode(v) \in Wire
  BY CppValuesAreFinite
<1>2. \A k \in present : v[2][k] \in Values /\ Encode(v[2][k]) \in Wire
  BY CppValuesAreFinite
<1>3. Encode(v) = IF v[1] = "vec" THEN Arr(f) ELSE Obj(f)
  <2>1. CASE v[1] = "vec"
    BY <1>1, <2>1 DEF EncodeRule
  <2>2. CASE v[1] = "map"
    BY <1>1, <2>2 DEF EncodeRule
  <2>3. CASE v[1] = "struct"
    BY <1>1, <2>3 DEF EncodeRule
  <2> QED BY <2>1, <2>2, <2>3
<1>4. Encode(v)[1] \in {"arr", "obj"} /\ Encode(v)[2] = f
  BY <1>3 DEF Arr, Obj
<1>5. \A k \in DOMAIN f : Depth(f[k]) < Depth(Encode(v))
  BY <1>1, <1>4, ValuesAreFinite
<1> QED BY <1>1, <1>2, <1>3, <1>5

(* A container is decoded from one of the same shape that gives each of    *)
(* its members.                                                            *)
LEMMA ContainerIsDecoded ==
    ASSUME NEW te \in Gated, NEW n \in {1, 2},
           IsContainerOf(te, IF n = 1 THEN "Array" ELSE "Map", n),
           Spelled(te) \notin Untyped, NEW v \in Values, Holds(te, v),
           NEW f, DOMAIN f = DOMAIN v[2], NEW j \in Wire, j = (IF n = 1 THEN Arr(f) ELSE Obj(f)),
           \A k \in DOMAIN v[2] : Strict(Spelled(te.elements[n]), f[k]) = v[2][k]
    PROVE  Strict(Spelled(te), j) = v
<1> DEFINE tag == IF n = 1 THEN "vec" ELSE "map"
           u   == te.elements[n]
           g   == [k \in DOMAIN v[2] |-> Strict(Spelled(u), f[k])]
<1>1. /\ Parts(tag, v) /\ \A k \in DOMAIN v[2] : v[2][k] \in Values /\ Holds(u, v[2][k])
      /\ u \in Gated
  <2>1. ~IsOptional(te) /\ u \in Gated
    BY DEF IsContainerOf, IsOptional
  <2>2. CASE n = 1
    BY <2>1, <2>2, HoldsTyped
  <2>3. CASE n = 2
    BY <2>1, <2>3, HoldsTyped
  <2> QED BY <2>1, <2>2, <2>3
<1>2. Spelled(te) = <<IF n = 1 THEN "std::vector" ELSE "std::map", Spelled(u)>>
      /\ Spelled(te) \in Spellings
  BY Spells DEF Untyped, Spellings
<1>3. v[1] = tag /\ v = <<tag, v[2]>> /\ v[2] = [k \in DOMAIN v[2] |-> v[2][k]]
  BY <1>1 DEF Parts, Pair
<1>4. \A k \in DOMAIN v[2] : g[k] = v[2][k] /\ g[k] # Fail
  BY <1>1, HeldIsNoFailure
<1>5. AllOf(tag, g) = v
  <2>1. g = v[2]
    BY <1>3, <1>4
  <2> QED BY <1>3, <1>4, <2>1 DEF AllOf
<1>6. Strict(Spelled(te), j) = AllOf(tag, g)
  <2>1. Strict(Spelled(te), j) = FromJsonRule(Strict, FieldSpelled, Spelled(te), j)
    BY <1>2, CodecIsRecursive
  <2>2. j[2] = f /\ j[1] = IF n = 1 THEN "arr" ELSE "obj"
    BY DEF Arr, Obj
  <2>3. CASE n = 1
    BY <1>2, <2>1, <2>2, <2>3 DEF FromJsonRule, Untyped
  <2>4. CASE n = 2
    BY <1>2, <2>1, <2>2, <2>4 DEF FromJsonRule, Untyped
  <2> QED BY <2>3, <2>4
<1> QED BY <1>5, <1>6

(* The fields of a record are of types that pass the gate.                 *)
LEMMA FieldsAreGated ==
    ASSUME NEW te, IsRecord(te, Recs), NEW k \in Names(te.name)
    PROVE  /\ FieldOf(te.name, k).type \in Gated
           /\ ValueTypeOf(FieldOf(te.name, k).type) \in Gated
<1>1. PICK i \in DOMAIN Records[te.name] : FieldOf(te.name, k) = Records[te.name][i]
  BY DEF Names, FieldOf, Field
<1>2. te.name \in Recs /\ FieldOf(te.name, k).type \in Gated
  BY <1>1, RecordsAreGated DEF Gated, IsRecord
<1> QED BY <1>2, FieldTypes

(* A record is decoded from any object that gives each of its fields, left *)
(* out or null where it is empty.                                          *)
LEMMA RecordIsDecoded ==
    ASSUME NEW te \in Gated, IsRecord(te, Recs), NEW v \in Values, Holds(te, v),
           NEW o, Obj(o) \in Wire,
           \A k \in Names(te.name) :
              LET f == FieldOf(te.name, k) x == v[2][k]
              IN  \/ x = Empty /\ At(o, k) = Null
                  \/ /\ Holds(ValueTypeOf(f.type), x) /\ At(o, k) \in Wire
                     /\ Strict(Spelled(ValueTypeOf(f.type)), At(o, k)) = x
    PROVE  Strict(Spelled(te), Obj(o)) = v
<1> DEFINE r == te.name
           g == [k \in Names(r) |-> Strict(FieldSpelled(FieldOf(r, k)), At(o, k))]
<1>1. /\ Spelled(te) = <<"struct", r>> /\ Spelled(te) \in Spellings /\ r \in Recs
      /\ v = <<"struct", v[2]>> /\ v[2] = [k \in Names(r) |-> v[2][k]]
      /\ \A k \in Names(r) : OfField(FieldOf(r, k), v[2][k])
  BY HoldsRecord DEF Spellings, IsRecord, Parts, Pair
<1>2. ASSUME NEW k \in Names(r) PROVE g[k] = v[2][k] /\ g[k] # Fail
  <2> DEFINE f == FieldOf(r, k)
  <2>1. f.type \in Gated
    <3>1. PICK i \in DOMAIN Records[r] : f = Records[r][i]
      BY <1>2 DEF Names, FieldOf, Field
    <3> QED BY <1>1, <3>1, RecordsAreGated DEF Gated
  <2>2. OfField(f, v[2][k])
    BY <1>1, <1>2
  <2>3. CASE Holds(ValueTypeOf(f.type), v[2][k])
    <3>1. v[2][k] \in Values /\ v[2][k] # Fail /\ v[2][k] # Empty
      BY <2>1, <2>2, <2>3, FieldTypes, HeldIsNoFailure DEF OfField
    <3>2. At(o, k) \in Wire /\ Strict(Spelled(ValueTypeOf(f.type)), At(o, k)) = v[2][k]
      BY <1>2, <3>1
    <3>3. Strict(FieldSpelled(f), At(o, k)) = v[2][k]
      BY <2>1, <2>3, <3>1, <3>2, FieldIsDecoded
    <3> QED BY <1>2, <3>1, <3>3
  <2>4. CASE ~Holds(ValueTypeOf(f.type), v[2][k])
    <3>1. FieldIsOptional(f) /\ v[2][k] = Empty /\ Spelled(ValueTypeOf(f.type)) \notin Untyped
      BY <2>2, <2>4 DEF OfField
    <3>2. At(o, k) = Null
      BY <1>2, <2>4
    <3>3. Strict(FieldSpelled(f), At(o, k)) = Empty
      BY <2>1, <3>1, <3>2, FieldIsLeftOut
    <3> QED BY <1>2, <3>1, <3>3 DEF Empty, Fail
  <2> QED BY <2>3, <2>4
<1>3. Strict(Spelled(te), Obj(o)) = AllOf("struct", g)
  <2>1. Strict(Spelled(te), Obj(o)) = FromJsonRule(Strict, FieldSpelled, Spelled(te), Obj(o))
    BY <1>1, CodecIsRecursive
  <2>2. Obj(o)[1] = "obj" /\ Obj(o)[2] = o
    BY DEF Obj
  <2> QED BY <1>1, <2>1, <2>2 DEF FromJsonRule, Untyped
<1>4. AllOf("struct", g) = v
  <2>1. g = v[2]
    BY <1>1, <1>2
  <2> QED BY <1>1, <1>2, <2>1 DEF AllOf
<1> QED BY <1>3, <1>4

(* The same of the induction on what is encoded, a level at a time.        *)
LEMMA PartsAreKept ==
    ASSUME NEW te \in Gated, ~IsOptional(te), NEW v \in Values, Holds(te, v),
           \A u \in Gated, x \in Values :
              Depth(Encode(x)) < Depth(Encode(v)) => KeptAt(u, x)
    PROVE  Strict(Spelled(te), Encode(v)) = v
<1>1. CASE IsPrimitive(te, Scalars)
  BY <1>1, ScalarsAreKept
<1>2. CASE Spelled(te) \in Untyped
  BY <1>2, UntypedAreKept
<1>3. ASSUME NEW n \in {1, 2}, IsContainerOf(te, IF n = 1 THEN "Array" ELSE "Map", n),
             Spelled(te) \notin Untyped
      PROVE  Strict(Spelled(te), Encode(v)) = v
  <2>1. te.elements[n] \in Gated
    BY <1>3 DEF IsContainerOf
  <2>2. v[1] \in {"vec", "map"}
    <3>1. CASE n = 1
      BY <1>3, <3>1, HoldsTyped DEF Parts, Pair
    <3>2. CASE n = 2
      BY <1>3, <3>2, HoldsTyped DEF Parts, Pair
    <3> QED BY <3>1, <3>2
  <2> DEFINE f == [k \in DOMAIN v[2] |-> Encode(v[2][k])]
  <2>3. /\ Encode(v) = (IF v[1] = "vec" THEN Arr(f) ELSE Obj(f)) /\ Encode(v) \in Wire
        /\ \A k \in DOMAIN v[2] : v[2][k] \in Values /\ Depth(Encode(v[2][k])) < Depth(Encode(v))
    BY <2>2, EncodedParts
  <2>4. /\ v[1] = (IF n = 1 THEN "vec" ELSE "map")
        /\ \A k \in DOMAIN v[2] : Holds(te.elements[n], v[2][k])
    BY <1>3, HoldsTyped DEF Parts, Pair
  <2>5. \A k \in DOMAIN v[2] : Strict(Spelled(te.elements[n]), f[k]) = v[2][k]
    BY <2>1, <2>3, <2>4 DEF KeptAt
  <2>6. Encode(v) = IF n = 1 THEN Arr(f) ELSE Obj(f)
    BY <2>3, <2>4
  <2>7. DOMAIN f = DOMAIN v[2]
    OBVIOUS
  <2> HIDE DEF f
  <2> QED BY <1>3, <2>3, <2>5, <2>6, <2>7, ContainerIsDecoded
<1>4. CASE IsRecord(te, Recs)
  <2> DEFINE present == {k \in DOMAIN v[2] : v[2][k] # Empty}
             o == [k \in present |-> Encode(v[2][k])]
  <2>1. /\ v[1] = "struct" /\ DOMAIN v[2] = Names(te.name)
        /\ \A k \in Names(te.name) : OfField(FieldOf(te.name, k), v[2][k])
    BY <1>4, HoldsRecord DEF Parts, Pair
  <2>2. /\ Encode(v) = Obj(o) /\ Encode(v) \in Wire
        /\ \A k \in present : /\ v[2][k] \in Values /\ Encode(v[2][k]) \in Wire
                              /\ Depth(Encode(v[2][k])) < Depth(Encode(v))
    BY <2>1, EncodedParts
  <2>3. ASSUME NEW k \in Names(te.name)
        PROVE  LET f == FieldOf(te.name, k) x == v[2][k]
               IN  \/ x = Empty /\ At(o, k) = Null
                   \/ /\ Holds(ValueTypeOf(f.type), x) /\ At(o, k) \in Wire
                      /\ Strict(Spelled(ValueTypeOf(f.type)), At(o, k)) = x
    <3> DEFINE f == FieldOf(te.name, k)
    <3>1. CASE v[2][k] = Empty
      BY <3>1 DEF At
    <3>2. CASE v[2][k] # Empty
      <4>1. Holds(ValueTypeOf(f.type), v[2][k])
        BY <2>1, <2>3, <3>2 DEF OfField
      <4>2. k \in present /\ At(o, k) = Encode(v[2][k])
        BY <2>1, <2>3, <3>2 DEF At
      <4>3. ValueTypeOf(f.type) \in Gated
        BY <1>4, <2>3, FieldsAreGated
      <4>4. KeptAt(ValueTypeOf(f.type), v[2][k])
        BY <2>2, <4>2, <4>3
      <4> QED BY <2>2, <4>1, <4>2, <4>4 DEF KeptAt
    <3> QED BY <3>1, <3>2
  <2> HIDE DEF o
  <2>4. Strict(Spelled(te), Obj(o)) = v
    BY <1>4, <2>2, <2>3, RecordIsDecoded
  <2> QED BY <2>2, <2>4
<1> QED
  <2>1. IsPrimitive(te, Scalars \cup Any) => IsPrimitive(te, Scalars) \/ IsPrimitive(te, Any)
    BY DEF IsPrimitive
  <2>2. IsPrimitive(te, Any) => Spelled(te) \in Untyped
    BY Spells DEF Untyped
  <2>3. CASE IsContainerOf(te, "Array", 1)
    BY <1>2, <1>3, <2>3
  <2>4. CASE IsContainerOf(te, "Map", 2)
    BY <1>2, <1>3, <2>4
  <2> QED BY <1>1, <1>2, <1>4, <2>1, <2>2, <2>3, <2>4, GatedKinds DEF IsOptional

(* A least counterexample, by the depth of what is encoded.                *)
LEMMA ByDepth ==
    ASSUME NEW Bad, Bad \subseteq Values, Bad # {}
    PROVE  \E v \in Bad : \A x \in Values : Depth(Encode(x)) < Depth(Encode(v)) => x \notin Bad
<1> DEFINE Depths == {Depth(Encode(v)) : v \in Bad}
<1>1. \A v \in Values : Depth(Encode(v)) \in Nat
  BY CppValuesAreFinite, ValuesAreFinite
<1>2. Depths \in SUBSET Nat /\ Depths # {}
  BY <1>1
<1>3. PICK n \in Depths : \A k \in Depths : n <= k
  <2> HIDE DEF Depths
  <2> QED BY <1>2, LeastNatural
<1>4. PICK v \in Bad : n = Depth(Encode(v))
  BY <1>3
<1>5. ASSUME NEW x \in Values, Depth(Encode(x)) < Depth(Encode(v)), x \in Bad PROVE FALSE
  <2>1. Depth(Encode(v)) <= Depth(Encode(x))
    BY <1>3, <1>4, <1>5
  <2> QED BY <1>1, <1>4, <1>5, <2>1
<1> QED BY <1>4, <1>5

(* What the provider encodes of a value of a type, the strict codec of     *)
(* that type decodes to the same value, whatever the depth of either.      *)
THEOREM CodecKeepsValues == \A te \in Gated, v \in Values : KeptAt(te, v)
<1> DEFINE Bad == {v \in Values : \E te \in Gated : ~KeptAt(te, v)}
<1>1. SUFFICES ASSUME Bad # {} PROVE FALSE
  OBVIOUS
<1>2. PICK v \in Bad :
         \A x \in Values : Depth(Encode(x)) < Depth(Encode(v)) => x \notin Bad
  <2> HIDE DEF Bad
  <2>1. Bad \subseteq Values
    BY DEF Bad
  <2> QED BY <1>1, <2>1, ByDepth
<1>3. \A te \in Gated, x \in Values : Depth(Encode(x)) < Depth(Encode(v)) => KeptAt(te, x)
  BY <1>2
<1>4. ASSUME NEW te \in Gated, ~IsOptional(te) PROVE KeptAt(te, v)
  BY <1>2, <1>3, <1>4, PartsAreKept DEF KeptAt
<1>5. ASSUME NEW te \in Gated, IsOptional(te) PROVE KeptAt(te, v)
  BY <1>2, <1>4, <1>5, OptionalTypes, OptionalIsKept
<1> QED BY <1>2, <1>4, <1>5

(***************************************************************************)
(* What the caller's wrapper makes of a type.                              *)
(***************************************************************************)
LEMMA QtSpells ==
    ASSUME NEW te \in Gated
    PROVE  /\ IsPrimitive(te, Scalars) => QtNameOf(te) = <<QtOf[te.name]>> /\ ~BottomsOut(te)
           /\ IsPrimitive(te, Any) => QtNameOf(te) = <<"QVariant">> /\ BottomsOut(te)
           /\ IsRecord(te, Recs) => QtNameOf(te) = <<te.name>> /\ ~BottomsOut(te)
           /\ IsContainerOf(te, "Array", 1) =>
                 QtNameOf(te) = IF BottomsOut(te.elements[1]) THEN <<"QVariantList">>
                                ELSE IF IsPrimitive(te.elements[1], {"tstr"}) THEN <<"QStringList">>
                                ELSE <<"QList", QtNameOf(te.elements[1])>>
           /\ IsContainerOf(te, "Map", 2) =>
                 QtNameOf(te) = IF BottomsOut(te.elements[2]) THEN <<"QVariantMap">>
                                ELSE <<"QMap", QtNameOf(te.elements[2])>>
           /\ IsOptional(te) =>
                 QtNameOf(te) \in {<<"QVariant">>, <<"std::optional", QtNameOf(ValueTypeOf(te))>>}
<1>1. /\ BottomsOut(te) = BottomsOutRule(BottomsOut, ValueTypeOf, te)
      /\ QtNameOf(te) = QtRule(QtNameOf, BottomsOut, ValueTypeOf, te)
  BY QtNameIsRecursive DEF Gated
<1>2. ASSUME IsPrimitive(te, Scalars)
      PROVE  QtNameOf(te) = <<QtOf[te.name]>> /\ ~BottomsOut(te)
  <2>1. te.kind = "Primitive" /\ te.name \in Scalars /\ te.name \in DOMAIN QtOf
    BY <1>2 DEF IsPrimitive, Scalars, QtOf
  <2> QED BY <1>1, <2>1 DEF QtRule, BottomsOutRule
<1>3. ASSUME IsPrimitive(te, Any) PROVE QtNameOf(te) = <<"QVariant">> /\ BottomsOut(te)
  <2>1. te.kind = "Primitive" /\ te.name \notin Scalars \cup {"result", "void"}
        /\ te.name \notin DOMAIN QtOf
    BY <1>3 DEF IsPrimitive, Scalars, Any, QtOf
  <2> QED BY <1>1, <2>1 DEF QtRule, BottomsOutRule
<1>4. ASSUME IsRecord(te, Recs) PROVE QtNameOf(te) = <<te.name>> /\ ~BottomsOut(te)
  BY <1>1, <1>4 DEF QtRule, BottomsOutRule, IsRecord
<1>5. ASSUME IsContainerOf(te, "Array", 1)
      PROVE  QtNameOf(te) = IF BottomsOut(te.elements[1]) THEN <<"QVariantList">>
                            ELSE IF IsPrimitive(te.elements[1], {"tstr"}) THEN <<"QStringList">>
                            ELSE <<"QList", QtNameOf(te.elements[1])>>
  <2>1. te.kind = "Array" /\ Len(te.elements) = 1
    BY <1>5 DEF IsContainerOf
  <2>2. BottomsOut(te) <=> BottomsOut(te.elements[1])
    BY <1>1, <2>1 DEF BottomsOutRule
  <2> QED BY <1>1, <2>1, <2>2 DEF QtRule
<1>6. ASSUME IsContainerOf(te, "Map", 2)
      PROVE  QtNameOf(te) = IF BottomsOut(te.elements[2]) THEN <<"QVariantMap">>
                            ELSE <<"QMap", QtNameOf(te.elements[2])>>
  <2>1. te.kind = "Map" /\ Len(te.elements) = 2
    BY <1>6 DEF IsContainerOf
  <2>2. BottomsOut(te) <=> BottomsOut(te.elements[2])
    BY <1>1, <2>1 DEF BottomsOutRule
  <2> QED BY <1>1, <2>1, <2>2 DEF QtRule
<1>7. ASSUME IsOptional(te)
      PROVE  QtNameOf(te) \in {<<"QVariant">>, <<"std::optional", QtNameOf(ValueTypeOf(te))>>}
  <2>1. te.kind = "Optional"
    BY <1>7 DEF IsOptional
  <2> QED BY <1>1, <2>1 DEF QtRule
<1> QED BY <1>2, <1>3, <1>4, <1>5, <1>6, <1>7

(* Only a record has the Qt name of a record.                              *)
LEMMA QtRecords ==
    ASSUME NEW te \in Gated
    PROVE  (Len(QtNameOf(te)) = 1 /\ QtNameOf(te)[1] \in Recs) <=> IsRecord(te, Recs)
<1>1. CASE IsPrimitive(te, Scalars)
  <2>1. te.name \in DOMAIN QtOf /\ te.kind = "Primitive"
    BY <1>1 DEF IsPrimitive, Scalars, QtOf
  <2>2. QtOf[te.name] \notin Recs
    BY <2>1, RecordNamesAreTheirOwn
  <2> QED BY <1>1, <2>1, <2>2, QtSpells DEF IsRecord
<1>2. CASE IsPrimitive(te, Any)
  BY <1>2, QtSpells, RecordNamesAreTheirOwn DEF IsRecord, IsPrimitive
<1>3. CASE IsRecord(te, Recs)
  BY <1>3, QtSpells DEF IsRecord
<1>4. CASE IsContainerOf(te, "Array", 1)
  BY <1>4, QtSpells, RecordNamesAreTheirOwn DEF IsRecord, IsContainerOf
<1>5. CASE IsContainerOf(te, "Map", 2)
  BY <1>5, QtSpells, RecordNamesAreTheirOwn DEF IsRecord, IsContainerOf
<1>6. CASE IsOptional(te)
  BY <1>6, QtSpells, RecordNamesAreTheirOwn DEF IsRecord, IsOptional
<1> QED
  <2>1. IsPrimitive(te, Scalars \cup Any) => IsPrimitive(te, Scalars) \/ IsPrimitive(te, Any)
    BY DEF IsPrimitive
  <2> QED BY <1>1, <1>2, <1>3, <1>4, <1>5, <1>6, <2>1, GatedKinds DEF IsOptional

(* How a gated type is spelled by the wrapper: of nesting it knows a list  *)
(* and a map of a record, and a list of strings.                           *)
LEMMA Wraps ==
    ASSUME NEW te \in Gated
    PROVE  /\ IsPrimitive(te, Scalars) => Wrapping(te) = <<LpOf[QtOf[te.name]]>>
           /\ IsPrimitive(te, Any) \/ IsOptional(te) => Wrapping(te) = <<"any">>
           /\ IsRecord(te, Recs) => Wrapping(te) = <<"struct", te.name>>
           /\ IsContainerOf(te, "Array", 1) =>
                 Wrapping(te) = IF IsRecord(te.elements[1], Recs)
                                THEN <<"std::vector", Wrapping(te.elements[1])>>
                                ELSE IF IsPrimitive(te.elements[1], {"tstr"})
                                THEN <<"QStringList">> ELSE <<"LogosList">>
           /\ IsContainerOf(te, "Map", 2) =>
                 Wrapping(te) = IF IsRecord(te.elements[2], Recs)
                                THEN <<"std::map", Wrapping(te.elements[2])>> ELSE <<"LogosMap">>
<1> DEFINE q == QtNameOf(te)
<1>1. ASSUME NEW r \in Recs PROVE TypeForLp(<<r>>, Recs) = <<"struct", r>>
  <2>1. RecordShape(<<r>>, Recs) = <<"Scalar", r>>
    BY <1>1 DEF RecordShape
  <2> QED BY <2>1 DEF TypeForLp
<1>2. ASSUME NEW n \in DOMAIN LpOf, n \notin Recs PROVE TypeForLp(<<n>>, Recs) = <<LpOf[n]>>
  <2>1. RecordShape(<<n>>, Recs) = <<"None">>
    BY <1>2 DEF RecordShape
  <2>2. TypeForLp(<<n>>, Recs) = ReturnTypeStd(<<n>>)
    BY <2>1 DEF TypeForLp
  <2>3. LegacyQtBase(<<n>>) = <<n>>
    BY DEF LegacyQtBase, LpOf
  <2> QED BY <2>2, <2>3 DEF ReturnTypeStd
<1>3. ASSUME NEW t \in {"QList", "QMap", "std::optional"}, NEW x,
             (Len(x) = 1 /\ x[1] \in Recs) => t = "std::optional"
      PROVE  TypeForLp(<<t, x>>, Recs) = CASE t = "QList" -> <<"LogosList">>
                                           [] t = "QMap" -> <<"LogosMap">>
                                           [] t = "std::optional" -> <<"any">>
  <2>1. RecordShape(<<t, x>>, Recs) = <<"None">>
    BY <1>3 DEF RecordShape
  <2>2. TypeForLp(<<t, x>>, Recs) = ReturnTypeStd(<<t, x>>)
    BY <2>1 DEF TypeForLp
  <2>3. LegacyQtBase(<<t, x>>) = CASE t = "QList" -> <<"QVariantList">>
                                   [] t = "QMap" -> <<"QVariantMap">>
                                   [] t = "std::optional" -> <<"QVariant">>
    BY <1>3 DEF LegacyQtBase
  <2>4. /\ LpOf["QVariantList"] = "LogosList" /\ LpOf["QVariantMap"] = "LogosMap"
        /\ LpOf["QVariant"] = "any" /\ {"QVariantList", "QVariantMap", "QVariant"} \subseteq DOMAIN LpOf
    BY DEF LpOf
  <2> QED BY <1>3, <2>2, <2>3, <2>4 DEF ReturnTypeStd
<1>4. /\ LpOf["QVariantList"] = "LogosList" /\ LpOf["QVariantMap"] = "LogosMap"
      /\ LpOf["QVariant"] = "any" /\ LpOf["QStringList"] = "QStringList"
      /\ {"QVariantList", "QVariantMap", "QVariant", "QStringList"} \subseteq DOMAIN LpOf \ Recs
  <2>1. {"QVariantList", "QVariantMap", "QVariant", "QStringList"} \subseteq DOMAIN LpOf
    BY DEF LpOf
  <2> QED BY <2>1, RecordNamesAreTheirOwn DEF LpOf
<1>5. Wrapping(te) = TypeForLp(q, Recs)
  BY DEF Wrapping
<1>6. ASSUME IsPrimitive(te, Scalars) PROVE Wrapping(te) = <<LpOf[QtOf[te.name]]>>
  <2>1. te.name \in DOMAIN QtOf /\ QtOf[te.name] \in DOMAIN LpOf
    BY <1>6 DEF IsPrimitive, Scalars, QtOf, LpOf
  <2> QED BY <1>2, <1>5, <1>6, <2>1, QtSpells, RecordNamesAreTheirOwn
<1>7. ASSUME IsPrimitive(te, Any) PROVE Wrapping(te) = <<"any">>
  BY <1>2, <1>4, <1>5, <1>7, QtSpells
<1>8. ASSUME IsOptional(te) PROVE Wrapping(te) = <<"any">>
  BY <1>2, <1>3, <1>4, <1>5, <1>8, QtSpells
<1>9. ASSUME IsRecord(te, Recs) PROVE Wrapping(te) = <<"struct", te.name>>
  BY <1>1, <1>5, <1>9, QtSpells DEF IsRecord
<1>10. ASSUME NEW r \in Recs, NEW t \in {"QList", "QMap"}
       PROVE  TypeForLp(<<t, <<r>>>>, Recs) =
                 <<IF t = "QList" THEN "std::vector" ELSE "std::map", <<"struct", r>>>>
  <2>1. RecordShape(<<t, <<r>>>>, Recs) = <<IF t = "QList" THEN "List" ELSE "Map", r>>
    BY <1>10 DEF RecordShape
  <2> QED BY <1>10, <2>1 DEF TypeForLp
<1>11. ASSUME IsContainerOf(te, "Array", 1)
       PROVE  Wrapping(te) = IF IsRecord(te.elements[1], Recs)
                             THEN <<"std::vector", Wrapping(te.elements[1])>>
                             ELSE IF IsPrimitive(te.elements[1], {"tstr"})
                             THEN <<"QStringList">> ELSE <<"LogosList">>
  <2> DEFINE u == te.elements[1]
  <2>1. u \in Gated
    BY <1>11 DEF IsContainerOf
  <2>2. q = IF BottomsOut(u) THEN <<"QVariantList">>
            ELSE IF IsPrimitive(u, {"tstr"}) THEN <<"QStringList">> ELSE <<"QList", QtNameOf(u)>>
    BY <1>11, QtSpells
  <2>3. CASE IsRecord(u, Recs)
    <3>1. /\ ~BottomsOut(u) /\ ~IsPrimitive(u, {"tstr"}) /\ QtNameOf(u) = <<u.name>>
          /\ u.name \in Recs /\ TypeForLp(<<u.name>>, Recs) = <<"struct", u.name>>
      BY <1>1, <2>1, <2>3, QtSpells DEF IsRecord, IsPrimitive
    <3> QED BY <1>5, <1>10, <2>2, <2>3, <3>1 DEF Wrapping
  <2>4. CASE IsPrimitive(u, {"tstr"})
    <3>1. IsPrimitive(u, Scalars) /\ ~IsRecord(u, Recs)
      BY <2>4 DEF IsPrimitive, Scalars, IsRecord
    <3> QED BY <1>2, <1>4, <1>5, <2>1, <2>2, <2>4, <3>1, QtSpells
  <2>5. CASE ~IsRecord(u, Recs) /\ ~IsPrimitive(u, {"tstr"})
    <3>1. CASE BottomsOut(u)
      BY <1>2, <1>4, <1>5, <2>2, <2>5, <3>1
    <3>2. CASE ~BottomsOut(u)
      BY <1>3, <1>5, <2>1, <2>2, <2>5, <3>2, QtRecords
    <3> QED BY <3>1, <3>2
  <2> QED BY <2>3, <2>4, <2>5
<1>12. ASSUME IsContainerOf(te, "Map", 2)
       PROVE  Wrapping(te) = IF IsRecord(te.elements[2], Recs)
                             THEN <<"std::map", Wrapping(te.elements[2])>> ELSE <<"LogosMap">>
  <2> DEFINE u == te.elements[2]
  <2>1. u \in Gated
    BY <1>12 DEF IsContainerOf
  <2>2. q = IF BottomsOut(u) THEN <<"QVariantMap">> ELSE <<"QMap", QtNameOf(u)>>
    BY <1>12, QtSpells
  <2>3. CASE IsRecord(u, Recs)
    <3>1. /\ ~BottomsOut(u) /\ QtNameOf(u) = <<u.name>>
          /\ u.name \in Recs /\ TypeForLp(<<u.name>>, Recs) = <<"struct", u.name>>
      BY <1>1, <2>1, <2>3, QtSpells DEF IsRecord
    <3> QED BY <1>5, <1>10, <2>2, <2>3, <3>1 DEF Wrapping
  <2>4. CASE ~IsRecord(u, Recs)
    <3>1. CASE BottomsOut(u)
      BY <1>2, <1>4, <1>5, <2>2, <2>4, <3>1
    <3>2. CASE ~BottomsOut(u)
      BY <1>3, <1>5, <2>1, <2>2, <2>4, <3>2, QtRecords
    <3> QED BY <3>1, <3>2
  <2> QED BY <2>3, <2>4
<1> QED BY <1>6, <1>7, <1>8, <1>9, <1>11, <1>12

(***************************************************************************)
(* What the wrapper reads of a value, and would send back.                 *)
(***************************************************************************)
IsFlat(t) == t[1] \notin {"std::optional", "std::vector", "std::map", "struct"}

LEMMA FlatIsRead ==
    ASSUME NEW te \in Gated, IsFlat(Wrapping(te)), NEW j \in Wire
    PROVE  Wrapped(Wrapping(te), j) = LpFromJson(Wrapping(te)[1], j)
<1>1. Wrapping(te) \in Wrappings
  BY DEF Wrappings
<1>2. Wrapped(Wrapping(te), j) = FromWireRule(Wrapped, Blank, FieldWrapping, Wrapping(te), j)
  BY <1>1, WrappedIsRecursive
<1> QED BY <1>2 DEF FromWireRule, IsFlat

LEMMA ScalarsAreRead ==
    ASSUME NEW te \in Gated, IsPrimitive(te, Scalars), NEW v \in Values, Holds(te, v)
    PROVE  Wrapped(Wrapping(te), Encode(v)) = v
<1> DEFINE t == LpOf[QtOf[te.name]]
<1>1. te.kind = "Primitive" /\ te.name \in Scalars /\ ~IsOptional(te)
  BY DEF IsPrimitive, IsOptional
<1>2. /\ te.name = "tstr"    => t = "std::string"
      /\ te.name = "bool"    => t = "bool"
      /\ te.name = "bstr"    => t = "bytes"
      /\ te.name = "int"     => t = "int64_t"
      /\ te.name = "uint"    => t = "uint64_t"
      /\ te.name = "float64" => t = "double"
  BY DEF LpOf, QtOf
<1>3. Spelled(te) \notin Untyped
  BY <1>1, Spells DEF Untyped, Scalars, StdOf
<1>4. Encode(v) \in Wire
  BY CppValuesAreFinite
<1>5. Wrapped(Wrapping(te), Encode(v)) = LpFromJson(t, Encode(v))
  <2>1. Wrapping(te) = <<t>>
    BY Wraps
  <2>2. IsFlat(Wrapping(te))
    BY <1>1, <1>2, <2>1 DEF IsFlat, Scalars
  <2> HIDE DEF t
  <2> QED BY <1>4, <2>1, <2>2, FlatIsRead
<1>6. Encode(v) = IF IsPrimitive(te, {"bstr"}) THEN TagBytes(v[2]) ELSE v
  BY ScalarsAreKept
<1> HIDE DEF t
<1>7. CASE te.name = "bstr"
  <2>1. Pair("bytes", v) /\ Encode(v) = TagBytes(v[2])
    BY <1>1, <1>3, <1>6, <1>7, HoldsTyped DEF IsPrimitive
  <2>2. TagBytes(v[2])[2] = [k \in {"_bytes"} |-> <<"str", v[2]>>] /\ TagBytes(v[2])[1] = "obj"
    BY DEF TagBytes, Obj
  <2>3. IsTaggedBytes(TagBytes(v[2])) /\ TagBytes(v[2])[2]["_bytes"][2] = v[2]
    BY <2>2 DEF IsTaggedBytes
  <2>4. Scalar("bytes", Encode(v)) = v /\ v # Fail
    BY <2>1, <2>3 DEF Scalar, Pair, Fail
  <2> QED BY <1>2, <1>5, <1>7, <2>4 DEF LpFromJson
<1>8. CASE te.name \in {"tstr", "bool"}
  <2>1. Pair(IF te.name = "tstr" THEN "str" ELSE "bool", v) /\ Encode(v) = v
    BY <1>1, <1>3, <1>6, <1>8, HoldsTyped DEF IsPrimitive
  <2>2. Scalar(t, v) = v /\ v # Fail
    BY <1>2, <1>8, <2>1 DEF Scalar, Pair, Fail
  <2> QED BY <1>2, <1>5, <1>8, <2>1, <2>2 DEF LpFromJson
<1>9. CASE te.name = "float64"
  <2>1. Pair("float", v) /\ Encode(v) = v
    BY <1>1, <1>3, <1>6, <1>9, HoldsTyped DEF IsPrimitive
  <2>2. Scalar(t, v) = v /\ v # Fail
    BY <1>2, <1>9, <2>1 DEF Scalar, Pair, Fail
  <2> QED BY <1>2, <1>5, <1>9, <2>1, <2>2 DEF LpFromJson
<1>10. CASE te.name \in {"int", "uint"}
  <2>1. /\ Pair("int", v) /\ v[2] \in Int /\ Encode(v) = v
        /\ te.name = "uint" => v[2] \in 0 .. Width - 1
    BY <1>1, <1>3, <1>6, <1>10, HoldsTyped, WidthAssumption DEF IsPrimitive
  <2>2. te.name = "uint" => v[2] % Width = v[2]
    BY <2>1, WidthAssumption
  <2>3. Converted(t, v[2]) = v
    BY <1>2, <1>10, <2>1, <2>2 DEF Converted, Pair
  <2> QED BY <1>2, <1>5, <1>10, <2>1, <2>3 DEF LpFromJson, Pair
<1> QED BY <1>1, <1>7, <1>8, <1>9, <1>10 DEF Scalars

(* The shape of what is encoded of a container.                            *)
LEMMA EncodedShape ==
    ASSUME NEW te \in Gated, NEW v \in Values, Holds(te, v)
    PROVE  /\ IsContainerOf(te, "Array", 1) => Encode(v)[1] = "arr"
           /\ IsContainerOf(te, "Map", 2) => Encode(v)[1] = "obj"
<1> DEFINE f == [k \in DOMAIN v[2] |-> Encode(v[2][k])]
<1>1. CASE Spelled(te) \in Untyped
  BY <1>1, UntypedAreKept, HoldsTyped DEF IsContainerOf, IsOptional
<1>2. CASE Spelled(te) \notin Untyped /\ IsContainerOf(te, "Array", 1)
  <2>1. v[1] = "vec"
    BY <1>2, HoldsTyped DEF IsContainerOf, IsOptional, Parts, Pair
  <2>2. Encode(v) = Arr(f)
    BY <2>1, EncodedParts
  <2> HIDE DEF f
  <2> QED BY <1>2, <2>2 DEF IsContainerOf, Arr
<1>3. CASE Spelled(te) \notin Untyped /\ IsContainerOf(te, "Map", 2)
  <2>1. v[1] = "map"
    BY <1>3, HoldsTyped DEF IsContainerOf, IsOptional, Parts, Pair
  <2>2. Encode(v) = Obj(f)
    BY <2>1, EncodedParts
  <2> HIDE DEF f
  <2> QED BY <1>3, <2>2 DEF IsContainerOf, Obj
<1> QED BY <1>1, <1>2, <1>3

IsUntypedLp(t) == t \in {<<"any">>, <<"LogosMap">>, <<"LogosList">>}

LEMMA UntypedAreRead ==
    ASSUME NEW te \in Gated, IsUntypedLp(Wrapping(te)), NEW v \in Values, Holds(te, v)
    PROVE  Wrapped(Wrapping(te), Encode(v)) = <<"json", Encode(v)>>
<1>1. Encode(v) \in Wire
  BY CppValuesAreFinite
<1>2. Wrapped(Wrapping(te), Encode(v)) = LpFromJson(Wrapping(te)[1], Encode(v))
  BY <1>1, FlatIsRead DEF IsFlat, IsUntypedLp
<1>3. /\ Wrapping(te) = <<"LogosList">> => IsContainerOf(te, "Array", 1)
      /\ Wrapping(te) = <<"LogosMap">> => IsContainerOf(te, "Map", 2)
  <2>1. IsPrimitive(te, Scalars) => Wrapping(te) \notin {<<"LogosList">>, <<"LogosMap">>}
    BY Wraps DEF IsPrimitive, Scalars, LpOf, QtOf
  <2>2. IsPrimitive(te, Scalars \cup Any) => IsPrimitive(te, Scalars) \/ IsPrimitive(te, Any)
    BY DEF IsPrimitive
  <2>3. IsContainerOf(te, "Array", 1) => Wrapping(te) # <<"LogosMap">>
    BY Wraps
  <2>4. IsContainerOf(te, "Map", 2) => Wrapping(te) # <<"LogosList">>
    BY Wraps
  <2>5. IsRecord(te, Recs) \/ IsPrimitive(te, Any) \/ IsOptional(te) =>
           Wrapping(te) \notin {<<"LogosList">>, <<"LogosMap">>}
    BY Wraps
  <2> QED BY <2>1, <2>2, <2>3, <2>4, <2>5, GatedKinds DEF IsOptional
<1>4. /\ Wrapping(te)[1] = "LogosMap" => Encode(v)[1] = "obj"
      /\ Wrapping(te)[1] = "LogosList" => Encode(v)[1] = "arr"
  BY <1>3, EncodedShape DEF IsUntypedLp
<1>5. LpFromJson(Wrapping(te)[1], Encode(v)) = UntypedLp(Wrapping(te)[1], Encode(v))
  BY DEF LpFromJson, IsUntypedLp
<1> QED BY <1>2, <1>4, <1>5 DEF UntypedLp

LEMMA StringsAreRead ==
    ASSUME NEW te \in Gated, IsContainerOf(te, "Array", 1), IsPrimitive(te.elements[1], {"tstr"}),
           NEW v \in Values, Holds(te, v)
    PROVE  LET w == Wrapped(Wrapping(te), Encode(v)) IN w[1] = "vec" /\ Encode(w) = Encode(v)
<1> DEFINE u == te.elements[1]
           f == [k \in DOMAIN v[2] |-> Encode(v[2][k])]
<1>1. /\ u \in Gated /\ IsPrimitive(u, Scalars) /\ ~IsPrimitive(u, Any) /\ ~IsRecord(u, Recs)
      /\ ~IsOptional(te) /\ ~IsOptional(u)
  BY DEF IsContainerOf, IsPrimitive, Scalars, Any, IsRecord, IsOptional
<1>2. Spelled(te) \notin Untyped
  BY <1>1, Spells DEF Untyped
<1>3. /\ v[1] = "vec"
      /\ \A k \in DOMAIN v[2] : v[2][k] \in Values /\ Holds(u, v[2][k])
  BY <1>1, <1>2, HoldsTyped DEF Parts, Pair
<1>4. \A k \in DOMAIN v[2] : Encode(v[2][k]) = v[2][k] /\ v[2][k][1] = "str"
  <2>1. Spelled(u) \notin Untyped
    BY <1>1, Spells DEF Untyped, StdOf, IsPrimitive
  <2>2. ASSUME NEW k \in DOMAIN v[2] PROVE Encode(v[2][k]) = v[2][k] /\ v[2][k][1] = "str"
    <3>1. Pair("str", v[2][k])
      BY <1>1, <1>3, <2>1, HoldsTyped
    <3> QED BY <1>1, <1>3, <3>1, ScalarsAreKept DEF IsPrimitive, Pair
  <2> QED BY <2>2
<1>5. Encode(v) = Arr(f) /\ Encode(v) \in Wire
  BY <1>3, EncodedParts
<1>6. StringsOf(f) = f
  BY <1>4 DEF StringsOf
<1>7. Wrapping(te) = <<"QStringList">>
  BY <1>1, Wraps
<1>8. Wrapped(Wrapping(te), Encode(v)) = <<"vec", f>>
  <2>1. Wrapped(Wrapping(te), Encode(v)) = LpFromJson("QStringList", Encode(v))
    BY <1>5, <1>7, FlatIsRead DEF IsFlat
  <2> HIDE DEF f
  <2> QED BY <1>5, <1>6, <2>1 DEF LpFromJson, Arr
<1>9. Encode(<<"vec", f>>) = Arr([k \in DOMAIN f |-> Encode(f[k])])
  <2>1. Encode(<<"vec", f>>) = EncodeRule(Encode, <<"vec", f>>)
    BY <1>8, WrappedIsEncoded
  <2> HIDE DEF f
  <2> QED BY <2>1 DEF EncodeRule
<1>10. [k \in DOMAIN f |-> Encode(f[k])] = f
  BY <1>4
<1> HIDE DEF f
<1> QED BY <1>5, <1>8, <1>9, <1>10

(* Read and sent back, a value is what it was.                             *)
ReadAt(te, v) ==
    Holds(te, v) =>
        LET w == Wrapped(Wrapping(te), Encode(v))
        IN  w # Empty /\ Strict(Spelled(te), Encode(w)) = v

HoldsRecords(te, n) ==
    IsContainerOf(te, IF n = 1 THEN "Array" ELSE "Map", n) /\ IsRecord(te.elements[n], Recs)

LEMMA JsonIsRead ==
    ASSUME NEW te \in Gated, ~IsRecord(te, Recs), ~HoldsRecords(te, 1), ~HoldsRecords(te, 2),
           NEW v \in Values, Holds(te, v)
    PROVE  LET w == Wrapped(Wrapping(te), Encode(v)) IN w # Empty /\ Encode(w) = Encode(v)
<1> DEFINE w == Wrapped(Wrapping(te), Encode(v))
<1>1. CASE IsPrimitive(te, Scalars)
  BY <1>1, ScalarsAreRead, HeldIsNoFailure DEF IsPrimitive, IsOptional
<1>2. CASE IsUntypedLp(Wrapping(te))
  <2>1. w = <<"json", Encode(v)>> /\ Encode(w) = EncodeRule(Encode, w)
    BY <1>2, UntypedAreRead, WrappedIsEncoded
  <2>2. w # Empty /\ Encode(w) = Encode(v)
    <3> HIDE DEF w
    <3> QED BY <2>1 DEF EncodeRule, Empty
  <2> QED BY <2>2
<1>3. CASE IsContainerOf(te, "Array", 1) /\ IsPrimitive(te.elements[1], {"tstr"})
  BY <1>3, StringsAreRead DEF Empty
<1>4. \/ IsPrimitive(te, Scalars) \/ IsUntypedLp(Wrapping(te))
      \/ IsContainerOf(te, "Array", 1) /\ IsPrimitive(te.elements[1], {"tstr"})
  <2>1. IsPrimitive(te, Scalars \cup Any) => IsPrimitive(te, Scalars) \/ IsPrimitive(te, Any)
    BY DEF IsPrimitive
  <2>2. IsPrimitive(te, Any) \/ IsOptional(te) => IsUntypedLp(Wrapping(te))
    BY Wraps DEF IsUntypedLp
  <2>3. CASE IsContainerOf(te, "Array", 1)
    BY <2>3, Wraps DEF IsUntypedLp, HoldsRecords
  <2>4. CASE IsContainerOf(te, "Map", 2)
    BY <2>4, Wraps DEF IsUntypedLp, HoldsRecords
  <2> QED BY <2>1, <2>2, <2>3, <2>4, GatedKinds DEF IsOptional
<1> QED BY <1>1, <1>2, <1>3, <1>4

(* What the provider spells untyped the wrapper does.                      *)
LEMMA UntypedAreWrapped ==
    ASSUME NEW te \in Gated, Spelled(te) \in Untyped
    PROVE  IsUntypedLp(Wrapping(te)) /\ AlreadyNullable(Wrapping(te))
<1>1. ~IsPrimitive(te, Scalars)
  BY Spells DEF Untyped, IsPrimitive, Scalars, StdOf
<1>2. ~IsRecord(te, Recs)
  BY Spells DEF Untyped
<1>3. CASE IsContainerOf(te, "Array", 1)
  <2>1. IsPrimitive(te.elements[1], Any)
    BY <1>3, Spells DEF Untyped
  <2>2. ~IsRecord(te.elements[1], Recs) /\ ~IsPrimitive(te.elements[1], {"tstr"})
    BY <2>1 DEF IsPrimitive, IsRecord, Any
  <2> QED BY <1>3, <2>2, Wraps DEF IsUntypedLp, AlreadyNullable
<1>4. CASE IsContainerOf(te, "Map", 2)
  <2>1. IsPrimitive(te.elements[2], Any)
    BY <1>4, Spells DEF Untyped
  <2>2. ~IsRecord(te.elements[2], Recs)
    BY <2>1 DEF IsPrimitive, IsRecord
  <2> QED BY <1>4, <2>2, Wraps DEF IsUntypedLp, AlreadyNullable
<1>5. CASE IsPrimitive(te, Any) \/ IsOptional(te)
  BY <1>5, Wraps DEF IsUntypedLp, AlreadyNullable
<1> QED
  <2>1. IsPrimitive(te, Scalars \cup Any) => IsPrimitive(te, Scalars) \/ IsPrimitive(te, Any)
    BY DEF IsPrimitive
  <2> QED BY <1>1, <1>2, <1>3, <1>4, <1>5, <2>1, GatedKinds DEF IsOptional

(* A field that is there is read as a value of its value type.             *)
LEMMA FieldIsRead ==
    ASSUME NEW f, f.type \in Gated, NEW x \in Values, Holds(ValueTypeOf(f.type), x)
    PROVE  Wrapped(FieldWrapping(f), Encode(x)) = Wrapped(Wrapping(ValueTypeOf(f.type)), Encode(x))
<1> DEFINE u == ValueTypeOf(f.type)
           t == <<"std::optional", Wrapping(u)>>
<1>1. FieldWrapping(f) = IF FieldIsOptional(f) /\ ~AlreadyNullable(Wrapping(u)) THEN t ELSE Wrapping(u)
  BY DEF FieldWrapping, FieldForLp, Wrapping
<1>2. CASE FieldIsOptional(f) /\ ~AlreadyNullable(Wrapping(u))
  <2>1. u \in Gated /\ ~IsOptional(u) /\ Spelled(u) \notin Untyped
    BY <1>2, FieldTypes, UntypedAreWrapped
  <2>2. Strict(Spelled(u), Encode(x)) # Fail
    BY <2>1, CodecKeepsValues, HeldIsNoFailure DEF KeptAt
  <2>3. Encode(x) # Null /\ Encode(x) \in Wire
    BY <2>1, <2>2, NullIsRefused, CppValuesAreFinite
  <2>4. t \in Wrappings
    BY <2>1 DEF Wrappings
  <2>5. Wrapped(t, Encode(x)) = FromWireRule(Wrapped, Blank, FieldWrapping, t, Encode(x))
    BY <2>3, <2>4, WrappedIsRecursive
  <2>6. Wrapped(t, Encode(x)) = Wrapped(Wrapping(u), Encode(x))
    BY <2>3, <2>5 DEF FromWireRule
  <2> QED BY <1>1, <1>2, <2>6
<1>3. CASE ~(FieldIsOptional(f) /\ ~AlreadyNullable(Wrapping(u)))
  BY <1>1, <1>3
<1> QED BY <1>2, <1>3

(* One that is not there is empty, or null where the wrapper's struct has  *)
(* no empty for it.                                                        *)
LEMMA FieldIsBlank ==
    ASSUME NEW f, f.type \in Gated, FieldIsOptional(f)
    PROVE  Blank(FieldWrapping(f)) \in {Empty, <<"json", Null>>}
<1> DEFINE u == ValueTypeOf(f.type)
           t == <<"std::optional", Wrapping(u)>>
<1>1. FieldWrapping(f) = IF AlreadyNullable(Wrapping(u)) THEN Wrapping(u) ELSE t
  BY DEF FieldWrapping, FieldForLp, Wrapping
<1>2. u \in Gated /\ {t, Wrapping(u)} \subseteq Wrappings
  BY FieldTypes DEF Wrappings
<1>3. CASE AlreadyNullable(Wrapping(u))
  <2>1. Blank(Wrapping(u)) = UnsetRule(Blank, FieldWrapping, Wrapping(u))
    BY <1>2, <1>3, BlankIsRecursive DEF AlreadyNullable
  <2> QED BY <1>1, <1>3, <2>1 DEF UnsetRule, AlreadyNullable
<1>4. CASE ~AlreadyNullable(Wrapping(u))
  <2>1. Blank(t) = UnsetRule(Blank, FieldWrapping, t)
    BY <1>2, BlankIsRecursive
  <2> QED BY <1>1, <1>4, <2>1 DEF UnsetRule
<1> QED BY <1>3, <1>4

LEMMA RecordIsRead ==
    ASSUME NEW te \in Gated, IsRecord(te, Recs), NEW v \in Values,
           \A u \in Gated, x \in Values :
              Depth(Encode(x)) < Depth(Encode(v)) => ReadAt(u, x)
    PROVE  ReadAt(te, v)
<1> SUFFICES ASSUME Holds(te, v)
             PROVE  LET w == Wrapped(Wrapping(te), Encode(v))
                    IN  w # Empty /\ Strict(Spelled(te), Encode(w)) = v
  BY DEF ReadAt
<1> DEFINE r     == te.name
           Of(k) == FieldOf(r, k)
           U(k)  == ValueTypeOf(Of(k).type)
           there == {k \in Names(r) : v[2][k] # Empty}
           o     == [k \in there |-> Encode(v[2][k])]
           x     == [k \in Names(r) |-> IF k \in there THEN Wrapped(FieldWrapping(Of(k)), o[k])
                                        ELSE Blank(FieldWrapping(Of(k)))]
           w     == <<"struct", x>>
           o2    == [k \in {k \in Names(r) : x[k] # Empty} |-> Encode(x[k])]
<1>1. /\ v[1] = "struct" /\ DOMAIN v[2] = Names(r)
      /\ \A k \in Names(r) : OfField(Of(k), v[2][k]) /\ Of(k).type \in Gated /\ U(k) \in Gated
  BY HoldsRecord, FieldsAreGated DEF Parts, Pair
<1>2. /\ Encode(v) = Obj(o) /\ Encode(v) \in Wire
      /\ \A k \in there : /\ v[2][k] \in Values /\ Encode(v[2][k]) \in Wire
                          /\ Depth(Encode(v[2][k])) < Depth(Encode(v))
  BY <1>1, EncodedParts
<1>3. Wrapped(Wrapping(te), Encode(v)) = w
  <2>1. Wrapping(te) = <<"struct", r>> /\ Wrapping(te) \in Wrappings
    BY Wraps DEF Wrappings
  <2>2. Wrapped(Wrapping(te), Encode(v)) = FromWireRule(Wrapped, Blank, FieldWrapping, Wrapping(te), Encode(v))
    BY <1>2, <2>1, WrappedIsRecursive
  <2>3. Encode(v)[1] = "obj" /\ Encode(v)[2] = o /\ DOMAIN o = there
    BY <1>2 DEF Obj
  <2> HIDE DEF o, there
  <2> QED BY <2>1, <2>2, <2>3 DEF FromWireRule
<1>4. Encode(w) = Obj(o2) /\ Encode(w) \in Wire
  <2>1. Encode(w) = EncodeRule(Encode, w) /\ Encode(w) \in Wire
    BY <1>3, WrappedIsEncoded
  <2>2. DOMAIN x = Names(r)
    OBVIOUS
  <2> HIDE DEF x
  <2> QED BY <2>1, <2>2 DEF EncodeRule
<1>5. ASSUME NEW k \in Names(r)
      PROVE  \/ v[2][k] = Empty /\ At(o2, k) = Null
             \/ /\ Holds(U(k), v[2][k]) /\ At(o2, k) \in Wire
                /\ Strict(Spelled(U(k)), At(o2, k)) = v[2][k]
  <2>1. CASE k \in there
    <3>1. Holds(U(k), v[2][k]) /\ v[2][k] \in Values
      BY <1>1, <1>2, <2>1 DEF OfField
    <3>2. x[k] = Wrapped(Wrapping(U(k)), Encode(v[2][k]))
      BY <1>1, <2>1, <3>1, FieldIsRead
    <3>3. ReadAt(U(k), v[2][k])
      BY <1>1, <1>2, <2>1
    <3>4. x[k] # Empty /\ Strict(Spelled(U(k)), Encode(x[k])) = v[2][k]
      <4> HIDE DEF x, U
      <4> QED BY <3>1, <3>2, <3>3 DEF ReadAt
    <3>5. Encode(x[k]) \in Wire
      <4>1. U(k) \in Gated
        BY <1>1
      <4> HIDE DEF x, U
      <4> QED BY <3>1, <3>2, <4>1, WrappedIsEncoded
    <3>6. At(o2, k) = Encode(x[k])
      <4> HIDE DEF x
      <4> QED BY <3>4 DEF At
    <3> QED BY <3>1, <3>4, <3>5, <3>6
  <2>2. CASE k \notin there
    <3>1. v[2][k] = Empty /\ x[k] = Blank(FieldWrapping(Of(k)))
      BY <2>2
    <3>2. FieldIsOptional(Of(k)) \/ Holds(U(k), Empty)
      BY <1>1, <3>1 DEF OfField
    <3>3. ~Holds(U(k), Empty)
      BY <1>1, FieldTypes, HeldIsNoFailure, CppValuesAreFinite
    <3>4. x[k] \in {Empty, <<"json", Null>>}
      <4> HIDE DEF x
      <4> QED BY <1>1, <3>1, <3>2, <3>3, FieldIsBlank
    <3>5. Encode(<<"json", Null>>) = Null
      BY CppValuesAreFinite DEF EncodeRule
    <3>6. At(o2, k) = Null
      <4> HIDE DEF x
      <4> QED BY <3>4, <3>5 DEF At
    <3> QED BY <3>1, <3>6
  <2> QED BY <2>1, <2>2
<1>6. Strict(Spelled(te), Obj(o2)) = v
  <2> HIDE DEF o2
  <2> QED BY <1>4, <1>5, RecordIsDecoded
<1>7. w # Empty
  BY DEF Empty
<1> HIDE DEF o2, w
<1> QED BY <1>3, <1>4, <1>6, <1>7

LEMMA RecordsAreRead ==
    ASSUME NEW te \in Gated, NEW n \in {1, 2}, HoldsRecords(te, n), NEW v \in Values,
           \A u \in Gated, x \in Values :
              Depth(Encode(x)) < Depth(Encode(v)) => ReadAt(u, x)
    PROVE  ReadAt(te, v)
<1> SUFFICES ASSUME Holds(te, v)
             PROVE  LET w == Wrapped(Wrapping(te), Encode(v))
                    IN  w # Empty /\ Strict(Spelled(te), Encode(w)) = v
  BY DEF ReadAt
<1> DEFINE u   == te.elements[n]
           tag == IF n = 1 THEN "vec" ELSE "map"
           f   == [k \in DOMAIN v[2] |-> Encode(v[2][k])]
           x   == [k \in DOMAIN v[2] |-> Wrapped(Wrapping(u), f[k])]
           w   == <<tag, x>>
           f2  == [k \in DOMAIN v[2] |-> Encode(x[k])]
<1>1. /\ u \in Gated /\ IsRecord(u, Recs) /\ ~IsPrimitive(u, Any) /\ ~IsOptional(te)
      /\ IsContainerOf(te, IF n = 1 THEN "Array" ELSE "Map", n)
  BY DEF HoldsRecords, IsContainerOf, IsRecord, IsPrimitive, IsOptional
<1>2. /\ Wrapping(te) = <<IF n = 1 THEN "std::vector" ELSE "std::map", Wrapping(u)>>
      /\ Spelled(te) \notin Untyped
  <2>1. CASE n = 1
    BY <1>1, <2>1, Wraps, Spells DEF Untyped
  <2>2. CASE n = 2
    BY <1>1, <2>2, Wraps, Spells DEF Untyped
  <2> QED BY <2>1, <2>2
<1>3. v[1] = tag /\ \A k \in DOMAIN v[2] : Holds(u, v[2][k]) /\ v[2][k] \in Values
  <2>1. CASE n = 1
    BY <1>1, <1>2, <2>1, HoldsTyped DEF Parts, Pair
  <2>2. CASE n = 2
    BY <1>1, <1>2, <2>2, HoldsTyped DEF Parts, Pair
  <2> QED BY <2>1, <2>2
<1>4. /\ Encode(v) = (IF n = 1 THEN Arr(f) ELSE Obj(f)) /\ Encode(v) \in Wire
      /\ \A k \in DOMAIN v[2] : Depth(Encode(v[2][k])) < Depth(Encode(v))
  BY <1>3, EncodedParts
<1>5. Wrapped(Wrapping(te), Encode(v)) = w
  <2>1. Wrapping(te) \in Wrappings
    BY DEF Wrappings
  <2>2. Wrapped(Wrapping(te), Encode(v)) = FromWireRule(Wrapped, Blank, FieldWrapping, Wrapping(te), Encode(v))
    BY <1>4, <2>1, WrappedIsRecursive
  <2>3. Encode(v)[1] = (IF n = 1 THEN "arr" ELSE "obj") /\ Encode(v)[2] = f
    BY <1>4 DEF Arr, Obj
  <2>4. DOMAIN f = DOMAIN v[2]
    OBVIOUS
  <2> HIDE DEF f
  <2>5. CASE n = 1
    BY <1>2, <2>2, <2>3, <2>4, <2>5 DEF FromWireRule
  <2>6. CASE n = 2
    BY <1>2, <2>2, <2>3, <2>4, <2>6 DEF FromWireRule
  <2> QED BY <2>5, <2>6
<1>6. Encode(w) = (IF n = 1 THEN Arr(f2) ELSE Obj(f2)) /\ Encode(w) \in Wire
  <2>1. Encode(w) = EncodeRule(Encode, w) /\ Encode(w) \in Wire
    BY <1>5, WrappedIsEncoded
  <2>2. DOMAIN x = DOMAIN v[2]
    OBVIOUS
  <2> HIDE DEF x
  <2>3. CASE n = 1
    BY <2>1, <2>2, <2>3 DEF EncodeRule
  <2>4. CASE n = 2
    BY <2>1, <2>2, <2>4 DEF EncodeRule
  <2> QED BY <2>3, <2>4
<1>7. \A k \in DOMAIN v[2] : Strict(Spelled(u), f2[k]) = v[2][k]
  <2>1. \A k \in DOMAIN v[2] : ReadAt(u, v[2][k])
    BY <1>1, <1>3, <1>4
  <2>2. \A k \in DOMAIN v[2] : f2[k] = Encode(Wrapped(Wrapping(u), Encode(v[2][k])))
    OBVIOUS
  <2> HIDE DEF f2
  <2> QED BY <1>3, <2>1, <2>2 DEF ReadAt
<1>8. DOMAIN f2 = DOMAIN v[2]
  OBVIOUS
<1>9. w # Empty
  BY DEF Empty
<1> HIDE DEF f2, w
<1>10. Strict(Spelled(te), Encode(w)) = v
  BY <1>1, <1>2, <1>6, <1>7, <1>8, ContainerIsDecoded
<1> QED BY <1>5, <1>9, <1>10

(* What the wrapper reads of a value of a type, through the flat name that *)
(* it has for the type, means that value: sent back as it was read, the    *)
(* provider decodes it to the same, whatever the depth of either.          *)
THEOREM ReadsKeepValues == \A te \in Gated, v \in Values : ReadAt(te, v)
<1> DEFINE Bad == {v \in Values : \E te \in Gated : ~ReadAt(te, v)}
<1>1. SUFFICES ASSUME Bad # {} PROVE FALSE
  OBVIOUS
<1>2. PICK v \in Bad :
         \A x \in Values : Depth(Encode(x)) < Depth(Encode(v)) => x \notin Bad
  <2> HIDE DEF Bad
  <2>1. Bad \subseteq Values
    BY DEF Bad
  <2> QED BY <1>1, <2>1, ByDepth
<1>3. \A te \in Gated, x \in Values : Depth(Encode(x)) < Depth(Encode(v)) => ReadAt(te, x)
  BY <1>2
<1>4. ASSUME NEW te \in Gated PROVE ReadAt(te, v)
  <2>1. CASE IsRecord(te, Recs)
    BY <1>2, <1>3, <2>1, RecordIsRead
  <2>2. CASE HoldsRecords(te, 1) \/ HoldsRecords(te, 2)
    BY <1>2, <1>3, <2>2, RecordsAreRead
  <2>3. CASE ~IsRecord(te, Recs) /\ ~HoldsRecords(te, 1) /\ ~HoldsRecords(te, 2)
    BY <1>2, <2>3, JsonIsRead, CodecKeepsValues DEF ReadAt, KeptAt
  <2> QED BY <2>1, <2>2, <2>3
<1> QED BY <1>2, <1>4

(***************************************************************************)
(* Arguments, results and what an event carries.                           *)
(***************************************************************************)
(* Where both the strict codec and the argument's decoder take a value,    *)
(* they take it for the same.                                              *)
LEMMA RequiredIsDecoded ==
    ASSUME NEW te \in Gated, ~IsOptional(te), NEW j \in Wire,
           Strict(Spelled(te), j) # Fail, Decode(te, j) # Fail
    PROVE  Decode(te, j) = Strict(Spelled(te), j)
<1>1. Decode(te, j) = ArgumentRule(Decode, Strict, ValueTypeOf, Spelled(te), te, j)
  BY ArgumentIsRecursive
<1>2. CASE IsPrimitive(te, {"bstr"})
  <2>1. te.kind = "Primitive" /\ te.name = "bstr" /\ IsPrimitive(te, Scalars)
    BY <1>2 DEF IsPrimitive, Scalars
  <2>2. Spelled(te) = <<"bytes">> /\ Spelled(te) \in Spellings
    BY <2>1, Spells DEF StdOf, Spellings
  <2>3. Decode(te, j) = BytesLenient(j)
    BY <1>1, <1>2, <2>1, <2>2 DEF ArgumentRule, IsPrimitive, Any, Untyped
  <2>4. Strict(Spelled(te), j) = FromJsonRule(Strict, FieldSpelled, Spelled(te), j)
    BY <2>2, CodecIsRecursive
  <2>5. Strict(Spelled(te), j) = Scalar("bytes", j)
    BY <2>2, <2>4 DEF FromJsonRule, Untyped
  <2>6. Scalar("bytes", j) = IF IsTaggedBytes(j) THEN <<"bytes", j[2]["_bytes"][2]>> ELSE Fail
    BY DEF Scalar
  <2> QED BY <2>3, <2>5, <2>6 DEF BytesLenient
<1>3. CASE Spelled(te) \in Untyped
  <2>1. Strict(Spelled(te), j) = <<"json", j>>
    BY <1>3, UntypedIsStrict
  <2>2. CASE IsPrimitive(te, Any)
    <3>1. te.kind = "Primitive" /\ te.name = "any"
      BY <2>2 DEF IsPrimitive, Any
    <3>2. Decode(te, j) = <<"json", j>>
      BY <1>1, <3>1 DEF ArgumentRule, IsPrimitive, IsOptional, Any
    <3> QED BY <2>1, <3>2
  <2>3. CASE te.kind = "Array" /\ Spelled(te) = <<"LogosList">>
    <3>1. Decode(te, j) = IF j[1] = "arr" THEN <<"json", j>> ELSE Fail
      BY <1>1, <2>3 DEF ArgumentRule, IsPrimitive, IsOptional
    <3> QED BY <2>1, <3>1
  <2>4. CASE te.kind = "Map" /\ Spelled(te) = <<"LogosMap">>
    <3>1. Decode(te, j) = IF j[1] = "obj" THEN <<"json", j>> ELSE Fail
      BY <1>1, <2>4 DEF ArgumentRule, IsPrimitive, IsOptional
    <3> QED BY <2>1, <3>1
  <2> QED BY <1>3, <2>2, <2>3, <2>4, UntypedKinds
<1>4. CASE Spelled(te) \notin Untyped /\ ~IsPrimitive(te, {"bstr"})
  <2>1. ~IsPrimitive(te, Any)
    BY <1>4, UntypedKinds
  <2> QED BY <1>1, <1>4, <2>1 DEF ArgumentRule, Untyped
<1> QED BY <1>2, <1>3, <1>4

LEMMA ArgumentIsDecoded ==
    ASSUME NEW te \in Gated, NEW j \in Wire,
           Strict(Spelled(te), j) # Fail, Decode(te, j) # Fail
    PROVE  Decode(te, j) = Strict(Spelled(te), j)
<1> DEFINE u == ValueTypeOf(te)
<1>1. CASE ~IsOptional(te)
  BY <1>1, RequiredIsDecoded
<1>2. CASE IsOptional(te)
  <2>1. /\ te.kind = "Optional" /\ u \in Gated /\ ~IsOptional(u)
        /\ Spelled(te) = OptionalOf(Spelled(u))
    BY <1>2, OptionalTypes
  <2>2. Decode(te, j) = ArgumentRule(Decode, Strict, ValueTypeOf, Spelled(te), te, j)
    BY ArgumentIsRecursive
  <2>3. CASE Spelled(u) \in Untyped
    <3>1. Spelled(te) = Spelled(u) /\ Spelled(te) \in Untyped /\ ~IsPrimitive(u, {"bstr"})
      BY <2>1, <2>3, Shapes DEF OptionalOf
    <3>2. Decode(te, j) = Decode(u, j)
      BY <1>2, <2>1, <2>2, <3>1 DEF ArgumentRule, IsPrimitive
    <3> QED BY <2>1, <3>1, <3>2, RequiredIsDecoded
  <2>4. CASE Spelled(u) \notin Untyped
    <3>1. Spelled(te) \notin Untyped /\ Spelled(te) = <<"std::optional", Spelled(u)>>
      BY <2>1, <2>4 DEF OptionalOf, Untyped
    <3>2. Strict(Spelled(te), j) = IF j = Null THEN Empty ELSE Strict(Spelled(u), j)
      BY <2>1, <2>4, OptionalOfTyped
    <3>3. CASE IsPrimitive(u, {"bstr"})
      <4>1. Decode(te, j) = IF j = Null THEN Empty ELSE BytesLenient(j)
        BY <1>2, <2>1, <2>2, <3>1, <3>3 DEF ArgumentRule, IsPrimitive, IsOptional
      <4>2. Decode(u, j) = BytesLenient(j)
        <5>1. Decode(u, j) = ArgumentRule(Decode, Strict, ValueTypeOf, Spelled(u), u, j)
          BY <2>1, ArgumentIsRecursive
        <5>2. u.kind = "Primitive" /\ u.name = "bstr"
          BY <3>3 DEF IsPrimitive
        <5> QED BY <2>1, <2>4, <3>3, <5>1, <5>2
                DEF ArgumentRule, IsPrimitive, IsOptional, Any, Untyped
      <4> QED BY <2>1, <3>2, <4>1, <4>2, RequiredIsDecoded
    <3>4. CASE ~IsPrimitive(u, {"bstr"})
      BY <1>2, <2>1, <2>2, <3>1, <3>4 DEF ArgumentRule, IsPrimitive, IsOptional, Untyped
    <3> QED BY <3>3, <3>4
  <2> QED BY <2>3, <2>4
<1> QED BY <1>1, <1>2

LEMMA ArgumentsAreKept == ASSUME NEW te \in Gated PROVE KeepsArgument(te) /\ NullIsOmitted(te)
<1>1. ASSUME NEW p \in Passable(te), p[2] # Junk, Fits(te, Encode(p[1]))
      PROVE  Decode(te, Encode(p[1])) = p[2]
  <2>1. p[2] \in Values /\ Holds(te, p[2]) /\ Encode(p[2]) \in Wire
        /\ p[1] = Wrapped(Wrapping(te), Encode(p[2]))
    BY <1>1, PassableIsMeant, ReadIsWrapped, CppValuesAreFinite
  <2>2. Strict(Spelled(te), Encode(p[1])) = p[2] /\ p[2] # Fail
    BY <2>1, ReadsKeepValues, HeldIsNoFailure DEF ReadAt
  <2>3. Encode(p[1]) \in Wire
    BY <2>1, WrappedIsEncoded
  <2>4. Decode(te, Encode(p[1])) # Fail
    BY <1>1, <2>3, ArgumentsAreStrict
  <2> QED BY <2>2, <2>3, <2>4, ArgumentIsDecoded
<1>2. ASSUME IsOptional(te) PROVE Decode(te, Null) \in {Empty, <<"json", Null>>, Fail}
  <2>1. Null \in Wire /\ Empty # Fail /\ <<"json", Null>> # Fail
    BY ValuesAreFinite DEF Empty, Fail
  <2>2. Strict(Spelled(te), Null) \in {Empty, <<"json", Null>>}
    <3>1. CASE Spelled(te) \in Untyped
      BY <2>1, <3>1, UntypedIsStrict
    <3>2. CASE Spelled(te) \notin Untyped
      <4>1. /\ ValueTypeOf(te) \in Gated /\ ~IsOptional(ValueTypeOf(te))
            /\ Spelled(te) = OptionalOf(Spelled(ValueTypeOf(te)))
        BY <1>2, OptionalTypes
      <4>2. Spelled(ValueTypeOf(te)) \notin Untyped
        BY <3>2, <4>1 DEF OptionalOf
      <4> QED BY <2>1, <4>1, <4>2, OptionalOfTyped
    <3> QED BY <3>1, <3>2
  <2> QED BY <2>1, <2>2, ArgumentIsDecoded
<1> QED BY <1>1, <1>2 DEF KeepsArgument, NullIsOmitted

LEMMA HeldAreKept == ASSUME NEW te \in Gated PROVE KeepsHeld(te)
<1>1. ASSUME NEW v \in Held(te) PROVE Back(te, Read(te, Encode(v))) = v
  <2>1. v \in Values /\ Holds(te, v) /\ Encode(v) \in Wire
    BY <1>1, HeldIsTyped, CppValuesAreFinite
  <2> QED BY <2>1, ReadIsWrapped, ReadsKeepValues DEF ReadAt
<1> QED BY <1>1 DEF KeepsHeld

LEMMA OutcomesAreKept == KeepsHeld(Outcome)
<1>1. ASSUME NEW v \in Held(Outcome) PROVE Back(Outcome, Read(Outcome, Encode(v))) = v
  <2> DEFINE o == [k \in {"success", "value", "error"} |->
                     CASE k = "success" -> <<"bool", v[2]>>
                       [] k = "value"   -> v[3]
                       [] k = "error"   -> IF v[4] = "" THEN Null ELSE <<"str", v[4]>>]
  <2>1. /\ v = <<"result", v[2], v[3], v[4]>> /\ v[2] \in BOOLEAN
        /\ Encode(v) = EncodeRule(Encode, v)
        /\ Back(Outcome, Read(Outcome, Encode(v))) = StdResult(Encode(v))
    BY <1>1, OutcomesAssumption
  <2>2. Encode(v) = Obj(o)
    <3>1. v[1] = "result"
      BY <2>1
    <3>2. EncodeRule(Encode, v) = Obj(o)
      BY <3>1 DEF EncodeRule
    <3> QED BY <2>1, <3>2
  <2>3. o["success"] = <<"bool", v[2]>> /\ At(o, "success") = <<"bool", v[2]>> /\ At(o, "value") = v[3]
    BY DEF At
  <2>4. v[4] = "" => At(o, "error") = Null
    BY DEF At
  <2>5. v[4] # "" => o["error"] = <<"str", v[4]>> /\ At(o, "error") = <<"str", v[4]>>
    BY DEF At
  <2>6. Obj(o)[1] = "obj" /\ Obj(o)[2] = o
    BY DEF Obj
  <2> HIDE DEF o
  <2>7. StdResult(Obj(o)) =
           <<"result", IF At(o, "success")[1] = "bool" THEN o["success"][2] ELSE FALSE,
             At(o, "value"), IF At(o, "error")[1] = "str" THEN o["error"][2] ELSE "">>
    BY <2>6 DEF StdResult
  <2>8. At(o, "success")[1] = "bool" /\ o["success"][2] = v[2]
    BY <2>3
  <2>9. CASE v[4] = ""
    <3>1. At(o, "error") = Null
      BY <2>4, <2>9
    <3>2. At(o, "error")[1] # "str"
      BY <3>1 DEF Null
    <3> QED BY <2>1, <2>2, <2>3, <2>7, <2>8, <2>9, <3>2
  <2>10. CASE v[4] # ""
    <3>1. o["error"] = <<"str", v[4]>> /\ At(o, "error") = <<"str", v[4]>>
      BY <2>5, <2>10
    <3>2. At(o, "error")[1] = "str" /\ o["error"][2] = v[4]
      BY <3>1
    <3> QED BY <2>1, <2>2, <2>3, <2>7, <2>8, <3>2
  <2> QED BY <2>9, <2>10
<1> QED BY <1>1 DEF KeepsHeld

(***************************************************************************)
(* The generated conversions, in an exchange.                              *)
(***************************************************************************)
(* A provider's parameters have passed the gate, and what its callers put  *)
(* on the wire is JSON.                                                    *)
GatedInv ==
    /\ Providable(provider) =>
          \A i \in DOMAIN provider.params : provider.params[i] \in Gated
    /\ Providable(provider) /\ Callable(caller) => OnTheWire(caller.params) \subseteq Wire
    /\ Callable(caller) =>
          \A r \in caller.types : r \in Recs /\ ~RecordCollidesRule(ValueTypeOf, Records[r])
    /\ Generated => Providable(provider) /\ Callable(caller)

LEMMA GatedInit == Init => GatedInv
<1> SUFFICES ASSUME Init PROVE GatedInv
  OBVIOUS
<1>1. PICK c \in Contracts : provider = c[1] /\ caller = c[2]
  BY DEF Init
<1>2. Providable(provider) =>
         \A i \in DOMAIN provider.params : provider.params[i] \in Gated
  BY <1>1, ContractsAreGated DEF Gated
<1>3. Providable(provider) /\ Callable(caller) => OnTheWire(caller.params) \subseteq Wire
  BY <1>1, ContractsAreGated
<1>4. Callable(caller) =>
         \A r \in caller.types : r \in Recs /\ ~RecordCollidesRule(ValueTypeOf, Records[r])
  BY <1>1, ContractsAreGated
<1> QED BY <1>2, <1>3, <1>4 DEF GatedInv, Generated, Init

LEMMA GatedNext == GatedInv /\ [Next]_vars => GatedInv'
<1> SUFFICES ASSUME GatedInv, [Next]_vars PROVE GatedInv'
  OBVIOUS
<1>1. UNCHANGED <<provider, caller>>
  BY DEF Next, vars, Generate, Pack, UnknownMethod, InvalidArgs, DecodeFails, CallHandler,
         HandlerReturns, HandlerThrows, Tell, Emit, Hear
<1>2. Generated' => Generated \/ (Providable(provider) /\ Callable(caller))
  BY DEF Next, vars, Generate, Pack, UnknownMethod, InvalidArgs, DecodeFails, CallHandler,
         HandlerReturns, HandlerThrows, Tell, Emit, Hear, Generated
<1>3. OnTheWire(caller.params)' = OnTheWire(caller.params)
  BY <1>1 DEF OnTheWire
<1> QED BY <1>1, <1>2, <1>3 DEF GatedInv

LEMMA GatedAlways == Spec => []GatedInv
BY GatedInit, GatedNext, PTL DEF Spec

(* A handler runs exactly when every parameter gets what is good for its   *)
(* type, of contracts with any number of parameters and types of any       *)
(* depth, records that hold themselves among them: the generated codec is  *)
(* strict, so that nothing need be assumed of it.                          *)
THEOREM HandledAtAnyDepth == Spec => []HandledIffWellTyped
<1>1. ExchangeInv /\ GatedInv => HandledIffWellTyped
  <2> SUFFICES ASSUME ExchangeInv, GatedInv, Generated, provider.kind = "method", Decided,
                      Known, Complete
               PROVE  got # Nothing <=> \A i \in DOMAIN provider.params :
                                           Fits(provider.params[i], Sent(i))
    BY DEF HandledIffWellTyped
  <2>1. stage \in Sending /\ (got # Nothing <=> ~Fails)
    BY HandledIfDecoded
  <2>2. ASSUME NEW i \in DOMAIN provider.params
        PROVE  Decoded[i] # Fail <=> Fits(provider.params[i], Sent(i))
    <3>1. Sent(i) \in OnTheWire(caller.params)
          /\ Decoded[i] = Decode(provider.params[i], Sent(i))
      BY <2>1, SentIsOnTheWire
    <3>2. provider.params[i] \in Gated /\ Sent(i) \in Wire
      BY <3>1 DEF GatedInv
    <3> QED BY <3>1, <3>2, ArgumentsAreStrict
  <2>3. DOMAIN Decoded = DOMAIN provider.params
    BY DEF Decoded
  <2> QED BY <2>1, <2>2, <2>3 DEF Fails
<1> QED BY <1>1, ExchangeInvariant, GatedAlways, PTL

(* The conversions that the two generators write are lawful: for a return  *)
(* that the gate has seen, and that does not look like a rejection.        *)
LEMMA GatedIsLawful == GatedInv /\ ReturnIsClear => LawInv
<1> SUFFICES ASSUME GatedInv, ReturnIsClear, Providable(provider), Callable(caller)
             PROVE  Lawful(provider, caller)
  BY DEF GatedInv, LawInv
<1>1. OnTheWire(caller.params) \subseteq Wire
      /\ \A i \in DOMAIN provider.params : provider.params[i] \in Gated
  BY DEF GatedInv
<1>2. ASSUME NEW i \in DOMAIN provider.params
      PROVE  /\ \A j \in OnTheWire(caller.params) :
                   Decode(provider.params[i], j) # Fail <=> Fits(provider.params[i], j)
             /\ NullIsOmitted(provider.params[i]) /\ KeepsArgument(provider.params[i])
             /\ KeepsHeld(provider.params[i])
  BY <1>1, <1>2, ArgumentsAreStrict, ArgumentsAreKept, HeldAreKept
<1>3. provider.ret # NoReturn /\ Same =>
         KeepsHeld(provider.ret) /\ \A v \in Held(provider.ret) : ~IsRejection(Encode(v))
  BY HeldAreKept, OutcomesAreKept DEF ReturnIsClear
<1> QED BY <1>2, <1>3 DEF Lawful, Same

(* The generated codec is lawful for types and values of any depth, and    *)
(* not a premise but a consequence of the rules the generators follow.     *)
THEOREM ConversionsAreLawful == Spec => [](ReturnIsClear => CodecIsLawful)
<1>1. GatedInv => (ReturnIsClear => CodecIsLawful)
  BY GatedIsLawful DEF LawInv, CodecIsLawful
<1> QED BY <1>1, GatedAlways, PTL

(* Between the two sides of one contract every value arrives as what was   *)
(* meant: arguments, results and events, of types of any depth, through a  *)
(* table of flat names that keeps only the outermost two levels of them.   *)
THEOREM ValuesArriveAtAnyDepth == Spec => [](ReturnIsClear => ValuesArrive)
<1>1. ExchangeInv /\ GatedInv => (ReturnIsClear => ValuesArrive)
  BY GatedIsLawful, LawfulValuesArrive
<1> QED BY <1>1, ExchangeInvariant, GatedAlways, PTL

(* The encoding of a value that has no parts and is not untyped is a       *)
(* string only if the value is one.                                        *)
LEMMA OnlyStringsAreStrings ==
    ASSUME NEW te \in Gated, ~IsOptional(te), Spelled(te) \notin Untyped,
           NEW v \in Values, Holds(te, v), Encode(v)[1] = "str"
    PROVE  IsPrimitive(te, {"tstr"})
<1>1. ~IsRecord(te, Recs)
  <2> DEFINE o == [k \in {k \in DOMAIN v[2] : v[2][k] # Empty} |-> Encode(v[2][k])]
  <2>1. SUFFICES ASSUME IsRecord(te, Recs) PROVE FALSE
    OBVIOUS
  <2>2. Encode(v) = Obj(o)
    BY <2>1, HoldsRecord, EncodedParts DEF Parts, Pair
  <2> HIDE DEF o
  <2> QED BY <2>2 DEF Obj
<1>2. ~IsContainerOf(te, "Array", 1) /\ ~IsContainerOf(te, "Map", 2)
  BY EncodedShape
<1>3. IsPrimitive(te, Scalars)
  <2>1. ~IsPrimitive(te, Any)
    BY Spells DEF Untyped
  <2>2. IsPrimitive(te, Scalars \cup Any) => IsPrimitive(te, Scalars) \/ IsPrimitive(te, Any)
    BY DEF IsPrimitive
  <2> QED BY <1>1, <1>2, <2>1, <2>2, GatedKinds DEF IsOptional
<1>4. Encode(v) = IF IsPrimitive(te, {"bstr"}) THEN TagBytes(v[2]) ELSE v
  BY <1>3, ScalarsAreKept
<1>5. ~IsPrimitive(te, {"bstr"})
  BY <1>4 DEF TagBytes, Obj
<1>6. v[1] = "str"
  BY <1>4, <1>5
<1>7. te.kind = "Primitive" /\ te.name \in Scalars
  BY <1>3 DEF IsPrimitive
<1>8. CASE te.name = "bool"
  BY <1>6, <1>7, <1>8, HoldsTyped DEF IsPrimitive, Pair
<1>9. CASE te.name = "float64"
  BY <1>6, <1>7, <1>9, HoldsTyped DEF IsPrimitive, Pair
<1>10. CASE te.name \in {"int", "uint"}
  BY <1>6, <1>7, <1>10, HoldsTyped DEF IsPrimitive, Pair
<1> QED BY <1>5, <1>7, <1>8, <1>9, <1>10 DEF Scalars, IsPrimitive

(* The check of a caller's records is enough, for records with any fields: *)
(* a value of one is a tagged byte string only in the two cases that the   *)
(* check leaves.                                                           *)
THEOREM NoRecordIsBytes == Spec => []RecordsAreNotBytes
<1>1. GatedInv => RecordsAreNotBytes
  <2> SUFFICES ASSUME GatedInv, Generated, NEW r \in caller.types, Named(r) \in Gated,
                      NEW v \in Held(Named(r)), IsTaggedBytes(Encode(v)),
                      \A k \in Names(r) : LET f == FieldOf(r, k)
                                         IN  /\ ~(FieldIsOptional(f) /\ v[2][k] = Empty)
                                             /\ Spelled(ValueTypeOf(f.type)) \notin Untyped
               PROVE  FALSE
    BY DEF RecordsAreNotBytes
  <2> DEFINE te == Named(r)
             there == {k \in DOMAIN v[2] : v[2][k] # Empty}
             o == [k \in there |-> Encode(v[2][k])]
             f == Records[r][1]
  <2>1. r \in Recs /\ ~RecordCollidesRule(ValueTypeOf, Records[r])
    BY DEF GatedInv
  <2>2. IsRecord(te, Recs) /\ te.name = r
    BY <2>1 DEF Named, IsRecord
  <2>3. v \in Values /\ Holds(te, v)
    BY HeldIsTyped
  <2>4. /\ v[1] = "struct" /\ DOMAIN v[2] = Names(r)
        /\ \A k \in Names(r) : OfField(FieldOf(r, k), v[2][k])
    BY <2>2, <2>3, HoldsRecord DEF Parts, Pair
  <2>5. \A k \in Names(r) : Holds(ValueTypeOf(FieldOf(r, k).type), v[2][k]) /\ v[2][k] \in Values
    BY <2>4 DEF OfField
  <2>6. there = Names(r)
    <3>1. ASSUME NEW k \in Names(r) PROVE v[2][k] # Empty
      <4>1. FieldOf(r, k).type \in Gated
        BY <2>2, FieldsAreGated
      <4> QED BY <2>5, <4>1, FieldTypes, HeldIsNoFailure
    <3> QED BY <2>4, <3>1
  <2>7. Encode(v) = Obj(o)
    BY <2>3, <2>4, EncodedParts
  <2>8. Names(r) = {"_bytes"} /\ o["_bytes"][1] = "str"
    <3>1. DOMAIN o = Names(r)
      BY <2>6
    <3> HIDE DEF o
    <3> QED BY <2>7, <3>1 DEF IsTaggedBytes, Obj
  <2>9. Len(Records[r]) = 1 /\ DOMAIN Records[r] = {1} /\ f.name = "_bytes"
    <3>1. \A i \in DOMAIN Records[r] : Records[r][i].name = "_bytes"
      BY <2>8 DEF Names
    <3>2. DOMAIN Records[r] # {}
      BY <2>8 DEF Names
    <3>3. \A i, k \in DOMAIN Records[r] : i = k
      BY <2>1, <3>1, RecordsAreGated
    <3>4. Len(Records[r]) \in Nat /\ DOMAIN Records[r] = 1 .. Len(Records[r])
      BY <2>1, RecordsAreGated
    <3>5. Len(Records[r]) = 1
      <4>1. PICK i \in DOMAIN Records[r] : TRUE
        BY <3>2
      <4>2. i \in 1 .. Len(Records[r])
        BY <3>4
      <4>3. 1 \in DOMAIN Records[r] /\ Len(Records[r]) \in DOMAIN Records[r]
        BY <3>4, <4>2
      <4> QED BY <3>3, <4>3
    <3>6. DOMAIN Records[r] = {1}
      BY <3>4, <3>5
    <3> QED BY <3>1, <3>5, <3>6
  <2>10. FieldOf(r, "_bytes") = f
    BY <2>9 DEF FieldOf, Field
  <2>11. Encode(v[2]["_bytes"])[1] = "str"
    BY <2>6, <2>8
  <2>12. ValueTypeOf(f.type) \in Gated /\ ~IsOptional(ValueTypeOf(f.type))
    BY <2>2, <2>8, <2>10, FieldsAreGated, FieldTypes
  <2>13. IsPrimitive(ValueTypeOf(f.type), {"tstr"})
    BY <2>5, <2>8, <2>10, <2>11, <2>12, OnlyStringsAreStrings
  <2> QED BY <2>1, <2>9, <2>13 DEF RecordCollidesRule, IsBytesTag
<1> QED BY <1>1, GatedAlways, PTL

(***************************************************************************)
(* The spellings of the provider, and of headers, of any depth.            *)
(***************************************************************************)
(* Of types that are not as they should be one has the least rank, and of  *)
(* spellings one the least nesting.                                        *)
LEMMA LeastType ==
    ASSUME NEW Bad, Bad \subseteq Types, Bad # {}
    PROVE  \E t \in Bad : \A u \in Types : Rank(u) < Rank(t) => u \notin Bad
<1> DEFINE Ranks == {Rank(t) : t \in Bad}
<1>1. \A t \in Types : Rank(t) \in Nat
  BY TypesAreFinite
<1>2. Ranks \in SUBSET Nat /\ Ranks # {}
  BY <1>1
<1>3. PICK n \in Ranks : \A k \in Ranks : n <= k
  <2> HIDE DEF Ranks
  <2> QED BY <1>2, LeastNatural
<1>4. PICK t \in Bad : n = Rank(t)
  BY <1>3
<1>5. ASSUME NEW u \in Types, Rank(u) < Rank(t), u \in Bad PROVE FALSE
  <2>1. Rank(t) <= Rank(u)
    BY <1>3, <1>4, <1>5
  <2> QED BY <1>1, <1>4, <1>5, <2>1
<1> QED BY <1>4, <1>5

LEMMA LeastSpelling ==
    ASSUME NEW Bad, Bad \subseteq HeaderTypes, Bad # {}
    PROVE  \E c \in Bad : \A d \in HeaderTypes : Nesting(d) < Nesting(c) => d \notin Bad
<1> DEFINE Depths == {Nesting(c) : c \in Bad}
<1>1. \A c \in HeaderTypes : Nesting(c) \in Nat
  BY HeaderTypesAreFinite
<1>2. Depths \in SUBSET Nat /\ Depths # {}
  BY <1>1
<1>3. PICK n \in Depths : \A k \in Depths : n <= k
  <2> HIDE DEF Depths
  <2> QED BY <1>2, LeastNatural
<1>4. PICK c \in Bad : n = Nesting(c)
  BY <1>3
<1>5. ASSUME NEW d \in HeaderTypes, Nesting(d) < Nesting(c), d \in Bad PROVE FALSE
  <2>1. Nesting(c) <= Nesting(d)
    BY <1>3, <1>4, <1>5
  <2> QED BY <1>1, <1>4, <1>5, <2>1
<1> QED BY <1>4, <1>5

(* The last element of a type is less deep.                                *)
LEMMA LastPart ==
    \A te \in Types :
        /\ Len(te.elements) = 1 => te.elements[1] \in Types /\ Rank(te.elements[1]) < Rank(te)
        /\ Len(te.elements) = 2 => te.elements[2] \in Types /\ Rank(te.elements[2]) < Rank(te)
<1> SUFFICES ASSUME NEW te \in Types, NEW n \in {1, 2}, Len(te.elements) = n
             PROVE  te.elements[n] \in Types /\ Rank(te.elements[n]) < Rank(te)
  OBVIOUS
<1>1. DOMAIN te.elements = 1 .. n
  BY TypesAreFinite
<1>2. n \in DOMAIN te.elements
  BY <1>1
<1> QED BY <1>2, TypesAreFinite

(* What an optional type is unwrapped to is less deep.                     *)
LEMMA ValueRank ==
    \A te \in Types :
        /\ Rank(ValueTypeOf(te)) <= Rank(te)
        /\ te.kind = "Optional" /\ te.elements # <<>> => Rank(ValueTypeOf(te)) < Rank(te)
<1> DEFINE Good(te) ==
             /\ Rank(ValueTypeOf(te)) <= Rank(te)
             /\ te.kind = "Optional" /\ te.elements # <<>> => Rank(ValueTypeOf(te)) < Rank(te)
           Bad == {te \in Types : ~Good(te)}
<1>1. SUFFICES ASSUME Bad # {} PROVE FALSE
  OBVIOUS
<1>2. PICK t \in Bad : \A u \in Types : Rank(u) < Rank(t) => u \notin Bad
  <2> HIDE DEF Bad
  <2>1. Bad \subseteq Types
    BY DEF Bad
  <2> QED BY <1>1, <2>1, LeastType
<1>3. t \in Types /\ Rank(t) \in Nat /\ ValueTypeOf(t) = ValueTypeRule(ValueTypeOf, t)
  BY TypesAreFinite, ValueTypeIsRecursive
<1>4. CASE t.kind = "Optional" /\ t.elements # <<>>
  <2> DEFINE e == t.elements[1]
  <2>1. e \in Types /\ Rank(e) < Rank(t) /\ Rank(e) \in Nat
    BY <1>3, <1>4, TypesAreFinite
  <2>2. ValueTypeOf(t) = ValueTypeOf(e)
    BY <1>3, <1>4 DEF ValueTypeRule
  <2>3. Rank(ValueTypeOf(e)) <= Rank(e)
    BY <1>2, <2>1
  <2>4. Rank(ValueTypeOf(e)) \in Nat
    BY <2>1, ValueTypes, TypesAreFinite DEF Strips
  <2> QED BY <1>2, <1>3, <2>1, <2>2, <2>3, <2>4
<1>5. CASE ~(t.kind = "Optional" /\ t.elements # <<>>)
  BY <1>2, <1>3, <1>5 DEF ValueTypeRule
<1> QED BY <1>4, <1>5

(* A type that passes the gate is spelled in one way, whichever records    *)
(* are declared beside the ones it names.                                  *)
LEMMA SameSpelling ==
    \A te \in Types, recs \in SUBSET Recs :
        Gate(te, FALSE, recs) => SpellingOf(te, recs) = Spelled(te)
<1> DEFINE Bad == {te \in Types : \E recs \in SUBSET Recs :
                      Gate(te, FALSE, recs) /\ SpellingOf(te, recs) # Spelled(te)}
<1>1. SUFFICES ASSUME Bad # {} PROVE FALSE
  OBVIOUS
<1>2. PICK t \in Bad : \A u \in Types : Rank(u) < Rank(t) => u \notin Bad
  <2> HIDE DEF Bad
  <2>1. Bad \subseteq Types
    BY DEF Bad
  <2> QED BY <1>1, <2>1, LeastType
<1>3. PICK recs \in SUBSET Recs : Gate(t, FALSE, recs) /\ SpellingOf(t, recs) # Spelled(t)
  BY <1>2
<1>4. /\ t \in Types /\ ValueTypeOf(t) \in Types
      /\ SpellingOf(t, recs) = SpellingRule(SpellingOf, ValueTypeOf, t, recs)
      /\ Spelled(t) = SpellingRule(SpellingOf, ValueTypeOf, t, Recs)
      /\ SupportedRule(Gate, ValueTypeOf, t, FALSE, recs)
  BY <1>3, SpellingIsRecursive, GateIsRecursive, ValueTypes DEF Spelled, Strips
<1>5. ASSUME NEW u \in Types, Rank(u) < Rank(t), Gate(u, FALSE, recs)
      PROVE  SpellingOf(u, recs) = SpellingOf(u, Recs)
  BY <1>2, <1>5 DEF Spelled
<1>6. CASE t.kind = "Primitive"
  BY <1>3, <1>4, <1>6 DEF SpellingRule, IsPrimitive, IsRecord
<1>7. CASE IsRecord(t, recs)
  BY <1>3, <1>4, <1>7 DEF SpellingRule, IsPrimitive, IsRecord
<1>8. CASE t.kind = "Optional" /\ t.elements # <<>> /\ Gate(ValueTypeOf(t), FALSE, recs)
  <2>1. SpellingOf(ValueTypeOf(t), recs) = SpellingOf(ValueTypeOf(t), Recs)
    BY <1>4, <1>5, <1>8, ValueRank
  <2> QED BY <1>3, <1>4, <1>8, <2>1 DEF SpellingRule, IsPrimitive, IsRecord
<1>9. CASE t.kind = "Array" /\ Len(t.elements) = 1 /\ Gate(t.elements[1], FALSE, recs)
  <2>1. t.elements[1] \in Types /\ Rank(t.elements[1]) < Rank(t)
    BY <1>4, <1>9, LastPart
  <2>2. SpellingOf(t.elements[1], recs) = SpellingOf(t.elements[1], Recs)
    BY <1>5, <1>9, <2>1
  <2>3. SpellingOf(t, recs) = IF IsPrimitive(t.elements[1], Any) THEN <<"LogosList">>
                              ELSE <<"std::vector", SpellingOf(t.elements[1], recs)>>
    BY <1>4, <1>9 DEF SpellingRule, IsPrimitive, IsRecord
  <2>4. SpellingOf(t, Recs) = IF IsPrimitive(t.elements[1], Any) THEN <<"LogosList">>
                              ELSE <<"std::vector", SpellingOf(t.elements[1], Recs)>>
    BY <1>4, <1>9 DEF SpellingRule, IsPrimitive, IsRecord, Spelled
  <2> QED BY <1>3, <2>2, <2>3, <2>4 DEF Spelled
<1>10. CASE t.kind = "Map" /\ Len(t.elements) = 2 /\ Gate(t.elements[2], FALSE, recs)
  <2>1. t.elements[2] \in Types /\ Rank(t.elements[2]) < Rank(t)
    BY <1>4, <1>10, LastPart
  <2>2. SpellingOf(t.elements[2], recs) = SpellingOf(t.elements[2], Recs)
    BY <1>5, <1>10, <2>1
  <2>3. SpellingOf(t, recs) = IF IsPrimitive(t.elements[2], Any) THEN <<"LogosMap">>
                              ELSE <<"std::map", SpellingOf(t.elements[2], recs)>>
    BY <1>4, <1>10 DEF SpellingRule, IsPrimitive, IsRecord
  <2>4. SpellingOf(t, Recs) = IF IsPrimitive(t.elements[2], Any) THEN <<"LogosMap">>
                              ELSE <<"std::map", SpellingOf(t.elements[2], Recs)>>
    BY <1>4, <1>10 DEF SpellingRule, IsPrimitive, IsRecord, Spelled
  <2> QED BY <1>3, <2>2, <2>3, <2>4 DEF Spelled
<1> QED BY <1>4, <1>6, <1>7, <1>8, <1>9, <1>10 DEF SupportedRule, PrimitiveSupported, IsPrimitive

(* What passes the gate is a term.                                         *)
LEMMA GatedTerms ==
    ASSUME NEW te \in Gated
    PROVE  /\ te \in Types
           /\ IsPrimitive(te, Any) => te = AnyJson
           /\ IsPrimitive(te, Scalars) => te = Primitive(te.name) /\ te.name \in Scalars
           /\ IsRecord(te, Recs) => te = Named(te.name) /\ te.name \in Recs
           /\ IsContainerOf(te, "Array", 1) => te = Array(te.elements[1])
           /\ IsContainerOf(te, "Map", 2) => te = MapOf(Primitive("tstr"), te.elements[2])
<1>1. PICK recs \in SUBSET Recs : Gate(te, FALSE, recs)
  BY DEF Gated
<1>2. te \in Types /\ te.elements \in Seq(Types)
  BY TypesAreTerms DEF Gated
<1>3. /\ te.kind \in {"Primitive", "Named"} =>
            te = [kind |-> te.kind, name |-> te.name, elements |-> <<>>]
      /\ te.kind \in {"Array", "Map", "Optional"} =>
            te = [kind |-> te.kind, name |-> "", elements |-> te.elements]
  BY <1>2, TypesAreTerms
<1>4. IsPrimitive(te, Any) => te = AnyJson
  BY <1>3 DEF IsPrimitive, Any, AnyJson, Primitive
<1>5. IsPrimitive(te, Scalars) => te = Primitive(te.name) /\ te.name \in Scalars
  BY <1>3 DEF IsPrimitive, Primitive
<1>6. IsRecord(te, Recs) => te = Named(te.name) /\ te.name \in Recs
  BY <1>3 DEF IsRecord, Named
<1>7. ASSUME IsContainerOf(te, "Array", 1) PROVE te = Array(te.elements[1])
  <2>1. te.elements = <<te.elements[1]>>
    BY <1>2, <1>7 DEF IsContainerOf
  <2> QED BY <1>3, <1>7, <2>1 DEF IsContainerOf, Array
<1>8. ASSUME IsContainerOf(te, "Map", 2) PROVE te = MapOf(Primitive("tstr"), te.elements[2])
  <2>1. te.kind = "Map" /\ Len(te.elements) = 2
    BY <1>8 DEF IsContainerOf
  <2>2. SupportedRule(Gate, ValueTypeOf, te, FALSE, recs)
    BY <1>1, <1>2, GateIsRecursive
  <2>3. IsPrimitive(te.elements[1], {"tstr"})
    BY <2>1, <2>2 DEF SupportedRule, PrimitiveSupported, IsPrimitive, IsRecord
  <2>4. te.elements[1] \in Types /\ te.elements = <<te.elements[1], te.elements[2]>>
    BY <1>2, <2>1
  <2>5. te.elements[1] = Primitive("tstr")
    BY <2>3, <2>4, TypesAreTerms DEF IsPrimitive, Primitive
  <2>6. te = [kind |-> "Map", name |-> "", elements |-> te.elements]
    BY <1>3, <2>1
  <2> QED BY <2>4, <2>5, <2>6 DEF MapOf
<1> QED BY <1>2, <1>4, <1>5, <1>6, <1>7, <1>8

(* What the header parser makes of a spelling, by its form.                *)
Readable == Spellings \cup HeaderTypes

LEMMA AtomsAreAtoms ==
    ASSUME NEW n, NEW te, <<<<n>>, te>> \in Atoms
    PROVE  IsAtom(<<n>>) /\ AtomOf(<<n>>) = te
<1>1. IsAtom(<<n>>)
  BY DEF IsAtom
<1>2. ASSUME NEW a \in Atoms, a[1] = <<n>> PROVE a[2] = te
  BY <1>2 DEF Atoms
<1> QED BY <1>1, <1>2 DEF AtomOf

LEMMA AtomsAreShort == ASSUME NEW c, IsAtom(c) PROVE c = <<c[1]>> /\ ~IsContainer(c)
<1>1. c = <<c[1]>>
  BY DEF IsAtom, Atoms
<1>2. Len(c) = 1
  BY <1>1
<1> QED BY <1>1, <1>2 DEF IsContainer

LEMMA AtomIsRead ==
    ASSUME NEW c \in Readable, IsAtom(c)
    PROVE  /\ CppTypeOf(c, Recs) = AtomOf(c)
           /\ \A emitted \in BOOLEAN : Reported(c, Recs, emitted) = {}
           /\ NamesIn(c) = {c[1]}
<1>1. c = <<c[1]>> /\ ~IsContainer(c) /\ Len(c) = 1
  BY AtomsAreShort
<1>2. c[1] # "std::unordered_map"
  BY DEF IsAtom, Atoms
<1>3. CppTypeOf(c, Recs) = CppTypeRule(CppTypeOf, c, Recs)
  BY ReadingIsRecursive DEF Readable
<1>4. CppTypeOf(c, Recs) = AtomOf(c)
  BY <1>1, <1>3 DEF CppTypeRule, IsDeclared
<1>5. ASSUME NEW emitted \in BOOLEAN PROVE Reported(c, Recs, emitted) = {}
  <2>1. Reported(c, Recs, emitted) = UnsupportedRule(Reported, c, Recs, emitted)
    BY ReadingIsRecursive DEF Readable
  <2> QED BY <1>1, <1>2, <2>1 DEF UnsupportedRule, NoType, ContainerClash
<1>6. NamesIn(c) = HeadsRule(NamesIn, c)
  BY ReadingIsRecursive DEF Readable
<1>7. NamesIn(c) = {c[1]}
  BY <1>1, <1>6 DEF HeadsRule
<1> QED BY <1>4, <1>5, <1>7

LEMMA StructIsRead ==
    ASSUME NEW r \in Recs, <<"struct", r>> \in Readable
    PROVE  /\ CppTypeOf(<<"struct", r>>, Recs) = Named(r)
           /\ \A emitted \in BOOLEAN : Reported(<<"struct", r>>, Recs, emitted) = {}
           /\ NamesIn(<<"struct", r>>) = {"struct"}
<1> DEFINE c == <<"struct", r>>
<1>1. c \in Readable /\ c[1] = "struct" /\ c[2] = r /\ Len(c) = 2
  OBVIOUS
<1> HIDE DEF c
<1>2. ~IsAtom(c) /\ ~IsContainer(c) /\ IsDeclared(c, Recs)
  BY <1>1, AtomsAreShort DEF IsContainer, Containers, Maps, IsDeclared
<1>3. CppTypeOf(c, Recs) = CppTypeRule(CppTypeOf, c, Recs)
  BY <1>1, ReadingIsRecursive DEF Readable
<1>4. CppTypeOf(c, Recs) = Named(r)
  BY <1>1, <1>2, <1>3 DEF CppTypeRule
<1>5. ASSUME NEW emitted \in BOOLEAN PROVE Reported(c, Recs, emitted) = {}
  <2>1. Reported(c, Recs, emitted) = UnsupportedRule(Reported, c, Recs, emitted)
    BY <1>1, ReadingIsRecursive DEF Readable
  <2> QED BY <1>1, <1>2, <2>1 DEF UnsupportedRule, NoType, ContainerClash
<1>6. NamesIn(c) = HeadsRule(NamesIn, c)
  BY <1>1, ReadingIsRecursive DEF Readable
<1>7. NamesIn(c) = {"struct"}
  BY <1>1, <1>6 DEF HeadsRule
<1> QED BY <1>4, <1>5, <1>7 DEF c

LEMMA ContainerIsRead ==
    ASSUME NEW n \in Containers, NEW x, <<n, x>> \in Readable
    PROVE  LET inner == CppTypeOf(x, Recs)
           IN  /\ n = "std::vector"   => CppTypeOf(<<n, x>>, Recs) = Array(inner)
               /\ n \in Maps          => CppTypeOf(<<n, x>>, Recs) = MapOf(Primitive("tstr"), inner)
               /\ n = "std::optional" => CppTypeOf(<<n, x>>, Recs) = Collapsed(inner)
               /\ \A emitted \in BOOLEAN :
                     Reported(<<n, x>>, Recs, emitted) =
                        (IF n = "std::unordered_map" /\ emitted THEN {<<n, x>>} ELSE {})
                            \cup Reported(x, Recs, emitted)
               /\ Warned(<<n, x>>, Recs) =
                     Warned(x, Recs) \cup IF n = "std::optional" /\ IsOptional(inner)
                                          THEN {<<n, x>>} ELSE {}
               /\ NamesIn(<<n, x>>) = {n} \cup NamesIn(x)
<1> DEFINE c == <<n, x>>
<1>1. c \in Readable /\ c[1] = n /\ c[2] = x /\ Len(c) = 2
  OBVIOUS
<1> HIDE DEF c
<1>2. ~IsAtom(c)
  BY <1>1, AtomsAreShort
<1>3. IsContainer(c)
  BY <1>1 DEF IsContainer
<1>4. n # "struct"
  BY DEF Containers, Maps
<1>5. CppTypeOf(c, Recs) = CppTypeRule(CppTypeOf, c, Recs)
  BY <1>1, ReadingIsRecursive DEF Readable
<1>6. n = "std::vector" => CppTypeOf(c, Recs) = Array(CppTypeOf(x, Recs))
  BY <1>1, <1>2, <1>3, <1>5 DEF CppTypeRule, Maps, IsDeclared
<1>7. n \in Maps => CppTypeOf(c, Recs) = MapOf(Primitive("tstr"), CppTypeOf(x, Recs))
  BY <1>1, <1>2, <1>3, <1>5 DEF CppTypeRule, Maps, IsDeclared
<1>8. n = "std::optional" => CppTypeOf(c, Recs) = Collapsed(CppTypeOf(x, Recs))
  BY <1>1, <1>2, <1>3, <1>5 DEF CppTypeRule, Maps, IsDeclared
<1>9. ASSUME NEW emitted \in BOOLEAN
      PROVE  Reported(c, Recs, emitted) =
                (IF n = "std::unordered_map" /\ emitted THEN {c} ELSE {})
                    \cup Reported(x, Recs, emitted)
  <2>1. Reported(c, Recs, emitted) = UnsupportedRule(Reported, c, Recs, emitted)
    BY <1>1, ReadingIsRecursive DEF Readable
  <2> QED BY <1>1, <1>3, <2>1 DEF UnsupportedRule, NoType, ContainerClash
<1>10. Warned(c, Recs) = UnmappableRule(Warned, CppTypeOf, c, Recs)
  BY <1>1, ReadingIsRecursive DEF Readable
<1>11. Warned(c, Recs) =
          Warned(x, Recs) \cup IF n = "std::optional" /\ IsOptional(CppTypeOf(x, Recs))
                               THEN {c} ELSE {}
  BY <1>1, <1>3, <1>10 DEF UnmappableRule
<1>12. NamesIn(c) = HeadsRule(NamesIn, c)
  BY <1>1, ReadingIsRecursive DEF Readable
<1>13. NamesIn(c) = {n} \cup NamesIn(x)
  BY <1>1, <1>4, <1>12 DEF HeadsRule
<1> QED BY <1>6, <1>7, <1>8, <1>9, <1>11, <1>13 DEF c

(* Types are equal only if they are built of the same parts.               *)
LEMMA Constructors ==
    /\ \A t : Array(t).elements[1] = t
    /\ \A k, t : MapOf(k, t).elements[1] = k /\ MapOf(k, t).elements[2] = t
    /\ \A t, u : Array(t) = Array(u) => t = u
    /\ \A j, k, t, u : MapOf(j, t) = MapOf(k, u) => j = k /\ t = u
<1>1. \A t : Array(t).elements[1] = t
  BY DEF Array
<1>2. \A k, t : MapOf(k, t).elements[1] = k /\ MapOf(k, t).elements[2] = t
  BY DEF MapOf
<1> QED BY <1>1, <1>2

(* What a type means in C++, by its kind.                                  *)
LEMMA Means ==
    ASSUME NEW te \in Gated
    PROVE  /\ IsPrimitive(te, Any) => MeaningOf(te) = AnyObject
           /\ IsPrimitive(te, Scalars) => MeaningOf(te) = te
           /\ IsRecord(te, Recs) => MeaningOf(te) = te
           /\ IsContainerOf(te, "Array", 1) =>
                 MeaningOf(te) = IF IsPrimitive(te.elements[1], Any) THEN AnyList
                                 ELSE Array(MeaningOf(te.elements[1]))
           /\ IsContainerOf(te, "Map", 2) =>
                 MeaningOf(te) = IF IsPrimitive(te.elements[2], Any) THEN AnyObject
                                 ELSE MapOf(Primitive("tstr"), MeaningOf(te.elements[2]))
           /\ IsOptional(te) =>
                 MeaningOf(te) = IF MeaningOf(ValueTypeOf(te)) \in {AnyObject, AnyList}
                                 THEN MeaningOf(ValueTypeOf(te))
                                 ELSE Optional(MeaningOf(ValueTypeOf(te)))
<1>1. MeaningOf(te) = InCppRule(MeaningOf, ValueTypeOf, te)
  BY MeaningIsRecursive
<1>2. IsPrimitive(te, Any) => MeaningOf(te) = AnyObject
  BY <1>1 DEF InCppRule, IsPrimitive, IsOptional
<1>3. ASSUME IsPrimitive(te, Scalars) PROVE MeaningOf(te) = te
  <2>1. te.kind = "Primitive" /\ te.name \notin Any
    BY <1>3 DEF IsPrimitive, Scalars, Any
  <2> QED BY <1>1, <2>1 DEF InCppRule, IsPrimitive, IsOptional
<1>4. IsRecord(te, Recs) => MeaningOf(te) = te
  BY <1>1 DEF InCppRule, IsPrimitive, IsOptional, IsRecord
<1>5. ASSUME IsContainerOf(te, "Array", 1)
      PROVE  MeaningOf(te) = IF IsPrimitive(te.elements[1], Any) THEN AnyList
                             ELSE Array(MeaningOf(te.elements[1]))
  <2> DEFINE e == te.elements[1]
  <2>1. te.kind = "Array" /\ e \in Gated
    BY <1>5 DEF IsContainerOf
  <2>2. MeaningOf(te) = IF te = AnyList THEN te ELSE Array(MeaningOf(e))
    BY <1>1, <2>1 DEF InCppRule, IsPrimitive, IsOptional
  <2>3. te = Array(e)
    BY <1>5, GatedTerms
  <2>4. IsPrimitive(e, Any) => e = AnyJson
    BY <2>1, GatedTerms
  <2>5. e = AnyJson => IsPrimitive(e, Any)
    BY DEF AnyJson, Primitive, IsPrimitive, Any
  <2>6. te = AnyList <=> e = AnyJson
    <3> HIDE DEF e
    <3> QED BY <2>3, Constructors DEF AnyList
  <2> QED BY <2>2, <2>4, <2>5, <2>6
<1>6. ASSUME IsContainerOf(te, "Map", 2)
      PROVE  MeaningOf(te) = IF IsPrimitive(te.elements[2], Any) THEN AnyObject
                             ELSE MapOf(Primitive("tstr"), MeaningOf(te.elements[2]))
  <2> DEFINE e == te.elements[2]
  <2>1. te.kind = "Map" /\ e \in Gated
    BY <1>6 DEF IsContainerOf
  <2>2. MeaningOf(te) = IF te = AnyObject THEN te ELSE MapOf(te.elements[1], MeaningOf(e))
    BY <1>1, <2>1 DEF InCppRule, IsPrimitive, IsOptional
  <2>3. te = MapOf(Primitive("tstr"), e)
    BY <1>6, GatedTerms
  <2>4. te.elements[1] = Primitive("tstr")
    <3> HIDE DEF e
    <3> QED BY <2>3, Constructors
  <2>5. IsPrimitive(e, Any) => e = AnyJson
    BY <2>1, GatedTerms
  <2>6. e = AnyJson => IsPrimitive(e, Any)
    BY DEF AnyJson, Primitive, IsPrimitive, Any
  <2>7. te = AnyObject <=> e = AnyJson
    <3> HIDE DEF e
    <3> QED BY <2>3, Constructors DEF AnyObject
  <2> QED BY <2>2, <2>4, <2>5, <2>6, <2>7
<1>7. ASSUME IsOptional(te)
      PROVE  MeaningOf(te) = IF MeaningOf(ValueTypeOf(te)) \in {AnyObject, AnyList}
                             THEN MeaningOf(ValueTypeOf(te))
                             ELSE Optional(MeaningOf(ValueTypeOf(te)))
  <2>1. te.kind = "Optional"
    BY <1>7 DEF IsOptional
  <2> QED BY <1>1, <2>1 DEF InCppRule, IsPrimitive, IsOptional
<1> QED BY <1>2, <1>3, <1>4, <1>5, <1>6, <1>7

(* The kinds of meanings: untyped JSON alone is none, and what is not      *)
(* optional does not mean something that is.                               *)
LEMMA Kinds ==
    /\ AnyJson.kind = "Primitive" /\ AnyJson.name = "any"
    /\ AnyObject.kind = "Map" /\ AnyList.kind = "Array"
    /\ \A t : Array(t).kind = "Array" /\ Optional(t).kind = "Optional"
    /\ \A k, t : MapOf(k, t).kind = "Map"
BY DEF AnyJson, AnyObject, AnyList, Primitive, Array, Optional, MapOf

LEMMA PlainMeaning ==
    ASSUME NEW te \in Gated, ~IsOptional(te)
    PROVE  MeaningOf(te) # AnyJson /\ ~IsOptional(MeaningOf(te))
<1>1. CASE IsPrimitive(te, Any)
  <2>1. MeaningOf(te).kind = "Map"
    BY <1>1, Means, Kinds
  <2> QED BY <2>1, Kinds DEF IsOptional
<1>2. CASE IsPrimitive(te, Scalars)
  <2>1. MeaningOf(te) = te /\ te.kind = "Primitive" /\ te.name # "any"
    BY <1>2, Means DEF IsPrimitive, Scalars
  <2> QED BY <2>1, Kinds DEF IsOptional
<1>3. CASE IsRecord(te, Recs)
  <2>1. MeaningOf(te).kind = "Named"
    BY <1>3, Means DEF IsRecord
  <2> QED BY <2>1, Kinds DEF IsOptional
<1>4. CASE IsContainerOf(te, "Array", 1)
  <2>1. MeaningOf(te).kind = "Array"
    BY <1>4, Means, Kinds
  <2> QED BY <2>1, Kinds DEF IsOptional
<1>5. CASE IsContainerOf(te, "Map", 2)
  <2>1. MeaningOf(te).kind = "Map"
    BY <1>5, Means, Kinds
  <2> QED BY <2>1, Kinds DEF IsOptional
<1>6. IsPrimitive(te, Scalars \cup Any) => IsPrimitive(te, Scalars) \/ IsPrimitive(te, Any)
  BY DEF IsPrimitive
<1> QED BY <1>1, <1>2, <1>3, <1>4, <1>5, <1>6, GatedKinds DEF IsOptional

LEMMA NoMeaningIsAnyJson == ASSUME NEW te \in Gated PROVE MeaningOf(te) # AnyJson
<1>1. CASE IsOptional(te)
  <2>1. MeaningOf(te).kind \in {"Map", "Array", "Optional"}
    BY <1>1, Means, Kinds
  <2> QED BY <2>1, Kinds
<1> QED BY <1>1, PlainMeaning

(* A type that is not spelled as an untyped container does not mean one.   *)
LEMMA TypedMeaning ==
    ASSUME NEW te \in Gated, ~IsOptional(te), Spelled(te) \notin Untyped
    PROVE  MeaningOf(te) \notin {AnyObject, AnyList}
<1>1. ~IsPrimitive(te, Any)
  BY Spells DEF Untyped
<1>2. CASE IsPrimitive(te, Scalars)
  <2>1. MeaningOf(te).kind = "Primitive"
    BY <1>2, Means DEF IsPrimitive
  <2> QED BY <2>1, Kinds
<1>3. CASE IsRecord(te, Recs)
  <2>1. MeaningOf(te).kind = "Named"
    BY <1>3, Means DEF IsRecord
  <2> QED BY <2>1, Kinds
<1>4. CASE IsContainerOf(te, "Array", 1)
  <2>1. ~IsPrimitive(te.elements[1], Any) /\ te.elements[1] \in Gated
    BY <1>4, Spells DEF Untyped, IsContainerOf
  <2>2. MeaningOf(te) = Array(MeaningOf(te.elements[1]))
    BY <1>4, <2>1, Means
  <2>3. MeaningOf(te.elements[1]) # AnyJson
    BY <2>1, NoMeaningIsAnyJson
  <2>4. MeaningOf(te) # AnyList
    BY <2>2, <2>3, Constructors DEF AnyList
  <2> QED BY <2>2, <2>4, Kinds
<1>5. CASE IsContainerOf(te, "Map", 2)
  <2>1. ~IsPrimitive(te.elements[2], Any) /\ te.elements[2] \in Gated
    BY <1>5, Spells DEF Untyped, IsContainerOf
  <2>2. MeaningOf(te) = MapOf(Primitive("tstr"), MeaningOf(te.elements[2]))
    BY <1>5, <2>1, Means
  <2>3. MeaningOf(te.elements[2]) # AnyJson
    BY <2>1, NoMeaningIsAnyJson
  <2>4. MeaningOf(te) # AnyObject
    BY <2>2, <2>3, Constructors DEF AnyObject
  <2> QED BY <2>2, <2>4, Kinds
<1>6. IsPrimitive(te, Scalars \cup Any) => IsPrimitive(te, Scalars) \/ IsPrimitive(te, Any)
  BY DEF IsPrimitive
<1> QED BY <1>1, <1>2, <1>3, <1>4, <1>5, <1>6, GatedKinds DEF IsOptional

(* A scalar's spelling is one that the header parser knows, of its type.   *)
LEMMA ScalarReadsBack ==
    ASSUME NEW te \in Gated, IsPrimitive(te, Scalars)
    PROVE  ReadsBack(te, Spelled(te))
<1> DEFINE n == te.name
<1>1. Spelled(te) = <<StdOf[n]>> /\ te = Primitive(n) /\ n \in Scalars /\ MeaningOf(te) = te
  BY Spells, GatedTerms, Means
<1>2. Spelled(te) \in Readable
  BY DEF Readable, Spellings
<1> HIDE DEF n
<1>3. <<<<StdOf[n]>>, Primitive(n)>> \in Atoms /\ StdOf[n] \notin QtNames
  BY <1>1 DEF Scalars, StdOf, Atoms, QtNames
<1>4. IsAtom(Spelled(te)) /\ AtomOf(Spelled(te)) = te
  BY <1>1, <1>3, AtomsAreAtoms
<1>5. Spelled(te)[1] \notin QtNames
  BY <1>1, <1>3
<1> QED BY <1>1, <1>2, <1>4, <1>5, AtomIsRead DEF ReadsBack

LEMMA UntypedReadsBack ==
    /\ <<"LogosMap">> \in Readable =>
          /\ NamesIn(<<"LogosMap">>) \cap QtNames = {}
          /\ Reported(<<"LogosMap">>, Recs, TRUE) = {}
          /\ CppTypeOf(<<"LogosMap">>, Recs) = AnyObject
    /\ <<"LogosList">> \in Readable =>
          /\ NamesIn(<<"LogosList">>) \cap QtNames = {}
          /\ Reported(<<"LogosList">>, Recs, TRUE) = {}
          /\ CppTypeOf(<<"LogosList">>, Recs) = AnyList
<1>1. ASSUME NEW n \in {"LogosMap", "LogosList"}, NEW te, <<<<n>>, te>> \in Atoms,
             <<n>> \in Readable
      PROVE  /\ NamesIn(<<n>>) \cap QtNames = {}
             /\ Reported(<<n>>, Recs, TRUE) = {}
             /\ CppTypeOf(<<n>>, Recs) = te
  <2>1. IsAtom(<<n>>) /\ AtomOf(<<n>>) = te
    BY <1>1, AtomsAreAtoms
  <2>2. NamesIn(<<n>>) = {n}
    BY <1>1, <2>1, AtomIsRead
  <2>3. n \notin QtNames
    BY DEF QtNames
  <2> QED BY <1>1, <2>1, <2>2, <2>3, AtomIsRead
<1>2. <<<<"LogosMap">>, AnyObject>> \in Atoms /\ <<<<"LogosList">>, AnyList>> \in Atoms
  BY DEF Atoms
<1> QED BY <1>1, <1>2

(* The optional form of a type that reads back reads back.                 *)
LEMMA OptionalReadsBack ==
    ASSUME NEW te \in Gated, IsOptional(te),
           ReadsBack(ValueTypeOf(te), Spelled(ValueTypeOf(te)))
    PROVE  ReadsBack(te, Spelled(te))
<1> DEFINE vt == ValueTypeOf(te)
           c  == Spelled(vt)
<1>1. /\ vt \in Gated /\ ~IsOptional(vt) /\ Spelled(te) = OptionalOf(c)
      /\ MeaningOf(te) = IF MeaningOf(vt) \in {AnyObject, AnyList} THEN MeaningOf(vt)
                         ELSE Optional(MeaningOf(vt))
  BY OptionalTypes, Means
<1>2. c \in Readable /\ Spelled(te) \in Readable
  BY <1>1 DEF Readable, Spellings
<1>3. /\ NamesIn(c) \cap QtNames = {} /\ Reported(c, Recs, TRUE) = {}
      /\ CppTypeOf(c, Recs) = MeaningOf(vt)
  BY DEF ReadsBack
<1> HIDE DEF vt, c
<1>4. CASE c \in Untyped
  <2>1. Spelled(te) = c
    BY <1>1, <1>4 DEF OptionalOf
  <2>2. MeaningOf(vt) \in {AnyObject, AnyList}
    BY <1>2, <1>3, <1>4, UntypedReadsBack DEF Untyped
  <2>3. MeaningOf(te) = MeaningOf(vt)
    BY <1>1, <2>2
  <2> QED BY <1>3, <2>1, <2>3 DEF ReadsBack
<1>5. CASE c \notin Untyped
  <2>1. Spelled(te) = <<"std::optional", c>> /\ <<"std::optional", c>> \in Readable
    BY <1>1, <1>2, <1>5 DEF OptionalOf
  <2>2. MeaningOf(vt) \notin {AnyObject, AnyList} /\ ~IsOptional(MeaningOf(vt))
    BY <1>1, <1>5, TypedMeaning, PlainMeaning DEF c
  <2>3. MeaningOf(te) = Optional(MeaningOf(vt))
    BY <1>1, <2>2
  <2>4. "std::optional" \in Containers /\ "std::optional" \notin QtNames
    BY DEF Containers, QtNames
  <2>5. /\ CppTypeOf(<<"std::optional", c>>, Recs) = Collapsed(MeaningOf(vt))
        /\ Reported(<<"std::optional", c>>, Recs, TRUE) = {}
        /\ NamesIn(<<"std::optional", c>>) = {"std::optional"} \cup NamesIn(c)
    <3>1. CppTypeOf(<<"std::optional", c>>, Recs) = Collapsed(CppTypeOf(c, Recs))
      BY <2>1, <2>4, ContainerIsRead
    <3>2. Reported(<<"std::optional", c>>, Recs, TRUE) = {} \cup Reported(c, Recs, TRUE)
      BY <2>1, <2>4, ContainerIsRead
    <3>3. NamesIn(<<"std::optional", c>>) = {"std::optional"} \cup NamesIn(c)
      BY <2>1, <2>4, ContainerIsRead
    <3> QED BY <1>3, <3>1, <3>2, <3>3
  <2>6. Collapsed(MeaningOf(vt)) = MeaningOf(te)
    BY <2>2, <2>3 DEF Collapsed
  <2> QED BY <1>3, <2>1, <2>4, <2>5, <2>6 DEF ReadsBack
<1> QED BY <1>4, <1>5

(* A header that spells a type of any depth as the generated provider does *)
(* declares it, unreported and without Qt.                                 *)
THEOREM SpelledReadsBack == \A te \in Gated : ReadsBack(te, Spelled(te))
<1> DEFINE Bad == {te \in Gated : ~ReadsBack(te, Spelled(te))}
<1>1. SUFFICES ASSUME Bad # {} PROVE FALSE
  OBVIOUS
<1>2. PICK te \in Bad : \A u \in Types : Rank(u) < Rank(te) => u \notin Bad
  <2> HIDE DEF Bad
  <2>1. Bad \subseteq Types
    BY DEF Bad, Gated
  <2> QED BY <1>1, <2>1, LeastType
<1>3. te \in Gated /\ te \in Types /\ ~ReadsBack(te, Spelled(te)) /\ Spelled(te) \in Readable
  BY <1>2 DEF Gated, Readable, Spellings
<1>4. ASSUME NEW u \in Gated, Rank(u) < Rank(te) PROVE ReadsBack(u, Spelled(u))
  BY <1>2, <1>4 DEF Gated
<1> HIDE DEF Bad
<1>5. ASSUME NEW n \in {"std::vector", "std::map"}, NEW e \in Gated, Rank(e) < Rank(te),
             Spelled(te) = <<n, Spelled(e)>>
      PROVE  /\ NamesIn(Spelled(te)) \cap QtNames = {}
             /\ Reported(Spelled(te), Recs, TRUE) = {}
             /\ CppTypeOf(Spelled(te), Recs) =
                   IF n = "std::vector" THEN Array(MeaningOf(e))
                   ELSE MapOf(Primitive("tstr"), MeaningOf(e))
  <2> DEFINE x == Spelled(e)
  <2>1. /\ NamesIn(x) \cap QtNames = {} /\ Reported(x, Recs, TRUE) = {}
        /\ CppTypeOf(x, Recs) = MeaningOf(e)
    BY <1>4, <1>5 DEF ReadsBack
  <2>2. n \in Containers /\ n \notin QtNames /\ n # "std::unordered_map" /\ n # "std::optional"
        /\ (n = "std::map" => n \in Maps)
    BY DEF Containers, Maps, QtNames
  <2>3. <<n, x>> \in Readable
    BY <1>3, <1>5
  <2> HIDE DEF x
  <2>4. /\ n = "std::vector" => CppTypeOf(<<n, x>>, Recs) = Array(CppTypeOf(x, Recs))
        /\ n = "std::map" =>
              CppTypeOf(<<n, x>>, Recs) = MapOf(Primitive("tstr"), CppTypeOf(x, Recs))
        /\ Reported(<<n, x>>, Recs, TRUE) = Reported(x, Recs, TRUE)
        /\ NamesIn(<<n, x>>) = {n} \cup NamesIn(x)
    <3>1. n = "std::vector" => CppTypeOf(<<n, x>>, Recs) = Array(CppTypeOf(x, Recs))
      BY <2>2, <2>3, ContainerIsRead
    <3>2. n \in Maps => CppTypeOf(<<n, x>>, Recs) = MapOf(Primitive("tstr"), CppTypeOf(x, Recs))
      BY <2>2, <2>3, ContainerIsRead
    <3>3. Reported(<<n, x>>, Recs, TRUE) =
             (IF n = "std::unordered_map" /\ TRUE THEN {<<n, x>>} ELSE {})
                 \cup Reported(x, Recs, TRUE)
      BY <2>2, <2>3, ContainerIsRead
    <3>4. NamesIn(<<n, x>>) = {n} \cup NamesIn(x)
      BY <2>2, <2>3, ContainerIsRead
    <3> QED BY <2>2, <3>1, <3>2, <3>3, <3>4
  <2>5. Spelled(te) = <<n, x>>
    BY <1>5 DEF x
  <2> QED BY <2>1, <2>2, <2>4, <2>5
<1>6. ~IsPrimitive(te, Scalars)
  BY <1>3, ScalarReadsBack
<1>7. ~IsPrimitive(te, Any)
  <2>1. SUFFICES ASSUME IsPrimitive(te, Any) PROVE FALSE
    OBVIOUS
  <2>2. Spelled(te) = <<"LogosMap">> /\ MeaningOf(te) = AnyObject
    BY <1>3, <2>1, Spells, Means
  <2> QED BY <1>3, <2>2, UntypedReadsBack DEF ReadsBack
<1>8. ~IsRecord(te, Recs)
  <2>1. SUFFICES ASSUME IsRecord(te, Recs) PROVE FALSE
    OBVIOUS
  <2>2. /\ Spelled(te) = <<"struct", te.name>> /\ te.name \in Recs
        /\ te = Named(te.name) /\ MeaningOf(te) = te
    BY <1>3, <2>1, Spells, Means, GatedTerms
  <2>3. "struct" \notin QtNames
    BY DEF QtNames
  <2> QED BY <1>3, <2>2, <2>3, StructIsRead DEF ReadsBack
<1>9. ~IsOptional(te)
  <2>1. SUFFICES ASSUME IsOptional(te) PROVE FALSE
    OBVIOUS
  <2>2. ValueTypeOf(te) \in Gated /\ Rank(ValueTypeOf(te)) < Rank(te)
    BY <1>3, <2>1, OptionalTypes, ValueRank
  <2> QED BY <1>3, <1>4, <2>1, <2>2, OptionalReadsBack
<1>10. ~IsContainerOf(te, "Array", 1)
  <2> DEFINE e == te.elements[1]
  <2>1. SUFFICES ASSUME IsContainerOf(te, "Array", 1) PROVE FALSE
    OBVIOUS
  <2>2. e \in Gated /\ Rank(e) < Rank(te)
    BY <1>3, <2>1, LastPart DEF IsContainerOf
  <2>3. /\ Spelled(te) = IF IsPrimitive(e, Any) THEN <<"LogosList">>
                         ELSE <<"std::vector", Spelled(e)>>
        /\ MeaningOf(te) = IF IsPrimitive(e, Any) THEN AnyList ELSE Array(MeaningOf(e))
    BY <1>3, <2>1, Spells, Means
  <2> HIDE DEF e
  <2>4. CASE IsPrimitive(e, Any)
    <3>1. Spelled(te) = <<"LogosList">> /\ MeaningOf(te) = AnyList
      BY <2>3, <2>4
    <3> QED BY <1>3, <3>1, UntypedReadsBack DEF ReadsBack
  <2>5. CASE ~IsPrimitive(e, Any)
    <3>1. Spelled(te) = <<"std::vector", Spelled(e)>> /\ MeaningOf(te) = Array(MeaningOf(e))
      BY <2>3, <2>5
    <3> QED BY <1>3, <1>5, <2>2, <3>1 DEF ReadsBack
  <2> QED BY <2>4, <2>5
<1>11. ~IsContainerOf(te, "Map", 2)
  <2> DEFINE e == te.elements[2]
  <2>1. SUFFICES ASSUME IsContainerOf(te, "Map", 2) PROVE FALSE
    OBVIOUS
  <2>2. e \in Gated /\ Rank(e) < Rank(te)
    BY <1>3, <2>1, LastPart DEF IsContainerOf
  <2>3. /\ Spelled(te) = IF IsPrimitive(e, Any) THEN <<"LogosMap">>
                         ELSE <<"std::map", Spelled(e)>>
        /\ MeaningOf(te) = IF IsPrimitive(e, Any) THEN AnyObject
                           ELSE MapOf(Primitive("tstr"), MeaningOf(e))
    BY <1>3, <2>1, Spells, Means
  <2> HIDE DEF e
  <2>4. CASE IsPrimitive(e, Any)
    <3>1. Spelled(te) = <<"LogosMap">> /\ MeaningOf(te) = AnyObject
      BY <2>3, <2>4
    <3> QED BY <1>3, <3>1, UntypedReadsBack DEF ReadsBack
  <2>5. CASE ~IsPrimitive(e, Any)
    <3>1. /\ Spelled(te) = <<"std::map", Spelled(e)>>
          /\ MeaningOf(te) = MapOf(Primitive("tstr"), MeaningOf(e))
      BY <2>3, <2>5
    <3> QED BY <1>3, <1>5, <2>2, <3>1 DEF ReadsBack
  <2> QED BY <2>4, <2>5
<1>12. IsPrimitive(te, Scalars \cup Any) => IsPrimitive(te, Scalars) \/ IsPrimitive(te, Any)
  BY DEF IsPrimitive
<1> QED
  BY <1>3, <1>6, <1>7, <1>8, <1>9, <1>10, <1>11, <1>12, GatedKinds DEF IsOptional

(***************************************************************************)
(* A header's spellings.                                                   *)
(***************************************************************************)
(* The forms of a spelling; of any other a report is made.                 *)
LEMMA HeaderForms ==
    ASSUME NEW c \in HeaderTypes
    PROVE  \/ IsAtom(c)
           \/ \E n \in Containers, x \in HeaderTypes :
                 c = <<n, x>> /\ Nesting(x) < Nesting(c)
           \/ \E r \in Recs : c = <<"struct", r>>
           \/ \A emitted \in BOOLEAN : Reported(c, Recs, emitted) # {}
<1>1. CASE IsContainer(c)
  <2>1. c[1] \in Containers /\ c[2] \in HeaderTypes /\ Nesting(c[2]) < Nesting(c) /\ Len(c) = 2
    BY <1>1, HeaderTypesAreFinite DEF IsContainer
  <2>2. c = <<c[1], c[2]>>
    <3>1. c = <<c[1]>> => Len(c) = 1
      OBVIOUS
    <3> QED BY <2>1, <3>1, HeaderTypesAreFinite
  <2> QED BY <2>1, <2>2
<1>2. CASE IsDeclared(c, Recs)
  <2>1. c[1] = "struct" /\ c[2] \in Recs /\ Len(c) = 2
    BY <1>2 DEF IsDeclared
  <2>2. c = <<c[1], c[2]>>
    <3>1. c = <<c[1]>> => Len(c) = 1
      OBVIOUS
    <3> QED BY <2>1, <3>1, HeaderTypesAreFinite
  <2> QED BY <2>1, <2>2
<1>3. CASE NoType(c, Recs)
  <2>1. ASSUME NEW emitted \in BOOLEAN PROVE c \in Reported(c, Recs, emitted)
    <3>1. Reported(c, Recs, emitted) = UnsupportedRule(Reported, c, Recs, emitted)
      BY ReadingIsRecursive
    <3> QED BY <1>3, <3>1 DEF UnsupportedRule
  <2> QED BY <2>1
<1> QED BY <1>1, <1>2, <1>3 DEF NoType

(* What a type holds, by its constructor.                                  *)
LEMMA Looseness ==
    ASSUME NEW te \in Types
    PROVE  /\ IsPrimitive(te, Any) => IsLoose(te)
           /\ \A n : te \in {Primitive(n), Named(n)} /\ te # AnyJson => ~IsLoose(te)
           /\ \A t : te \in {Array(t), Optional(t)} => t \in Types /\ (IsLoose(te) = IsLoose(t))
           /\ \A t : te = MapOf(Primitive("tstr"), t) =>
                        t \in Types /\ (IsLoose(te) = IsLoose(t))
<1> DEFINE Rule(t) == IsPrimitive(t, Any) \/ \E i \in DOMAIN t.elements : IsLoose(t.elements[i])
<1>1. \A t \in Types : IsLoose(t) = Rule(t)
  BY MeaningIsRecursive DEF HoldsAnyRule
<1>2. IsPrimitive(te, Any) => IsLoose(te)
  BY <1>1
<1>3. ASSUME NEW u \in Types, NEW n, u \in {Primitive(n), Named(n)}, u # AnyJson
      PROVE  ~IsLoose(u)
  <2>1. u.elements = <<>>
    BY <1>3 DEF Primitive, Named
  <2>2. DOMAIN u.elements = {}
    BY <2>1
  <2>3. ~IsPrimitive(u, Any)
    BY <1>3 DEF Primitive, Named, IsPrimitive, Any, AnyJson
  <2> QED BY <1>1, <2>2, <2>3
<1>4. ASSUME NEW t, te \in {Array(t), Optional(t)}
      PROVE  t \in Types /\ (IsLoose(te) = IsLoose(t))
  <2>1. te.elements = <<t>> /\ te.kind \in {"Array", "Optional"}
    <3>1. CASE te = Array(t)
      BY <3>1 DEF Array
    <3>2. CASE te = Optional(t)
      BY <3>2 DEF Optional
    <3> QED BY <1>4, <3>1, <3>2
  <2>2. DOMAIN te.elements = {1} /\ te.elements[1] = t
    BY <2>1
  <2>3. t \in Types
    BY <2>2, TypesAreFinite
  <2>4. IsLoose(t) \in BOOLEAN
    BY <1>1, <2>3
  <2> QED BY <1>1, <2>1, <2>2, <2>3, <2>4 DEF IsPrimitive
<1>5. ASSUME NEW t, te = MapOf(Primitive("tstr"), t)
      PROVE  t \in Types /\ (IsLoose(te) = IsLoose(t))
  <2>1. te.elements = <<Primitive("tstr"), t>> /\ te.kind = "Map"
    BY <1>5 DEF MapOf
  <2>2. DOMAIN te.elements = {1, 2} /\ te.elements[1] = Primitive("tstr") /\ te.elements[2] = t
    BY <2>1
  <2>3. Primitive("tstr") \in Types /\ t \in Types
    BY <2>2, TypesAreFinite
  <2>4. IsLoose(t) \in BOOLEAN
    BY <1>1, <2>3
  <2>5. ~IsLoose(Primitive("tstr"))
    <3>1. Primitive("tstr") # AnyJson
      BY DEF Primitive, AnyJson
    <3> QED BY <1>3, <2>3, <3>1
  <2> QED BY <1>1, <2>1, <2>2, <2>3, <2>4, <2>5 DEF IsPrimitive
<1> QED BY <1>2, <1>3, <1>4, <1>5

(* What is reported wherever a spelling stands is reported where the       *)
(* generator writes it out.                                                *)
LEMMA ReportedMore ==
    \A c \in HeaderTypes : Reported(c, Recs, FALSE) \subseteq Reported(c, Recs, TRUE)
<1> DEFINE Bad == {c \in HeaderTypes : ~(Reported(c, Recs, FALSE) \subseteq Reported(c, Recs, TRUE))}
<1>1. SUFFICES ASSUME Bad # {} PROVE FALSE
  OBVIOUS
<1>2. PICK c \in Bad : \A d \in HeaderTypes : Nesting(d) < Nesting(c) => d \notin Bad
  <2> HIDE DEF Bad
  <2>1. Bad \subseteq HeaderTypes
    BY DEF Bad
  <2> QED BY <1>1, <2>1, LeastSpelling
<1>3. /\ Reported(c, Recs, FALSE) = UnsupportedRule(Reported, c, Recs, FALSE)
      /\ Reported(c, Recs, TRUE) = UnsupportedRule(Reported, c, Recs, TRUE)
  BY <1>2, ReadingIsRecursive
<1>4. IsContainer(c) => Reported(c[2], Recs, FALSE) \subseteq Reported(c[2], Recs, TRUE)
  BY <1>2, HeaderTypesAreFinite
<1> QED BY <1>2, <1>3, <1>4 DEF UnsupportedRule, ContainerClash

(* A spelling that is not reported is published as untyped only where it   *)
(* says so.                                                                *)
OnlyWhereSaid(c) ==
    Reported(c, Recs, FALSE) = {} /\ IsLoose(CppTypeOf(c, Recs)) =>
        NamesIn(c) \cap JsonNames # {}

LEMMA LooseWhereSaid == \A c \in HeaderTypes : OnlyWhereSaid(c)
<1> DEFINE Bad == {c \in HeaderTypes : ~OnlyWhereSaid(c)}
<1>1. SUFFICES ASSUME Bad # {} PROVE FALSE
  OBVIOUS
<1>2. PICK c \in Bad : \A d \in HeaderTypes : Nesting(d) < Nesting(c) => d \notin Bad
  <2> HIDE DEF Bad
  <2>1. Bad \subseteq HeaderTypes
    BY DEF Bad
  <2> QED BY <1>1, <2>1, LeastSpelling
<1>3. /\ c \in HeaderTypes /\ c \in Readable /\ CppTypeOf(c, Recs) \in Types
      /\ Reported(c, Recs, FALSE) = {} /\ IsLoose(CppTypeOf(c, Recs))
      /\ NamesIn(c) \cap JsonNames = {}
  BY <1>2, HeaderTypesAreFinite DEF Readable, OnlyWhereSaid
<1>4. ASSUME NEW x \in HeaderTypes, Nesting(x) < Nesting(c) PROVE OnlyWhereSaid(x)
  BY <1>2, <1>4
<1> HIDE DEF Bad
<1>5. ~IsAtom(c)
  <2>1. SUFFICES ASSUME IsAtom(c) PROVE FALSE
    OBVIOUS
  <2>2. CppTypeOf(c, Recs) = AtomOf(c) /\ NamesIn(c) = {c[1]}
    BY <1>3, <2>1, AtomIsRead
  <2>3. PICK a \in Atoms : a[1] = c
    BY <2>1 DEF IsAtom
  <2>4. a = <<<<c[1]>>, a[2]>> /\ c = <<c[1]>>
    BY <2>3 DEF Atoms
  <2>5. AtomOf(c) = a[2]
    BY <2>4, AtomsAreAtoms
  <2>6. c[1] \notin JsonNames
    BY <1>3, <2>2
  <2>7. CASE \E n : a[2] = Primitive(n) /\ a[2] # AnyJson
    BY <1>3, <2>2, <2>5, <2>7, Looseness
  <2>8. CASE a[2] = Array(Primitive("tstr"))
    <3>1. Primitive("tstr") \in Types /\ IsLoose(Primitive("tstr"))
      BY <1>3, <2>2, <2>5, <2>8, Looseness
    <3>2. Primitive("tstr") # AnyJson
      BY DEF Primitive, AnyJson
    <3> QED BY <3>1, <3>2, Looseness
  <2>9. \/ \E n \in Scalars \cup {"void", "result"} : a[2] = Primitive(n)
        \/ a[2] = Array(Primitive("tstr"))
        \/ c[1] \in JsonNames
    BY <2>3, <2>4 DEF Atoms, Scalars, JsonNames
  <2>10. \A n \in Scalars \cup {"void", "result"} : Primitive(n) # AnyJson
    BY DEF Scalars, Primitive, AnyJson
  <2> QED BY <2>6, <2>7, <2>8, <2>9, <2>10
<1>6. ASSUME NEW n \in Containers, NEW x \in HeaderTypes,
             c = <<n, x>>, Nesting(x) < Nesting(c)
      PROVE  FALSE
  <2> DEFINE inner == CppTypeOf(x, Recs)
             te    == CppTypeOf(c, Recs)
  <2>1. /\ Reported(x, Recs, FALSE) = {} /\ NamesIn(x) \cap JsonNames = {}
    <3>1. Reported(c, Recs, FALSE) =
             (IF n = "std::unordered_map" /\ FALSE THEN {c} ELSE {})
                 \cup Reported(x, Recs, FALSE)
      BY <1>3, <1>6, ContainerIsRead
    <3>2. NamesIn(c) = {n} \cup NamesIn(x)
      BY <1>3, <1>6, ContainerIsRead
    <3> QED BY <1>3, <3>1, <3>2
  <2>2. ~IsLoose(inner)
    BY <1>4, <1>6, <2>1 DEF OnlyWhereSaid
  <2>3. te \in Types /\ IsLoose(te)
    BY <1>3
  <2>4. /\ n = "std::vector"   => te = Array(inner)
        /\ n \in Maps          => te = MapOf(Primitive("tstr"), inner)
        /\ n = "std::optional" => te = Collapsed(inner)
    BY <1>3, <1>6, ContainerIsRead
  <2> HIDE DEF inner, te
  <2>5. te # Array(inner) /\ te # Optional(inner) /\ te # MapOf(Primitive("tstr"), inner)
    BY <2>2, <2>3, Looseness
  <2>6. Collapsed(inner) \in {inner, Optional(inner)}
    BY DEF Collapsed
  <2> QED BY <2>2, <2>3, <2>4, <2>5, <2>6 DEF Containers
<1>7. ASSUME NEW r \in Recs, c = <<"struct", r>> PROVE FALSE
  <2>1. CppTypeOf(c, Recs) = Named(r)
    BY <1>3, <1>7, StructIsRead
  <2>2. Named(r) # AnyJson
    BY DEF Named, AnyJson, Primitive
  <2> QED BY <1>3, <2>1, <2>2, Looseness
<1> QED BY <1>3, <1>5, <1>6, <1>7, HeaderForms

(* The parts of a type that passes the gate pass it, among the same        *)
(* records.                                                                *)
LEMMA PartsAreGated ==
    ASSUME NEW te \in Types, NEW recs \in SUBSET Recs, Gate(te, FALSE, recs)
    PROVE  /\ Gate(ValueTypeOf(te), FALSE, recs)
           /\ \A t : te = Array(t) => Gate(t, FALSE, recs)
           /\ \A t : te = MapOf(Primitive("tstr"), t) => Gate(t, FALSE, recs)
           /\ \A t : te = Optional(t) /\ ~IsOptional(t) => t = ValueTypeOf(te)
<1>1. SupportedRule(Gate, ValueTypeOf, te, FALSE, recs)
  BY GateIsRecursive
<1>2. Gate(ValueTypeOf(te), FALSE, recs)
  <2>1. CASE IsOptional(te)
    BY <1>1, <2>1 DEF SupportedRule, PrimitiveSupported, IsPrimitive, IsRecord, IsOptional
  <2>2. CASE ~IsOptional(te)
    BY <2>2, ValueTypes DEF Strips
  <2> QED BY <2>1, <2>2
<1>3. ASSUME NEW t, te = Array(t) PROVE Gate(t, FALSE, recs)
  <2>1. te.kind = "Array" /\ te.elements[1] = t
    BY <1>3, Kinds, Constructors
  <2> QED BY <1>1, <2>1 DEF SupportedRule, PrimitiveSupported, IsPrimitive, IsRecord
<1>4. ASSUME NEW t, te = MapOf(Primitive("tstr"), t) PROVE Gate(t, FALSE, recs)
  <2>1. te.kind = "Map" /\ te.elements[2] = t
    BY <1>4, Kinds, Constructors
  <2> QED BY <1>1, <2>1 DEF SupportedRule, PrimitiveSupported, IsPrimitive, IsRecord
<1>5. ASSUME NEW t, te = Optional(t), ~IsOptional(t) PROVE t = ValueTypeOf(te)
  <2>1. te.kind = "Optional" /\ te.elements = <<t>>
    BY <1>5 DEF Optional
  <2>2. te.elements # <<>> /\ te.elements[1] = t /\ DOMAIN te.elements = {1}
    BY <2>1
  <2>3. t \in Types
    BY <2>2, TypesAreFinite
  <2>4. ValueTypeOf(te) = ValueTypeOf(t)
    BY <2>1, <2>2, ValueTypeIsRecursive DEF ValueTypeRule
  <2> QED BY <1>5, <2>3, <2>4, ValueTypes DEF Strips
<1> QED BY <1>2, <1>3, <1>4, <1>5

(* What is spelled without an alias, of a type that passes the gate, and   *)
(* is neither reported nor warned about is what the generator writes.      *)
IsPlain(c) ==
    /\ Reported(c, Recs, TRUE) = {} /\ Warned(c, Recs) = {}
    /\ Gate(CppTypeOf(c, Recs), FALSE, Recs)
    /\ NamesIn(c) \cap (QtNames \cup JsonNames) = {}

LEMMA PlainAtom ==
    ASSUME NEW c \in HeaderTypes, IsPlain(c), IsAtom(c)
    PROVE  Spelled(CppTypeOf(c, Recs)) = c
<1> DEFINE te == CppTypeOf(c, Recs)
<1>1. c \in Readable /\ te \in Types /\ te \in Gated
  BY HeaderTypesAreFinite DEF Readable, IsPlain, Gated
<1>2. te = AtomOf(c) /\ NamesIn(c) = {c[1]}
  BY <1>1, AtomIsRead
<1>3. c[1] \notin QtNames \cup JsonNames
  BY <1>2 DEF IsPlain
<1>4. PICK a \in Atoms : a[1] = c
  BY DEF IsAtom
<1>5. a = <<<<c[1]>>, a[2]>> /\ c = <<c[1]>>
  BY <1>4 DEF Atoms
<1>6. te = a[2]
  BY <1>2, <1>5, AtomsAreAtoms
<1>7. \/ \E n \in Scalars : a[2] = Primitive(n) /\ c[1] = StdOf[n]
      \/ \E n \in {"void", "result"} : a[2] = Primitive(n)
  <2>1. \/ c[1] \in QtNames \cup JsonNames
        \/ \E n \in Scalars : a[2] = Primitive(n) /\ c[1] = StdOf[n]
        \/ \E n \in {"void", "result"} : a[2] = Primitive(n)
    BY <1>4, <1>5 DEF Atoms, Scalars, StdOf, QtNames, JsonNames
  <2> QED BY <1>3, <2>1
<1> HIDE DEF te
<1>8. ASSUME NEW n \in {"void", "result"}, a[2] = Primitive(n) PROVE FALSE
  <2>1. te.kind = "Primitive" /\ te.name = n
    BY <1>6, <1>8 DEF Primitive
  <2>2. IsPrimitive(te, Scalars \cup Any)
    BY <1>1, <2>1, GatedKinds DEF IsRecord, IsContainerOf
  <2> QED BY <2>1, <2>2 DEF IsPrimitive, Scalars, Any
<1>9. ASSUME NEW n \in Scalars, a[2] = Primitive(n), c[1] = StdOf[n]
      PROVE  Spelled(te) = c
  <2>1. IsPrimitive(te, Scalars) /\ te.name = n
    BY <1>6, <1>9 DEF Primitive, IsPrimitive
  <2> QED BY <1>1, <1>5, <1>9, <2>1, Spells
<1> QED BY <1>7, <1>8, <1>9 DEF te

LEMMA PlainContainer ==
    ASSUME NEW c \in HeaderTypes, IsPlain(c),
           NEW n \in Containers, NEW x \in HeaderTypes, c = <<n, x>>,
           IsPlain(x) => Spelled(CppTypeOf(x, Recs)) = x
    PROVE  Spelled(CppTypeOf(c, Recs)) = c
<1> DEFINE te == CppTypeOf(c, Recs)
           t  == CppTypeOf(x, Recs)
<1>1. /\ c \in Readable /\ x \in Readable /\ te \in Types /\ t \in Types
      /\ te \in Gated /\ Gate(te, FALSE, Recs)
  BY HeaderTypesAreFinite DEF Readable, IsPlain, Gated
<1>2. Reported(c, Recs, TRUE) =
         (IF n = "std::unordered_map" /\ TRUE THEN {c} ELSE {}) \cup Reported(x, Recs, TRUE)
  BY <1>1, ContainerIsRead
<1>3. NamesIn(c) = {n} \cup NamesIn(x)
  BY <1>1, ContainerIsRead
<1>4. Warned(c, Recs) =
         Warned(x, Recs) \cup IF n = "std::optional" /\ IsOptional(t) THEN {c} ELSE {}
  BY <1>1, ContainerIsRead
<1>5. /\ n = "std::vector"   => te = Array(t)
      /\ n \in Maps          => te = MapOf(Primitive("tstr"), t)
      /\ n = "std::optional" => te = Collapsed(t)
  BY <1>1, ContainerIsRead
<1>6. /\ n # "std::unordered_map"
      /\ Reported(x, Recs, TRUE) = {} /\ Warned(x, Recs) = {}
      /\ NamesIn(x) \cap (QtNames \cup JsonNames) = {}
      /\ ~(n = "std::optional" /\ IsOptional(t))
  BY <1>2, <1>3, <1>4 DEF IsPlain
<1>7. ~IsLoose(t)
  <2>1. Reported(x, Recs, FALSE) = {}
    BY <1>6, ReportedMore
  <2>2. OnlyWhereSaid(x)
    BY LooseWhereSaid
  <2> QED BY <1>6, <2>1, <2>2 DEF OnlyWhereSaid
<1>8. Gate(t, FALSE, Recs) => t \in Gated /\ Spelled(t) = x
  BY <1>1, <1>6 DEF IsPlain, Gated
<1>9. ~IsPrimitive(t, Any)
  BY <1>1, <1>7, Looseness
<1> HIDE DEF te, t
<1>10. CASE n = "std::vector"
  <2>1. te = Array(t) /\ t \in Gated /\ Spelled(t) = x
    BY <1>1, <1>5, <1>8, <1>10, PartsAreGated
  <2>2. te.kind = "Array" /\ te.elements = <<t>>
    BY <2>1 DEF Array
  <2>3. te.elements[1] = t /\ Len(te.elements) = 1
    BY <2>2
  <2>4. IsContainerOf(te, "Array", 1)
    BY <2>1, <2>2, <2>3 DEF IsContainerOf
  <2>5. Spelled(te) = <<"std::vector", Spelled(t)>>
    BY <1>1, <1>9, <2>3, <2>4, Spells
  <2> QED BY <1>10, <2>1, <2>5 DEF te
<1>11. CASE n = "std::map"
  <2>1. te = MapOf(Primitive("tstr"), t)
    BY <1>5, <1>11 DEF Maps
  <2>2. t \in Gated /\ Spelled(t) = x
    BY <1>1, <1>8, <2>1, PartsAreGated
  <2>3. te.kind = "Map" /\ te.elements = <<Primitive("tstr"), t>>
    BY <2>1 DEF MapOf
  <2>4. te.elements[2] = t /\ Len(te.elements) = 2
    BY <2>3
  <2>5. IsContainerOf(te, "Map", 2)
    BY <2>2, <2>3, <2>4 DEF IsContainerOf
  <2>6. Spelled(te) = <<"std::map", Spelled(t)>>
    BY <1>1, <1>9, <2>4, <2>5, Spells
  <2> QED BY <1>11, <2>2, <2>6 DEF te
<1>12. CASE n = "std::optional"
  <2>1. te = Optional(t) /\ ~IsOptional(t)
    BY <1>5, <1>6, <1>12 DEF Collapsed
  <2>2. t = ValueTypeOf(te)
    BY <1>1, <2>1, PartsAreGated
  <2>3. Spelled(t) = x
    BY <1>1, <1>8, <2>2, PartsAreGated
  <2>4. Spelled(te) = OptionalOf(x)
    BY <1>1, <2>1, <2>2, <2>3, OptionalTypes DEF Optional, IsOptional
  <2>5. x \notin Untyped
    <3>1. x[1] \in NamesIn(x)
      BY <1>1, ReadingIsRecursive DEF HeadsRule, Readable
    <3> QED BY <1>6, <3>1 DEF Untyped, JsonNames
  <2> QED BY <1>12, <2>4, <2>5 DEF OptionalOf, te
<1> QED BY <1>6, <1>10, <1>11, <1>12 DEF Containers, Maps

LEMMA PlainIsAsWritten ==
    \A c \in HeaderTypes : IsPlain(c) => Spelled(CppTypeOf(c, Recs)) = c
<1> DEFINE Bad == {c \in HeaderTypes : ~(IsPlain(c) => Spelled(CppTypeOf(c, Recs)) = c)}
<1>1. SUFFICES ASSUME Bad # {} PROVE FALSE
  OBVIOUS
<1>2. PICK c \in Bad : \A d \in HeaderTypes : Nesting(d) < Nesting(c) => d \notin Bad
  <2> HIDE DEF Bad
  <2>1. Bad \subseteq HeaderTypes
    BY DEF Bad
  <2> QED BY <1>1, <2>1, LeastSpelling
<1>3. c \in HeaderTypes /\ IsPlain(c) /\ Spelled(CppTypeOf(c, Recs)) # c
  BY <1>2
<1>4. ASSUME NEW x \in HeaderTypes, Nesting(x) < Nesting(c), IsPlain(x)
      PROVE  Spelled(CppTypeOf(x, Recs)) = x
  BY <1>2, <1>4
<1> HIDE DEF Bad
<1>5. ASSUME NEW r \in Recs, c = <<"struct", r>> PROVE FALSE
  <2> DEFINE te == CppTypeOf(c, Recs)
  <2>1. te = Named(r) /\ te \in Gated
    BY <1>3, <1>5, StructIsRead, HeaderTypesAreFinite DEF Readable, IsPlain, Gated
  <2>2. IsRecord(te, Recs) /\ te.name = r
    BY <2>1 DEF Named, IsRecord
  <2> QED BY <1>3, <1>5, <2>1, <2>2, Spells
<1>6. Reported(c, Recs, TRUE) = {}
  BY <1>3 DEF IsPlain
<1> QED BY <1>3, <1>4, <1>5, <1>6, PlainAtom, PlainContainer, HeaderForms

(* What an author's header says, of any depth, is what is published.       *)
THEOREM HeadersAreRead == \A c \in HeaderTypes : PublishedAsWritten(c)
<1> SUFFICES ASSUME NEW c \in HeaderTypes PROVE PublishedAsWritten(c)
  OBVIOUS
<1>1. OnlyWhereSaid(c)
  BY LooseWhereSaid
<1>2. IsPlain(c) => Spelled(CppTypeOf(c, Recs)) = c
  BY PlainIsAsWritten
<1> QED BY <1>1, <1>2 DEF PublishedAsWritten, OnlyWhereSaid, IsPlain

(* A field is spelled as its type is, however it is marked optional.       *)
LEMMA FieldReadsBack ==
    ASSUME NEW r \in Recs, NEW i \in DOMAIN Records[r], NEW recs \in SUBSET Recs,
           Gate(Records[r][i].type, FALSE, recs)
    PROVE  ReadsBack(SlotOf(Records[r][i]),
                     FieldSpelling(SpellingOf, ValueTypeOf, Records[r][i], recs))
<1> DEFINE f  == Records[r][i]
           vt == ValueTypeOf(f.type)
           c  == FieldSpelling(SpellingOf, ValueTypeOf, f, recs)
<1>1. /\ f.type \in Types /\ f.type \in Gated
      /\ FieldIsOptional(f) => SlotOf(f) \in Types
  BY RecordsAreGated DEF Gated
<1>2. /\ vt \in Types /\ vt \in Gated /\ ~IsOptional(vt)
      /\ ~FieldIsOptional(f) => ~IsOptional(f.type)
  BY <1>1, FieldTypes DEF Gated, FieldIsOptional
<1>3. Gate(vt, FALSE, recs)
  BY <1>1, PartsAreGated
<1>4. SpellingOf(vt, recs) = Spelled(vt) /\ SpellingOf(f.type, recs) = Spelled(f.type)
  BY <1>1, <1>2, <1>3, SameSpelling
<1>5. c = IF FieldIsOptional(f) THEN OptionalOf(Spelled(vt)) ELSE Spelled(f.type)
  BY <1>4 DEF FieldSpelling
<1> HIDE DEF f, c
<1>6. CASE ~FieldIsOptional(f)
  <2>1. SlotOf(f) = f.type /\ c = Spelled(f.type)
    BY <1>5, <1>6 DEF SlotOf
  <2>2. ReadsBack(f.type, Spelled(f.type))
    BY <1>1, SpelledReadsBack
  <2> QED BY <2>1, <2>2 DEF f, c
<1>7. CASE FieldIsOptional(f)
  <2> DEFINE s == SlotOf(f)
  <2>1. s = Optional(vt) /\ s \in Types
    BY <1>1, <1>7 DEF SlotOf
  <2> HIDE DEF s, vt
  <2>2. s.kind = "Optional" /\ s.elements = <<vt>>
    BY <2>1 DEF Optional
  <2>3. s.elements # <<>> /\ s.elements[1] = vt
    BY <2>2
  <2>4. ValueTypeOf(s) = vt
    <3>1. ValueTypeOf(s) = ValueTypeOf(vt)
      BY <2>1, <2>2, <2>3, ValueTypeIsRecursive DEF ValueTypeRule
    <3> QED BY <1>2, <3>1, ValueTypes DEF Strips
  <2>5. s \in Gated
    <3>1. PICK rs \in SUBSET Recs : Gate(vt, FALSE, rs)
      BY <1>2 DEF Gated
    <3>2. Gate(s, FALSE, rs) = SupportedRule(Gate, ValueTypeOf, s, FALSE, rs)
      BY <2>1, GateIsRecursive
    <3>3. SupportedRule(Gate, ValueTypeOf, s, FALSE, rs)
      BY <2>2, <2>3, <2>4, <3>1 DEF SupportedRule
    <3> QED BY <2>1, <3>2, <3>3 DEF Gated
  <2>6. Spelled(s) = OptionalOf(Spelled(vt))
    BY <2>2, <2>3, <2>4, <2>5, Spells
  <2>7. c = Spelled(s)
    BY <1>5, <1>7, <2>6
  <2>8. ReadsBack(s, Spelled(s))
    BY <2>5, SpelledReadsBack
  <2> QED BY <2>7, <2>8 DEF s, f, c
<1> QED BY <1>6, <1>7

(* A provider's declaration passes the gate with the records it declares.  *)
DeclaredInv ==
    /\ provider.types \subseteq Recs
    /\ Providable(provider) =>
          \A i \in DOMAIN provider.params :
              provider.params[i] \in Types /\ Gate(provider.params[i], FALSE, provider.types)
    /\ Generated => Providable(provider)

LEMMA DeclaredAlways == Spec => []DeclaredInv
<1>1. Init => DeclaredInv
  <2> SUFFICES ASSUME Init PROVE DeclaredInv
    OBVIOUS
  <2>1. PICK c \in Contracts : provider = c[1] /\ caller = c[2]
    BY DEF Init
  <2>2. provider.types \subseteq Recs
    BY <2>1, ContractsAreGated
  <2>3. Providable(provider) =>
           \A i \in DOMAIN provider.params :
               provider.params[i] \in Types /\ Gate(provider.params[i], FALSE, provider.types)
    BY <2>1, ContractsAreGated
  <2> QED BY <2>2, <2>3 DEF DeclaredInv, Generated, Init
<1>2. DeclaredInv /\ [Next]_vars => DeclaredInv'
  <2> SUFFICES ASSUME DeclaredInv, [Next]_vars PROVE DeclaredInv'
    OBVIOUS
  <2>1. UNCHANGED provider
    BY DEF Next, vars, Generate, Pack, UnknownMethod, InvalidArgs, DecodeFails, CallHandler,
           HandlerReturns, HandlerThrows, Tell, Emit, Hear
  <2>2. Generated' => Generated \/ Providable(provider)
    BY DEF Next, vars, Generate, Pack, UnknownMethod, InvalidArgs, DecodeFails, CallHandler,
           HandlerReturns, HandlerThrows, Tell, Emit, Hear, Generated
  <2> QED BY <2>1, <2>2 DEF DeclaredInv
<1> QED BY <1>1, <1>2, PTL DEF Spec

(* The gate, the spellings that the generator writes and the header parser *)
(* agree about types and headers of any depth: a provider generated from a *)
(* contract and one whose header the contract was read from are the same.  *)
THEOREM SpellingsAgreeAtAnyDepth == Spec => []SpellingsAgree
<1>1. DeclaredInv => SpellingsAgree
  <2> SUFFICES ASSUME DeclaredInv PROVE SpellingsAgree
    OBVIOUS
  <2>1. ASSUME Generated, NEW i \in DOMAIN provider.params
        PROVE  ReadsBack(provider.params[i], SpellingOf(provider.params[i], provider.types))
    <3> DEFINE te == provider.params[i]
    <3>1. te \in Types /\ Gate(te, FALSE, provider.types) /\ provider.types \in SUBSET Recs
      BY <2>1 DEF DeclaredInv
    <3>2. te \in Gated /\ SpellingOf(te, provider.types) = Spelled(te)
      BY <3>1, SameSpelling DEF Gated
    <3> QED BY <3>2, SpelledReadsBack
  <2>2. ASSUME NEW r \in provider.types, NEW i \in DOMAIN Records[r],
               Gate(Records[r][i].type, FALSE, provider.types)
        PROVE  ReadsBack(SlotOf(Records[r][i]),
                         FieldSpelling(SpellingOf, ValueTypeOf, Records[r][i], provider.types))
    <3>1. r \in Recs /\ provider.types \in SUBSET Recs
      BY DEF DeclaredInv
    <3> QED BY <2>2, <3>1, FieldReadsBack
  <2>3. \A c \in HeaderTypes : PublishedAsWritten(c)
    BY HeadersAreRead
  <2> QED BY <2>1, <2>2, <2>3 DEF SpellingsAgree
<1> QED BY <1>1, DeclaredAlways, PTL
=============================================================================
