----------------------------- MODULE TypedCall ------------------------------
(***************************************************************************)
(* An exchange (Exchange) with the generated code's conversions, value for *)
(* value: the gate that decides whether a provider can be generated, what  *)
(* values a handler or a caller may hold of each type, and what the types  *)
(* and spellings of the two sides have to do with each other.              *)
(***************************************************************************)
EXTENDS Codec, CppTypes, Exchange

(***************************************************************************)
(* Sample values: what a handler or an emitter may hold of a type, and     *)
(* what a caller may make up where its wrapper leaves JSON untyped.        *)
(***************************************************************************)
One(k, v) == [x \in {k} |-> v]
None(k)   == [x \in {} |-> k]

SampleScalar ==
    [tstr    |-> {<<"str", "a">>},  bstr |-> {<<"bytes", "b">>},
     int     |-> {<<"int", -1>>, <<"int", 2>>}, uint |-> {<<"int", 2>>},
     float64 |-> {<<"float", 37>>, <<"float", 30>>}, bool |-> {<<"bool", TRUE>>},
     any     |-> {<<"json", Null>>, <<"json", <<"int", -1>>>>, <<"json", Obj(None(0))>>},
     result  |-> {<<"result", TRUE, <<"int", 2>>, "">>, <<"result", FALSE, Null, "e">>}]

RECURSIVE Sample(_)
(* A record with every choice of empty fields.                             *)
SampleRecord(r) ==
    LET Void(k) == IF FieldTypeCdylib(FieldOf(r, k), Recs) \in Untyped THEN <<"json", Null>> ELSE Empty
        Value == [k \in Names(r) |-> CHOOSE v \in Sample(FieldValueType(FieldOf(r, k))) : TRUE]
    IN  {<<"struct", [k \in Names(r) |-> IF k \in empty THEN Void(k) ELSE Value[k]]>> :
            empty \in SUBSET {k \in Names(r) : FieldIsOptional(FieldOf(r, k))}}

Sample(te) ==
    LET cpp  == TypeToStdCdylib(te, Recs)
        Elem == Sample(te.elements[Len(te.elements)])
    IN  CASE te.kind = "Primitive" -> SampleScalar[te.name]
          [] te.kind = "Named"     -> SampleRecord(te.name)
          [] te.kind = "Optional"  ->
                 Sample(OptionalValueType(te))
                     \cup {IF cpp \in Untyped THEN <<"json", Null>> ELSE Empty}
          [] te.kind = "Array" /\ cpp \in Untyped ->
                 {<<"json", Arr(<<>>)>>, <<"json", Arr(<<Null>>)>>}
          [] te.kind = "Array" /\ cpp \notin Untyped ->
                 {<<"vec", <<>>>>} \cup {<<"vec", <<v>>>> : v \in Elem}
          [] te.kind = "Map" /\ cpp \in Untyped ->
                 {<<"json", Obj(None(0))>>, <<"json", Obj(One("k", Null))>>}
          [] te.kind = "Map" /\ cpp \notin Untyped ->
                 {<<"map", None(0)>>} \cup {<<"map", One("k", v)>> : v \in Elem}

MadeUp == {Null, <<"str", "a">>, <<"int", -1>>, <<"float", 37>>, <<"float", 30>>,
           Arr(<<>>), Arr(<<Null>>), Obj(None(0)), Obj(One("k", <<"int", -1>>))}

(* What a caller's wrapper lets it pass for a type, with what it means.    *)
Passes(te) ==
    {<<Receive(te, ToJson(v)), v>> : v \in Sample(te)}
    \cup IF AlreadyNullable(TypeForLp(TypeToQt(te), Recs))
         THEN {<<<<"json", j>>, Junk>> : j \in MadeUp \ {ToJson(v) : v \in Sample(te)}}
         ELSE {}

(***************************************************************************)
(* Generation.                                                             *)
(***************************************************************************)
(* The flag the frontend sets on a map or list return.                     *)
JsonReturn(te) == te.kind \in {"Map", "Array"}

(* lidlCdylibSupported: a contract outside the Qt-free subset gets no      *)
(* provider.  A flagged return is not looked at.                           *)
Supported(d) ==
    /\ \A i \in DOMAIN d.params : TypeSupported(d.params[i], FALSE, d.types)
    /\ d.ret = NoReturn \/ JsonReturn(d.ret) \/ TypeSupported(d.ret, TRUE, d.types)

(* lidlCheckRecords, which only the generation of a caller's wrapper calls. *)
CheckRecords(d) == \A r \in d.types : ~RecordCollidesWithBytesTag(Records[r])

(* A caller's contract is one that a provider, this or an earlier one, was *)
(* generated from.                                                         *)
CallerSupported(d) == Supported(d) /\ CheckRecords(d)

(***************************************************************************)
(* Reference: which JSON values inhabit a type, and are good for a slot.   *)
(***************************************************************************)
RECURSIVE Inhabits(_, _)
Inhabits(te, j) ==
    InhabitsRule(Inhabits, OptionalValueType, TypeToStdCdylib(te, Recs), te, j)

ArgumentInhabits(te, j) == ArgumentInhabitsRule(Inhabits, OptionalValueType(te), te, j)

WellTyped(te, j) ==
    WellTypedRule(Inhabits, OptionalValueType(te), TypeToStdCdylib(te, Recs), te, j)

RECURSIVE IsHeld(_, _)
IsHeld(te, v) ==
    LET Spelling(t) == TypeToStdCdylib(t, Recs)
    IN  HoldsRule(IsHeld, OptionalValueType, Spelling, te, v)

(* What the provider's own codec makes of a value the caller holds; a      *)
(* LogosResult is one type on both sides.                                  *)
HandedBack(te, v) ==
    IF IsPrimitive(te, {"result"}) THEN v
                                   ELSE FromJson(TypeToStdCdylib(te, Recs), ToJson(v))

(***************************************************************************)
(* Reference: what a type means in C++, and the names in a spelling.       *)
(***************************************************************************)
RECURSIVE InCpp(_)
InCpp(te) == InCppRule(InCpp, OptionalValueType, te)

RECURSIVE HoldsAny(_)
HoldsAny(te) == HoldsAnyRule(HoldsAny, te)

RECURSIVE Heads(_)
Heads(c) == HeadsRule(Heads, c)

(***************************************************************************)
(* Properties.                                                             *)
(***************************************************************************)
(* The documented rule: in an optional slot null and absent are empty.     *)
NullIsEmpty ==
    Generated /\ provider.kind = "method" /\ Decided /\ Known /\ Complete =>
        \/ got # Nothing
        \/ \E i \in DOMAIN provider.params : ~ArgumentInhabits(provider.params[i], Sent(i))
=============================================================================
