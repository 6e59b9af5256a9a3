------------------------------ MODULE AnyDepth ------------------------------
(***************************************************************************)
(* The recursions of the generated code and of the header parser, as       *)
(* unknown operators of which all that is known is that each closes its    *)
(* rule in TypeRules, WrapperRules or HeaderRules, over any set of types,  *)
(* of spellings, of wire values and of C++ values that contains the parts  *)
(* of its members.  Recursive records are among them: a record may hold    *)
(* itself, a value may not.  In a run the operators are the recursive ones *)
(* of Lidl, CppTypes, Codec and TypedCall, and TLC evaluates the           *)
(* assumptions.                                                            *)
(***************************************************************************)
EXTENDS Exchange, WrapperRules, HeaderRules

CONSTANTS
    HeaderTypes,        \* C++ spellings that an author's header may contain
    Types,              \* the types of contracts and headers, with their parts
    Wire,               \* the JSON values that travel, with their parts
    Values,             \* the C++ values of the provider, with their parts
    Rank(_),            \* how deep a type is
    Depth(_),           \* how deep a JSON value is
    Nesting(_),         \* how deep a spelling is
    ValueTypeOf(_),     \* optionalValueType
    Gate(_, _, _),      \* typeSupported
    SpellingOf(_, _),   \* lidlTypeToStdCdylib
    Strict(_, _),       \* logos::fromJson
    Inhabitant(_, _),   \* reference: a JSON value inhabits a type
    Holds(_, _),        \* reference: a C++ value is one of a type
    BottomsOut(_),      \* lidlQtBottomsOutAtAny
    QtNameOf(_),        \* lidlTypeToQt
    Wrapped(_, _),      \* fromWireFor
    Blank(_),           \* a field of a wrapper's struct, default-initialised
    CppTypeOf(_, _),    \* cppTypeToLidl: the type of a spelling
    Reported(_, _, _),  \* the same: the spellings without a type
    Warned(_, _),       \* the same: optionals of optionals
    MeaningOf(_),       \* reference: what a type means in C++
    IsLoose(_),         \* reference: a type holds untyped JSON
    NamesIn(_)          \* reference: the names in a spelling

ASSUME TypesAreFinite ==
    \A te \in Types :
        /\ Rank(te) \in Nat
        /\ Len(te.elements) \in Nat /\ DOMAIN te.elements = 1 .. Len(te.elements)
        /\ (te.elements = <<>>) = (Len(te.elements) = 0)
        /\ \A i \in DOMAIN te.elements :
              te.elements[i] \in Types /\ Rank(te.elements[i]) < Rank(te)

ASSUME ValuesAreFinite ==
    /\ Null \in Wire
    /\ \A j \in Wire :
          /\ Depth(j) \in Nat
          /\ j[1] \in {"int", "float"} => j[2] \in Int
          /\ j[1] \in {"arr", "obj"} =>
                /\ Depth(Null) < Depth(j)
                /\ \A k \in DOMAIN j[2] : j[2][k] \in Wire /\ Depth(j[2][k]) < Depth(j)

ASSUME CppValuesAreFinite ==
    /\ Empty \in Values /\ <<"json", Null>> \in Values
    /\ \A v \in Values :
          /\ Encode(v) = EncodeRule(Encode, v) /\ Encode(v) \in Wire
          /\ v[1] \in {"vec", "map", "struct"} => \A k \in DOMAIN v[2] : v[2][k] \in Values

(* A type is what the frontend's parser builds.                            *)
ASSUME TypesAreTerms ==
    \A te \in Types :
        /\ te.elements \in Seq(Types)
        /\ te.kind \in {"Primitive", "Named"} =>
              te = [kind |-> te.kind, name |-> te.name, elements |-> <<>>]
        /\ te.kind \in {"Array", "Map", "Optional"} =>
              te = [kind |-> te.kind, name |-> "", elements |-> te.elements]

(* A spelling is a name, or a template or struct with its argument.        *)
ASSUME HeaderTypesAreFinite ==
    \A c \in HeaderTypes :
        /\ c = <<c[1]>> \/ c = <<c[1], c[2]>>
        /\ CppTypeOf(c, Recs) \in Types
        /\ Nesting(c) \in Nat
        /\ IsContainer(c) => c[2] \in HeaderTypes /\ Nesting(c[2]) < Nesting(c)

(* Both ways of writing an optional field mean one type.                   *)
SlotOf(f) == IF FieldIsOptional(f) THEN Optional(ValueTypeOf(f.type)) ELSE f.type

(* The fields of a declared record are of types that the gate would pass,  *)
(* though it does not look at them, and have names of their own.           *)
ASSUME RecordsAreGated ==
    \A r \in Recs :
        /\ Len(Records[r]) \in Nat /\ DOMAIN Records[r] = 1 .. Len(Records[r])
        /\ \A i \in DOMAIN Records[r] :
              /\ Records[r][i].type \in Types /\ Records[r][i].optional \in BOOLEAN
              /\ Gate(Records[r][i].type, FALSE, Recs)
              /\ FieldIsOptional(Records[r][i]) => SlotOf(Records[r][i]) \in Types
              /\ \A k \in DOMAIN Records[r] : Records[r][i].name = Records[r][k].name => i = k

(***************************************************************************)
(* The recursions.                                                         *)
(***************************************************************************)
ASSUME ValueTypeIsRecursive ==
    \A te \in Types : ValueTypeOf(te) = ValueTypeRule(ValueTypeOf, te)

ASSUME GateIsRecursive ==
    \A te \in Types, isReturn \in BOOLEAN, recs \in SUBSET Recs :
        Gate(te, isReturn, recs) = SupportedRule(Gate, ValueTypeOf, te, isReturn, recs)

ASSUME SpellingIsRecursive ==
    \A te \in Types, recs \in SUBSET Recs :
        SpellingOf(te, recs) = SpellingRule(SpellingOf, ValueTypeOf, te, recs)

(* The types that a provider can have, and how its unit spells them.       *)
Gated           == {te \in Types : \E recs \in SUBSET Recs : Gate(te, FALSE, recs)}
Spelled(te)     == SpellingOf(te, Recs)
FieldSpelled(f) == FieldSpelling(SpellingOf, ValueTypeOf, f, Recs)
Spellings       == {Spelled(te) : te \in Gated} \cup {OptionalOf(Spelled(te)) : te \in Gated}

ASSUME CodecIsRecursive ==
    \A t \in Spellings, j \in Wire : Strict(t, j) = FromJsonRule(Strict, FieldSpelled, t, j)

ASSUME ArgumentIsRecursive ==
    \A te \in Gated, j \in Wire :
        Decode(te, j) = ArgumentRule(Decode, Strict, ValueTypeOf, Spelled(te), te, j)

ASSUME InhabitantIsRecursive ==
    \A te \in Gated, j \in Wire :
        Inhabitant(te, j) = InhabitsRule(Inhabitant, ValueTypeOf, Spelled(te), te, j)

ASSUME HoldsIsRecursive ==
    \A te \in Gated, v \in Values : Holds(te, v) = HoldsRule(Holds, ValueTypeOf, Spelled, te, v)

ASSUME FitsIsWellTyped ==
    \A te \in Gated, j \in Wire :
        Fits(te, j) = WellTypedRule(Inhabitant, ValueTypeOf(te), Spelled(te), te, j)

(***************************************************************************)
(* The caller's side.                                                      *)
(***************************************************************************)
(* No record has the name of a Qt type: recordShape would take one for the *)
(* other.                                                                  *)
ASSUME RecordNamesAreTheirOwn ==
    Recs \cap ({QtOf[n] : n \in DOMAIN QtOf}
                \cup {"QVariant", "QVariantList", "QVariantMap", "QStringList"}) = {}

ASSUME QtNameIsRecursive ==
    \A te \in Types :
        /\ BottomsOut(te) = BottomsOutRule(BottomsOut, ValueTypeOf, te)
        /\ QtNameOf(te) = QtRule(QtNameOf, BottomsOut, ValueTypeOf, te)

Wrapping(te)     == TypeForLp(QtNameOf(te), Recs)
FieldWrapping(f) == FieldForLp(QtNameOf, ValueTypeOf, f, Recs)
Wrappings        == {Wrapping(te) : te \in Gated} \cup {<<"std::optional", Wrapping(te)>> : te \in Gated}

ASSUME WrappedIsRecursive ==
    \A t \in Wrappings, j \in Wire :
        Wrapped(t, j) = FromWireRule(Wrapped, Blank, FieldWrapping, t, j)

ASSUME BlankIsRecursive ==
    \A t \in Wrappings : t[1] # "struct" => Blank(t) = UnsetRule(Blank, FieldWrapping, t)

(* What a wrapper holds of a value it could send back.                     *)
ASSUME WrappedIsEncoded ==
    \A te \in Gated, v \in Values :
        Holds(te, v) =>
            LET w == Wrapped(Wrapping(te), Encode(v))
            IN  Encode(w) = EncodeRule(Encode, w) /\ Encode(w) \in Wire

(***************************************************************************)
(* The header parser.                                                      *)
(***************************************************************************)
ASSUME ReadingIsRecursive ==
    \A c \in Spellings \cup HeaderTypes :
        /\ CppTypeOf(c, Recs) = CppTypeRule(CppTypeOf, c, Recs)
        /\ \A emitted \in BOOLEAN :
              Reported(c, Recs, emitted) = UnsupportedRule(Reported, c, Recs, emitted)
        /\ Warned(c, Recs) = UnmappableRule(Warned, CppTypeOf, c, Recs)
        /\ NamesIn(c) = HeadsRule(NamesIn, c)

ASSUME MeaningIsRecursive ==
    /\ \A te \in Gated : MeaningOf(te) = InCppRule(MeaningOf, ValueTypeOf, te)
    /\ \A te \in Types : IsLoose(te) = HoldsAnyRule(IsLoose, te)

(***************************************************************************)
(* What is held, passed and read in an exchange.                           *)
(***************************************************************************)
ASSUME ReadIsWrapped ==
    \A te \in Gated, j \in Wire :
        /\ Read(te, j) = Wrapped(Wrapping(te), j)
        /\ Back(te, Read(te, j)) = Strict(Spelled(te), Encode(Read(te, j)))

(* An author's code holds values of the declared type.                     *)
ASSUME HeldIsTyped ==
    \A te \in Gated : \A v \in Held(te) : v \in Values /\ Holds(te, v)

(* A caller that passes what it would have read of a value means that one. *)
ASSUME PassableIsMeant ==
    \A te \in Gated : \A p \in Passable(te) :
        p[2] # Junk =>
            /\ p[2] \in Values /\ Holds(te, p[2])
            /\ p[1] = Read(te, Encode(p[2]))

(* A LogosResult is one type on both sides.                                *)
Outcome == Primitive("result")

ASSUME OutcomesAssumption ==
    \A v \in Held(Outcome) :
        /\ v = <<"result", v[2], v[3], v[4]>> /\ v[2] \in BOOLEAN
        /\ Encode(v) = EncodeRule(Encode, v)
        /\ Read(Outcome, Encode(v)) = StdResult(Encode(v))
        /\ Back(Outcome, StdResult(Encode(v))) = StdResult(Encode(v))

(***************************************************************************)
(* The contracts.                                                          *)
(***************************************************************************)
ASSUME ContractsAreGated ==
    \A c \in Contracts :
        /\ c[1].types \cup c[2].types \subseteq Recs
        /\ Providable(c[1]) =>
              \A i \in DOMAIN c[1].params :
                  c[1].params[i] \in Types /\ Gate(c[1].params[i], FALSE, c[1].types)
        /\ Providable(c[1]) /\ Callable(c[2]) => OnTheWire(c[2].params) \subseteq Wire
        /\ Callable(c[2]) =>
              \A r \in c[2].types : ~RecordCollidesRule(ValueTypeOf, Records[r])

(***************************************************************************)
(* Properties.                                                             *)
(***************************************************************************)
(* A spelling that the provider's unit gives to a type is free of Qt, and  *)
(* a header that uses it declares that type, without a report.             *)
ReadsBack(te, spelling) ==
    /\ NamesIn(spelling) \cap QtNames = {}
    /\ Reported(spelling, Recs, TRUE) = {}
    /\ CppTypeOf(spelling, Recs) = MeaningOf(te)

(* A header's spelling that is not reported is published as untyped only   *)
(* where it says so.  In a slot whose spelling the generator writes out it *)
(* writes the author's, unless the header uses an alias or was warned.     *)
PublishedAsWritten(c) ==
    LET te == CppTypeOf(c, Recs)
    IN  /\ Reported(c, Recs, FALSE) = {} /\ IsLoose(te) => NamesIn(c) \cap JsonNames # {}
        /\ Reported(c, Recs, TRUE) = {} /\ Warned(c, Recs) = {} /\ Gate(te, FALSE, Recs) =>
              Spelled(te) = c \/ NamesIn(c) \cap (QtNames \cup JsonNames) # {}

(* Gate, provider's spelling and header parser are three tables that agree *)
(* about the Qt-free subset: a provider generated from a contract and one  *)
(* whose header the contract was read from are the same provider.  (The    *)
(* gate does not look at the fields of records.)                           *)
SpellingsAgree ==
    /\ Generated =>
          /\ \A i \in DOMAIN provider.params :
                ReadsBack(provider.params[i], SpellingOf(provider.params[i], provider.types))
          /\ \A r \in provider.types : \A i \in DOMAIN Records[r] :
                LET f == Records[r][i]
                IN  Gate(f.type, FALSE, provider.types) =>
                       ReadsBack(SlotOf(f), FieldSpelling(SpellingOf, ValueTypeOf, f, provider.types))
    /\ stage = "declared" => \A c \in HeaderTypes : PublishedAsWritten(c)

(* No record of a caller's contract is a tagged byte string on the wire,   *)
(* but for one that is left with a _bytes field alone when its optional    *)
(* fields are empty, or that holds untyped JSON in that field.             *)
RecordsAreNotBytes ==
    Generated =>
        \A r \in {q \in caller.types : Named(q) \in Gated} : \A v \in Held(Named(r)) :
            IsTaggedBytes(Encode(v)) =>
                \E k \in Names(r) :
                    LET f == FieldOf(r, k)
                    IN  \/ FieldIsOptional(f) /\ v[2][k] = Empty
                        \/ Spelled(ValueTypeOf(f.type)) \in Untyped

(* A method's return that the gate looked at (a flagged map or list it     *)
(* does not), and of which no value has the form of a rejection.           *)
ReturnIsClear ==
    Same /\ provider.ret # NoReturn =>
        /\ provider.ret \in Gated \cup {Outcome}
        /\ \A v \in Held(provider.ret) : ~IsRejection(Encode(v))
=============================================================================
