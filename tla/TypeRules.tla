----------------------------- MODULE TypeRules ------------------------------
(***************************************************************************)
(* The Qt-free provider's recursions over types (lidl_gen_cdylib.cpp), one *)
(* level of each: the gate, the C++ spelling, the strict codec and the     *)
(* arguments, and beside them the reference of what fits a type.  What the *)
(* recursion makes of the parts of a type is an operator parameter.  Lidl, *)
(* Codec and TypedCall close these rules; AnyDepth states what follows     *)
(* from them for types of any depth.                                       *)
(*                                                                         *)
(* A type is the frontend's TypeExpr.  A spelling, C++ or Qt, is a tuple:  *)
(* the template's name and its arguments, so that <<"QList", <<"uint">>>>  *)
(* stands for the text "QList<uint>".  JSON and C++ values are tagged      *)
(* tuples; floats count tenths; objects, maps and structs are functions    *)
(* from keys.                                                              *)
(***************************************************************************)
EXTENDS Integers, Sequences, Terms

CONSTANTS Records,  \* the record declarations: name -> sequence of fields
          Width     \* bound: the values of the scaled-down unsigned integer

ASSUME WidthAssumption == Width \in Nat \ {0}

Recs == DOMAIN Records

Field(r, k)  == CHOOSE i \in DOMAIN Records[r] : Records[r][i].name = k
Names(r)     == {Records[r][i].name : i \in DOMAIN Records[r]}
FieldOf(r,k) == Records[r][Field(r, k)]

Any     == {"any"}
Scalars == {"tstr", "bstr", "int", "uint", "float64", "bool"}
Untyped == {<<"LogosMap">>, <<"LogosList">>}

(* The frontend's accessors.  ??T is ?T; a field is optional by its flag   *)
(* or by its type.                                                         *)
ValueTypeRule(V(_), te) ==
    IF te.kind = "Optional" /\ te.elements # <<>> THEN V(te.elements[1]) ELSE te

FieldIsOptional(f) == f.optional \/ IsOptional(f.type)

(***************************************************************************)
(* The gate: what the Qt-free provider can express.                        *)
(***************************************************************************)
IsRecord(te, recs) == te.kind = "Named" /\ te.name \in recs

PrimitiveSupported(te, isReturn) ==
    \/ IsPrimitive(te, Scalars \cup Any)
    \/ isReturn /\ IsPrimitive(te, {"result", "void"})

SupportedRule(S(_, _, _), V(_), te, isReturn, recs) ==
    \/ PrimitiveSupported(te, isReturn)
    \/ IsRecord(te, recs)
    \/ te.kind = "Optional" /\ te.elements # <<>> /\ S(V(te), FALSE, recs)
    \/ te.kind = "Array" /\ Len(te.elements) = 1 /\ S(te.elements[1], FALSE, recs)
    \/ /\ te.kind = "Map" /\ Len(te.elements) = 2
       /\ IsPrimitive(te.elements[1], {"tstr"})
       /\ S(te.elements[2], FALSE, recs)

\* Fault: only one of the two spellings of an optional field is seen through.
IsBytesTagAsSpelled(f, vt) == f.name = "_bytes" /\ IsPrimitive(f.type, {"tstr"})

(* A record whose only field is a tstr named _bytes is, on the wire, a     *)
(* tagged byte string.                                                     *)
IsBytesTag(f, vt) == f.name = "_bytes" /\ IsPrimitive(vt, {"tstr"})

RecordCollidesRule(V(_), fields) ==
    Len(fields) = 1 /\ IsBytesTag(fields[1], V(fields[1].type))

(***************************************************************************)
(* The provider's C++ spelling.                                            *)
(***************************************************************************)
(* lidlTypeToStd, as far as lidlTypeToStdCdylib falls back on it.          *)
StdOf == [tstr |-> "std::string", bstr |-> "bytes", int |-> "int64_t", uint |-> "uint64_t",
          float64 |-> "double", bool |-> "bool", result |-> "LogosResult"]

TypeToStd(te) ==
    IF te.kind = "Primitive" /\ te.name \in DOMAIN StdOf THEN <<StdOf[te.name]>>
    ELSE IF te.kind = "Array" /\ Len(te.elements) = 1 THEN <<"QVariantList">>
    ELSE IF te.kind = "Map" THEN <<"QVariantMap">>
    ELSE <<"QVariant">>

OptionalOf(inner) == IF inner \in Untyped THEN inner ELSE <<"std::optional", inner>>

SpellingRule(C(_, _), V(_), te, recs) ==
    LET Elem(i) == te.elements[i]
        Has(n)  == Len(te.elements) = n
    IN  CASE te.kind = "Optional" /\ te.elements # <<>> -> OptionalOf(C(V(te), recs))
          [] IsPrimitive(te, Any) -> <<"LogosMap">>
          [] te.kind = "Map" /\ Has(2) /\ IsPrimitive(Elem(2), Any) -> <<"LogosMap">>
          [] te.kind = "Map" /\ Has(2) /\ ~IsPrimitive(Elem(2), Any) ->
                 <<"std::map", C(Elem(2), recs)>>
          [] te.kind = "Array" /\ Has(1) /\ IsPrimitive(Elem(1), Any) -> <<"LogosList">>
          [] te.kind = "Array" /\ Has(1) /\ ~IsPrimitive(Elem(1), Any) ->
                 <<"std::vector", C(Elem(1), recs)>>
          [] IsRecord(te, recs) -> <<"struct", te.name>>
          [] OTHER -> TypeToStd(te)

(* lidlFieldTypeCdylib: both spellings of an optional field are one type.  *)
FieldSpelling(C(_, _), V(_), f, recs) ==
    IF FieldIsOptional(f) THEN OptionalOf(C(V(f.type), recs)) ELSE C(f.type, recs)

(***************************************************************************)
(* Encoding: the same on both sides.  A value's shape decides.             *)
(***************************************************************************)
\* Fault: bytes leave as the plain string they hold, without their tag.
TagBytesNot(b) == <<"str", b>>

TagBytes(b) == Obj([k \in {"_bytes"} |-> <<"str", b>>])

EncodeRule(E(_), v) ==
    CASE v[1] = "nullopt" -> Null
      [] v[1] = "bytes"   -> TagBytes(v[2])
      [] v[1] = "json"    -> v[2]
      [] v[1] = "vec"     -> Arr([i \in DOMAIN v[2] |-> E(v[2][i])])
      [] v[1] = "map"     -> Obj([k \in DOMAIN v[2] |-> E(v[2][k])])
      [] v[1] = "struct"  ->
             LET present == {k \in DOMAIN v[2] : v[2][k] # Empty}
             IN  Obj([k \in present |-> E(v[2][k])])
      [] v[1] = "result"  ->
             Obj([k \in {"success", "value", "error"} |->
                    CASE k = "success" -> <<"bool", v[2]>>
                      [] k = "value"   -> v[3]
                      [] k = "error"   -> IF v[4] = "" THEN Null ELSE <<"str", v[4]>>])
      [] OTHER            -> v

(***************************************************************************)
(* The provider decodes strictly.                                          *)
(***************************************************************************)
IsTaggedBytes(j) ==
    j[1] = "obj" /\ DOMAIN j[2] = {"_bytes"} /\ j[2]["_bytes"][1] = "str"

(* A member of an object; an absent key is materialised as null.           *)
At(o, k) == IF k \in DOMAIN o THEN o[k] ELSE Null

Whole(n) == n % 10 = 0

Integer(j) == IF j[1] = "int" THEN j
              ELSE IF j[1] = "float" /\ Whole(j[2]) THEN <<"int", j[2] \div 10>>
              ELSE Fail

\* Fault: nlohmann's accessor is used as it is: a negative number wraps.
UnsignedWrapping(j) ==
    IF Integer(j) = Fail THEN Fail ELSE <<"int", Integer(j)[2] % Width>>

Unsigned(j) == IF Integer(j) # Fail /\ Integer(j)[2] >= 0 THEN Integer(j) ELSE Fail

Scalar(t, j) ==
    CASE t = "std::string" -> IF j[1] = "str" THEN j ELSE Fail
      [] t = "bool"        -> IF j[1] = "bool" THEN j ELSE Fail
      [] t = "int64_t"     -> Integer(j)
      [] t = "uint64_t"    -> Unsigned(j)
      [] t = "double"      -> IF j[1] = "int" THEN <<"float", 10 * j[2]>>
                              ELSE IF j[1] = "float" THEN j ELSE Fail
      [] t = "bytes"       -> IF IsTaggedBytes(j) THEN <<"bytes", j[2]["_bytes"][2]>> ELSE Fail

(* All of a container's members decoded, or Fail.                          *)
AllOf(tag, f) == IF \E k \in DOMAIN f : f[k] = Fail THEN Fail ELSE <<tag, f>>

(* logos::fromJson<T> and the record codecs the provider generates.        *)
FromJsonRule(F(_, _), FieldType(_), t, j) ==
    CASE t \in Untyped -> <<"json", j>>
      [] t[1] = "std::optional" -> IF j = Null THEN Empty ELSE F(t[2], j)
      [] t[1] = "std::vector" ->
             IF j[1] # "arr" THEN Fail
             ELSE AllOf("vec", [i \in DOMAIN j[2] |-> F(t[2], j[2][i])])
      [] t[1] = "std::map" ->
             IF j[1] # "obj" THEN Fail
             ELSE AllOf("map", [k \in DOMAIN j[2] |-> F(t[2], j[2][k])])
      [] t[1] = "struct" ->
             IF j[1] # "obj" THEN Fail
             ELSE AllOf("struct",
                        [k \in Names(t[2]) |-> F(FieldType(FieldOf(t[2], k)), At(j[2], k))])
      [] OTHER -> Scalar(t[1], j)

(* logos::bytesFromJsonLenient, for a scalar bstr argument.                *)
BytesLenient(j) ==
    IF IsTaggedBytes(j) THEN <<"bytes", j[2]["_bytes"][2]>>
    ELSE IF j[1] \in {"str", "int", "arr"} THEN <<"bytes", "coerced">>
    ELSE Fail

(* jsonArgToStd: how one argument becomes the author's type.               *)
ArgumentRule(A(_, _), F(_, _), V(_), cpp, te, j) ==
    CASE IsOptional(te) /\ cpp \in Untyped -> A(V(te), j)
      [] IsOptional(te) /\ IsPrimitive(V(te), {"bstr"}) ->
             IF j = Null THEN Empty ELSE BytesLenient(j)
      [] IsPrimitive(te, {"bstr"}) -> BytesLenient(j)
      [] IsPrimitive(te, Any) -> <<"json", j>>
      [] ~IsOptional(te) /\ cpp = <<"LogosList">> ->
             IF j[1] = "arr" THEN <<"json", j>> ELSE Fail
      [] te.kind = "Map" /\ cpp = <<"LogosMap">> ->
             IF j[1] = "obj" THEN <<"json", j>> ELSE Fail
      [] OTHER -> F(cpp, j)

(***************************************************************************)
(* Reference: which JSON values inhabit a type.  A container of untyped    *)
(* values inside another type is itself untyped: its C++ alias is that of  *)
(* any JSON.                                                               *)
(***************************************************************************)
InhabitsRule(I(_, _), V(_), cpp, te, j) ==
    LET Elem == te.elements[Len(te.elements)]
        Typed ==
          CASE IsPrimitive(te, {"tstr"})        -> j[1] = "str"
            [] IsPrimitive(te, {"bool"})        -> j[1] = "bool"
            [] IsPrimitive(te, {"bstr"})        -> IsTaggedBytes(j)
            [] IsPrimitive(te, {"float64"})     -> j[1] \in {"int", "float"}
            [] IsPrimitive(te, {"int", "uint"}) ->
                   /\ j[1] = "int" \/ (j[1] = "float" /\ j[2] % 10 = 0)
                   /\ te.name = "uint" => j[2] >= 0
            [] te.kind = "Optional" -> j = Null \/ I(V(te), j)
            [] te.kind = "Array"    -> j[1] = "arr" /\ \A i \in DOMAIN j[2] : I(Elem, j[2][i])
            [] te.kind = "Map"      -> j[1] = "obj" /\ \A k \in DOMAIN j[2] : I(Elem, j[2][k])
            [] te.kind = "Named"    ->
                   /\ j[1] = "obj"
                   /\ \A k \in Names(te.name) :
                         \/ I(FieldOf(te.name, k).type, At(j[2], k))
                         \/ FieldIsOptional(FieldOf(te.name, k)) /\ At(j[2], k) = Null
    IN  cpp \notin Untyped => Typed

(* An argument's container is checked for its shape, whatever it contains, *)
(* and a scalar bstr is taken in three more forms.                         *)
ArgumentInhabitsRule(I(_, _), vt, te, j) ==
    \/ IsOptional(te) /\ j = Null
    \/ IsPrimitive(vt, {"bstr"}) /\ j[1] \in {"str", "int", "arr"}
    \/ /\ I(vt, j)
       /\ vt.kind = "Array" => j[1] = "arr"
       /\ vt.kind = "Map"   => j[1] = "obj"

(* The one case in which null is refused where the type is optional: the   *)
(* container is untyped JSON, and its shape is checked before its          *)
(* emptiness.                                                              *)
NullRefusedRule(vt, cpp, te, j) ==
    j = Null /\ IsOptional(te) /\ cpp \in Untyped /\ ~IsPrimitive(vt, Any)

WellTypedRule(I(_, _), vt, cpp, te, j) ==
    ArgumentInhabitsRule(I, vt, te, j) /\ ~NullRefusedRule(vt, cpp, te, j)

(***************************************************************************)
(* Reference: which C++ values an author's code may hold of a type.  An    *)
(* untyped list holds a list.  An optional field of a record that is an    *)
(* untyped list or map is not empty: its null is not told from a value.    *)
(***************************************************************************)
Pair(tag, v)  == v[1] = tag /\ v = <<tag, v[2]>>
Parts(tag, v) == Pair(tag, v) /\ v[2] = [k \in DOMAIN v[2] |-> v[2][k]]

HoldsRule(H(_, _), V(_), Cpp(_), te, v) ==
    LET Elem == te.elements[Len(te.elements)]
        OfField(f, x) ==
            \/ H(V(f.type), x)
            \/ FieldIsOptional(f) /\ x = Empty /\ Cpp(V(f.type)) \notin Untyped
        Shaped ==
            /\ Pair("json", v)
            /\ te.kind = "Array" => v[2][1] = "arr"
            /\ te.kind = "Map"   => v[2][1] = "obj"
        Typed ==
          CASE IsPrimitive(te, {"tstr"})    -> Pair("str", v)
            [] IsPrimitive(te, {"bool"})    -> Pair("bool", v)
            [] IsPrimitive(te, {"bstr"})    -> Pair("bytes", v)
            [] IsPrimitive(te, {"float64"}) -> Pair("float", v) /\ v[2] \in Int
            [] IsPrimitive(te, {"int"})     -> Pair("int", v) /\ v[2] \in Int
            [] IsPrimitive(te, {"uint"})    -> Pair("int", v) /\ v[2] \in 0 .. Width - 1
            [] te.kind = "Array" -> Parts("vec", v) /\ \A i \in DOMAIN v[2] : H(Elem, v[2][i])
            [] te.kind = "Map"   -> Parts("map", v) /\ \A k \in DOMAIN v[2] : H(Elem, v[2][k])
            [] te.kind = "Named" ->
                   /\ Parts("struct", v) /\ DOMAIN v[2] = Names(te.name)
                   /\ \A k \in Names(te.name) : OfField(FieldOf(te.name, k), v[2][k])
    IN  IF IsOptional(te)
        THEN v = (IF Cpp(te) \in Untyped THEN <<"json", Null>> ELSE Empty) \/ H(V(te), v)
        ELSE IF Cpp(te) \in Untyped THEN Shaped ELSE Typed
=============================================================================
