---------------------------- MODULE HeaderRules -----------------------------
(***************************************************************************)
(* The type a C++ declaration in a module's header has in the contract:    *)
(* cppTypeToLidl of impl_header_parser.cpp, one level of its recursions,   *)
(* and beside them the reference of what a type means in C++.  It answers  *)
(* a type for every spelling, and reports the ones that have none; whether *)
(* a report refuses the header is HeaderScan's subject.  CppTypes closes   *)
(* the rules.                                                              *)
(*                                                                         *)
(* A spelling is a tuple as in TypeRules, without const and reference.  A  *)
(* map has std::string keys: with another key it is an unknown spelling.   *)
(***************************************************************************)
EXTENDS TypeRules

AnyJson   == Primitive("any")
AnyObject == MapOf(Primitive("tstr"), AnyJson)
AnyList   == Array(AnyJson)

(* The spellings without arguments.  "bytes" is std::vector<uint8_t>.      *)
Atoms ==
    {<<<<"bool">>,           Primitive("bool")>>,
     <<<<"int64_t">>,        Primitive("int")>>,
     <<<<"uint64_t">>,       Primitive("uint")>>,
     <<<<"double">>,         Primitive("float64")>>,
     <<<<"void">>,           Primitive("void")>>,
     <<<<"std::string">>,    Primitive("tstr")>>,
     <<<<"bytes">>,          Primitive("bstr")>>,
     <<<<"QVariantMap">>,    AnyObject>>,
     <<<<"QVariantList">>,   AnyList>>,
     <<<<"QStringList">>,    Array(Primitive("tstr"))>>,
     <<<<"LogosMap">>,       AnyObject>>,
     <<<<"LogosList">>,      AnyList>>,
     <<<<"nlohmann::json">>, AnyJson>>,
     <<<<"StdLogosResult">>, Primitive("result")>>}

IsAtom(c) == \E a \in Atoms : a[1] = c
AtomOf(c) == (CHOOSE a \in Atoms : a[1] = c)[2]

Maps       == {"std::map", "std::unordered_map"}
Containers == Maps \cup {"std::vector", "std::optional"}

IsContainer(c)      == Len(c) = 2 /\ c[1] \in Containers
IsDeclared(c, recs) == Len(c) = 2 /\ c[1] = "struct" /\ c[2] \in recs

(* std::optional<std::optional<T>> is published as ?T, with a warning.     *)
Collapsed(inner) == IF IsOptional(inner) THEN inner ELSE Optional(inner)

CppTypeRule(L(_, _), c, recs) ==
    LET inner == L(c[2], recs)
    IN  CASE IsAtom(c) -> AtomOf(c)
          [] IsContainer(c) /\ c[1] = "std::vector"   -> Array(inner)
          [] IsContainer(c) /\ c[1] \in Maps          -> MapOf(Primitive("tstr"), inner)
          [] IsContainer(c) /\ c[1] = "std::optional" -> Collapsed(inner)
          [] IsDeclared(c, recs) -> Named(c[2])
          [] OTHER -> AnyJson

(* What is reported: a spelling without a type, and a map in a slot whose  *)
(* spelling the generator writes out, if it is not the one it writes.      *)
NoType(c, recs) == ~IsAtom(c) /\ ~IsContainer(c) /\ ~IsDeclared(c, recs)

\* Fault: the report is made in the slots where the author's spelling stays.
ContainerClashElsewhere(c, nameEmitted) == c[1] = "std::unordered_map" /\ ~nameEmitted

ContainerClash(c, nameEmitted) == c[1] = "std::unordered_map" /\ nameEmitted

UnsupportedRule(U(_, _, _), c, recs, nameEmitted) ==
    (IF NoType(c, recs) \/ ContainerClash(c, nameEmitted) THEN {c} ELSE {})
        \cup IF IsContainer(c) THEN U(c[2], recs, nameEmitted) ELSE {}

(* The nested optionals that are warned about.                             *)
UnmappableRule(M(_, _), L(_, _), c, recs) ==
    IF ~IsContainer(c) THEN {}
    ELSE M(c[2], recs)
             \cup IF c[1] = "std::optional" /\ IsOptional(L(c[2], recs)) THEN {c} ELSE {}

(***************************************************************************)
(* Reference: what a type means in C++, which cannot tell every type apart.*)
(* Untyped JSON that is not a list is an object, and empty as it is.       *)
(***************************************************************************)
InCppRule(I(_), V(_), te) ==
    CASE IsPrimitive(te, Any) -> AnyObject
      [] te.kind = "Array"    -> IF te = AnyList THEN te ELSE Array(I(te.elements[1]))
      [] te.kind = "Map"      -> IF te = AnyObject THEN te
                                 ELSE MapOf(te.elements[1], I(te.elements[2]))
      [] IsOptional(te)       -> LET value == I(V(te))
                                 IN  IF value \in {AnyObject, AnyList} THEN value ELSE Optional(value)
      [] OTHER -> te

HoldsAnyRule(H(_), te) ==
    IsPrimitive(te, Any) \/ \E i \in DOMAIN te.elements : H(te.elements[i])

(* The templates, aliases and names of a spelling.                         *)
HeadsRule(H(_), c) == {c[1]} \cup IF Len(c) = 2 /\ c[1] # "struct" THEN H(c[2]) ELSE {}

QtNames   == {"QVariant", "QVariantList", "QVariantMap", "QStringList", "LogosResult"}
JsonNames == {"nlohmann::json", "LogosMap", "LogosList", "QVariantMap", "QVariantList"}
=============================================================================
