---------------------------- MODULE WrapperRules ----------------------------
(***************************************************************************)
(* The Qt-free wrapper's side of a contract's types (generator_lib.cpp):   *)
(* the flat Qt names that lidl_to_json gives it for them, the spelling it  *)
(* derives from those names, and the lenient reads of its decoders; of the *)
(* recursive ones a level each, as in TypeRules.                           *)
(***************************************************************************)
EXTENDS TypeRules

(***************************************************************************)
(* The Qt names (lidl_emit_common.cpp).                                    *)
(***************************************************************************)
BottomsOutRule(B(_), V(_), te) ==
    CASE te.kind = "Primitive" -> te.name \notin Scalars \cup {"result", "void"}
      [] te.kind = "Named"     -> FALSE
      [] te.kind = "Array"     -> Len(te.elements) # 1 \/ B(te.elements[1])
      [] te.kind = "Map"       -> Len(te.elements) # 2 \/ B(te.elements[2])
      [] te.kind = "Optional"  -> te.elements = <<>> \/ B(V(te))

QtOf == [tstr |-> "QString", bstr |-> "QByteArray", int |-> "qlonglong", uint |-> "qulonglong",
         float64 |-> "double", bool |-> "bool", result |-> "LogosResult", void |-> "void"]

QtRule(Q(_), B(_), V(_), te) ==
    CASE te.kind = "Named" -> <<te.name>>
      [] te.kind = "Primitive" /\ te.name \in DOMAIN QtOf -> <<QtOf[te.name]>>
      [] te.kind = "Array" /\ B(te) -> <<"QVariantList">>
      [] te.kind = "Array" /\ ~B(te) ->
             IF IsPrimitive(te.elements[1], {"tstr"}) THEN <<"QStringList">>
             ELSE <<"QList", Q(te.elements[1])>>
      [] te.kind = "Map" /\ B(te) -> <<"QVariantMap">>
      [] te.kind = "Map" /\ ~B(te) -> <<"QMap", Q(te.elements[2])>>
      [] te.kind = "Optional" /\ ~B(te) -> <<"std::optional", Q(V(te))>>
      [] OTHER -> <<"QVariant">>

(***************************************************************************)
(* The caller's spelling, from a flat Qt name.  The wrapper generator sees *)
(* names and no tree: what it has no row for is untyped JSON.              *)
(***************************************************************************)
LegacyQtBase(q) ==
    CASE q[1] = "QList"         -> <<"QVariantList">>
      [] q[1] = "QMap"          -> <<"QVariantMap">>
      [] q[1] = "std::optional" -> <<"QVariant">>
      [] OTHER                  -> q

LpOf == [QString |-> "std::string", QStringList |-> "QStringList", QByteArray |-> "bytes",
         QVariantList |-> "LogosList", QVariantMap |-> "LogosMap", QVariant |-> "any",
         qlonglong |-> "int64_t", qulonglong |-> "uint64_t", double |-> "double",
         bool |-> "bool", void |-> "void", LogosResult |-> "StdLogosResult"]

(* mapReturnType and mapReturnTypeStd; "any" marks the QVariant that       *)
(* lpFromJsonExpr passes through, a LogosMap like the map otherwise, and   *)
(* "QStringList" the vector of strings with a decoder of its own.          *)
ReturnTypeStd(q) ==
    LET base == LegacyQtBase(q)
    IN  IF Len(base) = 1 /\ base[1] \in DOMAIN LpOf THEN <<LpOf[base[1]]>> ELSE <<"any">>

(* recordShape: a record, a list or a map of one, and no deeper.           *)
RecordShape(q, recs) ==
    CASE Len(q) = 1 /\ q[1] \in recs -> <<"Scalar", q[1]>>
      [] Len(q) = 2 /\ Len(q[2]) = 1 /\ q[2][1] \in recs /\ q[1] = "QList" -> <<"List", q[2][1]>>
      [] Len(q) = 2 /\ Len(q[2]) = 1 /\ q[2][1] \in recs /\ q[1] = "QMap"  -> <<"Map", q[2][1]>>
      [] OTHER -> <<"None">>

(* paramTypeFor and returnTypeFor on the Qt-free surface.                  *)
TypeForLp(q, recs) ==
    LET shape == RecordShape(q, recs)
    IN  CASE shape[1] = "None"   -> ReturnTypeStd(q)
          [] shape[1] = "Scalar" -> <<"struct", shape[2]>>
          [] shape[1] = "List"   -> <<"std::vector", <<"struct", shape[2]>>>>
          [] shape[1] = "Map"    -> <<"std::map", <<"struct", shape[2]>>>>

(* fieldTypeFor, from what moduleRecordsToJson says of a field.            *)
AlreadyNullable(t) == t[1] \in {"LogosMap", "LogosList", "any"}

FieldForLp(Q(_), V(_), f, recs) ==
    LET value == TypeForLp(Q(V(f.type)), recs)
    IN  IF FieldIsOptional(f) /\ ~AlreadyNullable(value)
        THEN <<"std::optional", value>> ELSE value

(***************************************************************************)
(* The caller decodes leniently: what does not fit becomes a default, and  *)
(* a number is converted as C++ converts it.                               *)
(***************************************************************************)
Default(t) ==
    CASE t = "std::string" -> <<"str", "">>
      [] t = "bool"        -> <<"bool", FALSE>>
      [] t \in {"int64_t", "uint64_t"} -> <<"int", 0>>
      [] t = "double"      -> <<"float", 0>>
      [] t = "bytes"       -> <<"bytes", "">>
      [] t = "QStringList" -> <<"vec", <<>>>>
      [] t = "LogosMap"    -> <<"json", Obj([k \in {} |-> Null])>>
      [] t = "LogosList"   -> <<"json", Arr(<<>>)>>
      [] t = "StdLogosResult" -> <<"result", FALSE, Null, "expected a result object">>
      [] OTHER             -> <<"json", Null>>

Trunc(n) == IF n >= 0 THEN n \div 10 ELSE -((-n) \div 10)

(* static_cast to the wrapper's integer: a negative number wraps in the    *)
(* unsigned one.                                                           *)
Converted(t, n) == <<"int", IF t = "uint64_t" THEN n % Width ELSE n>>

UntypedLp(t, j) ==
    IF (t = "LogosMap" => j[1] = "obj") /\ (t = "LogosList" => j[1] = "arr")
    THEN <<"json", j>> ELSE Default(t)

(* jsonToStringVec: what is not a string is left out.                      *)
Strings(s)   == SelectSeq(s, LAMBDA e : e[1] = "str")
StringsOf(s) == IF \A i \in DOMAIN s : s[i][1] = "str" THEN s ELSE Strings(s)

(* jsonToStdResult.                                                        *)
StdResult(j) ==
    IF j[1] # "obj" THEN Default("StdLogosResult")
    ELSE LET o == j[2]
             Is(k, tag) == At(o, k)[1] = tag
         IN  <<"result",
               IF Is("success", "bool") THEN o["success"][2] ELSE FALSE,
               At(o, "value"),
               IF Is("error", "str") THEN o["error"][2] ELSE "">>

(* lpFromJsonExpr: one value of a type with no record in it.               *)
LpFromJson(t, j) ==
    CASE t \in {"std::string", "bool"} -> IF Scalar(t, j) # Fail THEN j ELSE Default(t)
      [] t \in {"int64_t", "uint64_t"} ->
             CASE j[1] = "int"   -> Converted(t, j[2])
               [] j[1] = "float" -> Converted(t, Trunc(j[2]))
               [] OTHER          -> Default(t)
      [] t \in {"double", "bytes"} -> IF Scalar(t, j) # Fail THEN Scalar(t, j) ELSE Default(t)
      [] t = "QStringList" -> IF j[1] # "arr" THEN Default(t) ELSE <<"vec", StringsOf(j[2])>>
      [] t = "StdLogosResult" -> StdResult(j)
      [] OTHER -> UntypedLp(t, j)

(* A struct's field before anything was decoded into it.                   *)
UnsetRule(U(_), FieldType(_), t) ==
    CASE t[1] = "std::optional" -> Empty
      [] t[1] = "struct"        ->
             <<"struct", [k \in Names(t[2]) |-> U(FieldType(FieldOf(t[2], k)))]>>
      [] t[1] = "std::vector"   -> <<"vec", <<>>>>
      [] t[1] = "std::map"      -> <<"map", [k \in {} |-> Null]>>
      [] OTHER                  -> IF AlreadyNullable(t) THEN <<"json", Null>> ELSE Default(t[1])

(* fromWireFor on the Qt-free surface, with the record conversions.        *)
FromWireRule(W(_, _), U(_), FieldType(_), t, j) ==
    CASE t[1] = "std::optional" -> IF j = Null THEN Empty ELSE W(t[2], j)
      [] t[1] = "std::vector" ->
             IF j[1] # "arr" THEN U(t) ELSE <<"vec", [i \in DOMAIN j[2] |-> W(t[2], j[2][i])]>>
      [] t[1] = "std::map" ->
             IF j[1] # "obj" THEN U(t) ELSE <<"map", [k \in DOMAIN j[2] |-> W(t[2], j[2][k])]>>
      [] t[1] = "struct" ->
             LET o == IF j[1] = "obj" THEN j[2] ELSE [k \in {} |-> Null]
                 Of(k) == FieldType(FieldOf(t[2], k))
             IN  <<"struct", [k \in Names(t[2]) |->
                                IF k \in DOMAIN o THEN W(Of(k), o[k]) ELSE U(Of(k))]>>
      [] OTHER -> LpFromJson(t[1], j)
=============================================================================
