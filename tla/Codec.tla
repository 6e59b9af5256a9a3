------------------------------- MODULE Codec --------------------------------
(***************************************************************************)
(* Values on the wire and in C++, and the conversions the generated code   *)
(* makes between them: the provider's strict ones (lidl_gen_cdylib.cpp)    *)
(* and the caller's lenient ones (generator_lib.cpp, logos_lp_client.h).   *)
(***************************************************************************)
EXTENDS Lidl

RECURSIVE ToJson(_)
ToJson(v) == EncodeRule(ToJson, v)

(***************************************************************************)
(* The provider decodes strictly.                                          *)
(***************************************************************************)
RECURSIVE FromJson(_, _)
FromJson(t, j) ==
    LET FieldType(f) == FieldTypeCdylib(f, Recs)
    IN  FromJsonRule(FromJson, FieldType, t, j)

RECURSIVE JsonArgToStd(_, _)
JsonArgToStd(te, j) ==
    ArgumentRule(JsonArgToStd, FromJson, OptionalValueType, TypeToStdCdylib(te, Recs), te, j)

(***************************************************************************)
(* The caller decodes leniently.                                           *)
(***************************************************************************)
RECURSIVE Unset(_)
Unset(t) ==
    LET FieldType(f) == FieldTypeForLp(f, Recs) IN UnsetRule(Unset, FieldType, t)

RECURSIVE FromWire(_, _)
FromWire(t, j) ==
    LET FieldType(f) == FieldTypeForLp(f, Recs)
    IN  FromWireRule(FromWire, Unset, FieldType, t, j)

(* What a caller holds of a wire value of the contract's type.             *)
Receive(te, j) == FromWire(TypeForLp(TypeToQt(te), Recs), j)
=============================================================================
