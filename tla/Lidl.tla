-------------------------------- MODULE Lidl --------------------------------
(***************************************************************************)
(* The types of a contract and what the generator makes of them: the       *)
(* provider's gate and C++ spelling (lidl_gen_cdylib.cpp), the Qt names    *)
(* (lidl_emit_common.cpp) that lidl_to_json flattens a contract to, and    *)
(* the spelling the Qt-free wrapper of a caller derives from those names   *)
(* (generator_lib.cpp).                                                    *)
(* The rules of the provider's side are TypeRules'.                        *)
(***************************************************************************)
EXTENDS WrapperRules

RECURSIVE OptionalValueType(_)
OptionalValueType(te) == ValueTypeRule(OptionalValueType, te)

FieldValueType(f) == OptionalValueType(f.type)

(* The gate.                                                               *)
RECURSIVE TypeSupported(_, _, _)
TypeSupported(te, isReturn, recs) ==
    SupportedRule(TypeSupported, OptionalValueType, te, isReturn, recs)

RecordCollidesWithBytesTag(fields) == RecordCollidesRule(OptionalValueType, fields)

(* The provider's C++ spelling.                                            *)
RECURSIVE TypeToStdCdylib(_, _)
TypeToStdCdylib(te, recs) == SpellingRule(TypeToStdCdylib, OptionalValueType, te, recs)

FieldTypeCdylib(f, recs) == FieldSpelling(TypeToStdCdylib, OptionalValueType, f, recs)

(* The Qt names, and the caller's spelling of a field.                     *)
RECURSIVE BottomsOutAtAny(_), TypeToQt(_)
BottomsOutAtAny(te) == BottomsOutRule(BottomsOutAtAny, OptionalValueType, te)
TypeToQt(te)        == QtRule(TypeToQt, BottomsOutAtAny, OptionalValueType, te)

FieldTypeForLp(f, recs) == FieldForLp(TypeToQt, OptionalValueType, f, recs)
=============================================================================
