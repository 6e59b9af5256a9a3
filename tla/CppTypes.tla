------------------------------ MODULE CppTypes ------------------------------
(***************************************************************************)
(* cppTypeToLidl of impl_header_parser.cpp: the type of a spelling, the    *)
(* spellings in it that are reported, and those that are warned about.     *)
(* The rules are HeaderRules'.                                             *)
(***************************************************************************)
EXTENDS Lidl, HeaderRules

RECURSIVE CppTypeToLidl(_, _)
CppTypeToLidl(c, recs) == CppTypeRule(CppTypeToLidl, c, recs)

RECURSIVE Unsupported(_, _, _)
Unsupported(c, recs, nameEmitted) == UnsupportedRule(Unsupported, c, recs, nameEmitted)

RECURSIVE Unmappable(_, _)
Unmappable(c, recs) == UnmappableRule(Unmappable, CppTypeToLidl, c, recs)
=============================================================================
