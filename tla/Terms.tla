------------------------------- MODULE Terms --------------------------------
(***************************************************************************)
(* The words the models of a contract have in common: types as the         *)
(* frontend's TypeExpr writes them, JSON values as tagged tuples, and the  *)
(* two C++ values that are no value, an empty optional and a failure.      *)
(***************************************************************************)
Primitive(n) == [kind |-> "Primitive", name |-> n, elements |-> <<>>]
Named(n)     == [kind |-> "Named",     name |-> n, elements |-> <<>>]
Array(t)     == [kind |-> "Array",     name |-> "", elements |-> <<t>>]
MapOf(k, t)  == [kind |-> "Map",       name |-> "", elements |-> <<k, t>>]
Optional(t)  == [kind |-> "Optional",  name |-> "", elements |-> <<t>>]

IsOptional(te)      == te.kind = "Optional"
IsPrimitive(te, ns) == te.kind = "Primitive" /\ te.name \in ns

Null    == <<"null">>
Obj(f)  == <<"obj", f>>
Arr(s)  == <<"arr", s>>
Empty   == <<"nullopt">>
Fail    == <<"fail">>
=============================================================================
