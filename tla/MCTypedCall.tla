---------------------------- MODULE MCTypedCall -----------------------------
(***************************************************************************)
(* Instance of TypedCall for TLC: every type of the grammar two            *)
(* constructors deep as the parameter and the return of one method or      *)
(* event, callers generated from another type, and every list of up to two *)
(* parameters, required and optional, against every other.                 *)
(***************************************************************************)
EXTENDS TypedCall

FieldDecl(n, t, o) == [name |-> n, type |-> t, optional |-> o]

MCRecords ==
    [Rec     |-> <<FieldDecl("id", Primitive("tstr"), FALSE),
                   FieldDecl("raw", Primitive("bstr"), FALSE),
                   FieldDecl("flag", Primitive("uint"), TRUE),
                   FieldDecl("kind", Optional(Primitive("bstr")), FALSE),
                   FieldDecl("list", Optional(Array(Primitive("uint"))), FALSE)>>,
     Tag     |-> <<FieldDecl("_bytes", Optional(Primitive("tstr")), FALSE)>>,
     TagRest |-> <<FieldDecl("_bytes", Primitive("tstr"), FALSE),
                   FieldDecl("rest", Primitive("uint"), TRUE)>>]

tstr == Primitive("tstr")
Base == {Primitive(n) : n \in Scalars \cup Any} \cup {Named("Rec")}
Over(S) == S \cup {Optional(t) : t \in S} \cup {Array(t) : t \in S} \cup {MapOf(tstr, t) : t \in S}
Outside == {MapOf(Primitive("int"), tstr), Named("Undeclared"), Optional(Primitive("result"))}

Decl(kind, name, params, ret, types) ==
    [kind |-> kind, name |-> name, params |-> params, ret |-> ret, types |-> types]
Echo(t)  == Decl("method", "m", <<t>>, t, {"Rec"})
Event(s) == Decl("event", "e", s, NoReturn, {"Rec"})
Call(s)  == Decl("method", "m", s, NoReturn, {"Rec"})

Slot  == {tstr, Optional(tstr)}
Lists == UNION {[1 .. n -> Slot] : n \in 0 .. 2}

MCContracts ==
    {<<Echo(t), Echo(t)>> : t \in Over(Over(Base)) \cup Outside}
    \cup {<<Event(<<t>>), Event(<<t>>)>> : t \in Over(Base)}
    \cup {<<Echo(p), Echo(c)>> : p, c \in Base}
    \cup {<<Call(p), Call(c)>> : p, c \in Lists}
    \cup {<<Event(p), Event(c)>> : p, c \in UNION {[1 .. n -> {tstr}] : n \in 0 .. 2}}
    \cup {<<Decl("method", "m", <<>>, Primitive("result"), {}),
            Decl("method", "m", <<>>, Primitive("result"), {})>>,
          <<Echo(tstr), Decl("method", "gone", <<tstr>>, tstr, {"Rec"})>>}
    \cup {<<Decl("method", "m", <<Named(r)>>, Named(r), {r}),
            Decl("method", "m", <<Named(r)>>, Named(r), {r})>> : r \in {"Tag", "TagRest"}}

(* Every spelling two templates deep, and spellings without a type: a      *)
(* narrow integer, and a struct the header does not declare.               *)
Plainly == {a[1] : a \in Atoms} \cup {<<"struct", "Rec">>, <<"struct", "Undeclared">>, <<"uint32_t">>}
Templated(S) == S \cup {<<t, c>> : t \in Containers, c \in S}

MCHeaderTypes == Templated(Templated(Plainly))
=============================================================================
