----------------------------- MODULE MCAnyDepth -----------------------------
(***************************************************************************)
(* Instance of TypedCall for TLC in which the assumptions of AnyDepth are  *)
(* evaluated as well: its unknown operators are the recursive ones of      *)
(* Lidl, CppTypes, Codec and TypedCall.                                    *)
(***************************************************************************)
EXTENDS MCTypedCall, AnyDepth

(* Every type and value that the contracts come to, with its parts.  TLC   *)
(* keeps the value of a definition, not of what replaces a constant.       *)
Deepest(S) == IF S = {} THEN 0 ELSE CHOOSE n \in S : \A k \in S : k <= n

RECURSIVE WithParts(_), RankOf(_)
WithParts(te) == {te} \cup UNION {WithParts(te.elements[i]) : i \in DOMAIN te.elements}
RankOf(te)    == 1 + Deepest({RankOf(te.elements[i]) : i \in DOMAIN te.elements})

RECURSIVE NestingOf(_)
NestingOf(c) == IF IsContainer(c) THEN 1 + NestingOf(c[2]) ELSE 0

RECURSIVE Members(_), DepthOf(_)
Members(j) == {j} \cup IF j[1] \in {"arr", "obj"}
                       THEN UNION {Members(j[2][k]) : k \in DOMAIN j[2]} ELSE {}
DepthOf(j) == IF j[1] \in {"arr", "obj"}
              THEN 1 + Deepest({DepthOf(j[2][k]) : k \in DOMAIN j[2]}) ELSE 0

Slots(d) == {d.params[i] : i \in DOMAIN d.params} \cup {d.ret}
Fields   == UNION {{MCRecords[r][i] : i \in DOMAIN MCRecords[r]} : r \in DOMAIN MCRecords}

MCTypes ==
    UNION {WithParts(te) :
              te \in UNION {Slots(c[1]) \cup Slots(c[2]) : c \in MCContracts}
                      \cup {f.type : f \in Fields}
                      \cup {Optional(OptionalValueType(f.type)) : f \in Fields}
                      \cup {CppTypeToLidl(c, DOMAIN MCRecords) : c \in MCHeaderTypes}}
RECURSIVE CppParts(_)
CppParts(v) == {v} \cup IF v[1] \in {"vec", "map", "struct"}
                        THEN UNION {CppParts(v[2][k]) : k \in DOMAIN v[2]} ELSE {}
CppValues ==
    {Empty, <<"json", Null>>}
    \cup UNION {UNION {CppParts(v) : v \in Sample(te)} :
                   te \in {t \in MCTypes : TypeSupported(t, FALSE, DOMAIN MCRecords)}}
MCValues == CppValues

JsonValues ==
    UNION {Members(ToJson(v)) : v \in CppValues}
    \cup UNION {UNION {Members(j) : j \in OnTheWire(c[2].params)} :
                   c \in {d \in MCContracts : Supported(d[1]) /\ CallerSupported(d[2])}}
MCWire == JsonValues
=============================================================================
