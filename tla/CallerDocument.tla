--------------------------- MODULE CallerDocument ---------------------------
(***************************************************************************)
(* The caller document of one dispatch and logos::parseCaller, its reader  *)
(* (cpp/logos_caller.h).  A document that is a JSON object is a function   *)
(* from the fields the reader looks at to what it finds there; any other   *)
(* text is NotAnObject.                                                    *)
(***************************************************************************)
CONSTANT Names    \* the non-empty strings an identity can be made of

Absent == "absent"          \* no such field
NonString == "nonString"    \* a field that is not a JSON string
Empty == ""

Arms == {"unknown", "host", "module", "derived", "operator"}

(* An arm of a newer protocol is a string no reader here knows.            *)
FutureArm == "future"

NotAnObject == [kind |-> "notAnObject"]

ASSUME NamesAssumption == Names \cap {Absent, NonString, Empty} = {}

Documents ==
    [kind : Arms \cup {FutureArm, Absent, NonString},
     name : Names \cup {Absent, NonString, Empty},
     instance : Names \cup {Absent, NonString, Empty},
     parent : Names \cup {Absent, NonString, Empty},
     leaf : Names \cup {Absent, NonString, Empty}] \cup {NotAnObject}

Unknown == [kind |-> "unknown", name |-> Empty, instance |-> Empty,
            parent |-> Empty, leaf |-> Empty]

(* What the accessors of a LogosCaller can answer.                         *)
Identities ==
    [kind : Arms, name : Names \cup {Empty}, instance : Names \cup {Empty},
     parent : Names \cup {Empty}, leaf : Names \cup {Empty}]

IsString(v) == v \notin {Absent, NonString}

(* A required field is present, a string and not empty.                    *)
Required(v) == IsString(v) /\ v # Empty

(* What an optional field contributes.                                     *)
Optional(v) == IF IsString(v) THEN v ELSE Empty

(* Fault: an unknown arm that carries a name is taken for a module.        *)
ParseGuessing(doc) ==
    IF doc # NotAnObject /\ Required(doc.name)
    THEN [Unknown EXCEPT !.kind = "module", !.name = doc.name] ELSE Unknown

(* Fault: fields of an incomplete identity survive.                        *)
ParseSalvaging(doc) ==
    IF doc = NotAnObject \/ doc.kind # "derived" THEN Unknown
    ELSE [Unknown EXCEPT !.parent = Optional(doc.parent), !.leaf = Optional(doc.leaf)]

(* parseCaller.  An arm that is not complete is Unknown, with no field kept.*)
Parse(doc) ==
    IF doc = NotAnObject \/ doc.kind \notin Arms THEN Unknown
    ELSE CASE doc.kind = "host" -> [Unknown EXCEPT !.kind = "host"]
           [] doc.kind = "module" /\ Required(doc.name) ->
                [Unknown EXCEPT !.kind = "module", !.name = doc.name,
                                !.instance = Optional(doc.instance)]
           [] doc.kind = "derived" /\ Required(doc.parent) /\ Required(doc.leaf) ->
                [Unknown EXCEPT !.kind = "derived", !.parent = doc.parent, !.leaf = doc.leaf]
           [] doc.kind = "operator" /\ Required(doc.name) ->
                [Unknown EXCEPT !.kind = "operator", !.name = doc.name]
           [] OTHER -> Unknown

(* No identity is half there: its required fields are not empty, and the   *)
(* fields of the other arms are.                                           *)
Whole(caller) ==
    CASE caller.kind = "module" -> caller.name # Empty /\ caller.parent = Empty
                                     /\ caller.leaf = Empty
      [] caller.kind = "derived" -> caller.parent # Empty /\ caller.leaf # Empty
                                      /\ caller.name = Empty /\ caller.instance = Empty
      [] caller.kind = "operator" -> caller.name # Empty /\ caller.instance = Empty
                                       /\ caller.parent = Empty /\ caller.leaf = Empty
      [] OTHER -> caller = [Unknown EXCEPT !.kind = caller.kind]

(* LogosCaller::isModule(moduleName): the instance does not count.         *)
IsModule(caller, n) == caller.kind = "module" /\ caller.name = n
=============================================================================
