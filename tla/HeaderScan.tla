----------------------------- MODULE HeaderScan -----------------------------
(***************************************************************************)
(* parseImplHeader (cpp-generator/experimental/impl_header_parser.cpp): a  *)
(* header read as text, by one scanner that looks for the class and one    *)
(* that looks for the structs, into a contract or a refusal.  The two go   *)
(* over the same lines one after the other; neither looks at the other,    *)
(* so here they read each line together, and end before the verdict.       *)
(***************************************************************************)
EXTENDS Header

VARIABLES
    st, depth,       \* the class scanner: its state, braceDepth,
    doc, block,      \*   pendingDoc is not empty, inBlockComment
    methods, events, \*   what it publishes
    apiBad,          \*   g_unsupported has an entry of no record
    cur, rdepth, acc,    \* the struct scanner: where it is, and the
                         \*   declaration it is joining, by its first line
    known, fields, uses, \*   g_recordNames, and what it read of each
    fieldBad,            \*   the records of g_unsupported
    unreadable,          \*   the records of g_unreadable
    verdict

classScan == <<st, depth, doc, block, methods, events, apiBad>>
structs   == <<known, fields, uses, fieldBad, unreadable>>
vars == <<text, meaning, classScan, cur, rdepth, acc, structs, verdict>>

ScanInit ==
    /\ Init
    /\ st = "Looking" /\ depth = 0 /\ doc = FALSE /\ block = FALSE
    /\ methods = {} /\ events = {} /\ apiBad = FALSE
    /\ cur = None /\ rdepth = 0 /\ acc = None
    /\ known = {} /\ fields = [r \in Records |-> {}] /\ uses = [r \in Records |-> {}]
    /\ fieldBad = {} /\ unreadable = {} /\ verdict = "none"

(***************************************************************************)
(* Merging: a line whose parentheses are still open is held back and read  *)
(* with the one that closes them.                                          *)
(***************************************************************************)
Merged(l) ==
    IF l.kind = "signature" /\ IsCode(l) THEN None
    ELSE IF l.kind = "ends" /\ place = "signature" THEN [held EXCEPT !.kind = "method"]
    ELSE l

(***************************************************************************)
(* The class scanner.                                                      *)
(***************************************************************************)
StartsAsComment(l) == l.kind \in Comments \cup {"led"}

(* Braces are counted in the text of a line, trailing comment and all.     *)
TextDelta(l) == IF StartsAsComment(l) THEN 0 ELSE Delta(l) + l.junk
DepthAfter(l) == depth + TextDelta(l)

StateAfter(l) == IF l.spec = None THEN st ELSE l.spec

Looking(l) ==
    /\ st = "Looking"
    /\ l.kind \notin {"classOpen", "classHead", "forward"}
    /\ UNCHANGED classScan

FindClass(l) ==
    /\ st = "Looking"
    /\ l.kind \in {"classOpen", "classHead", "forward"}
    /\ st' = "default"
    /\ depth' = Delta(l)
    /\ UNCHANGED <<doc, block, methods, events, apiBad>>

ReadNoFurther(l) == st = "Done" /\ UNCHANGED classScan

Reading == st \notin {"Looking", "Done"}

DocText(l) ==
    /\ Reading /\ block
    /\ doc' = TRUE
    /\ block' = (l.kind # "blockClose")
    /\ UNCHANGED <<st, depth, methods, events, apiBad>>

ClassEnds(l) ==
    /\ Reading /\ ~block /\ ~StartsAsComment(l)
    /\ DepthAfter(l) <= 0
    /\ st' = "Done"
    /\ depth' = DepthAfter(l)
    /\ UNCHANGED <<doc, block, methods, events, apiBad>>

(* A line of the class's body.                                             *)
Body(l) ==
    /\ Reading /\ ~block
    /\ StartsAsComment(l) \/ DepthAfter(l) > 0
    /\ depth' = DepthAfter(l)

Documentation(l) ==
    /\ Body(l)
    /\ l.kind \in {"doc", "docOpen", "led"}
    /\ doc' = TRUE
    /\ block' = (l.kind = "docOpen")
    /\ UNCHANGED <<st, methods, events, apiBad>>

OtherComment(l) ==
    /\ Body(l)
    /\ StartsAsComment(l) /\ l.kind \notin {"doc", "docOpen", "led"}
    /\ UNCHANGED <<st, doc, block, methods, events, apiBad>>

(* parseMethodLine on a line that ends in a semicolon: whatever stands     *)
(* before a parenthesis is a name, and before that the return type.        *)
ParsesAsMethod(l) ==
    l.kind \in {"method", "misread", "odd", "special", "stmt", "returns", "calls"}

(* The signature it reads: the one written, in the plain forms; another    *)
(* one; or one with a type that LIDL does not have, `explicit` for one.    *)
SigRead(l) ==
    CASE l.kind = "misread" -> None
      [] l.kind \in {"odd", "special", "returns", "calls"} -> Bad
      [] OTHER -> l.sig

AsRead(l) == [Entry(l, doc) EXCEPT !.sig = SigRead(l)]

PublishEvent(l) ==
    /\ Body(l)
    /\ st' = StateAfter(l) /\ st' = "events"
    /\ ParsesAsMethod(l)
    /\ events' = events \cup {AsRead(l)}
    /\ apiBad' = (apiBad \/ SigRead(l) = Bad)
    /\ doc' = FALSE
    /\ UNCHANGED <<block, methods>>

PublishMethod(l) ==
    /\ Body(l)
    /\ st' = StateAfter(l) /\ st' = "public"
    /\ ParsesAsMethod(l)
    /\ methods' = methods \cup {AsRead(l)}
    /\ apiBad' = (apiBad \/ SigRead(l) = Bad)
    /\ doc' = FALSE
    /\ UNCHANGED <<block, events>>

\* Fault: the diagnostics of a reserved hook are kept.
PublishNothingBlamed(l) ==
    /\ Body(l)
    /\ ~StartsAsComment(l)
    /\ st' = StateAfter(l)
    /\ ~(st' \in {"events", "public"} /\ ParsesAsMethod(l))
    /\ doc' = FALSE
    /\ apiBad' = (apiBad \/ (st' = "public" /\ l.kind = "reserved" /\ l.sig = Bad))
    /\ UNCHANGED <<block, methods, events>>

(* Everything else publishes nothing and ends the wait of a doc comment:   *)
(* blank lines, bare specifiers, lines that begin with the class's name    *)
(* (or ~ and it) and a parenthesis, types, members, lines that do not end  *)
(* in a semicolon, reserved hooks (whose diagnostics are withdrawn), and   *)
(* whatever is not public.                                                 *)
PublishNothing(l) ==
    /\ Body(l)
    /\ ~StartsAsComment(l)
    /\ st' = StateAfter(l)
    /\ ~(st' \in {"events", "public"} /\ ParsesAsMethod(l))
    /\ doc' = FALSE
    /\ UNCHANGED <<block, methods, events, apiBad>>

ScanClass(l) ==
    \/ Looking(l) \/ FindClass(l) \/ ReadNoFurther(l)
    \/ DocText(l) \/ ClassEnds(l)
    \/ Documentation(l) \/ OtherComment(l)
    \/ PublishEvent(l) \/ PublishMethod(l) \/ PublishNothing(l)

(***************************************************************************)
(* The struct scanner: scanForRecords, on lines without their comments.    *)
(***************************************************************************)
Outside(l) ==
    /\ \/ ~IsCode(l) \/ l.kind = "specifier"
       \/ cur = None /\ l.kind \notin Opens \cup {"structHead", "structLine"}
    /\ UNCHANGED <<cur, rdepth, acc, structs>>

(* matchStructOpen.  Of a struct it cannot read it takes note at once.     *)
OpenStruct(l) ==
    /\ cur = None /\ IsCode(l)
    /\ l.kind \in Opens \cup {"structHead", "structLine"}
    /\ known' = known \cup {l.who}
    /\ unreadable' = IF l.kind \in {"structBased", "structLine"}
                     THEN unreadable \cup {l.who} ELSE unreadable
    /\ cur' = IF l.kind = "structLine" THEN None ELSE l.who
    /\ rdepth' = Delta(l)
    /\ UNCHANGED <<acc, fields, uses, fieldBad>>

(* The opening brace, on the line after the struct's name.                 *)
OpenBody(l) ==
    /\ cur # None /\ rdepth = 0 /\ l.kind = "brace" /\ IsCode(l)
    /\ rdepth' = 1
    /\ UNCHANGED <<cur, acc, structs>>

In(l) == cur # None /\ rdepth > 0 /\ IsCode(l) /\ l.kind # "specifier"

(* A declaration that is not whole at the end of the struct is reported.   *)
CloseStruct(l) ==
    /\ In(l) /\ rdepth + Delta(l) <= 0
    /\ unreadable' = IF acc # None THEN unreadable \cup {cur} ELSE unreadable
    /\ cur' = None /\ rdepth' = 0 /\ acc' = None
    /\ UNCHANGED <<known, fields, uses, fieldBad>>

(* Whole: at the struct's own depth, and ended by ; or }.                  *)
Whole(l) == rdepth + Delta(l) = 1 /\ l.kind # "wrapped"
First(l) == IF acc = None THEN l ELSE acc

Join(l) ==
    /\ In(l) /\ rdepth + Delta(l) > 0 /\ ~Whole(l)
    /\ acc' = First(l)
    /\ rdepth' = rdepth + Delta(l)
    /\ UNCHANGED <<cur, structs>>

Declaration(l, kinds) ==
    /\ In(l) /\ Whole(l)
    /\ First(l).kind \in kinds
    /\ rdepth' = 1 /\ acc' = None
    /\ UNCHANGED <<cur, known>>

(* A parenthesis before any = or { makes it a function; using and static   *)
(* are no fields either.                                                   *)
SkipMember(l) ==
    /\ Declaration(l, Functions \cup {"paren", "using", "static"})
    /\ UNCHANGED <<fields, uses, fieldBad, unreadable>>

\* Fault: a line that is not read as a field is left out.
DropMember(l) ==
    /\ Declaration(l, {"nestedOpen", "shared"})
    /\ UNCHANGED <<fields, uses, fieldBad, unreadable>>

RefuseMember(l) ==
    /\ Declaration(l, {"nestedOpen", "shared"})
    /\ unreadable' = unreadable \cup {cur}
    /\ UNCHANGED <<fields, uses, fieldBad>>

ReadField(l) ==
    /\ Declaration(l, {"field", "calls", "wrapped"})
    /\ fields' = Add(fields, cur, {First(l).who})
    /\ uses' = Add(uses, cur, {First(l).sig} \cap Records)
    /\ fieldBad' = IF First(l).sig = Bad THEN fieldBad \cup {cur} ELSE fieldBad
    /\ UNCHANGED unreadable

ScanStructs(l) ==
    \/ Outside(l) \/ OpenStruct(l) \/ OpenBody(l) \/ CloseStruct(l) \/ Join(l)
    \/ SkipMember(l) \/ RefuseMember(l) \/ ReadField(l)

(***************************************************************************)
(* The contract.                                                           *)
(***************************************************************************)
(* The records an interface names, and those that their fields name.       *)
Named(api) == {e.sig : e \in api} \cap Records
ClosedUnder(S, use) == \A r \in S : use[r] \subseteq S

\* Fault: a struct is kept for the interface's own mentions only.
ReachableOnce(api, use) == Named(api)

(* keepOnlyReferencedRecords grows the set until it is closed.             *)
Reachable(api, use) ==
    {r \in Records : \A S \in SUBSET Records :
        Named(api) \subseteq S /\ ClosedUnder(S, use) => r \in S}

Referenced == Reachable(methods \cup events, uses)

Published == {r \in Referenced : fields[r] # {}}

(* What could not be read comes first; a struct that nothing names is not  *)
(* held against the header, and a record nobody declared has no LIDL type. *)
Verdict ==
    IF \E r \in Referenced \cap known : r \in unreadable \/ fields[r] = {} THEN "unreadable"
    ELSE IF \/ apiBad \/ ~(Named(methods \cup events) \subseteq known)
            \/ \E r \in Published : r \in fieldBad \/ ~(uses[r] \subseteq known)
         THEN "unsupported"
    ELSE "published"

Judge ==
    /\ verdict = "none" /\ Complete
    /\ verdict' = Verdict
    /\ UNCHANGED <<text, meaning, classScan, cur, rdepth, acc, structs>>

ReadLine(l) ==
    /\ verdict = "none"
    /\ WellFormed(l) /\ WithinBound(l)
    /\ Scope(l) /\ Means(l)
    /\ LET m == Merged(l) IN
       IF m = None THEN UNCHANGED <<classScan, cur, rdepth, acc, structs>>
                   ELSE ScanClass(m) /\ ScanStructs(m)
    /\ UNCHANGED verdict

Next == Judge \/ \E l \in Lines : ReadLine(l)

Spec == ScanInit /\ [][Next]_vars

(***************************************************************************)
(* Properties.                                                             *)
(***************************************************************************)
TypeOK ==
    /\ st \in {"Looking", "default", "Done"} \cup Sections /\ depth \in Int
    /\ doc \in BOOLEAN /\ block \in BOOLEAN /\ apiBad \in BOOLEAN
    /\ cur \in Records \cup {None} /\ rdepth \in Nat /\ acc \in Lines \cup {None}
    /\ known \subseteq Records /\ fieldBad \subseteq known /\ unreadable \subseteq known
    /\ fields \in [Records -> SUBSET Fields] /\ uses \in [Records -> SUBSET Records]
    /\ verdict \in {"none", "published", "unreadable", "unsupported"}

TReachable == Reachable(tMethods \cup tEvents, tUses)

(* A header that is accepted is published as it stands: the class's public *)
(* methods and its events, each with the comment over it and no other, and *)
(* of every struct they lead to all the fields, with no other member ("the *)
(* scanner may not quietly decide that a line it cannot read was not worth *)
(* publishing").                                                           *)
ContractIsTheHeader ==
    verdict = "published" =>
        /\ methods = tMethods /\ events = tEvents
        /\ Published = TReachable
        /\ \A r \in TReachable : r \notin tHard /\ fields[r] = tFields[r]

(* The header asks of a contract nothing that it cannot express.           *)
Expressible ==
    /\ \A e \in tMethods \cup tEvents : e.sig # Bad
    /\ TReachable \subseteq tKnown
    /\ \A r \in TReachable : r \notin tBad \cup tHard /\ tFields[r] # {}

(* Only what reaches the contract can fail the build: a private method, a  *)
(* lifecycle hook or a helper struct may be as it likes.                   *)
RefusedForAReason == verdict \in {"unreadable", "unsupported"} => ~Expressible

(* A published contract names no record that it does not declare.          *)
NoDanglingName ==
    verdict = "published" =>
        /\ Named(methods \cup events) \subseteq Published
        /\ ClosedUnder(Published, uses)

(* The module's ordinary public methods are its interface, with no marker  *)
(* of any kind: none of them is missing.                                   *)
PublicMethodsArePublished ==
    verdict = "published" => {e.name : e \in tMethods} \subseteq {e.name : e \in methods}
=============================================================================
