------------------------------- MODULE Header -------------------------------
(***************************************************************************)
(* A module's C++ implementation header, line by line, and what it means:  *)
(* the class whose public methods and logos_events are the module's        *)
(* interface, and the structs whose fields are its record types.           *)
(*                                                                         *)
(* The text is the author's, not this repository's.  A line is what the    *)
(* scanners of cpp-generator/experimental/impl_header_parser.cpp can tell  *)
(* apart in it; the variables say what C++ makes of the lines so far.      *)
(* HeaderScan has the scanners and compares the two.                       *)
(***************************************************************************)
EXTENDS Integers, FiniteSets

CONSTANTS Records,     \* the structs a header may define
          Names,       \* of methods and events
          Fields,      \* of a record
          Plain,       \* a signature or a field's type that names no record,
          Bad,         \* the same, with a type that LIDL does not have
          None,
          Quirks,      \* the forms, beyond the plain style, that it uses
          MaxFaults    \* how much of it may be beyond a contract

Sigs == Records \cup {Plain, Bad}   \* a record stands for a mention of it

(* The plain style.  A declaration has its line to itself, from a type or  *)
(* a specifier that precedes one to the semicolon, though its parentheses  *)
(* may run on over lines that hold nothing else; a parameter is a type and *)
(* then a name; a comment stands between lines.  No names are overloaded,  *)
(* and there are no templates, macros, preprocessor conditionals, raw      *)
(* strings, classes in the class, or enums of several lines.  All else     *)
(* that a header is seen to do is a quirk.                                 *)
AllQuirks == {"trailing comment",    \* a method and a comment on one line
              "inline body",         \* a method of the class defined in place
              "nested members",      \* functions in a struct inside the class
              "closing field",       \* a field on the line of the struct's };
              "parentheses",         \* a field with some before its name
              "plain block",         \* code commented out in a /* block */
              "call as default",     \* a data member whose default calls
              "class named before",  \* class Impl; or a comment that says it,
                                     \* or a head that goes on past its line
              "brace in a literal",  \* on a line of the class
              "leading comment",     \* /** text */ void f(); on one line
              "default argument",    \* f(int64_t n = 5), f(const R& r = {})
              "unnamed parameter",   \* f(int64_t), f(const std::string&)
              "comment in parameters",
              "callback parameter",  \* a std::function, a function pointer
              "return type apart",   \* on the line before the name
              "tail apart",          \* const; or override; on the line after
              "elaborated type",     \* struct R f();
              "other declaration",   \* auto f() -> T; f() noexcept(..);
                                     \* two on one line
              "special member"}      \* explicit C(..); virtual ~C();
                                     \* operator T();

(* What the class scanner makes of a method or an event written so: it     *)
(* publishes it with another signature ("misread": a parameter is dropped, *)
(* or renamed, or its type or the return type read from nothing), refuses  *)
(* it ("odd"), drops it but keeps its comment for the next one ("led"), or *)
(* passes over it ("passed").  A "special" line declares no method, and is *)
(* refused as one.                                                         *)
Forms == [misread |-> {"default argument", "unnamed parameter", "comment in parameters",
                       "callback parameter", "return type apart"},
          odd     |-> {"default argument", "unnamed parameter", "comment in parameters",
                       "other declaration"},
          led     |-> {"leading comment"},
          passed  |-> {"default argument", "comment in parameters", "callback parameter",
                       "tail apart", "elaborated type"},
          special |-> {"special member", "call as default"}]

VARIABLES
    place,     \* the innermost scope, or a declaration left open
    held,      \* the line that left it open
    open,      \* the struct in hand
    class,     \* "none", "open" or "closed"
    section,   \* of the class
    comment,   \* the block comment the next line starts in
    tDoc,      \* a doc comment waits for its declaration
    tMethods, tEvents,         \* what the class publishes
    tKnown, tFields, tUses,    \* the structs, their fields, whom they name
    tBad, tHard                \* structs with a type, or a member, that a
                               \* contract cannot express

text    == <<place, held, open, class, section, comment>>
meaning == <<tDoc, tMethods, tEvents, tKnown, tFields, tUses, tBad, tHard>>

(***************************************************************************)
(* Lines.  A section specifier may share its line with a declaration; a    *)
(* comment, trailing ones included, may have a brace in it (junk), and so  *)
(* may a field's default.  "ctor" is a line that begins with the class's   *)
(* name, or ~ and that name, and a parenthesis, or declares an operator    *)
(* with a sign for its name; "callback" is a member that is a function.    *)
(***************************************************************************)
Line(kind, spec, who, sig, junk) ==
    [kind |-> kind, spec |-> spec, who |-> who, sig |-> sig, junk |-> junk]

Sections  == {"public", "private", "events"}
Comments  == {"doc", "note", "star", "docOpen", "textOpen", "blockClose"}
NoCode    == Comments \cup {"blank"}
Functions == {"method", "noted", "inline", "methodOpen"}
Otherwise == {"misread", "odd", "led", "passed"}   \* methods in other Forms
Opens     == {"structOpen", "structBased"}
Members   == {"field", "shared", "paren", "closing", "calls"}
Braces    == {-1, 0, 1}

Lines ==
    {Line(k, None, None, Plain, j) : k \in Comments, j \in Braces \ {0}}
    \cup {Line(k, None, None, Plain, 0) :
             k \in {"blank", "forward", "classOpen", "classHead", "brace", "close", "ctor",
                    "using", "static", "callback", "nestedOpen", "ends"}}
    \cup {Line("specifier", s, None, Plain, 0) : s \in Sections}
    \cup {Line(k, s, n, g, 0) : k \in {"method", "signature", "inline", "methodOpen"},
                                s \in Sections \cup {None}, n \in Names, g \in Sigs}
    \cup {Line("noted", None, n, g, j) : n \in Names, g \in Sigs, j \in Braces}
    \cup {Line("reserved", None, None, g, 0) : g \in Sigs}
    \cup {Line(k, None, n, g, 0) : k \in Otherwise, n \in Names, g \in Sigs}
    \cup {Line("special", None, None, Plain, 0)}
    \cup {Line(k, None, n, Plain, 0) : k \in {"stmt", "returns"}, n \in Names}
    \cup {Line(k, None, r, Plain, 0) : k \in Opens \cup {"structHead", "structLine"},
                                       r \in Records}
    \cup {Line(k, None, f, g, 0) : k \in Members \cup {"wrapped"}, f \in Fields, g \in Sigs}
    \cup {Line("field", None, f, Plain, j) : f \in Fields, j \in Braces}

ASSUME HeaderAssumption ==
    /\ Quirks \subseteq AllQuirks /\ MaxFaults \in Nat
    /\ None \notin Sigs \cup Sections /\ None \notin Lines
    /\ Plain # Bad /\ {Plain, Bad} \cap Records = {}

(* The braces a line's code adds.                                          *)
Delta(l) ==
    IF l.kind \in {"classOpen", "brace", "methodOpen", "nestedOpen"} \cup Opens THEN 1
    ELSE IF l.kind \in {"close", "closing"} THEN -1
    ELSE 0

IsCode(l) == comment = "no" /\ l.kind \notin NoCode

(***************************************************************************)
(* Which lines may come next.                                              *)
(***************************************************************************)
(* Whatever is in a block comment is text.                                 *)
CommentText(l) ==
    \/ l.kind \in {"star", "blockClose"}
    \/ l.kind \in {"blank", "method", "close"} /\ (comment = "doc" \/ "plain block" \in Quirks)

NewStruct(l) == l.kind \in Opens \cup {"structHead", "structLine"} /\ l.who \notin tKnown

AtFile(l) ==
    \/ l.kind \in {"classOpen", "classHead"} /\ class = "none"
    \/ l.kind = "forward" /\ class = "none" /\ "class named before" \in Quirks
    \/ l.kind = "method" /\ l.spec = None   \* a free function
    \/ NewStruct(l)

Unused(n) == \A e \in tMethods \cup tEvents : e.name # n

(* Literals are text to the class scanner, code to the other.              *)
Countable(l) == class = "open" => l.junk = 0 \/ "brace in a literal" \in Quirks

(* A method of the class that is none of the plain forms.  One that takes  *)
(* a callback is passed over where public methods are read.                *)
OtherForm(l) ==
    /\ l.kind \in Otherwise \cup {"special"}
    /\ Forms[l.kind] \cap Quirks # {}
    /\ l.kind \in Otherwise => Unused(l.who)
    /\ l.kind = "passed" /\ Forms["passed"] \cap Quirks = {"callback parameter"}
           => l.sig = Bad /\ section # "events"

InClass(l) ==
    \/ l.kind \in {"specifier", "ctor", "using", "static", "callback", "close"}
    \/ l.kind = "field" /\ Countable(l)
    \/ l.kind = "reserved" /\ section # "events"
    \/ /\ l.kind \in Functions \cup {"signature"} /\ Unused(l.who)
       /\ l.kind = "noted" => "trailing comment" \in Quirks
       /\ l.kind \in {"inline", "methodOpen"} => "inline body" \in Quirks
    \/ OtherForm(l)
    \/ NewStruct(l)

InStruct(l) ==
    \/ l.kind \in {"using", "static", "nestedOpen", "close"}
    \/ /\ l.kind \in Members \cup {"wrapped"} /\ l.who \notin tFields[open]
       /\ Countable(l)
       /\ l.kind = "closing" => "closing field" \in Quirks
       /\ l.kind = "paren" => "parentheses" \in Quirks
       /\ l.kind = "calls" => "call as default" \in Quirks
    \/ /\ l.kind \in Functions \cup {"specifier"} /\ l.spec # "events"
       /\ class = "open" => "nested members" \in Quirks

Faults == Cardinality(tBad) + Cardinality(tHard)
          + Cardinality({e \in tMethods \cup tEvents : e.sig = Bad})

(* Bound: the header stops going wrong at MaxFaults.                       *)
WithinBound(l) ==
    Faults < MaxFaults \/ (l.sig # Bad /\ l.kind \notin {"structBased", "structLine",
                                                       "nestedOpen", "shared"})

WellFormed(l) ==
    IF comment # "no" THEN CommentText(l)
    ELSE \/ /\ l.kind \in NoCode \ {"star", "blockClose"}
            /\ place # "signature"
            /\ place = "classHead" /\ l.kind = "blank" => "class named before" \in Quirks
            /\ l.kind = "docOpen" => place = "class"
            /\ l.kind = "textOpen" => place \in {"class", "struct"}
         \/ place = "file" /\ AtFile(l)
         \/ place = "class" /\ InClass(l)
         \/ place = "struct" /\ InStruct(l)
         \/ place \in {"classHead", "structHead"} /\ l.kind = "brace"
         \/ place = "body" /\ l.kind \in {"stmt", "returns", "close"}
         \/ place = "nested" /\ l.kind \in {"field", "close"} /\ Countable(l)
         \/ place \in {"signature", "wrapped"} /\ l.kind = "ends"

(***************************************************************************)
(* What the line means.                                                    *)
(***************************************************************************)
Around == IF class = "open" THEN "class" ELSE "file"

PlaceAfter(l) ==
    CASE l.kind \in {"classHead", "structHead", "signature", "wrapped"} -> l.kind
      [] l.kind = "classOpen" -> "class"
      [] l.kind \in Opens -> "struct"
      [] l.kind = "methodOpen" -> "body"
      [] l.kind = "nestedOpen" -> "nested"
      [] l.kind = "brace" -> IF place = "classHead" THEN "class" ELSE "struct"
      [] l.kind = "ends" -> IF place = "signature" THEN "class" ELSE "struct"
      [] l.kind = "close" ->
             (CASE place = "class" -> "file"
                [] place = "struct" -> Around
                [] OTHER -> IF open = None THEN "class" ELSE "struct")
      [] l.kind = "closing" -> Around
      [] OTHER -> place

EndsStruct(l) == l.kind = "closing" \/ (l.kind = "close" /\ place = "struct")

Scope(l) ==
    /\ place' = IF IsCode(l) THEN PlaceAfter(l) ELSE place
    /\ held' = IF ~IsCode(l) THEN held
               ELSE IF l.kind \in {"signature", "wrapped"} THEN l ELSE None
    /\ open' = IF ~IsCode(l) THEN open
               ELSE IF l.kind \in Opens \cup {"structHead"} THEN l.who
               ELSE IF EndsStruct(l) THEN None ELSE open
    /\ class' = IF ~IsCode(l) THEN class
                ELSE IF l.kind \in {"classOpen", "classHead"} THEN "open"
                ELSE IF l.kind = "close" /\ place = "class" THEN "closed" ELSE class
    /\ section' = IF IsCode(l) /\ place = "class" /\ l.spec # None THEN l.spec ELSE section
    /\ comment' = IF comment # "no"
                  THEN IF l.kind = "blockClose" THEN "no" ELSE comment
                  ELSE IF l.kind = "docOpen" THEN "doc"
                  ELSE IF l.kind = "textOpen" THEN "plain" ELSE "no"

(* The declaration that a line completes, in the class or in a struct.     *)
Completes(l) == IF l.kind = "ends" THEN held ELSE l

Entry(l, doc) == [name |-> l.who, sig |-> l.sig, doc |-> doc]

DeclaresApi(l) ==
    /\ IsCode(l) /\ place \in {"class", "signature"}
    /\ l.kind \in Functions \cup Otherwise \cup {"ends"}
DeclaresField(l) ==
    IsCode(l) /\ place \in {"struct", "wrapped"} /\ l.kind \in Members \cup {"ends"}

(* A doc comment belongs to the declaration it stands over, or before on   *)
(* its line; a blank line parts them, another comment does not.            *)
Documented(l) == tDoc \/ l.kind = "led"

DocAfter(l) ==
    IF comment # "no" THEN tDoc
    ELSE IF l.kind \in {"doc", "docOpen"} THEN class = "open"
    ELSE tDoc /\ l.kind \in Comments \cup {"signature"}

Add(f, r, S) == [f EXCEPT ![r] = @ \cup S]

Means(l) ==
    LET d == Completes(l) IN
    /\ tDoc' = DocAfter(l)
    /\ tMethods' = IF DeclaresApi(l) /\ section' = "public"
                   THEN tMethods \cup {Entry(d, Documented(l))} ELSE tMethods
    /\ tEvents' = IF DeclaresApi(l) /\ section' = "events"
                  THEN tEvents \cup {Entry(d, Documented(l))} ELSE tEvents
    /\ tKnown' = IF IsCode(l) /\ l.kind \in Opens \cup {"structHead", "structLine"}
                 THEN tKnown \cup {l.who} ELSE tKnown
    /\ tFields' = IF DeclaresField(l) THEN Add(tFields, open, {d.who}) ELSE tFields
    /\ tUses' = IF DeclaresField(l) THEN Add(tUses, open, {d.sig} \cap Records) ELSE tUses
    /\ tBad' = IF DeclaresField(l) /\ d.sig = Bad THEN tBad \cup {open} ELSE tBad
    /\ tHard' = IF ~IsCode(l) THEN tHard
                ELSE IF l.kind \in {"structBased", "structLine"} THEN tHard \cup {l.who}
                ELSE IF l.kind \in {"nestedOpen", "shared"} THEN tHard \cup {open} ELSE tHard

Init ==
    /\ place = "file" /\ held = None /\ open = None
    /\ class = "none" /\ section = "default" /\ comment = "no"
    /\ tDoc = FALSE /\ tMethods = {} /\ tEvents = {} /\ tKnown = {}
    /\ tFields = [r \in Records |-> {}] /\ tUses = [r \in Records |-> {}]
    /\ tBad = {} /\ tHard = {}

(* A header may end outside every scope.                                   *)
Complete == place = "file" /\ comment = "no"
=============================================================================
