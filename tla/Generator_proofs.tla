-------------------------- MODULE Generator_proofs --------------------------
(***************************************************************************)
(* Machine-checked theorems about the generator.                           *)
(*                                                                         *)
(* First of HeaderScan: in headers in the plain style, of any length, over *)
(* any records, names and fields, the scanners keep step with the text,    *)
(* and what they accept is the header.  Then of Generator, for any number  *)
(* of runs over any modules, of any header.                                *)
(***************************************************************************)
EXTENDS Generator, TLAPS


Places == {"file", "class", "classHead", "signature", "struct", "structHead", "wrapped",
           "nested", "body"}

(* Where a header in the plain style can be.                               *)
Shape ==
    /\ place \in Places /\ class \in {"none", "open", "closed"}
    /\ section \in Sections \cup {"default"} /\ comment \in {"no", "doc", "plain"}
    /\ place = "file" => class # "open"
    /\ place \in {"class", "classHead", "signature"} => class = "open" /\ open = None
    /\ place = "file" => open = None
    /\ place \in {"struct", "structHead", "wrapped", "nested", "body"} => open \in tKnown
    /\ place = "body" => class # "open"
    /\ tKnown \subseteq Records
    /\ CASE place = "signature" ->
              /\ held \in Lines /\ held.kind = "signature" /\ comment = "no"
         [] place = "wrapped" -> held \in Lines /\ held.kind = "wrapped"
         [] OTHER -> held = None
    /\ tDoc \in BOOLEAN
    /\ comment = "doc" => place = "class" /\ tDoc

(* The class scanner is where the text is.                                 *)
InStep ==
    /\ class = "none" => st = "Looking"
    /\ class = "closed" => st = "Done"
    /\ class = "open" => /\ section = IF place = "signature" THEN StateAfter(held) ELSE st
                         /\ st \in Sections \cup {"default"}
                         /\ doc = tDoc
                         /\ depth = CASE place = "classHead" -> 0
                                      [] place \in {"class", "signature", "structHead"} -> 1
                                      [] place \in {"struct", "wrapped"} -> 2
                                      [] OTHER -> 3
    /\ class = "none" => section = "default" /\ doc = FALSE /\ tDoc = FALSE
    /\ block = (comment = "doc")
    /\ methods = tMethods /\ events = tEvents
    /\ apiBad = (\E e \in tMethods \cup tEvents : e.sig = Bad)

(* The struct scanner is where the text is, but for the members of a       *)
(* nested type, which it reports when the type has ended.                  *)
Keeping ==
    /\ cur = open /\ known = tKnown
    /\ rdepth = IF place \in {"struct", "wrapped"} THEN 1
                ELSE IF place \in {"nested", "body"} THEN 2 ELSE 0
    /\ CASE place = "wrapped" -> acc = held
         [] place = "nested" -> acc \in Lines /\ acc.kind = "nestedOpen"
         [] place = "body" -> acc \in Lines /\ acc.kind = "methodOpen"
         [] OTHER -> acc = None
    /\ tHard = unreadable \cup (IF place = "nested" THEN {open} ELSE {})

(* Of a struct that it can read it has read everything.                    *)
Read ==
    /\ fields \in [Records -> SUBSET Fields] /\ tFields \in [Records -> SUBSET Fields]
    /\ uses \in [Records -> SUBSET Records] /\ tUses \in [Records -> SUBSET Records]
    /\ fieldBad \subseteq tBad /\ tBad \subseteq tKnown /\ tHard \subseteq tKnown
    /\ \A r \in Records : fields[r] \subseteq tFields[r] /\ uses[r] \subseteq tUses[r]
    /\ \A r \in Records \ tHard : /\ fields[r] = tFields[r] /\ uses[r] = tUses[r]
                                  /\ r \in tBad => r \in fieldBad

Judged == verdict = "none" \/ (Complete /\ verdict = Verdict)

Agreement == Quirks = {} /\ Shape /\ InStep /\ Keeping /\ Read /\ Judged

(***************************************************************************)
(* Lines.                                                                  *)
(***************************************************************************)
LEMMA LineIsTyped ==
    ASSUME NEW l \in Lines
    PROVE  /\ l = [kind |-> l.kind, spec |-> l.spec, who |-> l.who, sig |-> l.sig,
                   junk |-> l.junk]
           /\ l.spec \in Sections \cup {None} /\ l.sig \in Sigs /\ l.junk \in Braces
           /\ l.kind \in Opens \cup {"structHead", "structLine"} =>
                  l.who \in Records /\ l.spec = None
           /\ l.kind \in Members \cup {"wrapped"} => l.who \in Fields /\ l.spec = None
           /\ l.kind \notin {"field", "noted"} \cup Comments => l.junk = 0
           /\ l.kind \in NoCode \cup {"classOpen", "classHead", "brace", "close", "using",
                  "static", "callback", "nestedOpen", "ends", "ctor", "reserved", "forward"}
              => l.spec = None
           /\ l.kind = "specifier" => l.spec # None
<1>1. \E k, s, w, g, j :
          /\ l = [kind |-> k, spec |-> s, who |-> w, sig |-> g, junk |-> j]
          /\ \/ k \in Comments /\ s = None /\ g = Plain /\ j \in Braces
             \/ /\ k \in {"blank", "forward", "classOpen", "classHead", "brace", "close",
                           "ctor", "using", "static", "callback", "nestedOpen", "ends"}
                /\ s = None /\ g = Plain /\ j = 0
             \/ k = "specifier" /\ s \in Sections /\ g = Plain /\ j = 0
             \/ /\ k \in {"method", "signature", "inline", "methodOpen"}
                /\ s \in Sections \cup {None} /\ g \in Sigs /\ j = 0
             \/ k = "noted" /\ s = None /\ g \in Sigs /\ j \in Braces
             \/ k = "reserved" /\ s = None /\ g \in Sigs /\ j = 0
             \/ k \in Otherwise /\ s = None /\ g \in Sigs /\ j = 0
             \/ k \in {"special", "stmt", "returns"} /\ s = None /\ g = Plain /\ j = 0
             \/ /\ k \in Opens \cup {"structHead", "structLine"}
                /\ s = None /\ w \in Records /\ g = Plain /\ j = 0
             \/ /\ k \in Members \cup {"wrapped"}
                /\ s = None /\ w \in Fields /\ g \in Sigs /\ j = 0
             \/ k = "field" /\ s = None /\ w \in Fields /\ g = Plain /\ j \in Braces
  BY DEF Lines, Line
<1>2. QED
  BY <1>1, HeaderAssumption
  DEF Sections, Comments, NoCode, Opens, Members, Otherwise, Braces, Sigs

(* A header in the plain style has its methods in the plain forms, and no  *)
(* braces in the literals of its class.                                    *)
LEMMA PlainForms ==
    ASSUME Quirks = {}, NEW l
    PROVE  ~OtherForm(l) /\ (Countable(l) <=> (class = "open" => l.junk = 0))
BY DEF OtherForm, Countable

(***************************************************************************)
(* The text: each line leaves the header in a place that Shape knows.      *)
(***************************************************************************)
LEMMA DocIsBoolean ==
    ASSUME NEW l, Means(l), tDoc \in BOOLEAN
    PROVE  tDoc' \in BOOLEAN
<1>1. DocAfter(l) \in BOOLEAN
  BY Zenon DEF DocAfter
<1>2. QED
  BY <1>1 DEF Means

LEMMA ShapeStep ==
    ASSUME Quirks = {}, Shape, NEW l \in Lines, WellFormed(l), Scope(l), Means(l)
    PROVE  Shape'
<1>0. tDoc' \in BOOLEAN
  BY DocIsBoolean DEF Shape
<1> USE <1>0, LineIsTyped DEF Shape, Scope, Means, IsCode, WellFormed, Places, Sections, NoCode,
        Comments, Opens, Functions, Members
<1>1. CASE comment # "no"
  BY <1>1 DEF CommentText, DocAfter
<1>6. CASE comment = "no" /\ l.kind \in NoCode
  <2>1. l.kind = "docOpen" => place = "class"
    BY <1>6 DEF AtFile, InStruct, NewStruct
  <2>2. place # "signature"
    BY <1>6
  <2>3. l.kind = "docOpen" => tDoc'
    BY <1>6, <2>1, Zenon DEF DocAfter
  <2>4. QED
    BY <1>6, <2>1, <2>2, <2>3
<1>2. CASE IsCode(l) /\ place = "file"
  BY <1>2 DEF AtFile, NewStruct, PlaceAfter
<1>3. CASE IsCode(l) /\ place = "class"
  BY <1>3, PlainForms, HeaderAssumption DEF InClass, NewStruct, PlaceAfter, Around
<1>4. CASE IsCode(l) /\ place = "struct"
  BY <1>4 DEF InStruct, PlaceAfter, Around, EndsStruct
<1>5. CASE IsCode(l) /\ place \notin {"file", "class", "struct"}
  BY <1>5, HeaderAssumption DEF PlaceAfter, EndsStruct, Sigs
<1> QED
  BY <1>1, <1>2, <1>3, <1>4, <1>5, <1>6

(***************************************************************************)
(* The class scanner keeps step.                                           *)
(***************************************************************************)
(* A method in a plain form is read as it is written.                      *)
LEMMA PlainMethodRead ==
    ASSUME NEW l, l.kind = "method"
    PROVE  SigRead(l) = l.sig /\ AsRead(l) = Entry(l, doc)
<1>1. SigRead(l) = l.sig
  BY DEF SigRead
<1>2. QED
  BY <1>1 DEF AsRead, Entry

LEMMA ScanCases ==
    ASSUME NEW m, ScanClass(m)
    PROVE  /\ st = "Done" => UNCHANGED classScan
           /\ st = "Looking" /\ m.kind \notin {"classOpen", "classHead", "forward"}
              => UNCHANGED classScan
           /\ st = "Looking" /\ m.kind \in {"classOpen", "classHead", "forward"}
              => FindClass(m)
           /\ Reading /\ block => DocText(m)
           /\ Reading /\ ~block => ClassEnds(m) \/ Documentation(m) \/ OtherComment(m)
                 \/ PublishEvent(m) \/ PublishMethod(m) \/ PublishNothing(m)
<1> USE DEF ScanClass, Looking, FindClass, ReadNoFurther, DocText, ClassEnds, Documentation,
        OtherComment, Body, PublishEvent, PublishMethod, PublishNothing, Reading
<1>1. st = "Done" => UNCHANGED classScan
  OBVIOUS
<1>2. st = "Looking" /\ m.kind \notin {"classOpen", "classHead", "forward"}
      => UNCHANGED classScan
  OBVIOUS
<1>3. st = "Looking" /\ m.kind \in {"classOpen", "classHead", "forward"} => FindClass(m)
  OBVIOUS
<1>4. Reading /\ block => DocText(m)
  OBVIOUS
<1>5. Reading /\ ~block => ClassEnds(m) \/ Documentation(m) \/ OtherComment(m)
                           \/ PublishEvent(m) \/ PublishMethod(m) \/ PublishNothing(m)
  OBVIOUS
<1>6. QED
  BY <1>1, <1>2, <1>3, <1>4, <1>5

LEMMA MergedSignature ==
    ASSUME NEW h \in Lines, h.kind = "signature"
    PROVE  LET m == [h EXCEPT !.kind = "method"] IN
           /\ m \in Lines /\ m.kind = "method"
           /\ m.spec = h.spec /\ m.who = h.who /\ m.sig = h.sig /\ m.junk = 0
<1>1. PICK s \in Sections \cup {None}, n \in Names, g \in Sigs :
          h = Line("signature", s, n, g, 0)
  BY DEF Lines, Line, Comments, Opens, Members
<1>2. [h EXCEPT !.kind = "method"] = Line("method", s, n, g, 0)
  BY <1>1 DEF Line
<1>3. Line("method", s, n, g, 0) \in Lines
  BY DEF Lines
<1>4. QED
  BY <1>1, <1>2, <1>3 DEF Line

LEMMA NotMerged ==
    ASSUME Shape, NEW l \in Lines, WellFormed(l), class # "open"
    PROVE  Merged(l) = l /\ l # None
<1>1. IsCode(l) => l.kind # "signature"
  BY DEF Shape, IsCode, WellFormed, AtFile, InStruct, NewStruct, Functions, Members, Opens,
     Places
<1>2. QED
  BY <1>1, HeaderAssumption DEF Merged, Shape

LEMMA BodyLine ==
    ASSUME NEW m, ScanClass(m), Reading, ~block, ~StartsAsComment(m), DepthAfter(m) > 0,
           apiBad \in BOOLEAN, DepthAfter(m) \in Int
    PROVE  /\ depth' = DepthAfter(m) /\ st' = StateAfter(m) /\ doc' = FALSE /\ block' = block
           /\ methods' = IF StateAfter(m) = "public" /\ ParsesAsMethod(m)
                         THEN methods \cup {AsRead(m)} ELSE methods
           /\ events' = IF StateAfter(m) = "events" /\ ParsesAsMethod(m)
                        THEN events \cup {AsRead(m)} ELSE events
           /\ apiBad' = (apiBad \/ (/\ StateAfter(m) \in {"public", "events"}
                                   /\ ParsesAsMethod(m) /\ SigRead(m) = Bad))
<1>1. PublishEvent(m) \/ PublishMethod(m) \/ PublishNothing(m)
  <2>1. ~ClassEnds(m)
    BY DEF ClassEnds
  <2>2. ~Documentation(m)
    BY DEF Documentation, StartsAsComment, Comments
  <2>3. QED
    BY <2>1, <2>2, ScanCases, Zenon DEF OtherComment
<1>2. QED
  BY <1>1 DEF Body, PublishEvent, PublishMethod, PublishNothing

LEMMA CommentLine ==
    ASSUME NEW m, ScanClass(m), Reading, block = FALSE, m.kind \in Comments, depth \in Int
    PROVE  /\ UNCHANGED <<st, depth, methods, events, apiBad>>
           /\ doc' = IF m.kind \in {"doc", "docOpen"} THEN TRUE ELSE doc
           /\ block' = (m.kind = "docOpen")
<1>1. Documentation(m) \/ OtherComment(m)
  BY ScanCases DEF ClassEnds, StartsAsComment, PublishEvent, PublishMethod, PublishNothing,
     ParsesAsMethod, Comments
<1>2. DepthAfter(m) = depth
  BY DEF DepthAfter, TextDelta, StartsAsComment
<1>3. QED
  BY <1>1, <1>2 DEF Documentation, OtherComment, Body, Comments

LEMMA InStepStep ==
    ASSUME Quirks = {}, Shape, InStep, NEW l \in Lines, WellFormed(l), Scope(l), Means(l),
           IF Merged(l) = None THEN UNCHANGED classScan ELSE ScanClass(Merged(l))
    PROVE  InStep'
<1>0. Shape'
  BY ShapeStep
<1>1. CASE class = "closed"
  <2>1. UNCHANGED classScan
    BY <1>1, NotMerged, ScanCases DEF InStep
  <2>2. class' = "closed"
    BY <1>1 DEF Shape, Scope, WellFormed, AtFile, InStruct, NewStruct, IsCode, Opens,
       Functions, Members
  <2>3. UNCHANGED <<tMethods, tEvents>>
    BY <1>1 DEF Means, DeclaresApi, Shape
  <2>4. QED
    BY <1>0, <1>1, <2>1, <2>2, <2>3 DEF InStep, classScan, Shape
<1>2. CASE class = "none"
  <2>0. l.kind # "forward" /\ (l.kind \in {"classOpen", "classHead"} => IsCode(l))
    BY <1>2 DEF WellFormed, AtFile, InStruct, NewStruct, IsCode, CommentText, NoCode, Comments,
       Opens, Functions, Members, Shape, Places
  <2>1. CASE l.kind \notin {"classOpen", "classHead"}
    <3>1. UNCHANGED classScan
      BY <1>2, <2>0, <2>1, NotMerged, ScanCases DEF InStep
    <3>2. class' = "none" /\ UNCHANGED <<tMethods, tEvents, section>>
      BY <1>2, <2>1 DEF Shape, Scope, Means, DeclaresApi
    <3>3. tDoc' = FALSE
      BY <1>2 DEF Means, DocAfter, InStep
    <3>4. QED
      BY <1>0, <1>2, <3>1, <3>2, <3>3 DEF InStep, classScan, Shape
  <2>2. CASE l.kind \in {"classOpen", "classHead"}
    <3>1. FindClass(l)
      BY <1>2, <2>2, NotMerged, ScanCases DEF InStep
    <3>2. class' = "open" /\ UNCHANGED <<tMethods, tEvents, section>>
      BY <1>2, <2>0, <2>2 DEF Shape, Scope, Means, DeclaresApi
    <3>3. tDoc' = FALSE
      BY <1>2 DEF Means, DocAfter, InStep
    <3>4. place' = IF l.kind = "classOpen" THEN "class" ELSE "classHead"
      BY <2>0, <2>2 DEF Scope, PlaceAfter, Opens
    <3>5. QED
      <4>1. depth' = IF l.kind = "classOpen" THEN 1 ELSE 0
        BY <2>2, <3>1 DEF FindClass, Delta, Opens
      <4>2. apiBad' = (\E e \in tMethods' \cup tEvents' : e.sig = Bad)
        BY <3>1, <3>2 DEF InStep, FindClass
      <4>3. block' = (comment' = "doc")
        BY <1>0, <2>2, <3>1, <3>2 DEF FindClass, InStep, Scope, Shape
      <4>4. QED
        BY <1>0, <1>2, <2>2, <3>1, <3>2, <3>3, <3>4, <4>1, <4>2, <4>3
        DEF InStep, FindClass, Shape
  <2>3. QED
    BY <2>1, <2>2
<1>3. CASE class = "open"
  <2>0. /\ st = IF place = "signature" THEN st ELSE section
        /\ st \in Sections \cup {"default"} /\ Reading /\ block = (comment = "doc")
        /\ doc = tDoc /\ apiBad \in BOOLEAN /\ depth \in Int
        /\ comment # "doc" => block = FALSE
    <3>1. depth \in Int /\ apiBad \in BOOLEAN /\ block = (comment = "doc")
      BY <1>3 DEF InStep
    <3>2. comment # "doc" => block = FALSE
      BY <3>1
    <3>3. doc = tDoc /\ st \in Sections \cup {"default"} /\ (place # "signature" => st = section)
      BY <1>3 DEF InStep
    <3>4. QED
      BY <3>1, <3>2, <3>3 DEF Reading, Sections
  <2>1. CASE comment # "no"
    <3>1. Merged(l) = l /\ l # None /\ UNCHANGED <<place, class, section, tMethods, tEvents>>
      BY <1>3, <2>1, HeaderAssumption
      DEF Merged, IsCode, Shape, Scope, Means, DeclaresApi
    <3>2. comment' = (IF l.kind = "blockClose" THEN "no" ELSE comment) /\ tDoc' = tDoc
      BY <2>1 DEF Scope, Means, DocAfter
    <3>3. held' = held
      BY <2>1 DEF Scope, IsCode
    <3>4. /\ UNCHANGED <<st, depth, methods, events, apiBad>>
          /\ doc' = tDoc' /\ block' = (comment' = "doc")
      <4>1. CASE comment = "doc"
        BY <2>0, <3>1, <3>2, <4>1, ScanCases DEF DocText, Shape
      <4>2. CASE comment = "plain"
        <5>1. l.kind \in {"star", "blockClose"}
          BY <2>1, <4>2 DEF WellFormed, CommentText
        <5>2. QED
          BY <2>0, <3>1, <3>2, <4>2, <5>1, CommentLine DEF Comments
      <4>3. QED
        BY <2>1, <4>1, <4>2 DEF Shape
    <3>5. QED
      BY <1>3, <3>1, <3>3, <3>4 DEF InStep, StateAfter
  <2>2. CASE comment = "no" /\ l.kind \in Comments
    <3>1. Merged(l) = l /\ l # None /\ UNCHANGED <<place, class, section, held, tMethods, tEvents>>
      BY <1>3, <2>2, HeaderAssumption
      DEF Merged, IsCode, Shape, Scope, Means, DeclaresApi, NoCode, Comments
    <3>2. /\ UNCHANGED <<st, depth, methods, events, apiBad>>
          /\ doc' = IF l.kind \in {"doc", "docOpen"} THEN TRUE ELSE doc
          /\ block' = (l.kind = "docOpen")
      BY <2>0, <2>2, <3>1, CommentLine
    <3>3. tDoc' = doc'
      BY <1>3, <2>0, <2>2, <3>2 DEF Means, DocAfter, Shape
    <3>4. block' = (comment' = "doc")
      BY <2>0, <2>2, <3>2 DEF Scope
    <3>5. QED
      BY <1>3, <3>1, <3>2, <3>3, <3>4 DEF InStep, StateAfter
  <2>3. CASE comment = "no" /\ l.kind = "blank"
    <3>1. Merged(l) = l /\ l # None /\ UNCHANGED <<place, class, section, held, tMethods, tEvents>>
      BY <1>3, <2>3, HeaderAssumption
      DEF Merged, IsCode, Shape, Scope, Means, DeclaresApi, NoCode, Comments
    <3>2. place # "classHead" /\ l.spec = None /\ l.junk = 0
      BY <2>3, LineIsTyped, PlainForms
      DEF WellFormed, AtFile, InClass, InStruct, NewStruct, Opens, Functions, Members, NoCode,
          Comments
    <3>3. DepthAfter(l) = depth /\ depth > 0 /\ depth \in Int
      BY <1>3, <2>3, <3>2 DEF InStep, DepthAfter, TextDelta, Delta, StartsAsComment, Opens,
         Comments
    <3>4. StateAfter(l) = st /\ ~ParsesAsMethod(l) /\ ~StartsAsComment(l)
      BY <2>3, <3>2 DEF StateAfter, ParsesAsMethod, StartsAsComment, Comments
    <3>5. UNCHANGED <<st, depth, methods, events, apiBad, block>> /\ doc' = FALSE
      BY <2>0, <2>3, <3>1, <3>3, <3>4, BodyLine
    <3>6. tDoc' = FALSE
      BY <2>3 DEF Means, DocAfter, Comments
    <3>7. comment' = comment
      BY <2>3 DEF Scope
    <3>8. QED
      BY <1>3, <3>1, <3>5, <3>6, <3>7 DEF InStep, StateAfter
  <2>4. CASE IsCode(l) /\ l.kind = "signature"
    <3>1. place = "class" /\ UNCHANGED classScan
      BY <2>4 DEF Merged, WellFormed, IsCode, AtFile, InStruct, NewStruct, Opens, Functions,
         Members
    <3>2. /\ place' = "signature" /\ held' = l /\ comment' = "no"
          /\ UNCHANGED <<class, tMethods, tEvents>>
      BY <1>3, <2>4, <3>1, HeaderAssumption
      DEF Scope, PlaceAfter, IsCode, Means, DeclaresApi, Functions, Otherwise, Opens
    <3>3. section' = StateAfter(l)
      BY <2>0, <2>4, <3>1 DEF Scope, StateAfter, IsCode
    <3>4. tDoc' = tDoc
      BY <2>4 DEF Means, DocAfter, IsCode, Shape
    <3>5. QED
      BY <1>3, <2>0, <2>4, <3>1, <3>2, <3>3, <3>4 DEF InStep, classScan, StateAfter, IsCode
  <2>5. CASE IsCode(l) /\ l.kind = "close" /\ place = "class"
    <3>1. Merged(l) = l /\ l # None /\ l.junk = 0
      BY <2>5, LineIsTyped, HeaderAssumption DEF Merged, Comments
    <3>2. ~StartsAsComment(l) /\ DepthAfter(l) = 0
      BY <1>3, <2>5, <3>1 DEF StartsAsComment, Comments, DepthAfter, TextDelta, Delta, Opens,
         InStep
    <3>3. ClassEnds(l)
      <4>1. ~Body(l) /\ ScanClass(l) /\ ~block
        BY <2>0, <2>5, <3>1, <3>2 DEF Body, IsCode
      <4>2. QED
        BY <2>0, <4>1, ScanCases, Zenon DEF Documentation, OtherComment, PublishEvent,
           PublishMethod, PublishNothing
    <3>4. class' = "closed" /\ UNCHANGED <<tMethods, tEvents, comment>>
      BY <2>5 DEF Scope, Means, DeclaresApi, Functions, Otherwise, IsCode
    <3>5. QED
      BY <3>3, <3>4 DEF ClassEnds, InStep
  <2>6. CASE IsCode(l) /\ l.kind # "signature" /\ ~(l.kind = "close" /\ place = "class")
    <3> DEFINE m == Merged(l)
    <3>0. /\ \/ place = "class" /\ l.kind \in {"method", "reserved", "field", "specifier",
                   "ctor", "using", "static", "callback", "structHead", "structLine"} \cup Opens
             \/ place = "struct" /\ l.kind \in {"using", "static", "nestedOpen", "close",
                   "field", "shared", "wrapped"}
             \/ place \in {"classHead", "structHead"} /\ l.kind = "brace"
             \/ place = "nested" /\ l.kind \in {"field", "close"}
             \/ place \in {"signature", "wrapped"} /\ l.kind = "ends"
          /\ l.junk = 0
      BY <1>3, <2>6, LineIsTyped, PlainForms
      DEF WellFormed, Shape, AtFile, InClass, InStruct, NewStruct, IsCode, NoCode, Comments,
          Opens, Functions, Members, Places
    <3>a. place # "signature" => m = l
      BY <2>6 DEF Merged
    <3>b. place = "signature" => /\ m \in Lines /\ m.kind = "method" /\ m.spec = held.spec
                                 /\ m.sig = held.sig /\ m.who = held.who /\ m.junk = 0
                                 /\ Completes(l) = held
      BY <2>6, <3>0, MergedSignature DEF Merged, Shape, Completes
    <3>1. m # None /\ ~StartsAsComment(m) /\ StateAfter(m) = section'
      <4>1. CASE place = "class"
        BY <2>0, <2>6, <3>0, <3>a, <4>1, HeaderAssumption
        DEF StartsAsComment, StateAfter, Comments, Scope, Opens
      <4>2. CASE place = "signature"
        BY <1>3, <3>b, <4>2, HeaderAssumption
        DEF StartsAsComment, StateAfter, Comments, Scope, InStep
      <4>3. CASE place \notin {"class", "signature"}
        <5>1. l.spec = None /\ l.kind \notin Comments \cup {"led"}
          BY <3>0, <4>3, LineIsTyped DEF Comments, Members
        <5>2. QED
          BY <2>0, <3>a, <4>3, <5>1, HeaderAssumption DEF StartsAsComment, StateAfter, Scope
      <4>4. QED
        BY <4>1, <4>2, <4>3
    <3>2. class' = "open" /\ comment' = "no" /\ tDoc' = FALSE
      BY <1>3, <2>6, <3>0 DEF Scope, Means, DocAfter, IsCode, Comments, NoCode, Opens
    <3>3. DeclaresApi(l) =>
              /\ AsRead(m) = Entry(Completes(l), Documented(l))
              /\ SigRead(m) = Completes(l).sig /\ AsRead(m).sig = SigRead(m)
      <4>1. SUFFICES ASSUME DeclaresApi(l)
                     PROVE  /\ AsRead(m) = Entry(Completes(l), Documented(l))
                            /\ SigRead(m) = Completes(l).sig /\ AsRead(m).sig = SigRead(m)
        OBVIOUS
      <4>2. /\ m.kind = "method" /\ m.who = Completes(l).who /\ m.sig = Completes(l).sig
            /\ l.kind # "led"
        BY <3>0, <3>a, <3>b, <4>1
        DEF Completes, DeclaresApi, Functions, Otherwise, Opens
      <4>3. doc = Documented(l)
        <5>1. doc = tDoc /\ tDoc \in BOOLEAN
          BY <2>0 DEF Shape
        <5>2. QED
          BY <4>2, <5>1 DEF Documented
      <4>4. QED
        BY <4>2, <4>3, PlainMethodRead DEF Entry
    <3>4. ParsesAsMethod(m) <=> DeclaresApi(l)
      BY <2>6, <3>0, <3>a, <3>b DEF ParsesAsMethod, DeclaresApi, Functions, Otherwise, Opens
    <3>5. DepthAfter(m) = CASE place' = "classHead" -> 0
                            [] place' \in {"class", "signature", "structHead"} -> 1
                            [] place' \in {"struct", "wrapped"} -> 2
                            [] OTHER -> 3
      <4>1. DepthAfter(m) = depth + Delta(m)
        <5>1. m.junk = 0 /\ Delta(m) \in Int
          BY <3>0, <3>a, <3>b DEF Delta
        <5>2. QED
          BY <2>0, <3>1, <5>1 DEF DepthAfter, TextDelta
      <4>2. place' = PlaceAfter(l) /\ (place = "nested" => open # None)
        BY <2>6, HeaderAssumption DEF Scope, Shape, Sigs
      <4>3. CASE place = "class"
        <5>1. depth = 1 /\ Delta(m) = IF l.kind \in Opens THEN 1 ELSE 0
          BY <1>3, <3>0, <3>a, <4>3 DEF InStep, Delta, Opens
        <5>2. place' = IF l.kind \in Opens THEN "struct"
                       ELSE IF l.kind = "structHead" THEN "structHead" ELSE "class"
          BY <3>0, <4>2, <4>3 DEF PlaceAfter, Opens
        <5>3. QED
          BY <4>1, <5>1, <5>2 DEF Opens
      <4>4. CASE place = "struct"
        <5>1. depth = 2 /\ Delta(m) = IF l.kind = "nestedOpen" THEN 1
                                      ELSE IF l.kind = "close" THEN -1 ELSE 0
          BY <1>3, <3>0, <3>a, <4>4 DEF InStep, Delta, Opens
        <5>2. place' = IF l.kind = "nestedOpen" THEN "nested"
                       ELSE IF l.kind = "close" THEN "class"
                       ELSE IF l.kind = "wrapped" THEN "wrapped" ELSE "struct"
          BY <1>3, <3>0, <4>2, <4>4 DEF PlaceAfter, Around, Opens
        <5>3. QED
          BY <4>1, <5>1, <5>2
      <4>5. CASE place = "signature"
        <5>1. depth = 1 /\ Delta(m) = 0
          BY <1>3, <3>b, <4>5 DEF InStep, Delta, Opens
        <5>2. place' = "class"
          BY <3>0, <4>2, <4>5 DEF PlaceAfter, Opens
        <5>3. QED
          BY <4>1, <5>1, <5>2
      <4>6. CASE place \in {"classHead", "structHead", "nested", "wrapped"}
        <5>1. depth = CASE place = "classHead" -> 0 [] place = "structHead" -> 1
                        [] place = "wrapped" -> 2 [] OTHER -> 3
          BY <1>3, <4>6 DEF InStep
        <5>2. Delta(m) = IF l.kind = "brace" THEN 1 ELSE IF l.kind = "close" THEN -1 ELSE 0
          BY <3>0, <3>a, <4>6 DEF Delta, Opens
        <5>3. place' = IF place = "classHead" THEN "class"
                       ELSE IF l.kind = "field" THEN "nested" ELSE "struct"
          BY <3>0, <4>2, <4>6 DEF PlaceAfter, Opens
        <5>4. QED
          BY <3>0, <4>1, <4>6, <5>1, <5>2, <5>3
      <4>7. QED
        BY <3>0, <4>3, <4>4, <4>5, <4>6
    <3>6. place' \notin {"classHead", "signature"} /\ section' \in Sections \cup {"default"}
      BY <1>0, <1>3, <2>6, <3>0 DEF Scope, Shape, PlaceAfter, Around, Opens
    <3>7. /\ depth' = DepthAfter(m) /\ st' = section' /\ doc' = FALSE /\ block' = FALSE
          /\ methods' = IF section' = "public" /\ ParsesAsMethod(m)
                        THEN methods \cup {AsRead(m)} ELSE methods
          /\ events' = IF section' = "events" /\ ParsesAsMethod(m)
                       THEN events \cup {AsRead(m)} ELSE events
          /\ apiBad' = (apiBad \/ (/\ section' \in {"public", "events"}
                                   /\ ParsesAsMethod(m) /\ SigRead(m) = Bad))
      <4>1. DepthAfter(m) > 0 /\ DepthAfter(m) \in Int
        BY <3>5, <3>6
      <4>2. Reading /\ block = FALSE /\ apiBad \in BOOLEAN /\ ScanClass(m)
        BY <2>0, <2>6, <3>1 DEF IsCode
      <4>3. QED
        BY <3>1, <4>1, <4>2, BodyLine
    <3>8. methods' = tMethods' /\ events' = tEvents'
      BY <3>3, <3>4, <3>7 DEF Means, InStep
    <3>9. apiBad' = (\E e \in tMethods' \cup tEvents' : e.sig = Bad)
      <4>1. apiBad = (\E e \in tMethods \cup tEvents : e.sig = Bad)
        BY DEF InStep
      <4>2. CASE section' \in {"public", "events"} /\ DeclaresApi(l)
        <5>1. tMethods' \cup tEvents' = tMethods \cup tEvents \cup {AsRead(m)}
          BY <3>3, <4>2 DEF Means
        <5>2. apiBad' = (apiBad \/ SigRead(m) = Bad)
          BY <3>4, <3>7, <4>2
        <5>3. AsRead(m).sig = SigRead(m)
          BY <3>3, <4>2
        <5>4. QED
          BY <4>1, <5>1, <5>2, <5>3
      <4>3. CASE ~(section' \in {"public", "events"} /\ DeclaresApi(l))
        <5>1. tMethods' = tMethods /\ tEvents' = tEvents
          BY <4>3 DEF Means
        <5>2. apiBad' = apiBad
          BY <2>0, <3>4, <3>7, <4>3
        <5>3. QED
          BY <4>1, <5>1, <5>2
      <4>4. QED
        BY <4>2, <4>3
    <3>10. QED
      BY <3>2, <3>5, <3>6, <3>7, <3>8, <3>9 DEF InStep
  <2>7. QED
    BY <2>1, <2>2, <2>3, <2>4, <2>5, <2>6 DEF IsCode, NoCode
<1> QED
  BY <1>1, <1>2, <1>3 DEF Shape

(***************************************************************************)
(* The struct scanner keeps step, and reads what the structs declare.      *)
(***************************************************************************)
Heads == Opens \cup {"structHead", "structLine"}

LEMMA StructCases ==
    ASSUME NEW m, ScanStructs(m)
    PROVE  /\ ~IsCode(m) \/ m.kind = "specifier" => Outside(m)
           /\ cur = None /\ m.kind \notin Heads => Outside(m)
           /\ cur = None /\ IsCode(m) /\ m.kind \in Heads => OpenStruct(m)
           /\ IsCode(m) /\ m.kind # "specifier" /\ cur # None /\ rdepth = 0 => OpenBody(m)
           /\ In(m) => \/ CloseStruct(m) \/ Join(m)
                       \/ SkipMember(m) \/ RefuseMember(m) \/ ReadField(m)
<1> USE DEF ScanStructs, Outside, OpenStruct, OpenBody, In, CloseStruct, Join, SkipMember,
        RefuseMember, ReadField, Declaration, Opens, Heads
<1>1. ~IsCode(m) \/ m.kind = "specifier" => Outside(m)
  OBVIOUS
<1>2. cur = None /\ m.kind \notin Heads => Outside(m)
  OBVIOUS
<1>3. cur = None /\ IsCode(m) /\ m.kind \in Heads => OpenStruct(m)
  OBVIOUS
<1>4. IsCode(m) /\ m.kind # "specifier" /\ cur # None /\ rdepth = 0 => OpenBody(m)
  OBVIOUS
<1>5. In(m) => \/ CloseStruct(m) \/ Join(m)
              \/ SkipMember(m) \/ RefuseMember(m) \/ ReadField(m)
  OBVIOUS
<1>6. QED
  BY <1>1, <1>2, <1>3, <1>4, <1>5

(* What a field adds to the text, and what reading it adds to the record.  *)
LEMMA FieldText ==
    ASSUME Read, NEW d \in Lines, d.who \in Fields, NEW r \in Records,
           tFields' = Add(tFields, r, {d.who}), tUses' = Add(tUses, r, {d.sig} \cap Records)
    PROVE  /\ tFields' \in [Records -> SUBSET Fields] /\ tUses' \in [Records -> SUBSET Records]
           /\ \A q \in Records :
                 /\ tFields'[q] = IF q = r THEN tFields[r] \cup {d.who} ELSE tFields[q]
                 /\ tUses'[q] = IF q = r THEN tUses[r] \cup ({d.sig} \cap Records) ELSE tUses[q]
<1>1. {d.who} \in SUBSET Fields /\ {d.sig} \cap Records \in SUBSET Records
  OBVIOUS
<1>2. tFields \in [Records -> SUBSET Fields] /\ tUses \in [Records -> SUBSET Records]
  BY DEF Read
<1>3. /\ tFields' \in [Records -> SUBSET Fields]
      /\ \A q \in Records : tFields'[q] = IF q = r THEN tFields[r] \cup {d.who} ELSE tFields[q]
  BY <1>1, <1>2 DEF Add
<1>4. /\ tUses' \in [Records -> SUBSET Records]
      /\ \A q \in Records :
            tUses'[q] = IF q = r THEN tUses[r] \cup ({d.sig} \cap Records) ELSE tUses[q]
  BY <1>1, <1>2 DEF Add
<1>5. QED
  BY <1>3, <1>4

LEMMA FieldRead ==
    ASSUME Read, NEW d \in Lines, d.who \in Fields, NEW r \in Records,
           fields' = Add(fields, r, {d.who}), uses' = Add(uses, r, {d.sig} \cap Records)
    PROVE  /\ fields' \in [Records -> SUBSET Fields] /\ uses' \in [Records -> SUBSET Records]
           /\ \A q \in Records :
                 /\ fields'[q] = IF q = r THEN fields[r] \cup {d.who} ELSE fields[q]
                 /\ uses'[q] = IF q = r THEN uses[r] \cup ({d.sig} \cap Records) ELSE uses[q]
<1>1. {d.who} \in SUBSET Fields /\ {d.sig} \cap Records \in SUBSET Records
  OBVIOUS
<1>2. fields \in [Records -> SUBSET Fields] /\ uses \in [Records -> SUBSET Records]
  BY DEF Read
<1>3. /\ fields' \in [Records -> SUBSET Fields]
      /\ \A q \in Records : fields'[q] = IF q = r THEN fields[r] \cup {d.who} ELSE fields[q]
  BY <1>1, <1>2 DEF Add
<1>4. /\ uses' \in [Records -> SUBSET Records]
      /\ \A q \in Records :
            uses'[q] = IF q = r THEN uses[r] \cup ({d.sig} \cap Records) ELSE uses[q]
  BY <1>1, <1>2 DEF Add
<1>5. QED
  BY <1>3, <1>4

LEMMA BothRead ==
    ASSUME Read, NEW d \in Lines, d.who \in Fields, NEW r \in Records, r \in tKnown,
           tFields' = Add(tFields, r, {d.who}), tUses' = Add(tUses, r, {d.sig} \cap Records),
           tBad' = IF d.sig = Bad THEN tBad \cup {r} ELSE tBad, UNCHANGED <<tKnown, tHard>>,
           fields' = Add(fields, r, {d.who}), uses' = Add(uses, r, {d.sig} \cap Records),
           fieldBad' = IF d.sig = Bad THEN fieldBad \cup {r} ELSE fieldBad
    PROVE  Read'
<1>1. /\ tFields' \in [Records -> SUBSET Fields] /\ tUses' \in [Records -> SUBSET Records]
      /\ \A q \in Records :
           /\ tFields'[q] = IF q = r THEN tFields[r] \cup {d.who} ELSE tFields[q]
           /\ tUses'[q] = IF q = r THEN tUses[r] \cup ({d.sig} \cap Records) ELSE tUses[q]
  BY FieldText
<1>2. /\ fields' \in [Records -> SUBSET Fields] /\ uses' \in [Records -> SUBSET Records]
      /\ \A q \in Records :
           /\ fields'[q] = IF q = r THEN fields[r] \cup {d.who} ELSE fields[q]
           /\ uses'[q] = IF q = r THEN uses[r] \cup ({d.sig} \cap Records) ELSE uses[q]
  BY FieldRead
<1>3. fieldBad' \subseteq tBad' /\ tBad' \subseteq tKnown' /\ tHard' \subseteq tKnown'
  BY DEF Read
<1>4. \A q \in Records : fields'[q] \subseteq tFields'[q] /\ uses'[q] \subseteq tUses'[q]
  BY <1>1, <1>2 DEF Read
<1>5. \A q \in Records \ tHard' : /\ fields'[q] = tFields'[q] /\ uses'[q] = tUses'[q]
                                  /\ q \in tBad' => q \in fieldBad'
  <2>1. SUFFICES ASSUME NEW q \in Records \ tHard
                 PROVE  /\ fields'[q] = tFields'[q] /\ uses'[q] = tUses'[q]
                        /\ q \in tBad' => q \in fieldBad'
    OBVIOUS
  <2>2. fields[q] = tFields[q] /\ uses[q] = tUses[q] /\ (q \in tBad => q \in fieldBad)
    BY DEF Read
  <2>3. fields'[q] = tFields'[q] /\ uses'[q] = tUses'[q]
    <3>1. CASE q = r
      <4>1. fields'[q] = fields[q] \cup {d.who} /\ uses'[q] = uses[q] \cup ({d.sig} \cap Records)
        BY <1>2, <3>1
      <4>2. /\ tFields'[q] = tFields[q] \cup {d.who}
            /\ tUses'[q] = tUses[q] \cup ({d.sig} \cap Records)
        BY <1>1, <3>1
      <4>3. QED
        BY <2>2, <4>1, <4>2
    <3>2. CASE q # r
      <4>1. fields'[q] = fields[q] /\ uses'[q] = uses[q]
        BY <1>2, <3>2
      <4>2. tFields'[q] = tFields[q] /\ tUses'[q] = tUses[q]
        BY <1>1, <3>2
      <4>3. QED
        BY <2>2, <4>1, <4>2
    <3>3. QED
      BY <3>1, <3>2
  <2>4. QED
    BY <2>2, <2>3
<1>6. QED
  BY <1>1, <1>2, <1>3, <1>4, <1>5 DEF Read

LEMMA KeepingStep ==
    ASSUME Quirks = {}, Shape, Keeping, Read, NEW l \in Lines, WellFormed(l), Scope(l),
           Means(l),
           IF Merged(l) = None THEN UNCHANGED <<cur, rdepth, acc, structs>>
                               ELSE ScanStructs(Merged(l))
    PROVE  Keeping' /\ Read'
<1>0. Shape'
  BY ShapeStep
<1>a. \/ Merged(l) = None /\ UNCHANGED <<cur, rdepth, acc, structs>>
      \/ ScanStructs(Merged(l))
  OBVIOUS
<1>b. IsCode(l) /\ place \notin {"class", "signature"} =>
          Merged(l) = l /\ l.kind # "signature" /\ ScanStructs(l)
  <2>1. IsCode(l) /\ place \notin {"class", "signature"} => l.kind # "signature"
    BY DEF WellFormed, Shape, Places, AtFile, InStruct, NewStruct, IsCode, Opens, Functions,
       Members
  <2>2. QED
    BY <2>1, <1>a, HeaderAssumption DEF Merged
<1>c. ~DeclaresField(l) => UNCHANGED <<tFields, tUses, tBad>>
  BY DEF Means
<1>1. CASE ~IsCode(l)
  <2>1. Merged(l) = l
    BY <1>1, PlainForms
    DEF Merged, IsCode, Shape, WellFormed, AtFile, InStruct, InClass, NewStruct, CommentText,
        NoCode, Comments
  <2>2. UNCHANGED <<cur, rdepth, acc, structs>>
    BY <1>1, <1>a, <2>1, StructCases, HeaderAssumption DEF Outside
  <2>3. UNCHANGED <<place, held, open, tKnown, tFields, tUses, tBad, tHard>>
    BY <1>1 DEF Scope, Means, DeclaresField
  <2>4. QED
    BY <2>2, <2>3 DEF Keeping, Read, structs
<1>2. CASE IsCode(l) /\ place \in {"file", "class"}
  <2>1. open = None /\ cur = None /\ ~DeclaresField(l)
    BY <1>2 DEF Keeping, Shape, DeclaresField
  <2>2. CASE l.kind \in Heads
    <3>1. OpenStruct(l) /\ l.who \in Records
      BY <1>2, <1>a, <2>1, <2>2, StructCases, LineIsTyped, HeaderAssumption
      DEF Merged, Heads, Opens
    <3>2. /\ place' = IF l.kind \in Opens THEN "struct"
                      ELSE IF l.kind = "structHead" THEN "structHead" ELSE place
          /\ open' = IF l.kind = "structLine" THEN None ELSE l.who
          /\ held' = None
      BY <1>2, <2>1, <2>2 DEF Scope, PlaceAfter, EndsStruct, Heads, Opens
    <3>3. /\ tKnown' = tKnown \cup {l.who}
          /\ tHard' = IF l.kind \in {"structBased", "structLine"}
                      THEN tHard \cup {l.who} ELSE tHard
      BY <1>2, <2>2 DEF Means, Heads, Opens
    <3>4. rdepth' = IF l.kind \in Opens THEN 1 ELSE 0
      BY <2>2, <3>1 DEF OpenStruct, Delta, Heads, Opens
    <3>5. acc' = acc /\ acc = None
      BY <1>2, <3>1 DEF OpenStruct, Keeping
    <3>6. Keeping'
      BY <1>2, <2>2, <3>1, <3>2, <3>3, <3>4, <3>5 DEF OpenStruct, Keeping, Heads, Opens
    <3>7. Read'
      BY <1>c, <2>1, <3>1, <3>3 DEF OpenStruct, Read
    <3>8. QED
      BY <3>6, <3>7
  <2>3. CASE l.kind \notin Heads
    <3>1. UNCHANGED <<cur, rdepth, acc, structs>>
      BY <1>2, <1>a, <2>1, <2>3, StructCases DEF Outside, Merged
    <3>2. /\ place' \in {"file", "class", "classHead", "signature"} /\ open' = open
          /\ UNCHANGED <<tKnown, tHard>>
      BY <1>2, <2>1, <2>3, PlainForms
      DEF Scope, Means, PlaceAfter, Around, EndsStruct, Heads, Opens, WellFormed, AtFile,
          InClass, NewStruct, Functions, Members, IsCode, NoCode, Comments
    <3>3. QED
      BY <1>2, <1>c, <2>1, <3>1, <3>2 DEF Keeping, Read, structs
  <2>4. QED
    BY <2>2, <2>3
<1>3. CASE IsCode(l) /\ place = "signature"
  <2>0. l.kind = "ends" /\ cur = None
    BY <1>3 DEF WellFormed, IsCode, Shape, Keeping
  <2>1. UNCHANGED <<cur, rdepth, acc, structs>>
    <3>1. Merged(l).kind = "method" /\ Merged(l) # None
      BY <1>3, <2>0, MergedSignature, HeaderAssumption DEF Merged, Shape
    <3>2. QED
      BY <1>a, <2>0, <3>1, StructCases DEF Outside, Heads, Opens
  <2>2. place' = "class" /\ UNCHANGED <<open, tKnown, tHard>>
    BY <1>3, <2>0 DEF Scope, Means, PlaceAfter, EndsStruct, Opens
  <2>3. ~DeclaresField(l)
    BY <1>3 DEF DeclaresField
  <2>4. QED
    BY <1>3, <1>c, <2>1, <2>2, <2>3 DEF Keeping, Read, structs
<1>4. CASE IsCode(l) /\ place \in {"classHead", "structHead"}
  <2>0. l.kind = "brace" /\ ~DeclaresField(l)
    BY <1>4 DEF WellFormed, IsCode, DeclaresField, Members
  <2>1. UNCHANGED <<open, tKnown, tHard>>
        /\ place' = IF place = "classHead" THEN "class" ELSE "struct"
    BY <1>4, <2>0 DEF Scope, Means, PlaceAfter, EndsStruct, Opens
  <2>2. UNCHANGED <<cur, acc, structs>> /\ rdepth' = IF place = "classHead" THEN rdepth ELSE 1
    <3>1. CASE place = "classHead"
      BY <1>4, <1>b, <2>0, <3>1, StructCases DEF Outside, Heads, Opens, Keeping, Shape
    <3>2. CASE place = "structHead"
      <4>1. cur # None /\ rdepth = 0
        BY <3>2, HeaderAssumption DEF Keeping, Shape, Sigs
      <4>2. QED
        BY <1>4, <1>b, <2>0, <3>2, <4>1, StructCases DEF OpenBody
    <3>3. QED
      BY <1>4, <3>1, <3>2
  <2>3. QED
    BY <1>4, <1>c, <2>0, <2>1, <2>2 DEF Keeping, Read, structs
<1>5. CASE IsCode(l) /\ place = "struct"
  <2>0. /\ open \in Records /\ cur = open /\ cur # None /\ rdepth = 1 /\ acc = None
        /\ held = None /\ ScanStructs(l)
    BY <1>5, <1>b, HeaderAssumption DEF Keeping, Shape, Sigs
  <2>1. l.kind \in {"using", "static", "nestedOpen", "close", "field", "shared", "wrapped",
                    "specifier"} \cup Functions
    BY <1>5 DEF WellFormed, InStruct, IsCode, Members, NoCode, Comments
  <2>2. First(l) = l /\ Completes(l) = l
    BY <2>0, <2>1 DEF First, Completes, Functions
  <2>3. CASE l.kind = "specifier"
    <3>1. UNCHANGED <<cur, rdepth, acc, structs>>
      BY <2>0, <2>3, StructCases DEF Outside
    <3>2. UNCHANGED <<place, open, tKnown, tHard>> /\ held' = None
      BY <1>5, <2>3 DEF Scope, Means, PlaceAfter, EndsStruct, Opens
    <3>3. ~DeclaresField(l)
      BY <2>3 DEF DeclaresField, Members
    <3>4. QED
      BY <1>5, <1>c, <3>1, <3>2, <3>3 DEF Keeping, Read, structs
  <2>4. CASE l.kind # "specifier"
    <3>1. CloseStruct(l) \/ Join(l) \/ SkipMember(l) \/ RefuseMember(l) \/ ReadField(l)
      BY <1>5, <2>0, <2>4, StructCases DEF In
    <3>2. CASE l.kind = "close"
      <4>1. rdepth + Delta(l) = 0
        BY <2>0, <3>2 DEF Delta, Opens
      <4>2. CloseStruct(l)
        BY <3>1, <4>1 DEF Join, Declaration, Whole, SkipMember, RefuseMember, ReadField
      <4>3. /\ place' \in {"class", "file"} /\ open' = None /\ held' = None
            /\ UNCHANGED <<tKnown, tHard>> /\ ~DeclaresField(l)
        BY <1>5, <3>2 DEF Scope, Means, PlaceAfter, Around, EndsStruct, Opens, DeclaresField,
           Members
      <4>4. QED
        BY <1>5, <1>c, <2>0, <4>2, <4>3 DEF CloseStruct, Keeping, Read
    <3>3. CASE l.kind \in {"nestedOpen", "methodOpen", "wrapped"}
      <4>1. rdepth + Delta(l) = (IF l.kind = "wrapped" THEN 1 ELSE 2) /\ ~Whole(l)
        <5>1. Delta(l) = IF l.kind = "wrapped" THEN 0 ELSE 1
          BY <3>3 DEF Delta, Opens
        <5>2. QED
          BY <2>0, <3>3, <5>1 DEF Whole
      <4>2. Join(l)
        BY <3>1, <4>1 DEF CloseStruct, Declaration, SkipMember, RefuseMember, ReadField
      <4>3. /\ place' = IF l.kind = "wrapped" THEN "wrapped"
                        ELSE IF l.kind = "nestedOpen" THEN "nested" ELSE "body"
            /\ held' = IF l.kind = "wrapped" THEN l ELSE None
            /\ tHard' = IF l.kind = "nestedOpen" THEN tHard \cup {open} ELSE tHard
            /\ UNCHANGED <<open, tKnown>> /\ ~DeclaresField(l)
        BY <1>5, <3>3 DEF Scope, Means, PlaceAfter, EndsStruct, Opens, DeclaresField, Members
      <4>4. Keeping'
        BY <1>5, <2>0, <2>2, <3>3, <4>1, <4>2, <4>3 DEF Join, Keeping, structs
      <4>5. Read'
        BY <1>5, <1>c, <2>0, <4>2, <4>3 DEF Join, Read, structs, Shape
      <4>6. QED
        BY <4>4, <4>5
    <3>4. CASE l.kind \in {"method", "noted", "inline", "using", "static"}
      <4>1. rdepth + Delta(l) = 1 /\ Whole(l)
        BY <2>0, <3>4 DEF Delta, Opens, Whole
      <4>2. SkipMember(l)
        BY <2>2, <3>1, <3>4, <4>1 DEF CloseStruct, Join, Declaration, RefuseMember, ReadField
      <4>3. /\ UNCHANGED <<place, open, tKnown, tHard>> /\ held' = None /\ ~DeclaresField(l)
        BY <1>5, <3>4 DEF Scope, Means, PlaceAfter, EndsStruct, Opens, DeclaresField, Members
      <4>4. QED
        BY <1>5, <1>c, <2>0, <4>2, <4>3 DEF SkipMember, Declaration, Keeping, Read
    <3>5. CASE l.kind = "shared"
      <4>1. rdepth + Delta(l) = 1 /\ Whole(l)
        BY <2>0, <3>5 DEF Delta, Opens, Whole
      <4>2. RefuseMember(l)
        BY <2>2, <3>1, <3>5, <4>1 DEF CloseStruct, Join, Declaration, SkipMember, ReadField,
           Functions
      <4>3. /\ UNCHANGED <<place, open, tKnown>> /\ held' = None
            /\ tHard' = tHard \cup {open}
        BY <1>5, <3>5 DEF Scope, Means, PlaceAfter, EndsStruct, Opens
      <4>4. Keeping'
        BY <1>5, <2>0, <4>2, <4>3 DEF RefuseMember, Declaration, Keeping
      <4>5. /\ tFields' = Add(tFields, open, {l.who}) /\ l.who \in Fields
            /\ tUses' = Add(tUses, open, {l.sig} \cap Records)
            /\ tBad' = IF l.sig = Bad THEN tBad \cup {open} ELSE tBad
        BY <1>5, <2>2, <3>5, LineIsTyped DEF Means, DeclaresField, Members
      <4>6. QED
        <5>1. UNCHANGED <<fields, uses, fieldBad>> /\ open \in tKnown
          BY <1>5, <4>2 DEF RefuseMember, Shape
        <5>2. /\ tFields' \in [Records -> SUBSET Fields] /\ tUses' \in [Records -> SUBSET Records]
              /\ \A q \in Records :
                    /\ tFields[q] \subseteq tFields'[q] /\ tUses[q] \subseteq tUses'[q]
                    /\ q # open => tFields'[q] = tFields[q] /\ tUses'[q] = tUses[q]
          <6>1. /\ tFields' \in [Records -> SUBSET Fields]
                /\ tUses' \in [Records -> SUBSET Records]
                /\ \A q \in Records :
                     /\ tFields'[q] = IF q = open THEN tFields[open] \cup {l.who} ELSE tFields[q]
                     /\ tUses'[q] = IF q = open THEN tUses[open] \cup ({l.sig} \cap Records)
                                                ELSE tUses[q]
            BY <2>0, <4>5, FieldText
          <6>2. QED
            BY <6>1
        <5>3. Read'
          BY <4>3, <4>5, <5>1, <5>2 DEF Read
        <5>4. QED
          BY <4>4, <5>3
    <3>6. CASE l.kind = "field"
      <4>1. rdepth + Delta(l) = 1 /\ Whole(l)
        BY <2>0, <3>6 DEF Delta, Opens, Whole
      <4>2. ReadField(l)
        BY <2>2, <3>1, <3>6, <4>1 DEF CloseStruct, Join, Declaration, SkipMember, RefuseMember,
           Functions
      <4>3. UNCHANGED <<place, open, tKnown, tHard>> /\ held' = None
        BY <1>5, <3>6 DEF Scope, Means, PlaceAfter, EndsStruct, Opens
      <4>4. Keeping'
        BY <1>5, <2>0, <4>2, <4>3 DEF ReadField, Declaration, Keeping
      <4>5. /\ tFields' = Add(tFields, open, {l.who}) /\ l.who \in Fields
            /\ tUses' = Add(tUses, open, {l.sig} \cap Records)
            /\ tBad' = IF l.sig = Bad THEN tBad \cup {open} ELSE tBad
        BY <1>5, <2>2, <3>6, LineIsTyped DEF Means, DeclaresField, Members
      <4>6. Read'
        <5>1. /\ fields' = Add(fields, open, {l.who}) /\ open \in tKnown
              /\ uses' = Add(uses, open, {l.sig} \cap Records)
              /\ fieldBad' = IF l.sig = Bad THEN fieldBad \cup {open} ELSE fieldBad
          BY <1>5, <2>0, <2>2, <4>2 DEF ReadField, Shape
        <5>2. QED
          BY <2>0, <4>3, <4>5, <5>1, BothRead
      <4>7. QED
        BY <4>4, <4>6
    <3>7. QED
      BY <2>1, <2>4, <3>2, <3>3, <3>4, <3>5, <3>6 DEF Functions
  <2>5. QED
    BY <2>3, <2>4
<1>6. CASE IsCode(l) /\ place = "wrapped"
  <2>0. /\ open \in Records /\ cur = open /\ cur # None /\ rdepth = 1 /\ acc = held
        /\ held \in Lines /\ held.kind = "wrapped" /\ ScanStructs(l) /\ l.kind = "ends"
    BY <1>6, <1>b, HeaderAssumption DEF Keeping, Shape, Sigs, WellFormed, IsCode
  <2>1. rdepth + Delta(l) = 1 /\ Whole(l) /\ First(l) = held /\ Completes(l) = held
    BY <2>0, HeaderAssumption DEF Delta, Opens, Whole, First, Completes
  <2>2. ReadField(l)
    <3>1. CloseStruct(l) \/ Join(l) \/ SkipMember(l) \/ RefuseMember(l) \/ ReadField(l)
      BY <1>6, <2>0, StructCases DEF In
    <3>2. QED
      BY <2>0, <2>1, <3>1 DEF CloseStruct, Join, Declaration, SkipMember, RefuseMember,
         Functions
  <2>3. place' = "struct" /\ UNCHANGED <<open, tKnown, tHard>> /\ held' = None
    BY <1>6, <2>0 DEF Scope, Means, PlaceAfter, EndsStruct, Opens
  <2>4. Keeping'
    BY <1>6, <2>0, <2>2, <2>3 DEF ReadField, Declaration, Keeping
  <2>5. /\ tFields' = Add(tFields, open, {held.who}) /\ held.who \in Fields
        /\ tUses' = Add(tUses, open, {held.sig} \cap Records)
        /\ tBad' = IF held.sig = Bad THEN tBad \cup {open} ELSE tBad
    BY <1>6, <2>0, <2>1, LineIsTyped DEF Means, DeclaresField
  <2>6. Read'
    <3>1. /\ fields' = Add(fields, open, {held.who}) /\ open \in tKnown
          /\ uses' = Add(uses, open, {held.sig} \cap Records)
          /\ fieldBad' = IF held.sig = Bad THEN fieldBad \cup {open} ELSE fieldBad
      BY <1>6, <2>0, <2>1, <2>2 DEF ReadField, Shape
    <3>2. QED
      BY <2>0, <2>3, <2>5, <3>1, BothRead
  <2>7. QED
    BY <2>4, <2>6
<1>7. CASE IsCode(l) /\ place \in {"nested", "body"}
  <2>0. /\ cur = open /\ cur # None /\ rdepth = 2 /\ acc \in Lines /\ ScanStructs(l)
        /\ acc.kind = IF place = "nested" THEN "nestedOpen" ELSE "methodOpen"
        /\ l.kind \in {"field", "stmt", "returns", "close"} /\ held = None
    BY <1>7, <1>b, HeaderAssumption DEF Keeping, Shape, Sigs, WellFormed, IsCode
  <2>1. First(l) = acc /\ ~DeclaresField(l)
    BY <1>7, <2>0, HeaderAssumption DEF First, DeclaresField
  <2>2. CloseStruct(l) \/ Join(l) \/ SkipMember(l) \/ RefuseMember(l) \/ ReadField(l)
    BY <1>7, <2>0, StructCases DEF In
  <2>3. UNCHANGED <<open, tKnown, tHard>> /\ held' = None
        /\ place' = IF l.kind = "close" THEN "struct" ELSE place
    BY <1>7, <2>0 DEF Scope, Means, PlaceAfter, EndsStruct, Opens
  <2>4. CASE l.kind = "close"
    <3>1. rdepth + Delta(l) = 1 /\ Whole(l)
      BY <2>0, <2>4 DEF Delta, Opens, Whole
    <3>2. IF place = "nested" THEN RefuseMember(l) ELSE SkipMember(l)
      BY <2>0, <2>1, <2>2, <3>1 DEF CloseStruct, Join, Declaration, SkipMember, RefuseMember,
         ReadField, Functions
    <3>3. QED
      BY <1>7, <1>c, <2>0, <2>1, <2>3, <2>4, <3>2
      DEF RefuseMember, SkipMember, Declaration, Keeping, Read
  <2>5. CASE l.kind # "close"
    <3>1. rdepth + Delta(l) = 2 /\ ~Whole(l)
      BY <2>0, <2>5 DEF Delta, Opens, Whole
    <3>2. Join(l)
      BY <2>2, <3>1 DEF CloseStruct, Declaration, SkipMember, RefuseMember, ReadField
    <3>3. QED
      BY <1>7, <1>c, <2>0, <2>1, <2>3, <2>5, <3>1, <3>2 DEF Join, Keeping, Read, structs
  <2>6. QED
    BY <2>4, <2>5
<1>8. QED
  BY <1>1, <1>2, <1>3, <1>4, <1>5, <1>6, <1>7 DEF Shape, Places

(***************************************************************************)
(* The invariant.                                                          *)
(***************************************************************************)
LEMMA Begins ==
    ASSUME Quirks = {}, ScanInit
    PROVE  Agreement
<1>1. Shape
  BY DEF ScanInit, Init, Shape, Places
<1>2. InStep
  BY DEF ScanInit, Init, InStep
<1>3. Keeping
  BY DEF ScanInit, Init, Keeping
<1>4. Read
  BY DEF ScanInit, Init, Read
<1>5. QED
  BY <1>1, <1>2, <1>3, <1>4 DEF ScanInit, Agreement, Judged

LEMMA SameVerdict ==
    ASSUME UNCHANGED <<methods, events, apiBad, known, fields, uses, fieldBad, unreadable>>
    PROVE  Verdict' = Verdict
  BY DEF Verdict, Referenced, Published, Reachable, Named, ClosedUnder

LEMMA Continues ==
    ASSUME Agreement, [Next]_vars
    PROVE  Agreement'
<1>1. CASE Judge
  <2>1. Shape' /\ InStep' /\ Keeping' /\ Read'
    BY <1>1 DEF Judge, Agreement, Shape, InStep, Keeping, Read, text, meaning, classScan, structs,
       StateAfter
  <2>2. Complete' /\ verdict' = Verdict'
    BY <1>1, SameVerdict DEF Judge, Complete, text, classScan, structs
  <2>3. QED
    BY <2>1, <2>2 DEF Agreement, Judged
<1>2. CASE \E l \in Lines : ReadLine(l)
  <2>1. PICK l \in Lines : ReadLine(l)
    BY <1>2
  <2>2. /\ WellFormed(l) /\ Scope(l) /\ Means(l) /\ verdict' = "none"
        /\ IF Merged(l) = None THEN UNCHANGED classScan ELSE ScanClass(Merged(l))
        /\ IF Merged(l) = None THEN UNCHANGED <<cur, rdepth, acc, structs>>
                               ELSE ScanStructs(Merged(l))
    BY <2>1 DEF ReadLine
  <2>3. Shape'
    BY <2>2, ShapeStep DEF Agreement
  <2>4. InStep'
    BY <2>2, InStepStep DEF Agreement
  <2>5. Keeping' /\ Read'
    BY <2>2, KeepingStep DEF Agreement
  <2>6. QED
    BY <2>2, <2>3, <2>4, <2>5 DEF Agreement, Judged
<1>3. CASE UNCHANGED vars
  <2>1. Shape' /\ InStep' /\ Keeping' /\ Read'
    BY <1>3 DEF vars, Agreement, Shape, InStep, Keeping, Read, text, meaning, classScan, structs,
       StateAfter
  <2>2. Judged'
    BY <1>3, SameVerdict DEF vars, Agreement, Judged, Complete, text, classScan, structs
  <2>3. QED
    BY <2>1, <2>2 DEF Agreement
<1>4. QED
  BY <1>1, <1>2, <1>3 DEF Next

(***************************************************************************)
(* What is reachable.                                                      *)
(***************************************************************************)
LEMMA ReachableIsLeast ==
    ASSUME NEW api, NEW use \in [Records -> SUBSET Records]
    PROVE  /\ Named(api) \subseteq Reachable(api, use)
           /\ ClosedUnder(Reachable(api, use), use)
           /\ \A S \in SUBSET Records :
                 Named(api) \subseteq S /\ ClosedUnder(S, use) => Reachable(api, use) \subseteq S
<1>1. Named(api) \subseteq Reachable(api, use)
  BY DEF Named, Reachable
<1>2. ClosedUnder(Reachable(api, use), use)
  <2> SUFFICES ASSUME NEW r \in Reachable(api, use), NEW q \in use[r],
                      NEW S \in SUBSET Records, Named(api) \subseteq S, ClosedUnder(S, use)
               PROVE  q \in S /\ q \in Records
    BY DEF ClosedUnder, Reachable
  <2>1. r \in S /\ r \in Records
    BY DEF Reachable
  <2>2. QED
    BY <2>1 DEF ClosedUnder
<1>3. \A S \in SUBSET Records :
          Named(api) \subseteq S /\ ClosedUnder(S, use) => Reachable(api, use) \subseteq S
  BY DEF Reachable
<1>4. QED
  BY <1>1, <1>2, <1>3

(* An accepted header declares all that it leads to.                       *)
LEMMA Accepted ==
    ASSUME Verdict = "published", uses \in [Records -> SUBSET Records]
    PROVE  Referenced \subseteq known /\ Published = Referenced
<1> DEFINE api == methods \cup events
           S == Referenced \cap known
<1>1. /\ Named(api) \subseteq Referenced /\ ClosedUnder(Referenced, uses)
      /\ \A T \in SUBSET Records :
            Named(api) \subseteq T /\ ClosedUnder(T, uses) => Referenced \subseteq T
  BY ReachableIsLeast DEF Referenced
<1>2. /\ \A r \in S : r \notin unreadable /\ fields[r] # {}
      /\ Named(api) \subseteq known
      /\ \A r \in Published : uses[r] \subseteq known
  BY DEF Verdict
<1>3. S \in SUBSET Records
  BY DEF Referenced, Reachable
<1>4. ClosedUnder(S, uses)
  BY <1>1, <1>2 DEF ClosedUnder, Published
<1>5. Referenced \subseteq S
  BY <1>1, <1>2, <1>3, <1>4
<1>6. QED
  BY <1>2, <1>5 DEF Published

LEMMA AcceptedIsTheHeader ==
    ASSUME Agreement
    PROVE  ContractIsTheHeader
<1> SUFFICES ASSUME verdict = "published"
             PROVE  /\ methods = tMethods /\ events = tEvents
                    /\ Published = TReachable
                    /\ \A r \in TReachable : r \notin tHard /\ fields[r] = tFields[r]
  BY DEF ContractIsTheHeader
<1> DEFINE api == methods \cup events
<1>1. Verdict = "published" /\ place = "file"
  BY DEF Agreement, Judged, Complete
<1>2. /\ methods = tMethods /\ events = tEvents /\ tHard = unreadable
      /\ uses \in [Records -> SUBSET Records] /\ tUses \in [Records -> SUBSET Records]
      /\ \A r \in Records : uses[r] \subseteq tUses[r]
      /\ \A r \in Records \ tHard : fields[r] = tFields[r] /\ uses[r] = tUses[r]
  BY <1>1 DEF Agreement, InStep, Keeping, Read
<1>3. Referenced \subseteq known /\ Published = Referenced
  BY <1>1, <1>2, Accepted
<1>4. Referenced \in SUBSET Records /\ TReachable \in SUBSET Records
  BY DEF Referenced, TReachable, Reachable
<1>5. \A r \in Referenced : r \notin tHard
  BY <1>1, <1>2, <1>3 DEF Verdict
<1>6. TReachable \subseteq Referenced
  <2>1. Named(api) \subseteq Referenced /\ ClosedUnder(Referenced, uses)
    BY <1>2, ReachableIsLeast DEF Referenced
  <2>2. ClosedUnder(Referenced, tUses)
    BY <1>2, <1>4, <1>5, <2>1 DEF ClosedUnder
  <2>3. QED
    BY <1>2, <1>4, <2>1, <2>2, ReachableIsLeast DEF TReachable
<1>7. Referenced \subseteq TReachable
  <2>1. Named(api) \subseteq TReachable /\ ClosedUnder(TReachable, tUses)
    BY <1>2, ReachableIsLeast DEF TReachable
  <2>2. ClosedUnder(TReachable, uses)
    BY <1>2, <1>4, <2>1 DEF ClosedUnder
  <2>3. QED
    BY <1>2, <1>4, <2>1, <2>2, ReachableIsLeast DEF Referenced
<1>8. QED
  BY <1>2, <1>3, <1>4, <1>5, <1>6, <1>7

LEMMA RefusedIsInexpressible ==
    ASSUME Agreement
    PROVE  RefusedForAReason
<1> SUFFICES ASSUME verdict \in {"unreadable", "unsupported"}, Expressible
             PROVE  FALSE
  BY DEF RefusedForAReason
<1> DEFINE api == methods \cup events
<1>1. Verdict \in {"unreadable", "unsupported"} /\ place = "file"
  BY DEF Agreement, Judged, Complete
<1>2. /\ methods = tMethods /\ events = tEvents /\ tHard = unreadable /\ known = tKnown
      /\ uses \in [Records -> SUBSET Records] /\ tUses \in [Records -> SUBSET Records]
      /\ \A r \in Records : uses[r] \subseteq tUses[r]
      /\ \A r \in Records \ tHard : fields[r] = tFields[r]
      /\ fieldBad \subseteq tBad
  BY <1>1 DEF Agreement, InStep, Keeping, Read
<1>3. apiBad = (\E e \in tMethods \cup tEvents : e.sig = Bad)
  BY DEF Agreement, InStep
<1>4. ~apiBad
  BY <1>3 DEF Expressible
<1>5. /\ TReachable \subseteq known /\ TReachable \in SUBSET Records
      /\ \A r \in TReachable : r \notin tBad \cup unreadable /\ tFields[r] # {}
  BY <1>2 DEF Expressible, TReachable, Reachable
<1>6. Named(api) \subseteq TReachable /\ ClosedUnder(TReachable, tUses)
  BY <1>2, ReachableIsLeast DEF TReachable
<1>7. ClosedUnder(TReachable, uses)
  BY <1>2, <1>5, <1>6 DEF ClosedUnder
<1>8. Referenced \subseteq TReachable
  BY <1>2, <1>5, <1>6, <1>7, ReachableIsLeast DEF Referenced
<1>9. ~\E r \in Referenced \cap known : r \in unreadable \/ fields[r] = {}
  BY <1>2, <1>5, <1>8
<1>10. Named(api) \subseteq known
  BY <1>5, <1>6
<1>11. \A r \in Published : r \notin fieldBad /\ uses[r] \subseteq known
  BY <1>2, <1>5, <1>7, <1>8 DEF Published, ClosedUnder
<1>12. QED
  BY <1>1, <1>4, <1>9, <1>10, <1>11 DEF Verdict

LEMMA AcceptedIsClosed ==
    ASSUME verdict = "published" => Verdict = "published",
           uses \in [Records -> SUBSET Records]
    PROVE  NoDanglingName
<1> SUFFICES ASSUME Verdict = "published"
             PROVE  /\ Named(methods \cup events) \subseteq Published
                    /\ ClosedUnder(Published, uses)
  BY DEF NoDanglingName
<1>1. QED
  BY Accepted, ReachableIsLeast DEF Referenced

(* A header in the plain style, of any length, that parseImplHeader        *)
(* accepts is published as it stands.                                      *)
THEOREM ContractIsTheHeaderHolds ==
    ASSUME Quirks = {}
    PROVE  Spec => []ContractIsTheHeader
<1>1. ScanInit => Agreement
  BY Begins
<1>2. Agreement /\ [Next]_vars => Agreement'
  BY Continues
<1>3. Agreement => ContractIsTheHeader
  BY AcceptedIsTheHeader
<1>4. QED
  BY <1>1, <1>2, <1>3, PTL DEF Spec

(* A header in the plain style that parseImplHeader refuses asks of the    *)
(* contract something that it cannot express.                              *)
THEOREM RefusedForAReasonHolds ==
    ASSUME Quirks = {}
    PROVE  Spec => []RefusedForAReason
<1>1. ScanInit => Agreement
  BY Begins
<1>2. Agreement /\ [Next]_vars => Agreement'
  BY Continues
<1>3. Agreement => RefusedForAReason
  BY RefusedIsInexpressible
<1>4. QED
  BY <1>1, <1>2, <1>3, PTL DEF Spec

(***************************************************************************)
(* Every header, whatever forms it uses.                                   *)
(***************************************************************************)
TypedStructs ==
    /\ cur \in known \cup {None} /\ rdepth \in Nat /\ acc \in Lines \cup {None}
    /\ known \subseteq Records /\ fieldBad \subseteq known /\ unreadable \subseteq known
    /\ fields \in [Records -> SUBSET Fields] /\ uses \in [Records -> SUBSET Records]

TypedClass ==
    /\ st \in {"Looking", "default", "Done"} \cup Sections /\ depth \in Int
    /\ doc \in BOOLEAN /\ block \in BOOLEAN /\ apiBad \in BOOLEAN

Typed ==
    /\ TypedClass /\ TypedStructs
    /\ place = "signature" => held \in Lines /\ held.kind = "signature"
    /\ verdict \in {"none", "published", "unreadable", "unsupported"}
    /\ verdict # "none" => verdict = Verdict

LEMMA MergedIsALine ==
    ASSUME Typed, NEW l \in Lines, Merged(l) # None
    PROVE  Merged(l) \in Lines
  BY MergedSignature DEF Merged, Typed

LEMMA ScanClassTyped ==
    ASSUME TypedClass, NEW m \in Lines, ScanClass(m)
    PROVE  TypedClass'
<1>1. Delta(m) \in Int /\ m.junk \in Int /\ DepthAfter(m) \in Int
  <2>1. Delta(m) \in Int /\ m.junk \in Int
    BY LineIsTyped DEF Delta, Braces
  <2>2. QED
    BY <2>1 DEF DepthAfter, TextDelta, TypedClass
<1>2. StateAfter(m) \in {"Looking", "default", "Done"} \cup Sections
  BY LineIsTyped DEF StateAfter, TypedClass
<1> USE <1>1, <1>2 DEF TypedClass, Body
<1>3. CASE Looking(m) \/ ReadNoFurther(m)
  BY <1>3 DEF Looking, ReadNoFurther, classScan
<1>4. CASE FindClass(m)
  BY <1>4 DEF FindClass
<1>5. CASE DocText(m) \/ ClassEnds(m)
  BY <1>5 DEF DocText, ClassEnds
<1>6. CASE Documentation(m) \/ OtherComment(m)
  BY <1>6 DEF Documentation, OtherComment
<1>7. CASE PublishEvent(m)
  BY <1>7 DEF PublishEvent
<1>8. CASE PublishMethod(m)
  BY <1>8 DEF PublishMethod
<1>9. CASE PublishNothing(m)
  BY <1>9 DEF PublishNothing
<1>10. QED
  BY <1>3, <1>4, <1>5, <1>6, <1>7, <1>8, <1>9 DEF ScanClass

LEMMA ScanStructsTyped ==
    ASSUME TypedStructs, NEW m \in Lines, ScanStructs(m)
    PROVE  TypedStructs'
<1>1. First(m) \in Lines /\ Delta(m) \in Int
  BY DEF First, TypedStructs, Delta
<1> USE <1>1 DEF TypedStructs, structs
<1>2. CASE Outside(m)
  BY <1>2 DEF Outside
<1>3. CASE OpenStruct(m)
  <2>1. m.who \in Records /\ Delta(m) \in Nat
    BY <1>3, LineIsTyped DEF OpenStruct, Delta, Opens
  <2>2. QED
    BY <1>3, <2>1 DEF OpenStruct
<1>4. CASE OpenBody(m)
  BY <1>4 DEF OpenBody
<1>5. CASE CloseStruct(m)
  BY <1>5 DEF CloseStruct, In
<1>6. CASE Join(m)
  BY <1>6 DEF Join, In
<1>7. CASE SkipMember(m) \/ RefuseMember(m)
  BY <1>7 DEF SkipMember, RefuseMember, Declaration, In
<1>8. CASE ReadField(m)
  <2>1. First(m).who \in Fields /\ cur \in known /\ rdepth' = 1 /\ acc' = None
        /\ UNCHANGED <<cur, known, unreadable>>
    BY <1>8, LineIsTyped DEF ReadField, Declaration, In, Members
  <2>2. fields' \in [Records -> SUBSET Fields] /\ uses' \in [Records -> SUBSET Records]
    BY <1>8, <2>1 DEF ReadField, Add
  <2>3. fieldBad' \subseteq known
    BY <1>8, <2>1 DEF ReadField
  <2>4. QED
    BY <2>1, <2>2, <2>3
<1>9. QED
  BY <1>2, <1>3, <1>4, <1>5, <1>6, <1>7, <1>8 DEF ScanStructs

LEMMA StaysTyped ==
    ASSUME Typed, [Next]_vars
    PROVE  Typed'
<1>1. CASE Judge
  <2>1. TypedClass' /\ TypedStructs'
    BY <1>1 DEF Judge, Typed, TypedClass, TypedStructs, classScan, structs
  <2>2. verdict' = Verdict'
    BY <1>1, SameVerdict DEF Judge, classScan, structs
  <2>3. verdict' \in {"published", "unreadable", "unsupported"}
    BY <1>1 DEF Judge, Verdict
  <2>4. QED
    BY <1>1, <2>1, <2>2, <2>3 DEF Judge, Typed, text
<1>2. CASE \E l \in Lines : ReadLine(l)
  <2>1. PICK l \in Lines : ReadLine(l)
    BY <1>2
  <2>2. Scope(l) /\ verdict' = "none"
    BY <2>1 DEF ReadLine
  <2>3. TypedClass' /\ TypedStructs'
    <3>1. CASE Merged(l) = None
      BY <2>1, <3>1 DEF ReadLine, Typed, TypedClass, TypedStructs, classScan, structs
    <3>2. CASE Merged(l) # None
      BY <2>1, <3>2, MergedIsALine, ScanClassTyped, ScanStructsTyped DEF ReadLine, Typed
    <3>3. QED
      BY <3>1, <3>2
  <2>4. place' = "signature" => held' \in Lines /\ held'.kind = "signature"
    <3>1. CASE IsCode(l)
      BY <2>1, <2>2, <3>1 DEF ReadLine, WellFormed, IsCode, Scope, PlaceAfter, Around, Opens, NoCode
    <3>2. CASE ~IsCode(l)
      BY <2>2, <3>2 DEF Scope, Typed
    <3>3. QED
      BY <3>1, <3>2
  <2>5. QED
    BY <2>2, <2>3, <2>4 DEF Typed
<1>3. CASE UNCHANGED vars
  <2>1. TypedClass' /\ TypedStructs' /\ Verdict' = Verdict
    BY <1>3, SameVerdict DEF vars, Typed, TypedClass, TypedStructs, classScan, structs
  <2>2. QED
    BY <1>3, <2>1 DEF Typed, vars, text
<1>4. QED
  BY <1>1, <1>2, <1>3 DEF Next

LEMMA StartsTyped ==
    ASSUME ScanInit
    PROVE  Typed
<1>1. TypedClass
  <2>1. st = "Looking" /\ depth = 0 /\ doc = FALSE /\ block = FALSE /\ apiBad = FALSE
    BY DEF ScanInit
  <2>2. doc \in BOOLEAN /\ block \in BOOLEAN /\ apiBad \in BOOLEAN
    BY <2>1, Zenon
  <2>3. QED
    BY <2>1, <2>2 DEF TypedClass
<1>2. TypedStructs
  BY DEF ScanInit, TypedStructs
<1>3. QED
  BY <1>1, <1>2 DEF ScanInit, Init, Typed

(* The scanners' variables keep their types.                               *)
THEOREM HeaderScanTypeCorrect == Spec => []TypeOK
<1>1. ScanInit => Typed
  BY StartsTyped
<1>2. Typed /\ [Next]_vars => Typed'
  BY StaysTyped
<1>3. Typed => TypeOK
  BY DEF Typed, TypedClass, TypedStructs, TypeOK
<1>4. QED
  BY <1>1, <1>2, <1>3, PTL DEF Spec

(* A published contract names no record that it does not declare, in       *)
(* whatever style the header is.                                           *)
THEOREM NoDanglingNameHolds == Spec => []NoDanglingName
<1>1. ScanInit => Typed
  BY StartsTyped
<1>2. Typed /\ [Next]_vars => Typed'
  BY StaysTyped
<1>3. Typed => NoDanglingName
  BY AcceptedIsClosed DEF Typed, TypedStructs
<1>4. QED
  BY <1>1, <1>2, <1>3, PTL DEF Spec

(***************************************************************************)
(* RUNS OF THE COMMAND LINE                                                *)
(***************************************************************************)
Modes    == {"umbrella", "normalize", "headerToLidl", "fromHeader", "cdylib", "client",
             "list", "plugin"}
Checking == {"check", "scan", "temp"}
Phases   == {"interfaces", "wrappers", "deps", "members"}
Kinds    == {"api.h", "api.cpp", "logos_sdk.h", "logos_sdk.cpp", "metadata.json", "lidl",
             "types.h", "module_impl.cpp", "events_cdylib.cpp"}
Files    == (Modules \cup {None}) \X Kinds
Codes    == SUBSET (Nat \ {0})
Steps    == [do : Checking \cup Phases, codes : Codes]
            \cup [do : {"write"}, file : Files, codes : Codes]

GenTypeOK ==
    /\ contract \in {"none", "events", "plain", "refused"}
    /\ run \in Nat /\ mode \in Modes \cup {"none"}
    /\ todo \in Seq(Steps) /\ exit \in Nat \cup {None} /\ refused \in BOOLEAN
    /\ skip \in BOOLEAN /\ origin \in BOOLEAN
    /\ ifaces \in Seq(Specs) /\ deps \in Seq(Specs) /\ left \in Seq(Specs)
    /\ members \in Seq(Modules)
    /\ sdk \in [h : SUBSET Modules, cpp : SUBSET Modules]
    /\ wrote \subseteq Files /\ disk \subseteq Files
    /\ temp \in BOOLEAN /\ spoiled \in BOOLEAN

(***************************************************************************)
(* The steps that remain.                                                  *)
(***************************************************************************)
Writes(s, f) == s.do = "write" /\ s.file = f

(* A header's write is followed at once by its source's, and nothing comes *)
(* between a made-up metadata file and the scan that removes it.           *)
InPairsAt(s, i) ==
    /\ s[i].do = "temp" => i < Len(s) /\ s[i + 1].do = "scan"
    /\ \A n \in Modules :
           /\ Writes(s[i], WrapperH(n)) => i < Len(s) /\ Writes(s[i + 1], WrapperCpp(n))
           /\ Writes(s[i], WrapperCpp(n)) => i = 1 \/ Writes(s[i - 1], WrapperH(n))
    /\ Writes(s[i], SdkH) => i + 1 = Len(s) /\ Writes(s[i + 1], SdkCpp)
    /\ Writes(s[i], SdkCpp) => i = Len(s) /\ (i = 1 \/ Writes(s[i - 1], SdkH))

InPairs(s) == \A i \in 1 .. Len(s) : InPairsAt(s, i)

(* In every mode but the umbrella's all checks come before all writes.     *)
ChecksFirst(s) ==
    \A i \in 1 .. Len(s) :
        /\ s[i].do \notin Phases
        /\ s[i].do # "write" => \A j \in 1 .. i : s[j].do # "write"

(* The umbrella's phases come at the end, and a loop before the next one.  *)
InPhases(s) ==
    /\ s # <<>>
    /\ \A i \in 1 .. Len(s) :
           /\ s[i].do = "wrappers" => i + 1 = Len(s) /\ s[Len(s)].do \in {"deps", "members"}
           /\ s[i].do \in Phases \ {"wrappers"} => i = Len(s)
    /\ \/ s[Len(s)].do \in Phases
       \/ Len(s) <= 2 /\ Writes(s[Len(s)], SdkCpp)

Planned ==
    exit = None => /\ InPairs(todo)
                   /\ mode # "umbrella" => ChecksFirst(todo)
                   /\ mode = "umbrella" => InPhases(todo)

(***************************************************************************)
(* What has been written.                                                  *)
(***************************************************************************)
AtHand(f) == exit = None /\ todo # <<>> /\ Writes(todo[1], f)

(* Of the files in S only the source that is written next is missing.      *)
Matched(S) ==
    \A n \in Modules :
        /\ WrapperCpp(n) \in S => WrapperH(n) \in S
        /\ WrapperH(n) \in S => WrapperCpp(n) \in S \/ AtHand(WrapperCpp(n))

Good == exit = None \/ exit = 0

Written ==
    /\ wrote \subseteq disk
    /\ run = 0 \/ exit # None => todo = <<>>
    /\ exit = None => ~refused
    /\ Good => /\ Matched(wrote)
               /\ ~spoiled => Matched(disk)
               /\ \A n \in Modules : AtHand(WrapperCpp(n)) => WrapperH(n) \in wrote
    /\ exit = None /\ mode # "umbrella" /\ wrote # {} => \A i \in 1 .. Len(todo) : todo[i].do = "write"
    /\ temp => exit = None /\ todo # <<>> /\ todo[1].do = "scan"

SdkIsCurrent ==
    /\ AtHand(SdkCpp) <=> exit = None /\ SdkH \in wrote
    /\ Good /\ SdkH \in wrote => sdk.h = SdkNames("api.h")
    /\ exit = 0 /\ SdkH \in wrote => sdk.cpp = SdkNames("api.cpp")
    /\ exit = 0 /\ mode = "umbrella" => SdkH \in wrote

Due(n) ==
    \/ WrapperCpp(n) \in wrote
    \/ \E i \in 1 .. Len(todo) : Writes(todo[i], WrapperCpp(n))
    \/ \E i \in 1 .. Len(left) : left[i].name = n

Stage(p) == exit = None /\ todo # <<>> /\ todo[Len(todo)].do = p

Collected ==
    mode = "umbrella" /\ Good =>
    /\ left # <<>> => exit = None /\ Len(todo) >= 2 /\ todo[Len(todo) - 1].do = "wrappers"
    /\ Stage("interfaces") => deps = <<>>
    /\ (exit = 0 \/ Stage("write")) /\ deps # <<>> => members = NamesOf(deps)
    /\ ~skip /\ ~Stage("interfaces") => \A i \in 1 .. Len(ifaces) : Due(ifaces[i].name)
    /\ ~skip /\ ~Stage("interfaces") /\ ~Stage("deps") => \A i \in 1 .. Len(deps) : Due(deps[i].name)

Distinct ==
    /\ \A i, j \in 1 .. Len(ifaces) : ifaces[i].name = ifaces[j].name => i = j
    /\ \A i, j \in 1 .. Len(deps) : deps[i].name = deps[j].name => i = j
    /\ \A i \in 1 .. Len(ifaces), j \in 1 .. Len(deps) : ifaces[i].name # deps[j].name

GenInv == GenTypeOK /\ Planned /\ Written /\ SdkIsCurrent /\ Collected /\ Distinct /\ RefusalLeavesNoHalf

(***************************************************************************)
(* The plans.                                                              *)
(***************************************************************************)
LEMMA StepTypes ==
    /\ \A c \in Codes : Check(c) \in Steps
    /\ \A c \in Nat \ {0} : Scan(c) \in Steps
    /\ Temp \in Steps
    /\ \A p \in Phases : Phase(p) \in Steps
    /\ \A f \in Files, c \in Nat \ {0} : Write(f, c) \in Steps
BY DEF Codes, Steps, Check, Scan, Temp, Phase, Write, Checking

LEMMA FileTypes ==
    /\ \A n \in Modules : WrapperH(n) \in Files /\ WrapperCpp(n) \in Files
    /\ SdkH \in Files /\ SdkCpp \in Files
    /\ \A k \in Kinds : Other(k) \in Files
BY DEF Files, Kinds, WrapperH, WrapperCpp, SdkH, SdkCpp, Other

(* What a plan is made of.                                                 *)
Piece(s) ==
    /\ s \in Seq(Steps) /\ InPairs(s)
    /\ s # <<>> => ~Writes(s[1], SdkCpp) /\ \A n \in Modules : ~Writes(s[1], WrapperCpp(n))

NoSdk(s) == \A i \in 1 .. Len(s) : ~Writes(s[i], SdkH) /\ ~Writes(s[i], SdkCpp)

Simple(s) ==
    /\ s.do # "temp"
    /\ s.do = "write" => s.file[2] \notin {"api.h", "api.cpp", "logos_sdk.h", "logos_sdk.cpp"}

(* Steps that come in no pair.                                             *)
LEMMA SimplePiece ==
    ASSUME NEW s \in Seq(Steps), \A i \in 1 .. Len(s) : Simple(s[i])
    PROVE  Piece(s) /\ NoSdk(s)
BY DEF Piece, NoSdk, InPairs, InPairsAt, Simple, Writes, WrapperH, WrapperCpp, SdkH, SdkCpp

LEMMA Joined ==
    ASSUME NEW S, NEW s \in Seq(S), NEW t \in Seq(S)
    PROVE  /\ s \o t \in Seq(S) /\ Len(s \o t) = Len(s) + Len(t)
           /\ \A i \in 1 .. Len(s \o t) : (s \o t)[i] = IF i <= Len(s) THEN s[i] ELSE t[i - Len(s)]
OBVIOUS

LEMMA PiecesJoin ==
    ASSUME NEW s, NEW t, Piece(s), Piece(t), NoSdk(s)
    PROVE  Piece(s \o t) /\ (NoSdk(t) => NoSdk(s \o t))
<1> DEFINE u == s \o t
<1>1. /\ s \in Seq(Steps) /\ t \in Seq(Steps) /\ InPairs(s) /\ InPairs(t)
  BY DEF Piece
<1>2. /\ u \in Seq(Steps) /\ Len(u) = Len(s) + Len(t) /\ Len(s) \in Nat /\ Len(t) \in Nat
      /\ \A i \in 1 .. Len(u) : u[i] = IF i <= Len(s) THEN s[i] ELSE t[i - Len(s)]
  BY <1>1, Joined
<1> HIDE DEF u
<1>3. ASSUME NEW i \in 1 .. Len(s) PROVE u[i] = s[i] /\ i \in 1 .. Len(u)
  BY <1>2
<1>4. ASSUME NEW i \in 1 .. Len(t) PROVE u[i + Len(s)] = t[i] /\ i + Len(s) \in 1 .. Len(u)
  BY <1>2
<1>5. ASSUME NEW i \in 1 .. Len(u)
      PROVE  i \in 1 .. Len(s) \/ \E j \in 1 .. Len(t) : i = j + Len(s)
  <2>1. CASE i > Len(s)
    <3>1. i - Len(s) \in 1 .. Len(t) /\ i = (i - Len(s)) + Len(s)
      BY <1>2, <2>1
    <3> QED BY <3>1
  <2>2. CASE i <= Len(s)
    BY <2>2, <1>2
  <2> QED BY <1>2, <2>1, <2>2
<1>6. NoSdk(t) => NoSdk(u)
  BY <1>3, <1>4, <1>5 DEF NoSdk
<1>7. ASSUME u # <<>> PROVE ~Writes(u[1], SdkCpp) /\ \A n \in Modules : ~Writes(u[1], WrapperCpp(n))
  <2>1. CASE s # <<>>
    <3>1. 1 \in 1 .. Len(s)
      BY <1>1, <1>2, <2>1
    <3> QED BY <3>1, <1>3, <2>1 DEF Piece
  <2>2. CASE s = <<>>
    <3>1. t # <<>> /\ Len(s) = 0 /\ 1 \in 1 .. Len(t)
      BY <1>1, <1>2, <1>7, <2>2
    <3> QED BY <3>1, <1>2, <1>4 DEF Piece
  <2> QED BY <2>1, <2>2
<1>8. InPairs(u)
  <2>1. ASSUME NEW i \in 1 .. Len(s) PROVE InPairsAt(u, i)
    <3>1. InPairsAt(s, i) /\ ~Writes(s[i], SdkH) /\ ~Writes(s[i], SdkCpp)
      BY <1>1 DEF InPairs, NoSdk
    <3>2. i < Len(s) => u[i + 1] = s[i + 1] /\ i < Len(u)
      BY <1>2, <1>3
    <3>3. i # 1 => u[i - 1] = s[i - 1]
      BY <1>2, <1>3
    <3>4. u[i] = s[i]
      BY <1>3
    <3> HIDE <1>2
    <3> QED BY <3>1, <3>2, <3>3, <3>4 DEF InPairsAt
  <2>2. ASSUME NEW j \in 1 .. Len(t) PROVE InPairsAt(u, j + Len(s))
    <3>1. InPairsAt(t, j)
      BY <1>1 DEF InPairs
    <3>2. j < Len(t) => u[j + Len(s) + 1] = t[j + 1]
      <4>1. j < Len(t) => j + 1 \in 1 .. Len(t) /\ (j + 1) + Len(s) = j + Len(s) + 1
        BY <1>2
      <4> QED BY <1>4, <4>1
    <3>6. /\ j < Len(t) => j + Len(s) < Len(u)
          /\ j + 1 = Len(t) => j + Len(s) + 1 = Len(u)
          /\ j = Len(t) => j + Len(s) = Len(u)
      BY <1>2
    <3>3. j # 1 => u[j + Len(s) - 1] = t[j - 1]
      <4>1. j # 1 => j - 1 \in 1 .. Len(t) /\ (j - 1) + Len(s) = j + Len(s) - 1
        BY <1>2
      <4> QED BY <1>4, <4>1
    <3>4. u[j + Len(s)] = t[j]
      BY <1>4
    <3>5. j = 1 => ~Writes(t[j], SdkCpp) /\ \A n \in Modules : ~Writes(t[j], WrapperCpp(n))
      BY <1>1, <1>2 DEF Piece
    <3> QED BY <1>2, <3>1, <3>2, <3>3, <3>4, <3>5, <3>6 DEF InPairsAt
  <2> QED BY <1>5, <2>1, <2>2 DEF InPairs
<1> QED BY <1>2, <1>6, <1>7, <1>8 DEF Piece, u

AllWrites(s) == \A i \in 1 .. Len(s) : s[i].do = "write"

LEMMA WritesLast ==
    ASSUME NEW s \in Seq(Steps), NEW t \in Seq(Steps), ChecksFirst(s), AllWrites(t)
    PROVE  ChecksFirst(s \o t) /\ (AllWrites(s) => AllWrites(s \o t))
<1> DEFINE u == s \o t
<1>1. /\ Len(u) = Len(s) + Len(t) /\ Len(s) \in Nat /\ Len(t) \in Nat
      /\ \A i \in 1 .. Len(u) : u[i] = IF i <= Len(s) THEN s[i] ELSE t[i - Len(s)]
  BY Joined
<1> HIDE DEF u
<1>2. ASSUME NEW i \in 1 .. Len(u)
      PROVE  (i \in 1 .. Len(s) /\ u[i] = s[i]) \/ (u[i].do = "write" /\ i > Len(s))
  BY <1>1 DEF AllWrites
<1>3. ASSUME NEW i \in 1 .. Len(u), u[i].do # "write", NEW j \in 1 .. i PROVE u[j].do # "write"
  <2>1. i \in 1 .. Len(s) /\ u[i] = s[i] /\ j \in 1 .. Len(s)
    BY <1>1, <1>2, <1>3
  <2>2. u[j] = s[j]
    BY <1>1, <2>1
  <2> QED BY <1>3, <2>1, <2>2 DEF ChecksFirst
<1>4. ChecksFirst(u)
  BY <1>2, <1>3 DEF ChecksFirst, Phases
<1> QED BY <1>2, <1>4 DEF u, AllWrites

LEMMA WriteIsSimple ==
    ASSUME NEW k \in Kinds \ {"api.h", "api.cpp", "logos_sdk.h", "logos_sdk.cpp"}, NEW c \in Nat \ {0}
    PROVE  LET w == Write(Other(k), c) IN w \in Steps /\ Simple(w) /\ w.do = "write"
BY StepTypes, FileTypes DEF Write, Other, Simple

LEMMA StepsAreSimple ==
    /\ \A c \in Codes : Simple(Check(c)) /\ Check(c).do = "check"
    /\ \A c : Simple(Scan(c)) /\ Scan(c).do = "scan"
    /\ \A p \in Phases : Simple(Phase(p)) /\ Phase(p).do = p
BY DEF Simple, Check, Scan, Phase, Phases

LEMMA EmptyPiece == Piece(<<>>) /\ NoSdk(<<>>) /\ AllWrites(<<>>)
BY DEF Piece, NoSdk, InPairs, AllWrites

(* Two files that belong together.                                         *)
LEMMA TwoPiece ==
    ASSUME NEW a \in Steps, NEW b \in Steps,
           \/ a.do = "temp" /\ b.do = "scan"
           \/ \E n \in Modules : Writes(a, WrapperH(n)) /\ Writes(b, WrapperCpp(n))
           \/ Writes(a, SdkH) /\ Writes(b, SdkCpp)
    PROVE  /\ Piece(<<a, b>>) /\ Len(<<a, b>>) = 2
           /\ ~Writes(a, SdkH) => NoSdk(<<a, b>>)
           /\ a.do = "write" => AllWrites(<<a, b>>)
<1> DEFINE s == <<a, b>>
<1>1. s \in Seq(Steps) /\ Len(s) = 2 /\ s[1] = a /\ s[2] = b
  OBVIOUS
<1> HIDE DEF s
<1>2. \A i \in 1 .. Len(s) : i = 1 \/ i = 2
  BY <1>1
<1>3. InPairsAt(s, 1)
  <2>1. CASE a.do = "temp" /\ b.do = "scan"
    BY <1>1, <2>1 DEF InPairsAt, Writes
  <2>2. CASE \E n \in Modules : Writes(a, WrapperH(n)) /\ Writes(b, WrapperCpp(n))
    BY <1>1, <2>2 DEF InPairsAt, Writes, WrapperH, WrapperCpp, SdkH, SdkCpp
  <2>3. CASE Writes(a, SdkH) /\ Writes(b, SdkCpp)
    BY <1>1, <2>3 DEF InPairsAt, Writes, WrapperH, WrapperCpp, SdkH, SdkCpp
  <2> QED BY <2>1, <2>2, <2>3
<1>4. InPairsAt(s, 2)
  <2>1. CASE a.do = "temp" /\ b.do = "scan"
    BY <1>1, <2>1 DEF InPairsAt, Writes
  <2>2. CASE \E n \in Modules : Writes(a, WrapperH(n)) /\ Writes(b, WrapperCpp(n))
    BY <1>1, <2>2 DEF InPairsAt, Writes, WrapperH, WrapperCpp, SdkH, SdkCpp
  <2>3. CASE Writes(a, SdkH) /\ Writes(b, SdkCpp)
    BY <1>1, <2>3 DEF InPairsAt, Writes, WrapperH, WrapperCpp, SdkH, SdkCpp
  <2> QED BY <2>1, <2>2, <2>3
<1>5. InPairs(s)
  BY <1>2, <1>3, <1>4 DEF InPairs
<1>6. ~Writes(a, SdkCpp) /\ \A n \in Modules : ~Writes(a, WrapperCpp(n))
  BY DEF Writes, WrapperH, WrapperCpp, SdkH, SdkCpp
<1>7. ~Writes(a, SdkH) => ~Writes(b, SdkH) /\ ~Writes(b, SdkCpp)
  BY DEF Writes, WrapperH, WrapperCpp, SdkH, SdkCpp
<1>8. a.do = "write" => b.do = "write"
  BY DEF Writes
<1> QED BY <1>1, <1>2, <1>5, <1>6, <1>7, <1>8 DEF s, Piece, NoSdk, AllWrites

LEMMA SdkPiece ==
    ASSUME NEW c \in Nat \ {0}, NEW d \in Nat \ {0}
    PROVE  Piece(Sdk(c, d)) /\ AllWrites(Sdk(c, d)) /\ Len(Sdk(c, d)) = 2
<1>1. Write(SdkH, c) \in Steps /\ Write(SdkCpp, d) \in Steps
  BY StepTypes, FileTypes
<1> QED BY <1>1, TwoPiece DEF Sdk, Write, Writes

LEMMA PairPiece ==
    ASSUME NEW n \in Modules, NEW c \in Nat \ {0}, NEW d \in Nat \ {0}
    PROVE  LET s == Pair(n, c, d) IN Piece(s) /\ AllWrites(s) /\ NoSdk(s) /\ Len(s) = 2
<1> DEFINE a == Write(WrapperH(n), c)
<1> DEFINE b == Write(WrapperCpp(n), d)
<1>1. a \in Steps /\ b \in Steps
  BY StepTypes, FileTypes
<1>2. Writes(a, WrapperH(n)) /\ Writes(b, WrapperCpp(n)) /\ ~Writes(a, SdkH) /\ a.do = "write"
  BY DEF Write, Writes, WrapperH, SdkH
<1> HIDE DEF a, b
<1>3. Piece(<<a, b>>) /\ AllWrites(<<a, b>>) /\ NoSdk(<<a, b>>) /\ Len(<<a, b>>) = 2
  BY <1>1, <1>2, TwoPiece
<1> QED BY <1>3 DEF a, b, Pair

LEMMA TempPiece ==
    LET s == <<Temp, Scan(9)>> IN Piece(s) /\ NoSdk(s) /\ Len(s) = 2
<1>1. /\ Temp \in Steps /\ Scan(9) \in Steps
      /\ Temp.do = "temp" /\ Scan(9).do = "scan" /\ ~Writes(Temp, SdkH)
  BY StepTypes DEF Temp, Scan, Writes
<1> QED BY <1>1, TwoPiece

LEMMA OnePiece ==
    ASSUME NEW a \in Steps, Simple(a)
    PROVE  /\ Piece(<<a>>) /\ NoSdk(<<a>>) /\ Len(<<a>>) = 1
           /\ a.do \notin Phases => ChecksFirst(<<a>>)
           /\ a.do = "write" => AllWrites(<<a>>)
<1> DEFINE s == <<a>>
<1>1. s \in Seq(Steps) /\ Len(s) = 1 /\ s[1] = a /\ \A i \in 1 .. Len(s) : i = 1
  OBVIOUS
<1> HIDE DEF s
<1>2. Piece(s) /\ NoSdk(s)
  BY <1>1, SimplePiece
<1> QED BY <1>1, <1>2 DEF s, ChecksFirst, AllWrites

(* A wrapper's steps begin with a check, end with its source, and are no   *)
(* phases.                                                                 *)
LEMMA WrapperIsSound ==
    ASSUME NEW spec \in Specs
    PROVE  LET w == Wrapper(spec) IN
           /\ Piece(w) /\ NoSdk(w) /\ w # <<>>
           /\ w[1].do \in Checking
           /\ \A i \in 1 .. Len(w) : w[i].do \notin Phases
           /\ \E i \in 1 .. Len(w) : Writes(w[i], WrapperCpp(spec.name))
<1> DEFINE p == Pair(spec.name, 9, 9)
<1> DEFINE c == <<Check({9})>>
<1> DEFINE t == IF spec.form = "header" THEN <<Temp, Scan(9)>> ELSE <<>>
<1>1. /\ Piece(p) /\ NoSdk(p) /\ Len(p) = 2 /\ Writes(p[2], WrapperCpp(spec.name))
      /\ p[1].do = "write" /\ p[2].do = "write"
  BY PairPiece DEF Specs, Pair, Write, Writes
<1>2. Piece(c) /\ NoSdk(c) /\ Len(c) = 1 /\ c[1].do = "check"
  <2>1. Check({9}) \in Steps /\ Simple(Check({9})) /\ Check({9}).do = "check"
    BY StepTypes, StepsAreSimple DEF Codes
  <2> QED BY <2>1, OnePiece
<1>3. /\ Piece(t) /\ NoSdk(t) /\ Len(t) \in {0, 2}
      /\ Len(t) = 2 => t[1].do = "temp" /\ t[2].do = "scan"
  BY TempPiece, EmptyPiece DEF Temp, Scan
<1>4. Wrapper(spec) = (t \o c) \o p
  BY DEF Wrapper
<1> HIDE DEF p, c, t
<1>5. Piece(t \o c) /\ NoSdk(t \o c)
  BY <1>2, <1>3, PiecesJoin
<1>6. Piece((t \o c) \o p) /\ NoSdk((t \o c) \o p)
  BY <1>1, <1>5, PiecesJoin
<1>7. /\ Len(t \o c) = Len(t) + 1
      /\ \A i \in 1 .. Len(t \o c) : (t \o c)[i] = IF i <= Len(t) THEN t[i] ELSE c[i - Len(t)]
  <2>1. t \in Seq(Steps) /\ c \in Seq(Steps)
    BY <1>2, <1>3 DEF Piece
  <2>2. /\ Len(t \o c) = Len(t) + Len(c)
        /\ \A i \in 1 .. Len(t \o c) : (t \o c)[i] = IF i <= Len(t) THEN t[i] ELSE c[i - Len(t)]
    BY <2>1, Joined
  <2> QED BY <2>2, <1>2
<1> DEFINE w == (t \o c) \o p
<1>8. /\ Len(w) = Len(t) + 3
      /\ \A i \in 1 .. Len(w) : w[i] = IF i <= Len(t) + 1 THEN (t \o c)[i] ELSE p[i - Len(t) - 1]
  <2>1. t \o c \in Seq(Steps) /\ p \in Seq(Steps)
    BY <1>1, <1>5 DEF Piece
  <2> DEFINE x == t \o c
  <2> HIDE DEF x
  <2>2. /\ Len(x \o p) = Len(x) + Len(p)
        /\ \A i \in 1 .. Len(x \o p) : (x \o p)[i] = IF i <= Len(x) THEN x[i] ELSE p[i - Len(x)]
    BY <2>1, Joined DEF x
  <2>3. Len(x) = Len(t) + 1 /\ Len(p) = 2 /\ Len(t) \in {0, 2}
    BY <1>1, <1>3, <1>7 DEF x
  <2>4. \A i : i - (Len(t) + 1) = i - Len(t) - 1 \/ i \notin Int
    BY <2>3
  <2> QED BY <2>2, <2>3, <2>4 DEF x
<1> HIDE DEF w
<1>9. CASE Len(t) = 0
  <2>1. Len(w) = 3 /\ w[1] = c[1] /\ w[2] = p[1] /\ w[3] = p[2]
    BY <1>7, <1>8, <1>9
  <2>2. \A i \in 1 .. Len(w) : i = 1 \/ i = 2 \/ i = 3
    BY <2>1
  <2>3. w[1].do = "check" /\ w[2].do = "write" /\ w[3].do = "write" /\ Writes(w[3], WrapperCpp(spec.name))
    BY <2>1, <1>1, <1>2
  <2>4. \A i \in 1 .. Len(w) : w[i].do \notin Phases
    BY <2>2, <2>3 DEF Phases
  <2>5. 3 \in 1 .. Len(w) /\ w # <<>>
    BY <2>1
  <2> QED BY <1>4, <1>6, <2>3, <2>4, <2>5 DEF w, Checking
<1>10. CASE Len(t) = 2
  <2>1. Len(w) = 5 /\ w[1] = t[1] /\ w[2] = t[2] /\ w[3] = c[1] /\ w[4] = p[1] /\ w[5] = p[2]
    BY <1>7, <1>8, <1>10
  <2>2. \A i \in 1 .. Len(w) : i = 1 \/ i = 2 \/ i = 3 \/ i = 4 \/ i = 5
    BY <2>1
  <2>3. /\ w[1].do = "temp" /\ w[2].do = "scan" /\ w[3].do = "check"
        /\ w[4].do = "write" /\ w[5].do = "write" /\ Writes(w[5], WrapperCpp(spec.name))
    BY <2>1, <1>1, <1>2, <1>3, <1>10
  <2>4. \A i \in 1 .. Len(w) : w[i].do \notin Phases
    BY <2>2, <2>3 DEF Phases
  <2>5. 5 \in 1 .. Len(w) /\ w # <<>>
    BY <2>1
  <2> QED BY <1>4, <1>6, <2>3, <2>4, <2>5 DEF w, Checking
<1> QED BY <1>3, <1>9, <1>10

(* The beginning of a plan: checks, and then writes.                       *)
Begun(s) == Piece(s) /\ NoSdk(s) /\ ChecksFirst(s) /\ s # <<>> /\ s[1].do = "check"

LEMMA MoreWrites ==
    ASSUME NEW s, NEW t, Begun(s), Piece(t), AllWrites(t)
    PROVE  LET u == s \o t IN
           /\ Piece(u) /\ ChecksFirst(u) /\ u # <<>> /\ u[1].do = "check"
           /\ NoSdk(t) => Begun(u)
<1>1. s \in Seq(Steps) /\ t \in Seq(Steps) /\ Piece(s) /\ NoSdk(s) /\ ChecksFirst(s)
  BY DEF Begun, Piece
<1> DEFINE u == s \o t
<1>2. /\ u \in Seq(Steps) /\ Len(u) = Len(s) + Len(t)
      /\ \A i \in 1 .. Len(u) : u[i] = IF i <= Len(s) THEN s[i] ELSE t[i - Len(s)]
  BY <1>1, Joined
<1> HIDE DEF u
<1>3. 1 <= Len(s) /\ Len(s) \in Nat /\ Len(t) \in Nat
  BY <1>1 DEF Begun
<1>4. u # <<>> /\ u[1].do = "check"
  BY <1>2, <1>3 DEF Begun
<1>5. Piece(u) /\ (NoSdk(t) => NoSdk(u))
  BY <1>1, PiecesJoin DEF u
<1>6. ChecksFirst(u)
  BY <1>1, WritesLast DEF u
<1> QED BY <1>4, <1>5, <1>6 DEF u, Begun

LEMMA CheckBegins == \A c \in Codes : Begun(<<Check(c)>>)
<1> SUFFICES ASSUME NEW c \in Codes PROVE Begun(<<Check(c)>>)
  OBVIOUS
<1>1. Check(c) \in Steps /\ Simple(Check(c)) /\ Check(c).do = "check"
  BY StepTypes, StepsAreSimple
<1> DEFINE a == Check(c)
<1>2. <<a>> # <<>> /\ <<a>>[1] = a
  OBVIOUS
<1> HIDE DEF a
<1>3. Piece(<<a>>) /\ NoSdk(<<a>>) /\ ChecksFirst(<<a>>)
  BY <1>1, OnePiece DEF a, Phases
<1> QED BY <1>1, <1>2, <1>3 DEF Begun, a

LEMMA OneWrite ==
    ASSUME NEW k \in Kinds \ {"api.h", "api.cpp", "logos_sdk.h", "logos_sdk.cpp"}, NEW c \in Nat \ {0}
    PROVE  LET s == <<Write(Other(k), c)>> IN Piece(s) /\ NoSdk(s) /\ AllWrites(s)
<1>1. Write(Other(k), c) \in Steps /\ Simple(Write(Other(k), c)) /\ Write(Other(k), c).do = "write"
  BY WriteIsSimple
<1> QED BY <1>1, OnePiece

LEMMA ThreeSteps ==
    ASSUME NEW a \in Steps, NEW b \in Steps, NEW c \in Steps, Simple(a), Simple(b), Simple(c),
           a.do = "check", b.do = "scan", c.do \in {"check", "write"}
    PROVE  Begun(<<a, b, c>>)
<1> DEFINE s == <<a, b, c>>
<1>1. s \in Seq(Steps) /\ Len(s) = 3 /\ s[1] = a /\ s[2] = b /\ s[3] = c /\ s # <<>>
  OBVIOUS
<1>2. \A i \in 1 .. Len(s) : i = 1 \/ i = 2 \/ i = 3
  BY <1>1
<1> HIDE DEF s
<1>3. Piece(s) /\ NoSdk(s)
  BY <1>1, <1>2, SimplePiece
<1>4. ChecksFirst(s)
  BY <1>1, <1>2 DEF ChecksFirst, Phases
<1> QED BY <1>1, <1>3, <1>4 DEF Begun, s

LEMMA SidecarPiece ==
    ASSUME NEW ev \in BOOLEAN
    PROVE  Piece(Sidecar(ev)) /\ NoSdk(Sidecar(ev)) /\ AllWrites(Sidecar(ev))
<1> DEFINE a == Write(Other("types.h"), 11)
<1> DEFINE b == Write(Other("module_impl.cpp"), 11)
<1> DEFINE s == <<a, b>>
<1> DEFINE t == IF ev THEN <<Write(Other("events_cdylib.cpp"), 11)>> ELSE <<>>
<1>1. /\ a \in Steps /\ Simple(a) /\ a.do = "write"
      /\ b \in Steps /\ Simple(b) /\ b.do = "write"
  BY WriteIsSimple DEF Kinds
<1>2. Piece(t) /\ NoSdk(t) /\ AllWrites(t)
  <2>1. LET e == <<Write(Other("events_cdylib.cpp"), 11)>> IN Piece(e) /\ NoSdk(e) /\ AllWrites(e)
    BY OneWrite DEF Kinds
  <2> QED BY <2>1, EmptyPiece
<1>3. Sidecar(ev) = s \o t
  BY DEF Sidecar
<1> HIDE DEF a, b, t
<1>4. s \in Seq(Steps) /\ Len(s) = 2 /\ s[1] = a /\ s[2] = b
  BY <1>1
<1> HIDE DEF s
<1>5. \A i \in 1 .. Len(s) : i = 1 \/ i = 2
  BY <1>4
<1>6. Piece(s) /\ NoSdk(s)
  BY <1>1, <1>4, <1>5, SimplePiece
<1>7. AllWrites(s) /\ ChecksFirst(s)
  BY <1>1, <1>4, <1>5 DEF AllWrites, ChecksFirst, Phases
<1>8. t \in Seq(Steps)
  BY <1>2 DEF Piece
<1>9. AllWrites(s \o t)
  BY <1>2, <1>4, <1>7, <1>8, WritesLast
<1>10. Piece(s \o t) /\ NoSdk(s \o t)
  BY <1>2, <1>6, PiecesJoin
<1> QED BY <1>3, <1>9, <1>10

(* Every mode plans its checks before its writes, each header's write      *)
(* before its source's, and ends with the umbrella if it writes one.       *)
LEMMA PlanIsSound ==
    ASSUME NEW m \in Modes, NEW n \in Modules, NEW opt \in BOOLEAN
    PROVE  LET s == Plan(m, n, opt) IN
           /\ Piece(s) /\ s # <<>> /\ s[1].do = "check"
           /\ m # "umbrella" => ChecksFirst(s)
           /\ m = "umbrella" => InPhases(s) /\ Len(s) = 2 /\ s[2].do = "interfaces"
<1>1. CASE m = "umbrella"
  <2> DEFINE a == Check(1 .. 4)
  <2> DEFINE b == Phase("interfaces")
  <2> DEFINE s == <<a, b>>
  <2>1. a \in Steps /\ Simple(a) /\ a.do = "check" /\ b \in Steps /\ Simple(b) /\ b.do = "interfaces"
    BY StepTypes, StepsAreSimple DEF Codes, Phases
  <2>2. Plan(m, n, opt) = s
    BY <1>1 DEF Plan
  <2> HIDE DEF a, b
  <2>3. s \in Seq(Steps) /\ Len(s) = 2 /\ s[1] = a /\ s[2] = b /\ s # <<>>
    BY <2>1
  <2> HIDE DEF s
  <2>4. \A i \in 1 .. Len(s) : i = 1 \/ i = 2
    BY <2>3
  <2>5. Piece(s)
    BY <2>1, <2>3, <2>4, SimplePiece
  <2>6. InPhases(s)
    BY <2>1, <2>3, <2>4 DEF InPhases, Phases
  <2> QED BY <1>1, <2>1, <2>2, <2>3, <2>5, <2>6
<1>2. CASE m = "normalize"
  <2>1. Begun(<<Check({1, 4})>>)
    BY CheckBegins DEF Codes
  <2> DEFINE t == IF opt THEN <<Write(Other("lidl"), 5)>> ELSE <<>>
  <2>2. Piece(t) /\ AllWrites(t)
    BY OneWrite, EmptyPiece DEF Kinds
  <2>3. Plan(m, n, opt) = <<Check({1, 4})>> \o t
    BY <1>2 DEF Plan, NormalizePlan
  <2> HIDE DEF t
  <2> QED BY <1>2, <2>1, <2>2, <2>3, MoreWrites
<1>3. CASE m = "headerToLidl"
  <2>1. Check({1}) \in Steps /\ Simple(Check({1})) /\ Check({1}).do = "check"
    BY StepTypes, StepsAreSimple DEF Codes
  <2>2. Scan(4) \in Steps /\ Simple(Scan(4)) /\ Scan(4).do = "scan"
    BY StepTypes, StepsAreSimple
  <2>3. LET w == Write(Other("lidl"), 5) IN w \in Steps /\ Simple(w) /\ w.do = "write"
    BY WriteIsSimple DEF Kinds
  <2>4. Begun(HeaderToLidlPlan)
    BY <2>1, <2>2, <2>3, ThreeSteps DEF HeaderToLidlPlan
  <2> QED BY <1>3, <2>4 DEF Plan, Begun
<1>4. CASE m = "fromHeader"
  <2> DEFINE s == <<Check({1}), Scan(4), Check({1, 4, 6, 10})>>
  <2> DEFINE ev == contract = "events"
  <2> DEFINE w == <<Write(Other("lidl"), 11)>>
  <2>1. /\ Check({1}) \in Steps /\ Simple(Check({1})) /\ Check({1}).do = "check"
        /\ Check({1, 4, 6, 10}) \in Steps /\ Simple(Check({1, 4, 6, 10})) /\ Check({1, 4, 6, 10}).do = "check"
    BY StepTypes, StepsAreSimple DEF Codes
  <2>2. Scan(4) \in Steps /\ Simple(Scan(4)) /\ Scan(4).do = "scan"
    BY StepTypes, StepsAreSimple
  <2>3. Begun(s)
    BY <2>1, <2>2, ThreeSteps
  <2>4. Piece(Sidecar(ev)) /\ NoSdk(Sidecar(ev)) /\ AllWrites(Sidecar(ev))
    BY SidecarPiece
  <2>5. Piece(w) /\ AllWrites(w)
    BY OneWrite DEF Kinds
  <2>6. Plan(m, n, opt) = (s \o Sidecar(ev)) \o w
    BY <1>4 DEF Plan, FromHeaderPlan
  <2> HIDE DEF s, ev, w
  <2>7. Begun(s \o Sidecar(ev))
    BY <2>3, <2>4, MoreWrites
  <2> QED BY <1>4, <2>5, <2>6, <2>7, MoreWrites
<1>5. CASE m = "cdylib"
  <2>1. Begun(<<Check({1, 4, 6, 10, 12})>>)
    BY CheckBegins DEF Codes
  <2>2. Piece(Sidecar(opt)) /\ AllWrites(Sidecar(opt))
    BY SidecarPiece
  <2>3. Plan(m, n, opt) = <<Check({1, 4, 6, 10, 12})>> \o Sidecar(opt)
    BY <1>5 DEF Plan, CdylibPlan
  <2> QED BY <1>5, <2>1, <2>2, <2>3, MoreWrites
<1>6. CASE m = "client"
  <2> DEFINE s == <<Check(2 .. 5)>>
  <2> DEFINE p == Pair(n, 6, 7)
  <2> DEFINE w == <<Write(Other("metadata.json"), 8)>>
  <2> DEFINE t == IF opt THEN <<>> ELSE Sdk(9, 10)
  <2>1. Begun(s)
    BY CheckBegins DEF Codes
  <2>2. Piece(p) /\ AllWrites(p) /\ NoSdk(p)
    BY PairPiece
  <2>3. Piece(w) /\ AllWrites(w) /\ NoSdk(w)
    BY OneWrite DEF Kinds
  <2>4. Piece(t) /\ AllWrites(t)
    BY SdkPiece, EmptyPiece
  <2>5. Plan(m, n, opt) = ((s \o p) \o w) \o t
    BY <1>6 DEF Plan, ClientPlan
  <2> HIDE DEF s, p, w, t
  <2>6. Begun(s \o p)
    BY <2>1, <2>2, MoreWrites
  <2>7. Begun((s \o p) \o w)
    BY <2>3, <2>6, MoreWrites
  <2> QED BY <1>6, <2>4, <2>5, <2>7, MoreWrites
<1>7. CASE m = "list"
  <2>1. Begun(<<Check(1 .. 4)>>)
    BY CheckBegins DEF Codes
  <2> QED BY <1>7, <2>1 DEF Plan, Begun
<1>8. CASE m = "plugin"
  <2>1. Begun(<<Check({1, 2, 3, 4, 7})>>)
    BY CheckBegins DEF Codes
  <2>2. Piece(Pair(n, 5, 6)) /\ AllWrites(Pair(n, 5, 6))
    BY PairPiece
  <2>3. Plan(m, n, opt) = <<Check({1, 2, 3, 4, 7})>> \o Pair(n, 5, 6)
    BY <1>8 DEF Plan, PluginPlan
  <2> QED BY <1>8, <2>1, <2>2, <2>3, MoreWrites
<1> QED BY <1>1, <1>2, <1>3, <1>4, <1>5, <1>6, <1>7, <1>8 DEF Modes

LEMMA ModeIsKnown == \A F : ModeOf(F) \in Modes
BY DEF ModeOf, Modes

(***************************************************************************)
(* Taking a step off a plan.                                               *)
(***************************************************************************)
LEMMA Tails ==
    ASSUME NEW S, NEW s \in Seq(S), s # <<>>
    PROVE  /\ Tail(s) \in Seq(S) /\ Len(Tail(s)) = Len(s) - 1 /\ Len(s) \in Nat /\ Len(s) >= 1
           /\ \A i \in 1 .. Len(Tail(s)) : Tail(s)[i] = s[i + 1] /\ i + 1 \in 1 .. Len(s)
           /\ \A i \in 1 .. Len(s) : i = 1 \/ (i - 1 \in 1 .. Len(Tail(s)) /\ s[i] = Tail(s)[i - 1])
           /\ Tail(s) = <<>> <=> Len(s) = 1
           /\ Head(s) = s[1] /\ Head(s) \in S /\ 1 \in 1 .. Len(s)
<1>1. Tail(s) \in Seq(S) /\ Len(Tail(s)) = Len(s) - 1 /\ Len(s) \in Nat /\ Len(s) >= 1
  OBVIOUS
<1>2. \A i \in 1 .. Len(Tail(s)) : Tail(s)[i] = s[i + 1] /\ i + 1 \in 1 .. Len(s)
  OBVIOUS
<1>3. ASSUME NEW i \in 1 .. Len(s), i # 1
      PROVE  i - 1 \in 1 .. Len(Tail(s)) /\ s[i] = Tail(s)[i - 1]
  <2>1. i - 1 \in 1 .. Len(Tail(s)) /\ (i - 1) + 1 = i
    BY <1>1, <1>3
  <2> QED BY <1>2, <2>1
<1>4. Tail(s) = <<>> <=> Len(s) = 1
  <2> DEFINE t == Tail(s)
  <2>1. Len(s) = 1 <=> Len(t) = 0
    BY <1>1
  <2>2. t \in Seq(S)
    BY <1>1
  <2> HIDE DEF t
  <2>3. t = <<>> <=> Len(t) = 0
    BY <2>2
  <2> QED BY <2>1, <2>3 DEF t
<1>5. Head(s) = s[1] /\ Head(s) \in S /\ 1 \in 1 .. Len(s)
  BY <1>1
<1> QED BY <1>1, <1>2, <1>3, <1>4, <1>5

LEMMA TailIsSound ==
    ASSUME NEW s \in Seq(Steps), s # <<>>
    PROVE  /\ InPairs(s) => InPairs(Tail(s))
           /\ ChecksFirst(s) => ChecksFirst(Tail(s))
           /\ InPhases(s) /\ Tail(s) # <<>> => InPhases(Tail(s)) /\ Tail(s)[Len(Tail(s))] = s[Len(s)]
<1> DEFINE t == Tail(s)
<1>1. /\ t \in Seq(Steps) /\ Len(t) = Len(s) - 1 /\ Len(s) \in Nat /\ Len(s) >= 1
      /\ \A i \in 1 .. Len(t) : t[i] = s[i + 1] /\ i + 1 \in 1 .. Len(s)
      /\ t = <<>> <=> Len(s) = 1
  BY Tails
<1> HIDE DEF t
<1>2. ASSUME InPairs(s), NEW i \in 1 .. Len(t) PROVE InPairsAt(t, i)
  <2>1. InPairsAt(s, i + 1) /\ t[i] = s[i + 1]
    BY <1>1, <1>2 DEF InPairs
  <2>2. i < Len(t) <=> i + 1 < Len(s)
    BY <1>1
  <2>3. i < Len(t) => t[i + 1] = s[i + 1 + 1]
    BY <1>1
  <2>4. i # 1 => t[i - 1] = s[i + 1 - 1]
    BY <1>1
  <2>5. i + 1 # 1 /\ (i + 1 = Len(t) <=> i + 1 + 1 = Len(s)) /\ (i = Len(t) <=> i + 1 = Len(s))
    BY <1>1
  <2>6. i + 1 = Len(t) => t[i + 1] = s[i + 1 + 1]
    BY <1>1
  <2> HIDE <1>1
  <2> QED BY <2>1, <2>2, <2>3, <2>4, <2>5, <2>6 DEF InPairsAt
<1>3. ASSUME ChecksFirst(s) PROVE ChecksFirst(t)
  <2>1. ASSUME NEW i \in 1 .. Len(t), t[i].do # "write", NEW j \in 1 .. i PROVE t[j].do # "write"
    <3>1. i + 1 \in 1 .. Len(s) /\ j + 1 \in 1 .. i + 1 /\ j \in 1 .. Len(t)
      BY <1>1
    <3> QED BY <1>1, <1>3, <2>1, <3>1 DEF ChecksFirst
  <2> QED BY <1>1, <1>3, <2>1 DEF ChecksFirst
<1>4. ASSUME InPhases(s), t # <<>> PROVE InPhases(t) /\ t[Len(t)] = s[Len(s)]
  <2>1. Len(t) \in 1 .. Len(t) /\ Len(t) + 1 = Len(s)
    BY <1>1, <1>4
  <2>2. t[Len(t)] = s[Len(s)]
    BY <1>1, <2>1
  <2>3. ASSUME NEW i \in 1 .. Len(t)
        PROVE  /\ t[i].do = "wrappers" => i + 1 = Len(t) /\ t[Len(t)].do \in {"deps", "members"}
               /\ t[i].do \in Phases \ {"wrappers"} => i = Len(t)
    <3>1. i + 1 \in 1 .. Len(s) /\ t[i] = s[i + 1]
      BY <1>1
    <3> QED BY <1>1, <1>4, <2>2, <3>1 DEF InPhases
  <2> QED BY <1>1, <1>4, <2>2, <2>3 DEF InPhases
<1> QED BY <1>2, <1>3, <1>4 DEF t, InPairs

(* What is known of a run while it has a step to take.                     *)
LEMMA UnderWay ==
    ASSUME GenInv, exit = None, todo # <<>>
    PROVE  /\ todo \in Seq(Steps) /\ InPairs(todo) /\ Head(todo) = todo[1] /\ todo[1] \in Steps
           /\ Len(todo) \in Nat /\ Len(todo) >= 1 /\ run # 0 /\ ~refused
           /\ mode # "umbrella" => ChecksFirst(todo)
           /\ mode = "umbrella" => InPhases(todo)
           /\ todo[1].do \in Phases => mode = "umbrella"
           /\ \A f : AtHand(f) <=> Writes(todo[1], f)
           /\ temp => todo[1].do = "scan"
           /\ \A c \in todo[1].codes : c \in Nat \ {0} /\ c # None
<1>1. todo \in Seq(Steps) /\ InPairs(todo) /\ run # 0 /\ ~refused
  BY DEF GenInv, GenTypeOK, Planned, Written
<1>2. Head(todo) = todo[1] /\ todo[1] \in Steps /\ Len(todo) \in Nat /\ Len(todo) >= 1
  BY <1>1, Tails
<1>3. mode # "umbrella" => ChecksFirst(todo) /\ 1 \in 1 .. Len(todo)
  BY <1>2 DEF GenInv, Planned
<1>4. mode = "umbrella" => InPhases(todo)
  BY DEF GenInv, Planned
<1>5. todo[1].codes \in SUBSET (Nat \ {0})
  BY <1>2 DEF Steps, Codes
<1>6. temp => todo[1].do = "scan"
  BY DEF GenInv, Written
<1> QED BY <1>1, <1>2, <1>3, <1>4, <1>5, <1>6, GeneratorAssumption DEF AtHand, ChecksFirst

LEMMA GenInit_Inv == GenInit => GenInv
<1> SUFFICES ASSUME GenInit PROVE GenInv
  OBVIOUS
<1> USE DEF GenInit
<1>1. GenTypeOK
  <2>1. todo \in Seq(Steps) /\ members \in Seq(Modules)
    OBVIOUS
  <2>2. ifaces \in Seq(Specs) /\ deps \in Seq(Specs) /\ left \in Seq(Specs)
    OBVIOUS
  <2>3. sdk \in [h : SUBSET Modules, cpp : SUBSET Modules]
    OBVIOUS
  <2> QED BY <2>1, <2>2, <2>3 DEF GenTypeOK
<1>2. Planned
  BY DEF Planned, InPairs, ChecksFirst
<1>3. Written /\ RefusalLeavesNoHalf
  BY DEF Written, Matched, AtHand, RefusalLeavesNoHalf
<1>4. SdkIsCurrent /\ Collected /\ Distinct
  BY GeneratorAssumption DEF SdkIsCurrent, Collected, Distinct, AtHand
<1> QED BY <1>1, <1>2, <1>3, <1>4 DEF GenInv

(* Reading the header does not touch a run.                                *)
LEMMA HeaderStep ==
    ASSUME GenInv, ReadHeader \/ TakeContract
    PROVE  GenInv'
<1>1. /\ UNCHANGED <<run, command, todo, exit, refused, files, spoiled>>
      /\ contract' \in {"none", "events", "plain", "refused"}
  BY DEF ReadHeader, TakeContract, GenInv, GenTypeOK
<1> USE <1>1 DEF command, files, GenInv
<1>2. GenTypeOK'
  BY DEF GenTypeOK
<1>3. Planned' /\ RefusalLeavesNoHalf' /\ Distinct'
  BY DEF Planned, RefusalLeavesNoHalf, Distinct
<1>4. Written'
  BY DEF Written, Matched, AtHand, Good
<1>5. SdkIsCurrent'
  BY DEF SdkIsCurrent, AtHand, SdkNames, Present, Good
<1>6. Collected'
  BY DEF Collected, Stage, Due, Good
<1> QED BY <1>2, <1>3, <1>4, <1>5, <1>6

LEMMA Unmoved ==
    ASSUME GenInv, UNCHANGED genVars
    PROVE  GenInv'
<1> USE DEF genVars, command, files, GenInv
<1>1. GenTypeOK' /\ Planned' /\ RefusalLeavesNoHalf' /\ Distinct'
  BY DEF GenTypeOK, Planned, RefusalLeavesNoHalf, Distinct
<1>2. Written'
  BY DEF Written, Matched, AtHand, Good
<1>3. SdkIsCurrent'
  BY DEF SdkIsCurrent, AtHand, SdkNames, Present, Good
<1>4. Collected'
  BY DEF Collected, Stage, Due, Good
<1> QED BY <1>1, <1>2, <1>3, <1>4

(* A run that ends by a failure: by a check before it has written          *)
(* anything, or by a write.                                                *)
LEMMA FailedStep ==
    ASSUME GenInv, exit = None, todo # <<>>,
           UNCHANGED <<contract, run, command, sdk, wrote, disk, spoiled>>,
           todo' = <<>>, exit' \in Nat \ {0}, temp' = FALSE,
           \/ refused' = TRUE /\ todo[1].do # "write"
           \/ refused' = refused
    PROVE  GenInv'
<1> USE DEF command
<1>1. exit' # None /\ ~Good'
  BY GeneratorAssumption DEF Good
<1>2. GenTypeOK'
  <2>1. todo' \in Seq(Steps)
    OBVIOUS
  <2>2. refused' \in BOOLEAN
    BY DEF GenInv, GenTypeOK
  <2> QED BY <2>1, <2>2 DEF GenInv, GenTypeOK
<1>3. Planned' /\ SdkIsCurrent' /\ Collected'
  <2>1. SdkH \in wrote => AtHand(SdkCpp)
    BY DEF GenInv, SdkIsCurrent
  <2> QED BY <1>1, <2>1 DEF Planned, SdkIsCurrent, Collected, AtHand, Good
<1>4. Written' /\ Distinct'
  BY <1>1 DEF GenInv, Written, Distinct
<1>5. RefusalLeavesNoHalf'
  <2>1. CASE refused' = refused
    BY <2>1, UnderWay DEF RefusalLeavesNoHalf
  <2>2. CASE todo[1].do # "write"
    <3>1. \A n \in Modules : ~AtHand(WrapperCpp(n))
      BY <2>2, UnderWay DEF Writes
    <3>2. \A n \in Modules : WrapperH(n) \in wrote <=> WrapperCpp(n) \in wrote
      BY <3>1 DEF GenInv, Written, Matched, Good
    <3>3. mode # "umbrella" => wrote = {}
      <4>1. 1 \in 1 .. Len(todo)
        BY UnderWay
      <4> QED BY <2>2, <4>1 DEF GenInv, Written
    <3> QED BY <3>2, <3>3 DEF RefusalLeavesNoHalf
  <2> QED BY <2>1, <2>2
<1> QED BY <1>2, <1>3, <1>4, <1>5 DEF GenInv

(* What becomes of the plan when its first step is taken.                  *)
LEMMA StepTaken ==
    ASSUME GenInv, exit = None, todo # <<>>, todo' = Tail(todo),
           todo[1].do \in Checking \cup {"write", "wrappers"},
           todo[1].do = "wrappers" => left = <<>>,
           exit' \in {None, 0}, exit' = 0 => Tail(todo) = <<>>,
           todo[1].do = "write" /\ Tail(todo) = <<>> => exit' = 0,
           UNCHANGED <<run, command>>,
           wrote \subseteq wrote', todo[1].do = "write" => todo[1].file \in wrote'
    PROVE  /\ todo' \in Seq(Steps) /\ Planned' /\ Collected'
           /\ mode = "umbrella" /\ Tail(todo) = <<>> => Writes(todo[1], SdkCpp)
           /\ \A n \in Modules : AtHand(WrapperCpp(n))' <=> Writes(todo[1], WrapperH(n)) /\ exit' = None
           /\ AtHand(SdkCpp)' <=> Writes(todo[1], SdkH) /\ exit' = None
           /\ Tail(todo) = <<>> => ~Writes(todo[1], SdkH) /\ \A n \in Modules : ~Writes(todo[1], WrapperH(n))
<1> DEFINE t == Tail(todo)
<1>1. /\ todo \in Seq(Steps) /\ InPairs(todo) /\ Len(todo) \in Nat /\ Len(todo) >= 1 /\ todo # <<>>
      /\ mode # "umbrella" => ChecksFirst(todo)
      /\ mode = "umbrella" => InPhases(todo)
  BY UnderWay
<1>2. /\ t \in Seq(Steps) /\ Len(t) = Len(todo) - 1
      /\ \A i \in 1 .. Len(t) : t[i] = todo[i + 1] /\ i + 1 \in 1 .. Len(todo)
      /\ \A i \in 1 .. Len(todo) : i = 1 \/ (i - 1 \in 1 .. Len(t) /\ todo[i] = t[i - 1])
      /\ t = <<>> <=> Len(todo) = 1
  BY <1>1, Tails
<1>3. /\ InPairs(t)
      /\ mode # "umbrella" => ChecksFirst(t)
      /\ mode = "umbrella" /\ t # <<>> => InPhases(t) /\ t[Len(t)] = todo[Len(todo)]
  BY <1>1, TailIsSound
<1> HIDE DEF t
<1>4. todo' = t
  BY DEF t
<1>5. ASSUME mode = "umbrella", t = <<>> PROVE Writes(todo[1], SdkCpp)
  <2>1. Len(todo) = 1 /\ 1 \in 1 .. Len(todo) /\ 1 + 1 # Len(todo)
    BY <1>2, <1>5
  <2> QED BY <1>1, <1>5, <2>1 DEF InPhases, Checking, Phases
<1>6. Planned'
  <2>1. mode = "umbrella" /\ exit' = None => t # <<>>
    BY <1>5, GeneratorAssumption DEF Writes, t
  <2> QED BY <1>3, <1>4, <2>1 DEF Planned, command
<1>7. /\ \A n \in Modules : AtHand(WrapperCpp(n))' <=> Writes(todo[1], WrapperH(n)) /\ exit' = None
      /\ AtHand(SdkCpp)' <=> Writes(todo[1], SdkH) /\ exit' = None
      /\ t = <<>> => ~Writes(todo[1], SdkH) /\ \A n \in Modules : ~Writes(todo[1], WrapperH(n))
  <2>1. 1 \in 1 .. Len(todo) /\ InPairsAt(todo, 1)
    BY <1>1 DEF InPairs
  <2>2. t # <<>> => 2 \in 1 .. Len(todo) /\ InPairsAt(todo, 2) /\ t[1] = todo[2] /\ 1 < Len(todo)
    <3>1. t # <<>> => 1 \in 1 .. Len(t) /\ 2 \in 1 .. Len(todo)
      BY <1>1, <1>2
    <3> QED BY <1>1, <1>2, <3>1 DEF InPairs
  <2>3. t = <<>> => Len(todo) = 1
    BY <1>2
  <2>4. t = <<>> => ~Writes(todo[1], SdkH) /\ \A n \in Modules : ~Writes(todo[1], WrapperH(n))
    BY <2>1, <2>3 DEF InPairsAt
  <2>5. \A f : AtHand(f)' <=> exit' = None /\ t # <<>> /\ Writes(t[1], f)
    BY <1>4 DEF AtHand, Writes
  <2>6. \A n \in Modules : t # <<>> => (Writes(t[1], WrapperCpp(n)) <=> Writes(todo[1], WrapperH(n)))
    BY <2>1, <2>2 DEF InPairsAt
  <2>7. t # <<>> => (Writes(t[1], SdkCpp) <=> Writes(todo[1], SdkH))
    BY <2>1, <2>2 DEF InPairsAt
  <2>8. /\ \A n \in Modules : WrapperCpp(n)' = WrapperCpp(n)
        /\ SdkCpp' = SdkCpp
    BY DEF WrapperCpp, SdkCpp
  <2>9. \A n \in Modules : AtHand(WrapperCpp(n))' <=> exit' = None /\ t # <<>> /\ Writes(t[1], WrapperCpp(n))
    BY <1>4 DEF AtHand, Writes, WrapperCpp
  <2>10. AtHand(SdkCpp)' <=> exit' = None /\ t # <<>> /\ Writes(t[1], SdkCpp)
    BY <1>4 DEF AtHand, Writes, SdkCpp
  <2> QED BY <2>4, <2>6, <2>7, <2>9, <2>10
<1>8. Collected'
  <2> SUFFICES ASSUME mode = "umbrella" PROVE Collected'
    BY DEF Collected, command
  <2>1. Good /\ Collected /\ InPhases(todo)
    BY <1>1 DEF GenInv, Good
  <2>2. t # <<>> => t[Len(t)] = todo[Len(todo)] /\ Len(t) >= 1
    BY <1>1, <1>2, <1>3
  <2>3. ASSUME t # <<>>, NEW p PROVE Stage(p)' <=> exit' = None /\ Stage(p)
    BY <1>4, <2>2, <2>3 DEF Stage
  <2>4. t = <<>> => Stage("write") /\ ~Stage("interfaces") /\ ~Stage("deps")
    <3>1. t = <<>> => Len(todo) = 1 /\ todo[1].do = "write"
      BY <1>2, <1>5 DEF Writes
    <3> QED BY <3>1 DEF Stage
  <2>5. exit' = None => t # <<>>
    BY <1>5, GeneratorAssumption DEF Writes, t
  <2>6. ASSUME NEW n, Due(n) PROVE Due(n)'
    <3>1. CASE WrapperCpp(n) \in wrote
      BY <3>1 DEF Due, WrapperCpp
    <3>2. CASE \E i \in 1 .. Len(left) : left[i].name = n
      BY <3>2 DEF Due, command
    <3>3. CASE \E i \in 1 .. Len(todo) : Writes(todo[i], WrapperCpp(n))
      <4>1. PICK i \in 1 .. Len(todo) : Writes(todo[i], WrapperCpp(n))
        BY <3>3
      <4>2. CASE i = 1
        <5>1. WrapperCpp(n) \in wrote'
          BY <4>1, <4>2 DEF Writes
        <5> QED BY <5>1 DEF Due, WrapperCpp
      <4>3. CASE i # 1
        <5>1. i - 1 \in 1 .. Len(t) /\ Writes(t[i - 1], WrapperCpp(n))
          BY <1>2, <4>1, <4>3
        <5> QED BY <1>4, <5>1 DEF Due, WrapperCpp, Writes
      <4> QED BY <4>2, <4>3
    <3> QED BY <2>6, <3>1, <3>2, <3>3 DEF Due
  <2>7. left # <<>> => exit' = None /\ Len(t) >= 2 /\ t[Len(t) - 1].do = "wrappers"
    <3> SUFFICES ASSUME left # <<>> PROVE exit' = None /\ Len(t) >= 2 /\ t[Len(t) - 1].do = "wrappers"
      OBVIOUS
    <3>1. Len(todo) >= 2 /\ todo[Len(todo) - 1].do = "wrappers" /\ todo[1].do # "wrappers"
      BY <2>1 DEF Collected
    <3>2. Len(todo) - 1 # 1
      BY <3>1
    <3>3. Len(t) >= 2 /\ t[Len(t) - 1] = todo[Len(todo) - 1]
      <4>1. Len(t) >= 2 /\ Len(t) - 1 \in 1 .. Len(t) /\ (Len(t) - 1) + 1 = Len(todo) - 1
        BY <1>1, <1>2, <3>1, <3>2
      <4> QED BY <1>2, <4>1
    <3>4. exit' = None
      BY <1>2, <3>3 DEF t
    <3> QED BY <3>1, <3>3, <3>4
  <2>8. exit' = 0 => Stage("write")
    BY <2>4 DEF t
  <2>9. /\ Stage("interfaces")' => Stage("interfaces")
        /\ Stage("write")' => Stage("write")
        /\ ~Stage("interfaces")' => ~Stage("interfaces")
        /\ ~Stage("deps")' => ~Stage("deps")
    <3>1. CASE exit' = None
      BY <2>3, <2>5, <3>1
    <3>2. CASE exit' # None
      <4>1. t = <<>>
        BY <3>2 DEF t
      <4> QED BY <2>4, <3>2, <4>1 DEF Stage
    <3> QED BY <3>1, <3>2
  <2>10. UNCHANGED <<mode, skip, ifaces, deps, members, left>> /\ NamesOf(deps)' = NamesOf(deps)
    BY DEF command, NamesOf
  <2>11. (left # <<>> => exit = None /\ Len(todo) >= 2 /\ todo[Len(todo) - 1].do = "wrappers")'
    BY <1>4, <2>7, <2>10
  <2>12. /\ (Stage("interfaces") => deps = <<>>)'
         /\ ((exit = 0 \/ Stage("write")) /\ deps # <<>> => members = NamesOf(deps))'
    BY <2>1, <2>8, <2>9, <2>10 DEF Collected
  <2>13. (~skip /\ ~Stage("interfaces") => \A i \in 1 .. Len(ifaces) : Due(ifaces[i].name))'
    BY <2>1, <2>6, <2>9, <2>10 DEF Collected
  <2>14. (~skip /\ ~Stage("interfaces") /\ ~Stage("deps") => \A i \in 1 .. Len(deps) : Due(deps[i].name))'
    BY <2>1, <2>6, <2>9, <2>10 DEF Collected
  <2> QED BY <2>11, <2>12, <2>13, <2>14 DEF Collected
<1> QED BY <1>2, <1>4, <1>5, <1>6, <1>7, <1>8 DEF t

(* The names of a list of specs.                                           *)
LEMMA SpecNames ==
    ASSUME NEW s \in Seq(Specs)
    PROVE  /\ NamesOf(s) \in Seq(Modules) /\ Len(NamesOf(s)) = Len(s)
           /\ \A i \in 1 .. Len(s) : s[i] \in Specs /\ s[i].name \in Modules /\ NamesOf(s)[i] = s[i].name
           /\ Elements(NamesOf(s)) \subseteq Modules
           /\ \A n \in Elements(NamesOf(s)) : \E i \in 1 .. Len(s) : s[i].name = n
           /\ \A i \in 1 .. Len(s) : s[i].name \in Elements(NamesOf(s))
<1> DEFINE g == NamesOf(s)
<1>1. DOMAIN s = 1 .. Len(s) /\ Len(s) \in Nat /\ \A i \in 1 .. Len(s) : s[i] \in Specs
  OBVIOUS
<1>2. \A x \in Specs : x.name \in Modules
  BY DEF Specs
<1>3. g = [i \in 1 .. Len(s) |-> s[i].name]
  BY <1>1 DEF NamesOf
<1> HIDE DEF g
<1>4. g \in [1 .. Len(s) -> Modules]
  BY <1>1, <1>2, <1>3
<1>5. g \in Seq(Modules) /\ Len(g) = Len(s) /\ DOMAIN g = 1 .. Len(s)
  BY <1>1, <1>4
<1>6. \A i \in 1 .. Len(s) : g[i] = s[i].name /\ g[i] \in Modules
  BY <1>3, <1>4
<1> QED BY <1>1, <1>2, <1>5, <1>6 DEF g, Elements

(* A step that writes none of the run's files.                             *)
LEMMA AdvanceStep ==
    ASSUME GenInv, exit = None, todo # <<>>, todo' = Tail(todo),
           todo[1].do \in Checking \cup {"wrappers"},
           todo[1].do = "wrappers" => left = <<>>,
           exit' \in {None, 0}, exit' = 0 => Tail(todo) = <<>>,
           temp' = FALSE \/ (temp' = TRUE /\ todo[1].do = "temp" /\ exit' = None),
           UNCHANGED <<contract, run, command, refused, sdk, wrote, disk, spoiled>>
    PROVE  GenInv'
<1>1. todo[1].do # "write" /\ todo[1].do \in Checking \cup {"write", "wrappers"}
  BY DEF Checking
<1>2. /\ todo' \in Seq(Steps) /\ Planned' /\ Collected'
      /\ mode = "umbrella" /\ Tail(todo) = <<>> => Writes(todo[1], SdkCpp)
      /\ \A n \in Modules : AtHand(WrapperCpp(n))' <=> Writes(todo[1], WrapperH(n)) /\ exit' = None
      /\ AtHand(SdkCpp)' <=> Writes(todo[1], SdkH) /\ exit' = None
  BY <1>1, StepTaken
<1>3. /\ \A n \in Modules : ~AtHand(WrapperCpp(n)) /\ ~AtHand(WrapperCpp(n))'
      /\ ~AtHand(SdkCpp) /\ ~AtHand(SdkCpp)'
  BY <1>1, <1>2, UnderWay DEF Writes
<1>4. ~refused /\ run # 0 /\ Good /\ 1 \in 1 .. Len(todo)
  BY UnderWay DEF Good
<1>5. GenTypeOK'
  <2>1. temp' \in BOOLEAN
    BY DEF GenInv, GenTypeOK
  <2>2. exit' \in Nat \cup {None}
    OBVIOUS
  <2> QED BY <1>2, <2>1, <2>2 DEF GenInv, GenTypeOK, command
<1>6. Written'
  <2>1. Matched(wrote)' /\ (~spoiled => Matched(disk)')
    BY <1>3, <1>4 DEF GenInv, Written, Matched, WrapperH, WrapperCpp
  <2>2. mode # "umbrella" => wrote = {}
    BY <1>1, <1>4 DEF GenInv, Written
  <2>3. temp' => exit' = None /\ todo' # <<>> /\ todo'[1].do = "scan"
    <3> SUFFICES ASSUME todo[1].do = "temp" PROVE todo' # <<>> /\ todo'[1].do = "scan"
      OBVIOUS
    <3>1. InPairsAt(todo, 1) /\ todo \in Seq(Steps)
      BY <1>4, UnderWay DEF InPairs
    <3>2. 1 < Len(todo) /\ todo[2].do = "scan"
      BY <3>1 DEF InPairsAt
    <3>3. Tail(todo) # <<>> /\ 1 \in 1 .. Len(Tail(todo))
      BY <3>1, <3>2, Tails
    <3>4. Tail(todo)[1] = todo[2]
      BY <3>1, <3>3, Tails
    <3> QED BY <3>2, <3>3, <3>4
  <2>4. (exit = None /\ mode # "umbrella" /\ wrote # {} => \A i \in 1 .. Len(todo) : todo[i].do = "write")'
    BY <2>2 DEF command
  <2>5. (run = 0 \/ exit # None => todo = <<>>)'
    BY <1>4
  <2> QED BY <1>3, <1>4, <2>1, <2>3, <2>4, <2>5 DEF GenInv, Written
<1>7. SdkIsCurrent'
  <2>1. SdkH \notin wrote
    BY <1>3 DEF GenInv, SdkIsCurrent
  <2>2. mode = "umbrella" => exit' # 0
    BY <1>1, <1>2 DEF Writes
  <2>3. SdkH \notin wrote'
    BY <2>1 DEF SdkH
  <2>4. SdkH' = SdkH /\ mode' = mode
    BY DEF SdkH, command
  <2> QED BY <1>3, <2>1, <2>2, <2>3, <2>4 DEF SdkIsCurrent
<1>8. Distinct' /\ RefusalLeavesNoHalf'
  BY <1>4 DEF GenInv, Distinct, RefusalLeavesNoHalf, command
<1> QED BY <1>2, <1>5, <1>6, <1>7, <1>8 DEF GenInv

LEMMA WriteStep == ASSUME GenInv, WriteFile PROVE GenInv'
<1> DEFINE f == todo[1].file
<1>1. /\ exit = None /\ todo # <<>> /\ todo[1].do = "write" /\ Head(todo) = todo[1]
      /\ todo \in Seq(Steps) /\ 1 \in 1 .. Len(todo)
  BY UnderWay DEF WriteFile, Doing
<1>2. /\ wrote' = wrote \cup {f} /\ disk' = disk \cup {f}
      /\ sdk' = IF f = SdkH THEN [sdk EXCEPT !.h = SdkNames("api.h")]
                ELSE IF f = SdkCpp THEN [sdk EXCEPT !.cpp = SdkNames("api.cpp")] ELSE sdk
      /\ todo' = Tail(todo) /\ exit' = IF Tail(todo) = <<>> THEN 0 ELSE None
      /\ UNCHANGED <<contract, run, command, refused, temp, spoiled>>
  BY <1>1 DEF WriteFile, Done
<1>3. /\ todo' \in Seq(Steps) /\ Planned' /\ Collected'
      /\ mode = "umbrella" /\ Tail(todo) = <<>> => Writes(todo[1], SdkCpp)
      /\ \A n \in Modules : AtHand(WrapperCpp(n))' <=> Writes(todo[1], WrapperH(n)) /\ exit' = None
      /\ AtHand(SdkCpp)' <=> Writes(todo[1], SdkH) /\ exit' = None
      /\ Tail(todo) = <<>> => ~Writes(todo[1], SdkH) /\ \A n \in Modules : ~Writes(todo[1], WrapperH(n))
  <2>1. wrote \subseteq wrote' /\ todo[1].file \in wrote'
    BY <1>2
  <2>2. exit' \in {None, 0} /\ (exit' = 0 => Tail(todo) = <<>>) /\ (Tail(todo) = <<>> => exit' = 0)
    BY <1>2, GeneratorAssumption
  <2>3. UNCHANGED <<run, command>> /\ todo' = Tail(todo)
    BY <1>2
  <2> HIDE DEF f
  <2> HIDE <1>2
  <2> QED BY <1>1, <2>1, <2>2, <2>3, StepTaken
<1>4. /\ ~refused /\ run # 0 /\ Good /\ ~temp /\ f \in Files
      /\ mode # "umbrella" => ChecksFirst(todo)
      /\ \A g : AtHand(g) <=> Writes(todo[1], g)
  BY <1>1, UnderWay DEF Good, Steps, Checking, Phases
<1>5. \A g : Writes(todo[1], g) <=> f = g
  BY <1>1 DEF Writes
<1> HIDE DEF f
<1>6. /\ \A n \in Modules : AtHand(WrapperCpp(n)) <=> f = WrapperCpp(n)
      /\ \A n \in Modules : AtHand(WrapperCpp(n))' <=> f = WrapperH(n)
      /\ AtHand(SdkCpp) <=> f = SdkCpp
      /\ AtHand(SdkCpp)' <=> f = SdkH
      /\ f = SdkH => exit' = None
  BY <1>2, <1>3, <1>4, <1>5
<1>7. /\ \A n \in Modules : WrapperH(n)' = WrapperH(n) /\ WrapperCpp(n)' = WrapperCpp(n)
      /\ \A n, m \in Modules : WrapperH(n) # WrapperCpp(m)
      /\ \A n \in Modules : WrapperH(n) # SdkH /\ WrapperCpp(n) # SdkH
      /\ \A n \in Modules : WrapperH(n) # SdkCpp /\ WrapperCpp(n) # SdkCpp
      /\ SdkH' = SdkH /\ SdkCpp' = SdkCpp /\ SdkH # SdkCpp
  BY DEF WrapperH, WrapperCpp, SdkH, SdkCpp
<1>8. GenTypeOK'
  <2>1. SdkNames("api.h") \subseteq Modules /\ SdkNames("api.cpp") \subseteq Modules
    <3>1. Elements(members) \subseteq Modules
      BY DEF GenInv, GenTypeOK, Elements
    <3>2. Elements(NamesOf(ifaces)) \subseteq Modules
      <4>1. ifaces \in Seq(Specs)
        BY DEF GenInv, GenTypeOK
      <4> QED BY <4>1, SpecNames
    <3> QED BY <3>1, <3>2 DEF SdkNames, Present
  <2>2. sdk' \in [h : SUBSET Modules, cpp : SUBSET Modules]
    BY <1>2, <2>1 DEF GenInv, GenTypeOK
  <2>3. wrote' \subseteq Files /\ disk' \subseteq Files
    BY <1>2, <1>4 DEF GenInv, GenTypeOK
  <2>4. exit' \in Nat \cup {None}
    BY <1>2
  <2> QED BY <1>2, <1>3, <2>2, <2>3, <2>4 DEF GenInv, GenTypeOK, command
<1>9. Written'
  <2>1. ASSUME NEW S, Matched(S), \A n \in Modules : AtHand(WrapperCpp(n)) => WrapperH(n) \in S,
               NEW n \in Modules
        PROVE  /\ WrapperCpp(n) \in S \cup {f} => WrapperH(n) \in S \cup {f}
               /\ WrapperH(n) \in S \cup {f} => WrapperCpp(n) \in S \cup {f} \/ f = WrapperH(n)
    BY <1>6, <2>1 DEF Matched
  <2>2. wrote \subseteq disk /\ \A n \in Modules : AtHand(WrapperCpp(n)) => WrapperH(n) \in wrote
    BY <1>4 DEF GenInv, Written
  <2>3. Matched(wrote)'
    <3>1. Matched(wrote)
      BY <1>4 DEF GenInv, Written
    <3> QED BY <1>2, <1>6, <1>7, <2>1, <2>2, <3>1 DEF Matched
  <2>4. ~spoiled' => Matched(disk)'
    <3>1. ~spoiled => Matched(disk)
      BY <1>4 DEF GenInv, Written
    <3> QED BY <1>2, <1>6, <1>7, <2>1, <2>2, <3>1 DEF Matched
  <2>5. \A n \in Modules : AtHand(WrapperCpp(n))' => WrapperH(n) \in wrote'
    BY <1>2, <1>6
  <2>6. (exit = None /\ mode # "umbrella" /\ wrote # {} => \A i \in 1 .. Len(todo) : todo[i].do = "write")'
    <3> SUFFICES ASSUME mode # "umbrella", NEW i \in 1 .. Len(todo') PROVE todo'[i].do = "write"
      BY <1>2 DEF command
    <3>1. i + 1 \in 1 .. Len(todo) /\ todo'[i] = todo[i + 1]
      BY <1>1, <1>2, Tails
    <3>2. 1 \in 1 .. i + 1
      OBVIOUS
    <3> QED BY <1>1, <1>4, <3>1, <3>2 DEF ChecksFirst
  <2>7. (run = 0 \/ exit # None => todo = <<>>)'
    BY <1>2, <1>4
  <2>8. wrote' \subseteq disk' /\ ~refused' /\ ~temp'
    BY <1>2, <1>4, <2>2
  <2> QED BY <1>7, <2>3, <2>4, <2>5, <2>6, <2>7, <2>8 DEF Written
<1>10. SdkIsCurrent'
  <2>1. SdkH \in wrote <=> f = SdkCpp
    BY <1>1, <1>6 DEF GenInv, SdkIsCurrent
  <2>2. SdkH \in wrote' <=> f \in {SdkH, SdkCpp}
    BY <1>2, <2>1
  <2>3. f = SdkCpp => Len(todo) = 1 /\ exit' = 0
    <3>1. InPairsAt(todo, 1)
      BY <1>1, UnderWay DEF InPairs
    <3>2. f = SdkCpp => Len(todo) = 1
      BY <1>5, <3>1 DEF InPairsAt
    <3>3. Len(todo) = 1 => Tail(todo) = <<>>
      BY <1>1, Tails
    <3> QED BY <1>2, <3>2, <3>3
  <2>4. SdkNames("api.h")' = SdkNames("api.h") \/ f \notin {SdkH, SdkCpp}
    <3>1. f \in {SdkH, SdkCpp} => Present("api.h")' = Present("api.h")
      BY <1>2 DEF Present, SdkH, SdkCpp
    <3>2. Elements(members)' = Elements(members) /\ Elements(NamesOf(ifaces))' = Elements(NamesOf(ifaces))
      BY <1>2 DEF Elements, NamesOf, command
    <3> QED BY <1>2, <3>1, <3>2 DEF SdkNames, command
  <2>5. SdkNames("api.cpp")' = SdkNames("api.cpp") \/ f # SdkCpp
    <3>1. f = SdkCpp => Present("api.cpp")' = Present("api.cpp")
      BY <1>2 DEF Present, SdkH, SdkCpp
    <3>2. Elements(members)' = Elements(members) /\ Elements(NamesOf(ifaces))' = Elements(NamesOf(ifaces))
      BY <1>2 DEF Elements, NamesOf, command
    <3> QED BY <1>2, <3>1, <3>2 DEF SdkNames, command
  <2>6. SdkH \in wrote' => sdk'.h = SdkNames("api.h")'
    <3>1. CASE f = SdkH
      BY <1>2, <2>4, <3>1 DEF GenInv, GenTypeOK
    <3>2. CASE f = SdkCpp
      BY <1>2, <1>4, <1>7, <2>1, <2>4, <3>2 DEF GenInv, GenTypeOK, SdkIsCurrent
    <3> QED BY <2>2, <3>1, <3>2
  <2>7. exit' = 0 /\ SdkH \in wrote' => sdk'.cpp = SdkNames("api.cpp")'
    <3>1. exit' = 0 => f # SdkH
      BY <1>6, GeneratorAssumption
    <3>2. f = SdkCpp => sdk'.cpp = SdkNames("api.cpp")
      <4>1. f = SdkCpp => sdk' = [sdk EXCEPT !.cpp = SdkNames("api.cpp")]
        BY <1>2, <1>7
      <4>2. sdk \in [h : SUBSET Modules, cpp : SUBSET Modules]
        BY DEF GenInv, GenTypeOK
      <4> QED BY <4>1, <4>2
    <3> QED BY <2>2, <2>5, <3>1, <3>2
  <2>8. exit' = 0 /\ mode' = "umbrella" => SdkH \in wrote'
    BY <1>2, <1>3, <1>5, <2>2, GeneratorAssumption DEF command
  <2>9. AtHand(SdkCpp)' <=> exit' = None /\ SdkH \in wrote'
    BY <1>6, <2>2, <2>3, GeneratorAssumption
  <2> QED BY <1>7, <2>6, <2>7, <2>8, <2>9 DEF SdkIsCurrent
<1>11. Distinct' /\ RefusalLeavesNoHalf'
  BY <1>2, <1>4 DEF GenInv, Distinct, RefusalLeavesNoHalf, command
<1> QED BY <1>3, <1>8, <1>9, <1>10, <1>11 DEF GenInv

(* A run begins where the last one ended.                                  *)
LEMMA MainStep ==
    ASSUME GenInv, NEW F, NEW n \in Modules, NEW opt \in BOOLEAN, Main(F, n, opt)
    PROVE  GenInv'
<1>1. /\ mode' \in Modes /\ todo' = Plan(mode', n, opt)
      /\ run' = run + 1 /\ exit' = None /\ refused' = FALSE /\ wrote' = {}
      /\ spoiled' = (spoiled \/ exit \notin {None, 0})
      /\ skip' \in BOOLEAN /\ origin' \in BOOLEAN
      /\ ifaces' = <<>> /\ deps' = <<>> /\ members' = <<>> /\ left' = <<>>
      /\ UNCHANGED <<contract, sdk, disk, temp>>
  <2>1. \A lp, o \in BOOLEAN : (o /\ ~lp) \in BOOLEAN
    OBVIOUS
  <2> QED BY <2>1, ModeIsKnown DEF Main
<1>2. todo = <<>> /\ ~temp /\ run \in Nat
  BY DEF Main, Idle, GenInv, GenTypeOK, Written
<1>3. /\ todo' \in Seq(Steps) /\ InPairs(todo') /\ todo' # <<>> /\ todo'[1].do = "check"
      /\ mode' # "umbrella" => ChecksFirst(todo')
      /\ mode' = "umbrella" => InPhases(todo') /\ Len(todo') = 2 /\ todo'[2].do = "interfaces"
  BY <1>1, PlanIsSound DEF Piece
<1>4. \A f : ~AtHand(f)
  BY <1>2 DEF AtHand
<1>5. (\A m \in Modules : ~AtHand(WrapperCpp(m)))' /\ ~AtHand(SdkCpp)'
  BY <1>3 DEF AtHand, Writes
<1>6. GenTypeOK'
  <2>1. run' \in Nat /\ spoiled' \in BOOLEAN
    BY <1>1, <1>2
  <2>2. ifaces' \in Seq(Specs) /\ deps' \in Seq(Specs) /\ left' \in Seq(Specs) /\ members' \in Seq(Modules)
    BY <1>1
  <2> QED BY <1>1, <1>3, <2>1, <2>2 DEF GenInv, GenTypeOK
<1>7. Planned'
  BY <1>3 DEF Planned
<1>8. Written'
  <2>1. ~spoiled' => ~spoiled /\ Good
    BY <1>1 DEF Good
  <2>2. ~spoiled' => Matched(disk)'
    BY <1>1, <1>4, <2>1 DEF GenInv, Written, Matched, WrapperH, WrapperCpp
  <2>3. Matched(wrote)'
    BY <1>1 DEF Matched
  <2> QED BY <1>1, <1>2, <1>5, <2>2, <2>3 DEF Written
<1>9. SdkIsCurrent'
  BY <1>1, <1>5, GeneratorAssumption DEF SdkIsCurrent
<1>10. Collected'
  <2>1. mode' = "umbrella" => Stage("interfaces")' /\ ~Stage("write")'
    BY <1>1, <1>3 DEF Stage
  <2> QED BY <1>1, <2>1, GeneratorAssumption DEF Collected
<1>11. Distinct' /\ RefusalLeavesNoHalf'
  BY <1>1 DEF Distinct, RefusalLeavesNoHalf
<1> QED BY <1>6, <1>7, <1>8, <1>9, <1>10, <1>11 DEF GenInv

(***************************************************************************)
(* The umbrella's own steps.                                               *)
(***************************************************************************)
(* In a phase nothing is being written, and only the next loop is left.    *)
LEMMA InAPhase ==
    ASSUME GenInv, exit = None, todo # <<>>, todo[1].do \in Phases
    PROVE  /\ mode = "umbrella" /\ Good /\ ~temp /\ ~refused /\ run # 0
           /\ \A f : ~AtHand(f)
           /\ SdkH \notin wrote
           /\ todo[1].do # "wrappers" =>
                  /\ Len(todo) = 1 /\ left = <<>>
                  /\ \A p : Stage(p) <=> todo[1].do = p
                  /\ \A n : Due(n) <=> WrapperCpp(n) \in wrote
           /\ todo[1].do = "wrappers" =>
                  /\ Len(todo) = 2 /\ todo[2].do \in {"deps", "members"}
                  /\ \A p : Stage(p) <=> todo[2].do = p
<1>1. /\ mode = "umbrella" /\ Good /\ ~refused /\ run # 0 /\ InPhases(todo)
      /\ todo \in Seq(Steps) /\ 1 \in 1 .. Len(todo) /\ ~temp
  BY UnderWay DEF Good, Phases
<1>2. \A f : ~AtHand(f)
  BY UnderWay DEF Writes, Phases
<1>3. SdkH \notin wrote
  BY <1>2 DEF GenInv, SdkIsCurrent
<1>4. ASSUME todo[1].do # "wrappers"
      PROVE  /\ Len(todo) = 1 /\ left = <<>>
             /\ \A p : Stage(p) <=> todo[1].do = p
             /\ \A n : Due(n) <=> WrapperCpp(n) \in wrote
  <2>1. Len(todo) = 1
    BY <1>1, <1>4 DEF InPhases
  <2>2. left = <<>>
    BY <1>1, <2>1 DEF GenInv, Collected
  <2>3. \A i \in 1 .. Len(todo) : i = 1 /\ \A f : ~Writes(todo[i], f)
    BY <2>1 DEF Writes, Phases
  <2>4. \A n : Due(n) <=> WrapperCpp(n) \in wrote
    BY <2>2, <2>3 DEF Due
  <2> QED BY <2>1, <2>2, <2>4 DEF Stage
<1>5. ASSUME todo[1].do = "wrappers"
      PROVE  /\ Len(todo) = 2 /\ todo[2].do \in {"deps", "members"}
             /\ \A p : Stage(p) <=> todo[2].do = p
  <2>1. Len(todo) = 2 /\ todo[2].do \in {"deps", "members"}
    <3>1. 1 + 1 = Len(todo) /\ todo[Len(todo)].do \in {"deps", "members"}
      BY <1>1, <1>5 DEF InPhases
    <3>2. Len(todo) = 2
      BY <3>1
    <3> QED BY <3>1, <3>2
  <2> QED BY <2>1 DEF Stage
<1> QED BY <1>1, <1>2, <1>3, <1>4, <1>5

(* A step of the umbrella mode that touches no file.                       *)
LEMMA NoFile ==
    ASSUME GenInv, exit = None, todo # <<>>, todo[1].do \in Phases,
           UNCHANGED <<contract, run, mode, skip, origin, exit, refused, files, spoiled>>,
           todo' # <<>>, todo'[1].do # "write" \/ Writes(todo'[1], SdkH) \/ todo'[1] = todo[1]
    PROVE  Written' /\ SdkIsCurrent' /\ RefusalLeavesNoHalf'
<1> USE DEF files
<1>1. /\ mode = "umbrella" /\ Good /\ ~temp /\ ~refused /\ run # 0 /\ SdkH \notin wrote
      /\ \A f : ~AtHand(f)
  BY InAPhase
<1>2. (\A n \in Modules : ~AtHand(WrapperCpp(n)))' /\ ~AtHand(SdkCpp)'
  <2>1. \A n \in Modules : WrapperCpp(n) # SdkH
    BY DEF WrapperCpp, SdkH, SdkCpp
  <2>2. SdkH # SdkCpp /\ todo[1].do # "write"
    BY DEF SdkH, SdkCpp, Phases
  <2>3. /\ \A n \in Modules : ~Writes(todo'[1], WrapperCpp(n))
        /\ ~Writes(todo'[1], SdkCpp)
    BY <2>1, <2>2 DEF Writes
  <2> QED BY <2>3 DEF AtHand, Writes, WrapperCpp, SdkCpp
<1>3. Written'
  <2>1. Matched(wrote)' /\ (~spoiled' => Matched(disk)')
    BY <1>1 DEF GenInv, Written, Matched, WrapperH, WrapperCpp
  <2> QED BY <1>1, <1>2, <2>1 DEF GenInv, Written
<1>4. SdkIsCurrent'
  <2>1. exit' = None /\ SdkH' \notin wrote'
    BY <1>1 DEF SdkH
  <2> QED BY <1>2, <2>1, GeneratorAssumption DEF SdkIsCurrent
<1>5. RefusalLeavesNoHalf'
  BY <1>1 DEF RefusalLeavesNoHalf
<1> QED BY <1>3, <1>4, <1>5

LEMMA InterfaceStep == ASSUME GenInv, NEW spec \in Specs, Interface(spec) PROVE GenInv'
<1>1. /\ exit = None /\ todo # <<>> /\ todo[1].do = "interfaces" /\ todo[1].do \in Phases
      /\ spec.name \notin Elements(NamesOf(ifaces)) /\ ifaces' = Append(ifaces, spec)
      /\ UNCHANGED <<contract, run, mode, skip, origin, deps, members, left, todo, exit, refused, files, spoiled>>
  BY UnderWay DEF Interface, Doing, Phases
<1>2. mode = "umbrella" /\ Good /\ Stage("interfaces") /\ left = <<>>
  BY <1>1, InAPhase
<1>3. deps = <<>> /\ ifaces \in Seq(Specs)
  BY <1>2 DEF GenInv, Collected, GenTypeOK
<1>4. /\ ifaces' \in Seq(Specs) /\ Len(ifaces') = Len(ifaces) + 1 /\ Len(ifaces) \in Nat
      /\ \A i \in 1 .. Len(ifaces') : ifaces'[i] = IF i = Len(ifaces) + 1 THEN spec ELSE ifaces[i]
  BY <1>1, <1>3
<1>5. \A i \in 1 .. Len(ifaces) : ifaces[i].name # spec.name
  BY <1>1, <1>3, SpecNames
<1>6. Written' /\ SdkIsCurrent' /\ RefusalLeavesNoHalf'
  BY <1>1, NoFile
<1>7. GenTypeOK' /\ Planned'
  BY <1>1, <1>4 DEF GenInv, GenTypeOK, Planned, files
<1>8. Collected'
  <2>1. Stage("interfaces")' /\ ~Stage("write")'
    BY <1>1, <1>2 DEF Stage
  <2> QED BY <1>1, <1>2, <1>3, <2>1, GeneratorAssumption DEF Collected
<1>9. Distinct'
  <2>1. ASSUME NEW i \in 1 .. Len(ifaces'), NEW j \in 1 .. Len(ifaces'), ifaces'[i].name = ifaces'[j].name
        PROVE  i = j
    <3>1. i \in 1 .. Len(ifaces) \/ i = Len(ifaces) + 1
      BY <1>4
    <3>2. j \in 1 .. Len(ifaces) \/ j = Len(ifaces) + 1
      BY <1>4
    <3> QED BY <1>4, <1>5, <2>1, <3>1, <3>2 DEF GenInv, Distinct
  <2> QED BY <1>1, <1>3, <2>1 DEF Distinct
<1> QED BY <1>6, <1>7, <1>8, <1>9 DEF GenInv

LEMMA DependencyStep == ASSUME GenInv, NEW spec \in Specs, Dependency(spec) PROVE GenInv'
<1>1. /\ exit = None /\ todo # <<>> /\ todo[1].do = "deps" /\ todo[1].do \in Phases
      /\ spec.name \notin Elements(NamesOf(ifaces)) /\ spec.name \notin Elements(NamesOf(deps))
      /\ deps' = Append(deps, spec)
      /\ UNCHANGED <<contract, run, mode, skip, origin, ifaces, members, left, todo, exit, refused, files, spoiled>>
  BY UnderWay DEF Dependency, Doing, Phases
<1>2. /\ mode = "umbrella" /\ Good /\ Stage("deps") /\ left = <<>>
      /\ ~Stage("interfaces") /\ ~Stage("write")
  BY <1>1, InAPhase
<1>3. deps \in Seq(Specs) /\ ifaces \in Seq(Specs)
  BY DEF GenInv, GenTypeOK
<1>4. /\ deps' \in Seq(Specs) /\ Len(deps') = Len(deps) + 1 /\ Len(deps) \in Nat
      /\ \A i \in 1 .. Len(deps') : deps'[i] = IF i = Len(deps) + 1 THEN spec ELSE deps[i]
  BY <1>1, <1>3
<1>5. /\ \A i \in 1 .. Len(deps) : deps[i].name # spec.name
      /\ \A i \in 1 .. Len(ifaces) : ifaces[i].name # spec.name
  BY <1>1, <1>3, SpecNames
<1>6. Written' /\ SdkIsCurrent' /\ RefusalLeavesNoHalf'
  BY <1>1, NoFile
<1>7. GenTypeOK' /\ Planned'
  BY <1>1, <1>4 DEF GenInv, GenTypeOK, Planned, files
<1>8. Collected'
  <2>1. Stage("deps")' /\ ~Stage("interfaces")' /\ ~Stage("write")'
    BY <1>1, <1>2 DEF Stage
  <2>2. ~skip => \A i \in 1 .. Len(ifaces) : Due(ifaces[i].name)
    BY <1>2 DEF GenInv, Collected
  <2>3. (~skip => \A i \in 1 .. Len(ifaces) : Due(ifaces[i].name))'
    BY <1>1, <2>2 DEF Due, files, Writes, WrapperCpp
  <2> QED BY <1>1, <1>2, <2>1, <2>3, GeneratorAssumption DEF Collected
<1>9. Distinct'
  <2>1. ASSUME NEW i \in 1 .. Len(deps') PROVE i \in 1 .. Len(deps) \/ i = Len(deps) + 1
    BY <1>4
  <2>2. ASSUME NEW i \in 1 .. Len(deps'), NEW j \in 1 .. Len(deps'), deps'[i].name = deps'[j].name
        PROVE  i = j
    BY <1>4, <1>5, <2>1, <2>2 DEF GenInv, Distinct
  <2>3. ASSUME NEW i \in 1 .. Len(ifaces), NEW j \in 1 .. Len(deps') PROVE ifaces[i].name # deps'[j].name
    BY <1>4, <1>5, <2>1 DEF GenInv, Distinct
  <2> QED BY <1>1, <2>2, <2>3 DEF GenInv, Distinct
<1> QED BY <1>6, <1>7, <1>8, <1>9 DEF GenInv

(* Two phases: a loop and what follows it.                                 *)
LEMMA LoopPlan ==
    ASSUME NEW next \in {"deps", "members"}
    PROVE  LET s == <<Phase("wrappers"), Phase(next)>> IN
           /\ s \in Seq(Steps) /\ InPairs(s) /\ InPhases(s) /\ s # <<>> /\ Len(s) = 2
           /\ s[1].do = "wrappers" /\ s[2].do = next
<1> DEFINE a == Phase("wrappers")
<1> DEFINE b == Phase(next)
<1> DEFINE s == <<a, b>>
<1>1. a \in Steps /\ Simple(a) /\ a.do = "wrappers" /\ b \in Steps /\ Simple(b) /\ b.do = next
  BY StepTypes, StepsAreSimple DEF Phases
<1> HIDE DEF a, b
<1>2. s \in Seq(Steps) /\ Len(s) = 2 /\ s[1] = a /\ s[2] = b /\ s # <<>>
  BY <1>1
<1> HIDE DEF s
<1>3. \A i \in 1 .. Len(s) : i = 1 \/ i = 2
  BY <1>2
<1>4. InPairs(s)
  BY <1>1, <1>2, <1>3, SimplePiece DEF Piece
<1>5. InPhases(s)
  BY <1>1, <1>2, <1>3 DEF InPhases, Phases
<1> QED BY <1>1, <1>2, <1>4, <1>5 DEF s, a, b

LEMMA LoopStep ==
    ASSUME GenInv, GenerateInterfaces \/ GenerateDependencies
    PROVE  GenInv'
<1> DEFINE specs == IF todo[1].do = "interfaces" THEN ifaces ELSE deps
<1> DEFINE next == IF todo[1].do = "interfaces" THEN "deps" ELSE "members"
<1>1. /\ exit = None /\ todo # <<>> /\ todo[1].do \in {"interfaces", "deps"} /\ todo[1].do \in Phases
      /\ next \in {"deps", "members"} /\ todo[1].do # "wrappers"
      /\ left' = (IF skip THEN <<>> ELSE specs) /\ todo' = <<Phase("wrappers"), Phase(next)>>
      /\ UNCHANGED <<contract, run, mode, skip, origin, ifaces, deps, members, exit, refused, files, spoiled>>
  BY UnderWay DEF GenerateInterfaces, GenerateDependencies, Loop, Doing, Phases
<1>2. /\ mode = "umbrella" /\ Good /\ left = <<>>
      /\ \A p : Stage(p) <=> todo[1].do = p
      /\ \A n : Due(n) <=> WrapperCpp(n) \in wrote
  BY <1>1, InAPhase
<1>3. /\ todo' \in Seq(Steps) /\ InPairs(todo') /\ InPhases(todo') /\ todo' # <<>> /\ Len(todo') = 2
      /\ todo'[1].do = "wrappers" /\ todo'[2].do = next
  BY <1>1, LoopPlan
<1>4. specs \in Seq(Specs) /\ left' \in Seq(Specs)
  BY <1>1 DEF GenInv, GenTypeOK
<1>5. Written' /\ SdkIsCurrent' /\ RefusalLeavesNoHalf'
  BY <1>1, <1>3, NoFile
<1>6. GenTypeOK' /\ Planned' /\ Distinct'
  BY <1>1, <1>2, <1>3, <1>4 DEF GenInv, GenTypeOK, Planned, Distinct, files
<1>7. Collected'
  <2>1. \A p : Stage(p)' <=> next = p
    BY <1>1, <1>3 DEF Stage
  <2>2. ASSUME NEW n, WrapperCpp(n) \in wrote PROVE Due(n)'
    BY <1>1, <2>2 DEF Due, WrapperCpp, files
  <2>3. /\ todo[1].do = "interfaces" /\ ~skip => left' = ifaces'
        /\ todo[1].do = "deps" /\ ~skip => left' = deps'
        /\ (\A i \in 1 .. Len(left) : Due(left[i].name))'
    <3>1. (\A i \in 1 .. Len(left) : Due(left[i].name))'
      BY DEF Due
    <3> QED BY <1>1, <3>1
  <2>4. (~skip => \A i \in 1 .. Len(ifaces) : Due(ifaces[i].name))'
    <3>1. CASE todo[1].do = "interfaces"
      BY <1>1, <2>3, <3>1
    <3>2. CASE todo[1].do = "deps"
      <4>1. ~skip => \A i \in 1 .. Len(ifaces) : WrapperCpp(ifaces[i].name) \in wrote
        BY <1>2, <3>2 DEF GenInv, Collected
      <4> QED BY <1>1, <2>2, <4>1
    <3> QED BY <1>1, <3>1, <3>2
  <2>5. (~skip /\ ~Stage("deps") => \A i \in 1 .. Len(deps) : Due(deps[i].name))'
    <3>1. CASE todo[1].do = "interfaces"
      BY <2>1, <3>1
    <3>2. CASE todo[1].do = "deps"
      BY <1>1, <2>3, <3>2
    <3> QED BY <1>1, <3>1, <3>2
  <2>6. ~Stage("interfaces")' /\ ~Stage("write")'
    BY <1>1, <2>1
  <2> QED BY <1>1, <1>3, <2>4, <2>5, <2>6, GeneratorAssumption DEF Collected
<1> QED BY <1>5, <1>6, <1>7 DEF GenInv

(* The next wrapper's steps come before the rest of the loop.              *)
LEMMA NextWrapperStep == ASSUME GenInv, NextWrapper PROVE GenInv'
<1> DEFINE w == Wrapper(Head(left))
<1>1. /\ exit = None /\ todo # <<>> /\ todo[1].do = "wrappers" /\ todo[1].do \in Phases /\ left # <<>>
      /\ todo' = w \o todo /\ left' = Tail(left)
      /\ UNCHANGED <<contract, run, mode, skip, origin, ifaces, deps, members, exit, refused, files, spoiled>>
      /\ todo \in Seq(Steps) /\ InPairs(todo)
  BY UnderWay DEF NextWrapper, Doing, Phases
<1>2. /\ mode = "umbrella" /\ Good /\ Len(todo) = 2 /\ todo[2].do \in {"deps", "members"}
      /\ \A p : Stage(p) <=> todo[2].do = p
  BY <1>1, InAPhase
<1>3. /\ Head(left) \in Specs /\ Head(left) = left[1]
      /\ left' \in Seq(Specs)
      /\ \A i \in 1 .. Len(left) : i = 1 \/ (i - 1 \in 1 .. Len(left') /\ left[i] = left'[i - 1])
  BY <1>1, Tails DEF GenInv, GenTypeOK
<1>4. /\ Piece(w) /\ NoSdk(w) /\ w # <<>> /\ w[1].do \in Checking
      /\ \A i \in 1 .. Len(w) : w[i].do \notin Phases
      /\ \E i \in 1 .. Len(w) : Writes(w[i], WrapperCpp(left[1].name))
  BY <1>3, WrapperIsSound
<1> HIDE DEF w
<1>5. Piece(todo)
  BY <1>1 DEF Piece, Writes
<1>6. InPairs(todo')
  BY <1>1, <1>4, <1>5, PiecesJoin DEF Piece
<1>7. /\ w \in Seq(Steps) /\ Len(w) \in Nat /\ Len(w) >= 1
      /\ todo' \in Seq(Steps) /\ Len(todo') = Len(w) + 2
      /\ \A i \in 1 .. Len(todo') : todo'[i] = IF i <= Len(w) THEN w[i] ELSE todo[i - Len(w)]
  <2>1. w \in Seq(Steps)
    BY <1>4 DEF Piece
  <2>2. Len(w) \in Nat /\ Len(w) >= 1
    BY <1>4, <2>1
  <2>3. /\ w \o todo \in Seq(Steps) /\ Len(w \o todo) = Len(w) + Len(todo)
        /\ \A i \in 1 .. Len(w \o todo) : (w \o todo)[i] = IF i <= Len(w) THEN w[i] ELSE todo[i - Len(w)]
    BY <1>1, <2>1, Joined
  <2> QED BY <1>1, <1>2, <2>1, <2>2, <2>3
<1>8. /\ todo'[1] = w[1] /\ todo' # <<>>
      /\ todo'[Len(w) + 1] = todo[1] /\ todo'[Len(w) + 2] = todo[2] /\ todo'[Len(todo')] = todo[2]
      /\ \A i \in 1 .. Len(w) : i \in 1 .. Len(todo') /\ todo'[i] = w[i]
      /\ \A i \in 1 .. Len(todo') : i \in 1 .. Len(w) \/ i = Len(w) + 1 \/ i = Len(todo')
  <2>1. 1 <= Len(w) /\ Len(w) + 1 \in 1 .. Len(todo') /\ Len(w) + 2 \in 1 .. Len(todo')
        /\ ~(Len(w) + 1 <= Len(w)) /\ ~(Len(w) + 2 <= Len(w)) /\ 1 \in 1 .. Len(todo')
        /\ (Len(w) + 1) - Len(w) = 1 /\ (Len(w) + 2) - Len(w) = 2
    BY <1>7
  <2>2. \A i \in 1 .. Len(todo') : i \in 1 .. Len(w) \/ i = Len(w) + 1 \/ i = Len(todo')
    BY <1>7
  <2>3. \A i \in 1 .. Len(w) : i \in 1 .. Len(todo') /\ i <= Len(w)
    BY <1>7
  <2> QED BY <1>7, <2>1, <2>2, <2>3
<1>9. InPhases(todo')
  <2>1. todo[1].do = "wrappers" /\ todo[2].do \in {"deps", "members"} /\ (Len(w) + 1) + 1 = Len(todo')
    BY <1>1, <1>2, <1>7
  <2>2. ASSUME NEW i \in 1 .. Len(todo')
        PROVE  /\ todo'[i].do = "wrappers" => i + 1 = Len(todo') /\ todo'[Len(todo')].do \in {"deps", "members"}
               /\ todo'[i].do \in Phases \ {"wrappers"} => i = Len(todo')
    <3>1. CASE i \in 1 .. Len(w)
      BY <1>4, <1>8, <3>1 DEF Phases
    <3>2. CASE i = Len(w) + 1
      BY <1>8, <2>1, <3>2 DEF Phases
    <3>3. CASE i = Len(todo')
      BY <1>8, <2>1, <3>3 DEF Phases
    <3> QED BY <1>8, <3>1, <3>2, <3>3
  <2> QED BY <1>8, <2>1, <2>2 DEF InPhases, Phases
<1>10. Written' /\ SdkIsCurrent' /\ RefusalLeavesNoHalf'
  <2>1. todo'[1].do # "write"
    BY <1>4, <1>8 DEF Checking
  <2> QED BY <1>1, <1>8, <2>1, NoFile
<1>11. GenTypeOK' /\ Planned' /\ Distinct'
  BY <1>1, <1>2, <1>3, <1>6, <1>7, <1>9 DEF GenInv, GenTypeOK, Planned, Distinct, files
<1>12. Collected'
  <2>1. \A p : Stage(p)' <=> Stage(p)
    BY <1>1, <1>2, <1>8 DEF Stage
  <2>2. ASSUME NEW n, Due(n) PROVE Due(n)'
    <3>1. CASE WrapperCpp(n) \in wrote
      BY <1>1, <3>1 DEF Due, WrapperCpp, files
    <3>2. \A i \in 1 .. Len(todo) : ~Writes(todo[i], WrapperCpp(n))
      <4>1. \A i \in 1 .. Len(todo) : i = 1 \/ i = 2
        BY <1>2
      <4> QED BY <1>1, <1>2, <4>1 DEF Writes
    <3>3. CASE \E i \in 1 .. Len(left) : left[i].name = n
      <4>1. PICK i \in 1 .. Len(left) : left[i].name = n
        BY <3>3
      <4>2. CASE i = 1
        <5>1. \E k \in 1 .. Len(w) : Writes(w[k], WrapperCpp(n))
          BY <1>4, <4>1, <4>2
        <5>2. \E k \in 1 .. Len(todo') : Writes(todo'[k], WrapperCpp(n))
          BY <1>8, <5>1
        <5> QED BY <5>2 DEF Due, Writes, WrapperCpp
      <4>3. CASE i # 1
        <5>1. \E k \in 1 .. Len(left') : left'[k].name = n
          BY <1>3, <4>1, <4>3
        <5> QED BY <5>1 DEF Due
      <4> QED BY <4>2, <4>3
    <3> QED BY <2>2, <3>1, <3>2, <3>3 DEF Due
  <2>3. Collected /\ ~Stage("interfaces") /\ ~Stage("write") /\ exit # 0
    BY <1>1, <1>2, GeneratorAssumption DEF GenInv
  <2>4. exit' = None /\ Len(todo') >= 2 /\ todo'[Len(todo') - 1].do = "wrappers"
    <3>1. Len(todo') - 1 = Len(w) + 1 /\ Len(todo') >= 2
      BY <1>7
    <3> QED BY <1>1, <1>8, <3>1
  <2>5. (~skip => \A i \in 1 .. Len(ifaces) : Due(ifaces[i].name))'
    BY <1>1, <1>2, <2>2, <2>3 DEF Collected
  <2>6. (~skip /\ ~Stage("deps") => \A i \in 1 .. Len(deps) : Due(deps[i].name))'
    BY <1>1, <1>2, <2>1, <2>2, <2>3 DEF Collected
  <2>7. ~Stage("interfaces")' /\ ~Stage("write")' /\ exit' # 0
    BY <1>1, <2>1, <2>3
  <2> QED BY <2>4, <2>5, <2>6, <2>7 DEF Collected
<1> QED BY <1>10, <1>11, <1>12 DEF GenInv

LEMMA MembersStep == ASSUME GenInv, TakeMembers PROVE GenInv'
<1>1. /\ exit = None /\ todo # <<>> /\ todo[1].do = "members" /\ todo[1].do \in Phases
      /\ members' \in (IF deps # <<>> THEN {NamesOf(deps)} ELSE Listed) /\ todo' = Sdk(7, 8)
      /\ UNCHANGED <<contract, run, mode, skip, origin, ifaces, deps, left, exit, refused, files, spoiled>>
  BY UnderWay DEF TakeMembers, Doing, Phases
<1>2. /\ mode = "umbrella" /\ Good /\ left = <<>>
      /\ \A p : Stage(p) <=> todo[1].do = p
      /\ \A n : Due(n) <=> WrapperCpp(n) \in wrote
  BY <1>1, InAPhase
<1>3. /\ todo' \in Seq(Steps) /\ InPairs(todo') /\ Len(todo') = 2 /\ todo' # <<>>
      /\ Writes(todo'[1], SdkH) /\ Writes(todo'[2], SdkCpp)
  <2>1. Piece(todo') /\ Len(todo') = 2
    BY <1>1, SdkPiece
  <2>2. Writes(todo'[1], SdkH) /\ Writes(todo'[2], SdkCpp)
    BY <1>1 DEF Sdk, Write, Writes
  <2> QED BY <2>1, <2>2 DEF Piece
<1>4. InPhases(todo')
  <2>1. \A i \in 1 .. Len(todo') : todo'[i].do = "write"
    <3>1. \A i \in 1 .. Len(todo') : i = 1 \/ i = 2
      BY <1>3
    <3> QED BY <1>3, <3>1 DEF Writes
  <2> QED BY <1>3, <2>1 DEF InPhases, Phases
<1>5. members' \in Seq(Modules)
  <2>1. NamesOf(deps) \in Seq(Modules)
    BY SpecNames DEF GenInv, GenTypeOK
  <2>2. ASSUME NEW s \in Listed PROVE s \in Seq(Modules)
    <3>1. PICK k \in 0 .. 2 : s \in [1 .. k -> Modules]
      BY DEF Listed
    <3> QED BY <3>1
  <2> QED BY <1>1, <2>1, <2>2
<1>6. Written' /\ SdkIsCurrent' /\ RefusalLeavesNoHalf'
  BY <1>1, <1>3, NoFile DEF SdkH
<1>7. GenTypeOK' /\ Planned' /\ Distinct'
  BY <1>1, <1>2, <1>3, <1>4, <1>5 DEF GenInv, GenTypeOK, Planned, Distinct, files
<1>8. Collected'
  <2>1. ~Stage("interfaces") /\ ~Stage("deps") /\ Collected
    BY <1>1, <1>2 DEF GenInv
  <2>2. ASSUME NEW n, Due(n) PROVE Due(n)'
    BY <1>1, <1>2, <2>2 DEF Due, WrapperCpp, files
  <2>3. ~Stage("interfaces")' /\ ~Stage("deps")'
    BY <1>3 DEF Stage, Writes
  <2>4. (deps # <<>> => members = NamesOf(deps))'
    BY <1>1 DEF NamesOf
  <2>5. (~skip => \A i \in 1 .. Len(ifaces) : Due(ifaces[i].name))'
    BY <1>1, <1>2, <2>1, <2>2 DEF Collected
  <2>6. (~skip => \A i \in 1 .. Len(deps) : Due(deps[i].name))'
    BY <1>1, <1>2, <2>1, <2>2 DEF Collected
  <2> QED BY <1>1, <1>2, <2>3, <2>4, <2>5, <2>6 DEF Collected
<1> QED BY <1>6, <1>7, <1>8 DEF GenInv

(***************************************************************************)
(* Every step keeps the invariant.                                         *)
(***************************************************************************)
LEMMA GenNext_Inv == ASSUME GenInv, [GenNext]_genVars PROVE GenInv'
<1>1. CASE ReadHeader \/ TakeContract
  BY <1>1, HeaderStep
<1>2. ASSUME NEW F \in CommandLines, NEW n \in Modules, NEW opt \in BOOLEAN, Main(F, n, opt)
      PROVE  GenInv'
  BY <1>2, MainStep
<1>3. CASE Pass
  <2>1. exit = None /\ todo # <<>> /\ todo[1].do = "check" /\ ~temp /\ temp \in BOOLEAN
    BY <1>3, UnderWay DEF Pass, Doing, GenInv, GenTypeOK
  <2>2. /\ todo' = Tail(todo) /\ exit' = (IF Tail(todo) = <<>> THEN 0 ELSE None)
        /\ UNCHANGED <<contract, run, command, refused, sdk, wrote, disk, temp, spoiled>>
    BY <1>3 DEF Pass, Done, files
  <2>3. exit' \in {None, 0} /\ (exit' = 0 => Tail(todo) = <<>>) /\ temp' = FALSE
    BY <2>1, <2>2, GeneratorAssumption
  <2> QED BY <2>1, <2>2, <2>3, AdvanceStep DEF Checking
<1>4. CASE Refuse
  <2>1. /\ exit = None /\ todo # <<>> /\ Head(todo) = todo[1] /\ todo[1].do = "check" /\ temp = FALSE
        /\ todo' = <<>> /\ exit' \in todo[1].codes /\ refused' = TRUE
        /\ UNCHANGED <<contract, run, command, sdk, wrote, disk, temp, spoiled>>
    BY <1>4, UnderWay DEF Refuse, Doing, Fail, files, GenInv, GenTypeOK
  <2> QED BY <2>1, UnderWay, FailedStep
<1>5. CASE WriteTemp
  <2>1. /\ exit = None /\ todo # <<>> /\ Head(todo) = todo[1] /\ todo[1].do = "temp" /\ temp = FALSE
        /\ UNCHANGED <<contract, run, command, sdk, wrote, disk, spoiled>>
    BY <1>5, UnderWay DEF WriteTemp, Doing, GenInv, GenTypeOK
  <2>2. CASE temp' = TRUE /\ todo' = Tail(todo) /\ UNCHANGED <<exit, refused>>
    <3>1. exit' = None /\ exit' # 0
      BY <2>1, <2>2, GeneratorAssumption
    <3> QED BY <2>1, <2>2, <3>1, AdvanceStep DEF Checking
  <2>3. CASE todo' = <<>> /\ exit' \in todo[1].codes /\ refused' = TRUE /\ temp' = temp
    BY <2>1, <2>3, UnderWay, FailedStep
  <2> QED BY <1>5, <2>1, <2>2, <2>3 DEF WriteTemp, Fail
<1>6. CASE ScanHeader
  <2>1. /\ exit = None /\ todo # <<>> /\ Head(todo) = todo[1] /\ todo[1].do = "scan" /\ temp' = FALSE
        /\ UNCHANGED <<contract, run, command, sdk, wrote, disk, spoiled>>
    BY <1>6, UnderWay DEF ScanHeader, Doing
  <2>2. CASE todo' = Tail(todo) /\ UNCHANGED <<exit, refused>>
    <3>1. exit' = None /\ exit' # 0
      BY <2>1, <2>2, GeneratorAssumption
    <3> QED BY <2>1, <2>2, <3>1, AdvanceStep DEF Checking
  <2>3. CASE todo' = <<>> /\ exit' \in todo[1].codes /\ refused' = TRUE
    BY <2>1, <2>3, UnderWay, FailedStep
  <2> QED BY <1>6, <2>1, <2>2, <2>3 DEF ScanHeader, Fail
<1>7. CASE WriteFile
  BY <1>7, WriteStep
<1>8. CASE WriteFails
  <2>1. /\ exit = None /\ todo # <<>> /\ Head(todo) = todo[1] /\ todo[1].do = "write" /\ temp = FALSE
        /\ todo' = <<>> /\ exit' \in todo[1].codes /\ refused' = refused
        /\ UNCHANGED <<contract, run, command, sdk, wrote, disk, temp, spoiled>>
    BY <1>8, UnderWay DEF WriteFails, Doing, Fail, files, GenInv, GenTypeOK
  <2> QED BY <2>1, UnderWay, FailedStep
<1>9. ASSUME NEW spec \in Specs, Interface(spec) PROVE GenInv'
  BY <1>9, InterfaceStep
<1>10. ASSUME NEW spec \in Specs, Dependency(spec) PROVE GenInv'
  BY <1>10, DependencyStep
<1>11. CASE GenerateInterfaces \/ GenerateDependencies
  BY <1>11, LoopStep
<1>12. CASE NextWrapper
  BY <1>12, NextWrapperStep
<1>13. CASE LoopEnds
  <2>1. exit = None /\ todo # <<>> /\ todo[1].do = "wrappers" /\ temp = FALSE /\ left = <<>>
    BY <1>13, UnderWay DEF LoopEnds, Doing, GenInv, GenTypeOK
  <2>2. /\ todo' = Tail(todo)
        /\ UNCHANGED <<contract, run, command, exit, refused, sdk, wrote, disk, temp, spoiled>>
    BY <1>13 DEF LoopEnds, files
  <2>3. exit' = None /\ exit' # 0 /\ temp' = FALSE
    BY <2>1, <2>2, GeneratorAssumption
  <2> QED BY <2>1, <2>2, <2>3, AdvanceStep
<1>14. CASE TakeMembers
  BY <1>14, MembersStep
<1>15. CASE NoOrigin
  <2>1. /\ exit = None /\ todo # <<>> /\ todo[1].do = "members" /\ temp = FALSE
        /\ todo' = <<>> /\ exit' = 6 /\ refused' = TRUE
        /\ UNCHANGED <<contract, run, command, sdk, wrote, disk, temp, spoiled>>
    BY <1>15, UnderWay DEF NoOrigin, Doing, files, GenInv, GenTypeOK
  <2>2. exit' \in Nat \ {0} /\ temp' = FALSE /\ todo[1].do # "write"
    BY <2>1
  <2> QED BY <2>1, <2>2, FailedStep
<1>16. CASE UNCHANGED genVars
  BY <1>16, Unmoved
<1> QED BY <1>1, <1>2, <1>3, <1>4, <1>5, <1>6, <1>7, <1>8, <1>9, <1>10, <1>11, <1>12, <1>13, <1>14,
           <1>15, <1>16 DEF GenNext, Umbrella

(***************************************************************************)
(* The theorems.                                                           *)
(***************************************************************************)
(* The generator's state is well typed in every state of every run.        *)
THEOREM GeneratorTypeCorrect == GenSpec => []GenTypeOK
<1>1. GenInv => GenTypeOK
  BY DEF GenInv
<1> QED BY <1>1, GenInit_Inv, GenNext_Inv, PTL DEF GenSpec

(* UmbrellaIsWhole: what the umbrella names was collected by this run, the *)
(* loops generated all that was collected, and every header has its source.*)
THEOREM UmbrellaIsWholeHolds == GenSpec => []UmbrellaIsWhole
<1>1. GenInv => UmbrellaIsWhole
  <2> SUFFICES ASSUME GenInv, Succeeded("umbrella"), ~skip, deps # <<>> \/ members = <<>>
               PROVE  /\ sdk.h = sdk.cpp
                      /\ \A n \in sdk.h : {WrapperH(n), WrapperCpp(n)} \subseteq wrote
    BY DEF UmbrellaIsWhole
  <2>1. exit = 0 /\ mode = "umbrella" /\ exit # None /\ Good
    BY GeneratorAssumption DEF Succeeded, Good
  <2>2. todo = <<>> /\ left = <<>> /\ Matched(wrote) /\ \A f : ~AtHand(f)
    BY <2>1 DEF GenInv, Written, Collected, AtHand
  <2>3. SdkH \in wrote /\ sdk.h = SdkNames("api.h") /\ sdk.cpp = SdkNames("api.cpp")
    BY <2>1 DEF GenInv, SdkIsCurrent
  <2>4. /\ SdkNames("api.h") = Elements(members) \cup Elements(NamesOf(ifaces))
        /\ SdkNames("api.cpp") = Elements(members) \cup Elements(NamesOf(ifaces))
    BY <2>1 DEF SdkNames
  <2>5. \A p : ~Stage(p)
    BY <2>1 DEF Stage
  <2>6. ASSUME NEW n, Due(n) PROVE WrapperCpp(n) \in wrote
    BY <2>2, <2>6 DEF Due
  <2>7. ASSUME NEW n \in Elements(NamesOf(ifaces)) PROVE WrapperCpp(n) \in wrote /\ n \in Modules
    <3>1. ifaces \in Seq(Specs)
      BY DEF GenInv, GenTypeOK
    <3>2. n \in Modules /\ \E i \in 1 .. Len(ifaces) : ifaces[i].name = n
      BY <2>7, <3>1, SpecNames
    <3>3. \A i \in 1 .. Len(ifaces) : Due(ifaces[i].name)
      BY <2>1, <2>5 DEF GenInv, Collected
    <3> QED BY <2>6, <3>2, <3>3
  <2>8. ASSUME NEW n \in Elements(members) PROVE WrapperCpp(n) \in wrote /\ n \in Modules
    <3>1. deps \in Seq(Specs)
      BY DEF GenInv, GenTypeOK
    <3>2. deps # <<>>
      BY <2>8 DEF Elements
    <3>3. members = NamesOf(deps)
      BY <2>1, <3>2 DEF GenInv, Collected
    <3>4. n \in Modules /\ \E i \in 1 .. Len(deps) : deps[i].name = n
      BY <2>8, <3>1, <3>3, SpecNames
    <3>5. \A i \in 1 .. Len(deps) : Due(deps[i].name)
      BY <2>1, <2>5 DEF GenInv, Collected
    <3> QED BY <2>6, <3>4, <3>5
  <2> QED BY <2>2, <2>3, <2>4, <2>7, <2>8 DEF Matched
<1> QED BY <1>1, GenInit_Inv, GenNext_Inv, PTL DEF GenSpec

(* OneDeclarationPerName: no name is collected twice.                      *)
THEOREM OneDeclarationPerNameHolds == GenSpec => []OneDeclarationPerName
<1>1. GenInv => OneDeclarationPerName
  <2> SUFFICES ASSUME GenInv, Succeeded("umbrella"), deps # <<>>
               PROVE  IsInjective(members \o NamesOf(ifaces))
    BY DEF OneDeclarationPerName
  <2> DEFINE d == NamesOf(deps)
             c == NamesOf(ifaces)
             u == d \o c
  <2>1. members = d
    <3>1. mode = "umbrella" /\ exit = 0 /\ Collected
      BY DEF Succeeded, GenInv
    <3> QED BY <3>1 DEF Collected, Good
  <2>2. deps \in Seq(Specs) /\ ifaces \in Seq(Specs)
    BY DEF GenInv, GenTypeOK
  <2>3. /\ d \in Seq(Modules) /\ Len(d) = Len(deps) /\ \A i \in 1 .. Len(deps) : d[i] = deps[i].name
        /\ c \in Seq(Modules) /\ Len(c) = Len(ifaces) /\ \A i \in 1 .. Len(ifaces) : c[i] = ifaces[i].name
    BY <2>2, SpecNames
  <2> HIDE DEF d, c
  <2>4. /\ u \in Seq(Modules) /\ Len(u) = Len(d) + Len(c)
        /\ \A i \in 1 .. Len(u) : u[i] = IF i <= Len(d) THEN d[i] ELSE c[i - Len(d)]
    <3>1. d \in Seq(Modules) /\ c \in Seq(Modules)
      BY <2>3
    <3> QED BY <3>1, Joined
  <2>5. Len(d) \in Nat /\ Len(c) \in Nat /\ DOMAIN u = 1 .. Len(u)
    BY <2>3, <2>4
  <2> HIDE DEF u
  <2>6. ASSUME NEW i \in 1 .. Len(u)
        PROVE  \/ i \in 1 .. Len(deps) /\ u[i] = deps[i].name
               \/ \E k \in 1 .. Len(ifaces) : i = Len(d) + k /\ u[i] = ifaces[k].name
    <3>1. CASE i <= Len(d)
      BY <2>3, <2>4, <2>5, <3>1
    <3>2. CASE i > Len(d)
      <4>1. i - Len(d) \in 1 .. Len(c) /\ i = Len(d) + (i - Len(d)) /\ ~(i <= Len(d))
        BY <2>4, <2>5, <3>2
      <4> QED BY <2>3, <2>4, <4>1
    <3> QED BY <2>5, <3>1, <3>2
  <2>7. ASSUME NEW i \in 1 .. Len(u), NEW j \in 1 .. Len(u), u[i] = u[j] PROVE i = j
    BY <2>6, <2>7 DEF GenInv, Distinct
  <2>8. IsInjective(u)
    BY <2>5, <2>7 DEF IsInjective
  <2> QED BY <2>1, <2>8 DEF u, c
<1> QED BY <1>1, GenInit_Inv, GenNext_Inv, PTL DEF GenSpec

(* RefusalLeavesNoHalf: checks come before writes, or between pairs.       *)
THEOREM RefusalLeavesNoHalfHolds == GenSpec => []RefusalLeavesNoHalf
<1>1. GenInv => RefusalLeavesNoHalf
  BY DEF GenInv
<1> QED BY <1>1, GenInit_Inv, GenNext_Inv, PTL DEF GenSpec

(* GlobbedPairsMatch: the directory as a whole is matched while no run has *)
(* failed, and the umbrella of a client stub is written after its wrapper. *)
THEOREM GlobbedPairsMatchHolds == GenSpec => []GlobbedPairsMatch
<1>1. GenInv => GlobbedPairsMatch
  <2> SUFFICES ASSUME GenInv, Succeeded("client"), ~spoiled, SdkH \in wrote
               PROVE  sdk.h = sdk.cpp
    BY DEF GlobbedPairsMatch
  <2>1. exit = 0 /\ mode = "client" /\ exit # None /\ Good
    BY GeneratorAssumption DEF Succeeded, Good
  <2>2. sdk.h = Present("api.h") /\ sdk.cpp = Present("api.cpp")
    BY <2>1 DEF GenInv, SdkIsCurrent, SdkNames
  <2>3. \A n \in Modules : WrapperH(n) \in disk <=> WrapperCpp(n) \in disk
    BY <2>1 DEF GenInv, Written, Matched, AtHand
  <2> QED BY <2>2, <2>3 DEF Present, WrapperH, WrapperCpp
<1> QED BY <1>1, GenInit_Inv, GenNext_Inv, PTL DEF GenSpec

(* NoTemporaryLeft: a made-up metadata file is there only while the scan   *)
(* that removes it is the next step.                                       *)
THEOREM NoTemporaryLeftHolds == GenSpec => []NoTemporaryLeft
<1>1. GenInv => NoTemporaryLeft
  BY DEF GenInv, Written, NoTemporaryLeft
<1> QED BY <1>1, GenInit_Inv, GenNext_Inv, PTL DEF GenSpec

(* LeavesNoDebris: a refusal leaves no wrapper without its source, and no  *)
(* end of a run the metadata it made up.                                   *)
THEOREM LeavesNoDebrisHolds == GenSpec => []LeavesNoDebris
<1>1. RefusalLeavesNoHalf /\ NoTemporaryLeft => LeavesNoDebris
  BY DEF LeavesNoDebris
<1> QED BY <1>1, RefusalLeavesNoHalfHolds, NoTemporaryLeftHolds, PTL

(***************************************************************************)
(* The header, as the generator reads it.                                  *)
(***************************************************************************)
LEMMA ScanBegins == ScanInit => Typed /\ (Quirks = {} => Agreement)
BY Begins, StartsTyped

LEMMA ForgetStep == ASSUME Forget PROVE Typed' /\ (Quirks = {} => Agreement')
<1>1. ScanInit'
  BY DEF Forget, ScanInit, Init
<1>2. (ScanInit => Typed /\ (Quirks = {} => Agreement))'
  BY ScanBegins, PTL
<1> QED BY <1>1, <1>2

(* A step of the generator is one of the scan, forgets it, or leaves it.   *)
LEMMA HeaderSteps == ASSUME [GenNext]_genVars PROVE [Next]_vars \/ Forget
BY DEF GenNext, genVars, ReadHeader, TakeContract, Main, Pass, Refuse, WriteTemp, ScanHeader,
       WriteFile, WriteFails, Umbrella, Interface, Dependency, GenerateInterfaces,
       GenerateDependencies, Loop, NextWrapper, LoopEnds, TakeMembers, NoOrigin

(* ContractIsTheHeader and RefusedForAReason, of the scan that a run does. *)
THEOREM GeneratorReadsTheHeader ==
    ASSUME Quirks = {}
    PROVE  GenSpec => [](ContractIsTheHeader /\ RefusedForAReason)
<1>1. GenInit => Agreement
  BY Begins DEF GenInit
<1>2. Agreement /\ [GenNext]_genVars => Agreement'
  BY HeaderSteps, ForgetStep, Continues
<1>3. Agreement => ContractIsTheHeader /\ RefusedForAReason
  BY AcceptedIsTheHeader, RefusedIsInexpressible
<1> QED BY <1>1, <1>2, <1>3, PTL DEF GenSpec

(* NoDanglingName, of the scan that a run does.                            *)
THEOREM GeneratorNamesNoDangling == GenSpec => []NoDanglingName
<1>1. GenInit => Typed
  BY StartsTyped DEF GenInit
<1>2. Typed /\ [GenNext]_genVars => Typed'
  BY HeaderSteps, ForgetStep, StaysTyped
<1>3. Typed => NoDanglingName
  BY AcceptedIsClosed DEF Typed, TypedStructs
<1> QED BY <1>1, <1>2, <1>3, PTL DEF GenSpec

=============================================================================
