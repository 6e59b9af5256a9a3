------------------------- MODULE CallerStack_proofs -------------------------
(***************************************************************************)
(* Proofs about CallerStack: every handler is told the caller of its own   *)
(* dispatch, for every set of threads, every document and every depth.     *)
(***************************************************************************)
EXTENDS CallerStack, SequenceTheorems, TLAPS

(***************************************************************************)
(* parseCaller.                                                            *)
(***************************************************************************)
Identity(kind, name, instance, parent, leaf) ==
  [kind |-> kind, name |-> name, instance |-> instance, parent |-> parent, leaf |-> leaf]

(* The arms that parseCaller tells apart.                                  *)
LEMMA ParseByArm ==
  ASSUME NEW doc \in Documents
  PROVE  \/ Parse(doc) = Unknown
         \/ Parse(doc) = Identity("host", Empty, Empty, Empty, Empty)
         \/ /\ doc.name \in Names /\ Optional(doc.instance) \in Names \cup {Empty}
            /\ Parse(doc) = Identity("module", doc.name, Optional(doc.instance), Empty, Empty)
         \/ /\ doc.parent \in Names /\ doc.leaf \in Names
            /\ Parse(doc) = Identity("derived", Empty, Empty, doc.parent, doc.leaf)
         \/ /\ doc.name \in Names
            /\ Parse(doc) = Identity("operator", doc.name, Empty, Empty, Empty)
<1> USE DEF Required, Optional, IsString, Identity
<1>1. CASE doc = NotAnObject \/ doc.kind \notin Arms
  BY <1>1 DEF Parse
<1>2. CASE ~(doc = NotAnObject \/ doc.kind \notin Arms)
  <2>1. /\ doc.name \in Names \cup {Absent, NonString, Empty}
        /\ doc.instance \in Names \cup {Absent, NonString, Empty}
        /\ doc.parent \in Names \cup {Absent, NonString, Empty}
        /\ doc.leaf \in Names \cup {Absent, NonString, Empty}
    BY <1>2 DEF Documents
  <2>2. doc.kind \in {"unknown", "host", "module", "derived", "operator"}
    BY <1>2 DEF Arms
  <2>3. CASE doc.kind = "unknown"
    BY <1>2, <2>3 DEF Parse, Unknown
  <2>4. CASE doc.kind = "host"
    BY <1>2, <2>4 DEF Parse, Unknown
  <2>5. CASE doc.kind = "module"
    BY <1>2, <2>1, <2>5 DEF Parse, Unknown
  <2>6. CASE doc.kind = "derived"
    BY <1>2, <2>1, <2>6 DEF Parse, Unknown
  <2>7. CASE doc.kind = "operator"
    BY <1>2, <2>1, <2>7 DEF Parse, Unknown
  <2> QED
    BY <2>2, <2>3, <2>4, <2>5, <2>6, <2>7
<1> QED
  BY <1>1, <1>2

(* What parseCaller returns can be read by a LogosCaller's accessors.      *)
LEMMA ParseType == \A doc \in Documents : Parse(doc) \in Identities
<1> SUFFICES ASSUME NEW doc \in Documents PROVE Parse(doc) \in Identities
  OBVIOUS
<1> QED
  BY ParseByArm DEF Identities, Unknown, Arms, Identity

(* No document, complete, damaged or foreign, parses to half an identity.  *)
LEMMA ParseIsWhole == \A doc \in Documents : Whole(Parse(doc))
<1> SUFFICES ASSUME NEW doc \in Documents PROVE Whole(Parse(doc))
  OBVIOUS
<1> QED
  BY ParseByArm, NamesAssumption DEF Whole, Unknown, Identity

(* What parses to the module n says that it is the module n.               *)
LEMMA ParseNeverWidens ==
  ASSUME NEW doc \in Documents, NEW n, IsModule(Parse(doc), n)
  PROVE  doc # NotAnObject /\ doc.kind = "module" /\ doc.name = n /\ n # Empty
  BY DEF Parse, IsModule, Documents, Unknown, Required, IsString, NotAnObject,
       Absent, NonString, Empty, Arms, FutureArm

(* The Unknown of a thread without a dispatch is an identity.              *)
LEMMA UnknownIsWhole == Unknown \in Identities /\ Whole(Unknown)
  BY DEF Unknown, Identities, Whole, Empty, Arms

(***************************************************************************)
(* The layout of one thread: its vector holds, at the level of each        *)
(* dispatch, what that dispatch's document parses to, and nothing else.    *)
(***************************************************************************)
Below(f, i) == IF i = 1 THEN 0 ELSE f[i - 1].level

LaidOut(s, f) ==
  /\ s \in Seq(Identities)
  /\ f \in Seq(Frames)
  /\ Len(s) = IF f = <<>> THEN 0 ELSE f[Len(f)].level
  /\ \A i \in 1..Len(s) : Whole(s[i])
  /\ \A i, j \in 1..Len(f) : i <= j => f[i].level <= f[j].level
  /\ \A i \in 1..Len(f) :
       /\ f[i].kind = "hook" => f[i].level = Below(f, i)
       /\ f[i].kind # "hook" => /\ f[i].level = Below(f, i) + 1
                               /\ s[f[i].level] = Parse(f[i].doc)

(* A frame that enters keeps the layout: a dispatch with its caller on top *)
(* of the vector, a hook with the vector as it is.                         *)
LEMMA EnterKeeps ==
  ASSUME NEW s, NEW f, LaidOut(s, f),
         NEW s2 \in Seq(Identities), NEW g \in Frames,
         \A i \in 1..Len(s) : s2[i] = s[i],
         Len(s2) = g.level,
         g.kind = "hook" => g.level = Len(s),
         g.kind # "hook" => g.level = Len(s) + 1 /\ s2[g.level] = Parse(g.doc)
  PROVE  LaidOut(s2, Append(f, g))
<1> DEFINE f2 == Append(f, g)
<1>1. s \in Seq(Identities) /\ f \in Seq(Frames) /\ Len(s) \in Nat /\ Len(f) \in Nat
  BY DEF LaidOut
<1>2. f2 \in Seq(Frames) /\ Len(f2) = Len(f) + 1 /\ f2[Len(f) + 1] = g
  BY <1>1
<1>3. \A i \in 1..Len(f) : f2[i] = f[i] /\ f[i] \in Frames
  BY <1>1
<1>4. \A i \in 1..Len(f) : Below(f2, i) = Below(f, i)
  BY <1>1, <1>3 DEF Below
<1>5. Below(f2, Len(f) + 1) = Len(s)
  <2>1. CASE Len(f) = 0
    BY <1>1, <2>1 DEF Below, LaidOut
  <2>2. CASE Len(f) # 0
    BY <1>1, <1>3, <2>2 DEF Below, LaidOut
  <2> QED
    BY <2>1, <2>2
<1>6. \A i \in 1..Len(f) : f[i].level \in Nat /\ f[i].level <= Len(s)
  <2>1. \A i \in 1..Len(f) : f[i].level \in Nat
    BY <1>3 DEF Frames
  <2>2. Len(f) # 0 => Len(s) = f[Len(f)].level
    BY <1>1 DEF LaidOut
  <2> QED
    BY <1>1, <2>1, <2>2 DEF LaidOut
<1>7. \A i, j \in 1..Len(f2) : i <= j => f2[i].level <= f2[j].level
  <2>1. g.level \in Nat /\ Len(s) <= g.level
    BY <1>1 DEF Frames
  <2>2. \A i, j \in 1..Len(f) : i <= j => f[i].level <= f[j].level
    BY DEF LaidOut
  <2> QED
    BY <1>1, <1>2, <1>3, <1>6, <2>1, <2>2
<1>8. ASSUME NEW i \in 1..Len(f2)
      PROVE  /\ f2[i].kind = "hook" => f2[i].level = Below(f2, i)
             /\ f2[i].kind # "hook" => /\ f2[i].level = Below(f2, i) + 1
                                     /\ s2[f2[i].level] = Parse(f2[i].doc)
  <2>1. CASE i = Len(f) + 1
    BY <1>2, <1>5, <2>1 DEF Frames
  <2>2. CASE i \in 1..Len(f)
    <3>1. /\ f[i].kind = "hook" => f[i].level = Below(f, i)
          /\ f[i].kind # "hook" => f[i].level = Below(f, i) + 1
                                    /\ s[f[i].level] = Parse(f[i].doc)
      BY <2>2 DEF LaidOut
    <3>2. f[i].level \in Nat /\ Below(f, i) \in Nat
      BY <1>1, <1>6, <2>2 DEF Below
    <3>3. f[i].level <= Len(s)
      BY <1>6, <2>2
    <3>4. f[i].kind # "hook" => f[i].level \in 1..Len(s)
      BY <1>1, <3>1, <3>2, <3>3
    <3> QED
      BY <1>1, <1>3, <1>4, <2>2, <3>1, <3>2, <3>4
  <2> QED
    BY <1>1, <1>2, <2>1, <2>2
<1>9. f2 # <<>>
  BY <1>1, <1>2
<1>10. \A i \in 1..Len(s2) : Whole(s2[i])
  <2>1. g.doc \in Documents
    BY DEF Frames
  <2>2. g.kind # "hook" => Whole(s2[Len(s2)])
    BY <2>1, ParseIsWhole
  <2>3. \A i \in 1..Len(s) : Whole(s[i])
    BY DEF LaidOut
  <2> QED
    BY <1>1, <2>2, <2>3
<1> QED
  BY <1>2, <1>7, <1>8, <1>9, <1>10 DEF LaidOut

(* A frame that leaves keeps it: a dispatch with its caller popped.        *)
LEMMA LeaveKeeps ==
  ASSUME NEW s, NEW f, LaidOut(s, f), f # <<>>, NEW s2,
         f[Len(f)].kind = "hook" => s2 = s,
         f[Len(f)].kind # "hook" => s2 = IF s = <<>> THEN s ELSE Front(s)
  PROVE  LaidOut(s2, Front(f))
<1> DEFINE f2 == Front(f)
           n == Len(f)
<1>1. s \in Seq(Identities) /\ f \in Seq(Frames) /\ Len(s) \in Nat /\ n \in Nat \ {0}
  BY DEF LaidOut
<1>2. f2 \in Seq(Frames) /\ Len(f2) = n - 1 /\ (\A i \in 1..(n - 1) : f2[i] = f[i])
  <2>1. f2 = SubSeq(f, 1, n - 1)
    BY DEF Front
  <2>2. n - 1 \in Int /\ \A i \in 1..(n - 1) : f[i] \in Frames
    BY <1>1
  <2> HIDE DEF n
  <2>3. /\ SubSeq(f, 1, n - 1) \in Seq(Frames)
        /\ Len(SubSeq(f, 1, n - 1)) = IF 1 <= n - 1 THEN (n - 1) - 1 + 1 ELSE 0
        /\ \A i \in 1..((n - 1) - 1 + 1) : SubSeq(f, 1, n - 1)[i] = f[1 + i - 1]
    BY <2>2, SubSeqProperties
  <2> QED
    BY <1>1, <2>1, <2>3
<1>3. \A i \in 1..n : f[i] \in Frames /\ f[i].level \in Nat
  <2>1. \A i \in 1..n : f[i] \in Frames
    BY <1>1
  <2> QED
    BY <2>1 DEF Frames
<1>4. Len(s) = f[n].level
  BY DEF LaidOut
<1>5. /\ f[n].kind = "hook" => f[n].level = Below(f, n)
      /\ f[n].kind # "hook" => f[n].level = Below(f, n) + 1
  BY <1>1 DEF LaidOut
<1>6. Below(f, n) \in Nat
  <2> HIDE DEF n
  <2>1. n # 1 => n - 1 \in 1..n
    BY <1>1
  <2> QED
    BY <1>3, <2>1 DEF Below
<1>7. s2 \in Seq(Identities) /\ Len(s2) = Below(f, n) /\ \A i \in 1..Len(s2) : s2[i] = s[i]
  <2>1. CASE f[n].kind = "hook"
    BY <1>1, <1>4, <1>5, <2>1
  <2>2. CASE f[n].kind # "hook"
    <3>1. s # <<>> /\ s2 = SubSeq(s, 1, Len(s) - 1) /\ Len(s) - 1 = Below(f, n)
      BY <1>1, <1>4, <1>5, <1>6, <2>2 DEF Front
    <3> QED
      BY <1>1, <1>6, <3>1
  <2> QED
    BY <2>1, <2>2
<1>8. Len(s2) = IF f2 = <<>> THEN 0 ELSE f2[Len(f2)].level
  <2>1. CASE n = 1
    BY <1>1, <1>2, <1>7, <2>1 DEF Below
  <2>2. CASE n # 1
    BY <1>1, <1>2, <1>7, <2>2 DEF Below
  <2> QED
    BY <2>1, <2>2
<1>9. ASSUME NEW i \in 1..Len(f2)
      PROVE  /\ f2[i].kind = "hook" => f2[i].level = Below(f2, i)
             /\ f2[i].kind # "hook" => /\ f2[i].level = Below(f2, i) + 1
                                     /\ s2[f2[i].level] = Parse(f2[i].doc)
  <2>1. i \in 1..n /\ i \in 1..(n - 1) /\ i < n /\ f2[i] = f[i]
    BY <1>1, <1>2
  <2>2. Below(f2, i) = Below(f, i) /\ Below(f, i) \in Nat
    BY <1>1, <1>2, <1>3, <2>1 DEF Below
  <2>3. /\ f[i].kind = "hook" => f[i].level = Below(f, i)
        /\ f[i].kind # "hook" => f[i].level = Below(f, i) + 1 /\ s[f[i].level] = Parse(f[i].doc)
    BY <2>1 DEF LaidOut
  <2>4. f[i].level <= f[n - 1].level
    BY <1>1, <2>1 DEF LaidOut
  <2>5. Below(f, n) = f[n - 1].level
    BY <1>1, <2>1 DEF Below
  <2>6. f[i].kind # "hook" => f[i].level \in 1..Len(s2)
    BY <1>3, <1>6, <1>7, <2>1, <2>2, <2>3, <2>4, <2>5
  <2> QED
    BY <1>7, <2>1, <2>2, <2>3, <2>6
<1>10. \A i, j \in 1..Len(f2) : i <= j => f2[i].level <= f2[j].level
  <2>1. \A i, j \in 1..n : i <= j => f[i].level <= f[j].level
    BY DEF LaidOut
  <2> QED
    BY <1>1, <1>2, <2>1
<1>11. \A i \in 1..Len(s2) : Whole(s2[i])
  <2>1. \A i \in 1..Len(s) : Whole(s[i])
    BY DEF LaidOut
  <2>2. Len(s2) <= Len(s)
    BY <1>1, <1>4, <1>5, <1>6, <1>7
  <2> QED
    BY <1>1, <1>6, <1>7, <2>1, <2>2
<1> QED
  BY <1>2, <1>7, <1>8, <1>9, <1>10, <1>11 DEF LaidOut

(* A dispatch that moves on to its hook or its handler keeps it.           *)
LEMMA RelabelKeeps ==
  ASSUME NEW s, NEW f, LaidOut(s, f), f # <<>>, f[Len(f)].kind # "hook",
         NEW kind \in {"due", "fired", "handler"}
  PROVE  LaidOut(s, Relabel(f, kind))
<1> DEFINE f2 == Relabel(f, kind)
           n == Len(f)
<1>1. f \in Seq(Frames) /\ n \in Nat \ {0}
  BY DEF LaidOut
<1>2. f[n] \in Frames /\ [f[n] EXCEPT !.kind = kind] \in Frames
  <2>1. f[n] \in Frames
    BY <1>1
  <2> QED
    BY <2>1 DEF Frames
<1>3. f2 \in Seq(Frames) /\ Len(f2) = n /\ f2[n] = [f[n] EXCEPT !.kind = kind]
  BY <1>1, <1>2 DEF Relabel
<1>4. \A i \in 1..n : i # n => f2[i] = f[i]
  BY <1>1 DEF Relabel
<1>5. \A i \in 1..n : f2[i].level = f[i].level /\ f2[i].doc = f[i].doc
  BY <1>1, <1>2, <1>3, <1>4 DEF Frames
<1>6. \A i \in 1..n : f2[i].kind = "hook" <=> f[i].kind = "hook"
  BY <1>1, <1>2, <1>3, <1>4 DEF Frames
<1>7. \A i \in 1..n : Below(f2, i) = Below(f, i)
  BY <1>1, <1>5 DEF Below
<1>8. s \in Seq(Identities) /\ \A i \in 1..Len(s) : Whole(s[i])
  BY DEF LaidOut
<1>9. Len(s) = IF f2 = <<>> THEN 0 ELSE f2[Len(f2)].level
  <2>1. f2 # <<>> /\ f2[n].level = f[n].level
    BY <1>1, <1>3, <1>5
  <2> QED
    BY <1>1, <1>3, <2>1 DEF LaidOut
<1>10. \A i, j \in 1..n : i <= j => f2[i].level <= f2[j].level
  BY <1>5 DEF LaidOut
<1>11. \A i \in 1..n :
         /\ f[i].kind = "hook" => f[i].level = Below(f, i)
         /\ f[i].kind # "hook" => f[i].level = Below(f, i) + 1 /\ s[f[i].level] = Parse(f[i].doc)
  BY DEF LaidOut
<1>12. \A i \in 1..n :
         /\ f2[i].kind = "hook" => f2[i].level = Below(f2, i)
         /\ f2[i].kind # "hook" => f2[i].level = Below(f2, i) + 1 /\ s[f2[i].level] = Parse(f2[i].doc)
  BY <1>5, <1>6, <1>7, <1>11
<1> HIDE DEF f2
<1> QED
  BY <1>3, <1>8, <1>9, <1>10, <1>12 DEF LaidOut, f2

(***************************************************************************)
(* The invariant, and its steps.                                           *)
(***************************************************************************)
IInv == TypeOK /\ \A t \in Threads : LaidOut(stack[t], frames[t])

(* No thread has a dispatch at the start.                                  *)
LEMMA InitEstablishes == Init => IInv
<1> SUFFICES ASSUME Init PROVE IInv
  OBVIOUS
<1>1. LaidOut(<<>>, <<>>)
  BY DEF LaidOut
<1>2. <<>> \in Seq(Identities) /\ <<>> \in Seq(Frames)
  OBVIOUS
<1>3. TypeOK
  BY <1>2 DEF Init, TypeOK
<1> QED
  BY <1>1, <1>3 DEF Init, IInv

(* A step of one thread keeps the invariant if it keeps that thread's      *)
(* layout: the vectors of the others are their own.                        *)
LEMMA OneThread ==
  ASSUME IInv, NEW t \in Threads, NEW s, NEW f, LaidOut(s, f),
         stack' = [stack EXCEPT ![t] = s], frames' = [frames EXCEPT ![t] = f],
         hookFired' \in BOOLEAN
  PROVE  IInv'
<1>1. s \in Seq(Identities) /\ f \in Seq(Frames)
  BY DEF LaidOut
<1>2. stack \in [Threads -> Seq(Identities)] /\ frames \in [Threads -> Seq(Frames)]
  BY DEF IInv, TypeOK
<1>3. TypeOK'
  BY <1>1, <1>2 DEF TypeOK
<1>4. ASSUME NEW u \in Threads PROVE LaidOut(stack'[u], frames'[u])
  BY <1>2 DEF IInv
<1> QED
  BY <1>3, <1>4 DEF IInv

(* What the invariant says of one thread.                                  *)
LEMMA Facts ==
  ASSUME IInv, NEW t \in Threads
  PROVE  /\ LaidOut(stack[t], frames[t])
         /\ stack[t] \in Seq(Identities) /\ frames[t] \in Seq(Frames)
         /\ stack = [stack EXCEPT ![t] = stack[t]]
         /\ frames = [frames EXCEPT ![t] = frames[t]]
         /\ hookFired \in BOOLEAN
BY DEF IInv, TypeOK

(* The innermost frame is at the end of its thread's frames.               *)
LEMMA TopIs ==
  ASSUME IInv, NEW t \in Threads, NEW kind, Running(t, kind)
  PROVE  frames[t] # <<>> /\ frames[t][Len(frames[t])].kind = kind
BY DEF Running, Top, Last

(* A hook's frame can be pushed on any thread.                             *)
LEMMA HookEnters ==
  ASSUME NEW s, NEW f, LaidOut(s, f)
  PROVE  LaidOut(s, Append(f, Frame("hook", NotAnObject, Len(s))))
<1> DEFINE g == Frame("hook", NotAnObject, Len(s))
<1>1. s \in Seq(Identities) /\ Len(s) \in Nat
  BY DEF LaidOut
<1>2. g \in Frames /\ g.kind = "hook" /\ g.level = Len(s)
  BY <1>1 DEF Frame, Frames, Documents
<1> HIDE DEF g
<1>3. LaidOut(s, Append(f, g))
  BY <1>1, <1>2, EnterKeeps
<1> QED
  BY <1>3 DEF g

(* Every step keeps the invariant.                                         *)
LEMMA StepPreserves == IInv /\ [Next]_vars => IInv'
<1> SUFFICES ASSUME IInv, [Next]_vars PROVE IInv'
  OBVIOUS
<1>1. ASSUME NEW t \in Threads, NEW doc \in Inbound, Arrives(t, doc) PROVE IInv'
  <2> DEFINE s == stack[t]
             f == frames[t]
             g == Frame("entry", doc, Len(s) + 1)
             s2 == Append(s, Parse(doc))
  <2>1. doc \in Documents /\ Parse(doc) \in Identities
    BY CallerStackAssumption, ParseType
  <2>2. s \in Seq(Identities) /\ LaidOut(s, f)
    BY Facts
  <2>3. /\ s2 \in Seq(Identities) /\ Len(s2) = Len(s) + 1 /\ s2[Len(s) + 1] = Parse(doc)
        /\ \A i \in 1..Len(s) : s2[i] = s[i]
    BY <2>1, <2>2
  <2>4. g \in Frames /\ g.kind = "entry" /\ g.doc = doc /\ g.level = Len(s) + 1
    BY <2>1, <2>2 DEF Frame, Frames
  <2>5. /\ stack' = [stack EXCEPT ![t] = s2] /\ frames' = [frames EXCEPT ![t] = Append(f, g)]
        /\ hookFired' \in BOOLEAN
    BY <1>1, Facts DEF Arrives, Push, Enter
  <2> HIDE DEF s, f, g, s2
  <2>6. LaidOut(s2, Append(f, g))
    BY <2>2, <2>3, <2>4, EnterKeeps
  <2> QED
    BY <2>5, <2>6, OneThread
<1>2. ASSUME NEW t \in Threads, FindsHookDue(t) PROVE IInv'
  <2>1. LaidOut(stack[t], Relabel(frames[t], "due"))
    BY <1>2, Facts, TopIs, RelabelKeeps DEF FindsHookDue
  <2> QED
    BY <1>2, <2>1, Facts, OneThread DEF FindsHookDue, Become
<1>3. ASSUME NEW t \in Threads, FireInDispatch(t) PROVE IInv'
  <2>1. LaidOut(stack[t], Relabel(frames[t], "fired"))
    BY <1>3, Facts, TopIs, RelabelKeeps DEF FireInDispatch
  <2>2. LaidOut(stack[t], Append(Relabel(frames[t], "fired"),
                                 Frame("hook", NotAnObject, Len(stack[t]))))
    BY <2>1, HookEnters
  <2> QED
    BY <1>3, <2>2, Facts, OneThread DEF FireInDispatch
<1>4. ASSUME NEW t \in Threads, FireAtLoad(t) PROVE IInv'
  <2>1. LaidOut(stack[t], Append(frames[t], Frame("hook", NotAnObject, Len(stack[t]))))
    BY Facts, HookEnters
  <2> QED
    BY <1>4, <2>1, Facts, OneThread DEF FireAtLoad, Enter
<1>5. ASSUME NEW t \in Threads, HookReturns(t) PROVE IInv'
  <2>1. LaidOut(stack[t], Front(frames[t]))
    BY <1>5, Facts, TopIs, LeaveKeeps DEF HookReturns
  <2> QED
    BY <1>5, <2>1, Facts, OneThread DEF HookReturns, Leave
<1>6. ASSUME NEW t \in Threads, EnterHandler(t) PROVE IInv'
  <2>1. LaidOut(stack[t], Relabel(frames[t], "handler"))
    BY <1>6, Facts, TopIs, RelabelKeeps DEF EnterHandler
  <2> QED
    BY <1>6, <2>1, Facts, OneThread DEF EnterHandler, Become
<1>7. ASSUME NEW t \in Threads, HandlerReturns(t) \/ ReturnsEarly(t) PROVE IInv'
  <2> DEFINE s2 == IF stack[t] = <<>> THEN stack[t] ELSE Front(stack[t])
  <2>1. frames[t] # <<>> /\ frames[t][Len(frames[t])].kind # "hook"
    BY <1>7, TopIs DEF HandlerReturns, ReturnsEarly
  <2>2. LaidOut(s2, Front(frames[t]))
    BY <2>1, Facts, LeaveKeeps
  <2>3. /\ stack' = [stack EXCEPT ![t] = s2] /\ frames' = [frames EXCEPT ![t] = Front(frames[t])]
        /\ hookFired' \in BOOLEAN
    BY <1>7, Facts DEF HandlerReturns, ReturnsEarly, Pop, Leave
  <2> QED
    BY <2>2, <2>3, OneThread
<1>8. ASSUME NEW t \in Threads, StrayClear(t) PROVE IInv'
  <2>1. stack[t] = <<>>
    <3>1. Len(stack[t]) = 0 /\ stack[t] \in Seq(Identities)
      BY <1>8, Facts DEF StrayClear, LaidOut
    <3> QED
      BY <3>1
  <2>2. stack' = stack /\ frames' = frames /\ hookFired' = hookFired
    BY <1>8, <2>1, Facts DEF StrayClear, Pop
  <2> QED
    BY <2>2 DEF IInv, TypeOK
<1>9. CASE UNCHANGED vars
  BY <1>9 DEF vars, IInv, TypeOK
<1> QED
  BY <1>1, <1>2, <1>3, <1>4, <1>5, <1>6, <1>7, <1>8, <1>9 DEF Next

(* The invariant holds in every behaviour.                                 *)
THEOREM Invariance == Spec => []IInv
  BY InitEstablishes, StepPreserves, PTL DEF Spec

(* Vectors hold identities; frames are frames.                             *)
THEOREM TypeCorrect == Spec => []TypeOK
<1>1. IInv => TypeOK
  BY DEF IInv
<1> QED
  BY <1>1, Invariance, PTL

(* Under the invariant a handler is told its own caller.                   *)
LEMMA OwnCaller == IInv => HandlersSeeTheirCaller
<1> SUFFICES ASSUME IInv, NEW t \in Threads
             PROVE  /\ Running(t, "handler") => CurrentCaller(t) = Parse(Top(t).doc)
                    /\ frames[t] = <<>> => CurrentCaller(t) = Unknown
  BY DEF HandlersSeeTheirCaller
<1> DEFINE s == stack[t]
           f == frames[t]
           n == Len(f)
<1>1. s \in Seq(Identities) /\ f \in Seq(Frames) /\ LaidOut(s, f)
  BY Facts
<1>2. ASSUME Running(t, "handler") PROVE CurrentCaller(t) = Parse(Top(t).doc)
  <2>1. f # <<>> /\ f[n].kind # "hook" /\ n \in 1..n /\ n \in Nat \ {0}
    BY <1>1, <1>2, TopIs
  <2>2. s[f[n].level] = Parse(f[n].doc) /\ f[n].level = Below(f, n) + 1 /\ Len(s) = f[n].level
    BY <1>1, <2>1 DEF LaidOut
  <2>3. Below(f, n) \in Nat
    <3> HIDE DEF n
    <3>1. n # 1 => n - 1 \in 1..n
      BY <2>1
    <3>2. \A i \in 1..n : f[i] \in Frames
      BY <1>1 DEF n
    <3>3. \A i \in 1..n : f[i].level \in Nat
      BY <3>2 DEF Frames
    <3> QED
      BY <3>1, <3>3 DEF Below
  <2>4. s # <<>>
    BY <1>1, <2>2, <2>3
  <2> QED
    BY <2>2, <2>4 DEF CurrentCaller, Top, Last
<1>3. ASSUME f = <<>> PROVE CurrentCaller(t) = Unknown
  <2>1. Len(s) = 0
    BY <1>1, <1>3 DEF LaidOut
  <2> QED
    BY <1>1, <2>1 DEF CurrentCaller
<1> QED
  BY <1>2, <1>3

(* Whatever nests on a thread, a handler is told who called it, and a      *)
(* thread with no dispatch is told Unknown.                                *)
THEOREM HandlersAreToldTheirCaller == Spec => []HandlersSeeTheirCaller
  BY OwnCaller, Invariance, PTL

(* Nobody is ever told half an identity, in whatever frame it asks.        *)
THEOREM IdentitiesAreWhole == Spec => []WholeOrUnknown
<1>1. IInv => WholeOrUnknown
  <2> SUFFICES ASSUME IInv, NEW t \in Threads PROVE Whole(CurrentCaller(t))
    BY DEF WholeOrUnknown
  <2>1. CASE stack[t] = <<>>
    BY <2>1, UnknownIsWhole DEF CurrentCaller
  <2>2. CASE stack[t] # <<>>
    <3>1. stack[t] \in Seq(Identities) /\ \A i \in 1..Len(stack[t]) : Whole(stack[t][i])
      BY Facts DEF LaidOut
    <3>2. Len(stack[t]) \in 1..Len(stack[t])
      BY <2>2, <3>1
    <3> QED
      BY <2>2, <3>1, <3>2 DEF CurrentCaller, Last
  <2> QED
    BY <2>1, <2>2
<1> QED
  BY <1>1, Invariance, PTL

(* A handler that admits one module admits only calls that name it.        *)
THEOREM IdentityNeverWidens == Spec => []NeverWidens
<1>1. IInv => NeverWidens
  <2> SUFFICES ASSUME IInv, NEW t \in Threads, NEW n \in Names \cup {Empty},
                      Running(t, "handler"), IsModule(CurrentCaller(t), n)
               PROVE  LET doc == Top(t).doc IN
                      doc # NotAnObject /\ doc.kind = "module" /\ doc.name = n /\ n # Empty
    BY DEF NeverWidens
  <2>1. CurrentCaller(t) = Parse(Top(t).doc)
    BY OwnCaller DEF HandlersSeeTheirCaller
  <2>2. Top(t) \in Frames
    <3>1. frames[t] \in Seq(Frames) /\ frames[t] # <<>>
      BY Facts DEF Running
    <3> QED
      BY <3>1 DEF Top, Last
  <2>3. Top(t).doc \in Documents
    BY <2>2 DEF Frames
  <2> QED
    BY <2>1, <2>3, ParseNeverWidens
<1> QED
  BY <1>1, Invariance, PTL
=============================================================================
