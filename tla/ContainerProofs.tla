--------------------------- MODULE ContainerProofs ---------------------------
(***************************************************************************)
(* Theorems about Container for any beans, dependencies and goroutines.    *)
(* IInv says how the stacks of frames tie to the maps that goroutines      *)
(* share: whose frame a claim is, where an early instance comes from, what *)
(* a waiter was given.  MetInv adds which beans a creation has met, and    *)
(* FieldsInv which fields it has set.                                      *)
(***************************************************************************)
EXTENDS Container, SequenceTheorems, FiniteSetTheorems, TLAPS

Instance == Bean \X Nat
Phases == Creating \cup {"enter", "wait", "got"}
Frame == [bean : Bean, phase : Phases, next : Nat \ {0}, val : Nat, uses : SUBSET Instance]

ContainerTypeOK ==
  /\ singletons \in [Bean -> Nat]
  /\ early \in [Bean -> Nat]
  /\ inFlight \in [Bean -> SUBSET Thread]
  /\ stack \in [Thread -> Seq(Frame)]
  /\ made \in [Bean -> Nat]
  /\ wired \in SUBSET (Instance \X Instance)
  /\ served \in SUBSET Instance
  /\ calls \in Nat /\ faults \in Nat

\* The frames of one stack.  All but the innermost wait for the one above them,
\* which resolves the bean they come to next; no bean is created twice in one
\* chain; an object exists exactly from the injector on.
Above(s) ==
  \A i \in 1 .. (Len(s) - 1) :
    LET f == s[i]
    IN  /\ f.phase \in {"dependsOn", "factory", "inject"}
        /\ f.next <= Len(Deps(f.bean, f.phase))
        /\ Deps(f.bean, f.phase)[f.next] = s[i + 1].bean

Distinct(s) ==
  \A i, j \in 1 .. Len(s) : i < j /\ s[j].phase \in Creating => s[i].bean # s[j].bean

Objects(s) ==
  \A i \in 1 .. Len(s) :
    /\ s[i].phase = "inject" => s[i].val # None
    /\ s[i].phase \in {"enter", "dependsOn", "factory"} => s[i].val = None

\* Each bean of a stack leads to those above it.
Chained(s) ==
  \A i, j \in 1 .. Len(s) : i <= j => <<s[i].bean, s[j].bean>> \in Leads

StackOK(s) == Above(s) /\ Distinct(s) /\ Objects(s) /\ Chained(s)
StackInv == \A t \in Thread : StackOK(stack[t])

\* The positions in a stack at which bean b is being created.
At(s, b) == {i \in 1 .. Len(s) : s[i].bean = b /\ s[i].phase \in Creating}

\* A claim is one frame of the goroutine it names, an early instance the object
\* of that frame, and what is claimed is not published yet.
ClaimInv ==
  /\ \A b \in Singletons :
       /\ \A t \in Thread : At(stack[t], b) # {} <=> t \in inFlight[b]
       /\ \A t, u \in inFlight[b] : t = u
       /\ inFlight[b] # {} => singletons[b] = None
       /\ early[b] # None =>
            \E t \in Thread : \E i \in At(stack[t], b) : stack[t][i].val = early[b]
  /\ \A b \in Bean \ Singletons :
       inFlight[b] = {} /\ singletons[b] = None /\ early[b] = None

\* What a waiter was given is the published instance.
Waits(s, published) ==
  \A i \in 1 .. Len(s) :
    /\ s[i].phase \in {"wait", "got"} => s[i].bean \in Singletons
    /\ s[i].phase = "got" /\ s[i].val # None => s[i].val = published[s[i].bean]

WaitInv == \A t \in Thread : Waits(stack[t], singletons)

IInv == ContainerTypeOK /\ StackInv /\ ClaimInv /\ WaitInv
-----------------------------------------------------------------------------
\* Leads is what is asked for, and all that follows from it.
LEMMA LeadsFacts ==
  /\ \A a \in Bean : AskedBy(a) \subseteq Bean
  /\ \A a \in Bean : \A b \in AskedBy(a) : <<a, b>> \in Leads
  /\ \A a \in Bean : <<a, a>> \in Leads
  /\ \A a, b, c \in Bean : <<a, b>> \in Leads /\ <<b, c>> \in Leads => <<a, c>> \in Leads
<1>1. ASSUME NEW a \in Bean PROVE AskedBy(a) \subseteq Bean
  <2>1. ASSUME NEW s \in Seq(Bean) PROVE Range(s) \subseteq Bean
    <3>1. DOMAIN s = 1 .. Len(s) BY LenProperties
    <3>2. \A i \in DOMAIN s : s[i] \in Bean BY <3>1, ElementOfSeq
    <3> QED BY <3>2 DEF Range
  <2>2. DependsOn[a] \in Seq(Bean) /\ FactoryDeps[a] \in Seq(Bean) /\ InjectDeps[a] \in Seq(Bean)
    BY ContainerAssumption
  <2> QED BY <2>1, <2>2 DEF AskedBy
<1>2. ASSUME NEW a \in Bean, NEW b \in AskedBy(a) PROVE <<a, b>> \in Leads
  <2>1. b \in Bean BY <1>1
  <2>2. \A S \in ClosedSets : a \in S => b \in S BY DEF ClosedSets
  <2> QED BY <2>1, <2>2 DEF Leads
<1>3. \A a \in Bean : <<a, a>> \in Leads BY DEF Leads
<1>4. ASSUME NEW a \in Bean, NEW b \in Bean, NEW c \in Bean,
             <<a, b>> \in Leads, <<b, c>> \in Leads
      PROVE  <<a, c>> \in Leads
  <2>1. \A S \in ClosedSets : a \in S => c \in S BY <1>4 DEF Leads
  <2> QED BY <2>1 DEF Leads
<1> QED BY <1>1, <1>2, <1>3, <1>4

\* What is asked in a phase is a sequence of beans.
LEMMA DepsType ==
  ASSUME NEW b \in Bean, NEW p
  PROVE  Deps(b, p) \in Seq(Bean) /\ Len(Deps(b, p)) \in Nat
<1>1. Deps(b, p) \in Seq(Bean) BY ContainerAssumption, EmptySeq DEF Deps
<1> QED BY <1>1, LenProperties

\* What a bean comes to in a phase is what it asks for.
LEMMA AskedFacts ==
  ASSUME NEW a \in Bean, NEW p \in {"dependsOn", "factory", "inject"},
         NEW k \in Nat \ {0}, k <= Len(Deps(a, p))
  PROVE  Deps(a, p)[k] \in Bean /\ Deps(a, p)[k] \in AskedBy(a)
<1> DEFINE d == Deps(a, p)
<1>1. d \in Seq(Bean) /\ Len(d) \in Nat /\ DOMAIN d = 1 .. Len(d)
  BY DepsType, LenProperties
<1>2. d \in {DependsOn[a], FactoryDeps[a], InjectDeps[a]} BY DEF Deps
<1>3. k \in DOMAIN d BY <1>1
<1> HIDE DEF d
<1>4. d[k] \in Bean /\ d[k] \in Range(d) BY <1>1, <1>3, ElementOfSeq DEF Range
<1> QED BY <1>2, <1>4 DEF d, AskedBy

\* Leaving the innermost resolve.
LEMMA FrontFacts ==
  ASSUME NEW s \in Seq(Frame), s # <<>>
  PROVE  /\ Front(s) \in Seq(Frame)
         /\ Len(Front(s)) = Len(s) - 1
         /\ Len(s) \in Nat \ {0}
         /\ \A i \in 1 .. Len(s) - 1 : Front(s)[i] = s[i]
         /\ \A i \in 1 .. Len(s) : s[i] \in Frame
         /\ Last(s) = s[Len(s)] /\ Last(s) \in Frame
<1>1. /\ Len(s) \in Nat \ {0} /\ \A i \in 1 .. Len(s) : s[i] \in Frame
      /\ DOMAIN s = 1 .. Len(s)
  BY EmptySeq, ElementOfSeq, LenProperties
<1> DEFINE n == Len(s)
<1>2. /\ Front(s) \in Seq(Frame)
      /\ DOMAIN Front(s) = 1 .. (n - 1)
      /\ \A i \in 1 .. (n - 1) : Front(s)[i] = s[i]
  BY <1>1 DEF Front
<1>3. Len(Front(s)) = n - 1
  <2> DEFINE m == Len(Front(s))
             d == DOMAIN Front(s)
  <2>1. m \in Nat /\ d = 1 .. m BY <1>2, LenProperties
  <2>2. n \in Nat \ {0} /\ d = 1 .. (n - 1) BY <1>1, <1>2
  <2> HIDE DEF m, n, d
  <2>3. m > n - 1 => m \in d BY <2>1, <2>2
  <2>4. m < n - 1 => n - 1 \in d BY <2>1, <2>2
  <2>5. m = n - 1 BY <2>1, <2>2, <2>3, <2>4
  <2> QED BY <2>5 DEF m, n
<1> QED BY <1>1, <1>2, <1>3 DEF Last

\* Replacing the top of a stack.
LEMMA SetTopFacts ==
  ASSUME NEW s \in Seq(Frame), s # <<>>, NEW f \in Frame
  PROVE  /\ SetTop(s, f) \in Seq(Frame)
         /\ SetTop(s, f) # <<>>
         /\ Len(SetTop(s, f)) = Len(s)
         /\ \A i \in 1 .. Len(s) : SetTop(s, f)[i] = IF i = Len(s) THEN f ELSE s[i]
<1> DEFINE r == Front(s)
<1>1. /\ r \in Seq(Frame) /\ Len(r) = Len(s) - 1 /\ Len(s) \in Nat \ {0}
      /\ \A i \in 1 .. Len(s) - 1 : r[i] = s[i]
  BY FrontFacts
<1> HIDE DEF r
<1> QED BY <1>1, AppendProperties DEF SetTop, r

\* A frame that is entered creates nothing yet.
LEMMA PushStack ==
  ASSUME NEW s \in Seq(Frame), StackOK(s), NEW b \in Bean,
         s # <<>> => /\ Last(s).phase \in {"dependsOn", "factory", "inject"}
                     /\ Last(s).next <= Len(Deps(Last(s).bean, Last(s).phase))
                     /\ b = Deps(Last(s).bean, Last(s).phase)[Last(s).next]
  PROVE  LET r == Append(s, NewFrame(b))
         IN  /\ r \in Seq(Frame) /\ StackOK(r)
             /\ Len(r) = Len(s) + 1 /\ r[Len(s) + 1] = NewFrame(b)
             /\ \A i \in 1 .. Len(s) : r[i] = s[i]
             /\ \A x : At(r, x) = At(s, x)
<1> DEFINE r == Append(s, NewFrame(b))
<1>1. NewFrame(b) \in Frame BY DEF NewFrame, Frame, Phases, Instance, None
<1>2. /\ r \in Seq(Frame) /\ Len(r) = Len(s) + 1 /\ Len(s) \in Nat
      /\ r[Len(s) + 1] = NewFrame(b)
      /\ \A i \in 1 .. Len(s) : r[i] = s[i]
  BY <1>1, AppendProperties, LenProperties
<1> HIDE DEF r
<1>3. s # <<>> => Len(s) > 0 /\ Last(s) = s[Len(s)] BY EmptySeq DEF Last
<1>4. Above(r)
  <2> SUFFICES ASSUME NEW i \in 1 .. (Len(r) - 1)
               PROVE  /\ r[i].phase \in {"dependsOn", "factory", "inject"}
                      /\ r[i].next <= Len(Deps(r[i].bean, r[i].phase))
                      /\ Deps(r[i].bean, r[i].phase)[r[i].next] = r[i + 1].bean
    BY DEF Above
  <2>1. CASE i < Len(s)
    <3>1. i \in 1 .. (Len(s) - 1) /\ i + 1 \in 1 .. Len(s) BY <1>2, <2>1
    <3> QED BY <3>1, <1>2 DEF StackOK, Above
  <2>2. CASE i = Len(s)
    <3>1. s # <<>> BY <2>2, <1>2, EmptySeq
    <3> QED BY <3>1, <2>2, <1>2, <1>3 DEF NewFrame
  <2> QED BY <2>1, <2>2, <1>2
<1>5. Distinct(r)
  <2> SUFFICES ASSUME NEW i \in 1 .. Len(r), NEW j \in 1 .. Len(r), i < j,
                      r[j].phase \in Creating
               PROVE  r[i].bean # r[j].bean
    BY DEF Distinct
  <2>1. j # Len(s) + 1 BY <1>2 DEF NewFrame, Creating
  <2>2. i \in 1 .. Len(s) /\ j \in 1 .. Len(s) BY <1>2, <2>1
  <2> QED BY <1>2, <2>2 DEF StackOK, Distinct
<1>6. Objects(r) BY <1>2 DEF StackOK, Objects, NewFrame
<1>7. ASSUME NEW x PROVE At(r, x) = At(s, x) BY <1>2 DEF At, NewFrame, Creating
<1>8. \A i \in 1 .. Len(s) : s[i] \in Frame BY ElementOfSeq
<1>9. ASSUME NEW i \in 1 .. Len(s) PROVE <<s[i].bean, b>> \in Leads
  <2> DEFINE n == Len(s)
             l == s[n]
  <2>1. n \in 1 .. n /\ s # <<>> BY <1>2, EmptySeq
  <2>2. s[i] \in Frame /\ l \in Frame BY <1>8, <2>1
  <2>3. /\ l.phase \in {"dependsOn", "factory", "inject"}
        /\ l.next <= Len(Deps(l.bean, l.phase))
        /\ b = Deps(l.bean, l.phase)[l.next]
    BY <1>3, <2>1
  <2>4. <<s[i].bean, l.bean>> \in Leads BY <1>2, <2>1 DEF StackOK, Chained
  <2> HIDE DEF l, n
  <2>5. s[i].bean \in Bean /\ l.bean \in Bean /\ l.next \in Nat \ {0} BY <2>2 DEF Frame
  <2>6. b \in AskedBy(l.bean) BY <2>3, <2>5, AskedFacts
  <2> QED BY <2>4, <2>5, <2>6, LeadsFacts
<1>10. Chained(r)
  <2> SUFFICES ASSUME NEW i \in 1 .. (Len(s) + 1), NEW j \in 1 .. (Len(s) + 1), i <= j
               PROVE  <<r[i].bean, r[j].bean>> \in Leads
    BY <1>2 DEF Chained
  <2>1. CASE j \in 1 .. Len(s)
    <3>1. i \in 1 .. Len(s) BY <1>2, <2>1
    <3> QED BY <1>2, <2>1, <3>1 DEF StackOK, Chained
  <2>2. CASE j = Len(s) + 1 /\ i \in 1 .. Len(s) BY <1>2, <1>9, <2>2 DEF NewFrame
  <2>3. CASE j = Len(s) + 1 /\ i = Len(s) + 1 BY <1>2, <2>3, LeadsFacts DEF NewFrame
  <2> QED BY <1>2, <2>1, <2>2, <2>3
<1> QED BY <1>2, <1>4, <1>5, <1>6, <1>7, <1>10 DEF StackOK, r

\* The innermost frame goes on to another phase.
LEMMA TurnStack ==
  ASSUME NEW s \in Seq(Frame), s # <<>>, StackOK(s),
         NEW f \in Frame, f.bean = Last(s).bean,
         f.phase \in Creating =>
           \A i \in 1 .. (Len(s) - 1) : s[i].bean # f.bean,
         f.phase = "inject" => f.val # None,
         f.phase \in {"enter", "dependsOn", "factory"} => f.val = None
  PROVE  LET r == SetTop(s, f)
         IN  /\ r \in Seq(Frame) /\ StackOK(r)
             /\ Len(r) = Len(s)
             /\ \A i \in 1 .. Len(s) : r[i] = IF i = Len(s) THEN f ELSE s[i]
             /\ \A x : At(r, x) = IF f.phase \in Creating /\ f.bean = x
                                  THEN (At(s, x) \ {Len(s)}) \cup {Len(s)}
                                  ELSE At(s, x) \ {Len(s)}
<1> DEFINE r == SetTop(s, f)
<1>1. /\ r \in Seq(Frame) /\ Len(r) = Len(s) /\ Len(s) \in Nat \ {0}
      /\ \A i \in 1 .. Len(s) : r[i] = IF i = Len(s) THEN f ELSE s[i]
      /\ Last(s) = s[Len(s)]
  BY SetTopFacts, FrontFacts
<1> HIDE DEF r
<1>2. Above(r)
  <2> SUFFICES ASSUME NEW i \in 1 .. (Len(r) - 1)
               PROVE  r[i] = s[i] /\ r[i + 1].bean = s[i + 1].bean
    BY <1>1 DEF StackOK, Above
  <2> QED BY <1>1
<1>3. Distinct(r) BY <1>1 DEF StackOK, Distinct
<1>4. Objects(r) /\ Chained(r) BY <1>1 DEF StackOK, Objects, Chained
<1>5. ASSUME NEW x
      PROVE  At(r, x) = IF f.phase \in Creating /\ f.bean = x
                        THEN (At(s, x) \ {Len(s)}) \cup {Len(s)}
                        ELSE At(s, x) \ {Len(s)}
  BY <1>1 DEF At
<1> QED BY <1>1, <1>2, <1>3, <1>4, <1>5 DEF StackOK, r

\* The innermost resolve returns, and its caller goes on or fails.
LEMMA DropStack ==
  ASSUME NEW s \in Seq(Frame), s # <<>>, StackOK(s), NEW r,
         \/ \E i \in Instance : r = Answered(Front(s), i)
         \/ r = Failed(Front(s))
  PROVE  /\ r \in Seq(Frame) /\ StackOK(r)
         /\ Len(r) = Len(s) - 1
         /\ \A i \in 1 .. (Len(s) - 1) :
              /\ r[i].bean = s[i].bean /\ r[i].val = s[i].val
              /\ s[i].phase \in Creating /\ r[i].phase \in {s[i].phase, "failed"}
              /\ i < Len(s) - 1 => r[i] = s[i]
         /\ \A x : At(r, x) = At(s, x) \ {Len(s)}
<1> DEFINE q == Front(s)
<1>1. /\ q \in Seq(Frame) /\ Len(q) = Len(s) - 1 /\ Len(s) \in Nat \ {0}
      /\ \A i \in 1 .. Len(s) - 1 : q[i] = s[i] /\ s[i] \in Frame
  BY FrontFacts
<1> HIDE DEF q
<1>2. \A i \in 1 .. (Len(s) - 1) : s[i].phase \in {"dependsOn", "factory", "inject"}
  BY DEF StackOK, Above
<1>3. CASE q = <<>>
  <2>1. r = <<>> BY <1>3 DEF Answered, Failed, q
  <2>2. Len(s) = 1 /\ Len(r) = 0 BY <1>1, <1>3, <2>1, EmptySeq
  <2> QED BY <1>1, <1>3, <2>1, <2>2 DEF StackOK, Above, Distinct, Objects, Chained, At
<1>4. CASE q # <<>>
  <2>1. /\ Len(s) - 1 \in Nat \ {0} /\ Last(q) = s[Len(s) - 1] /\ Last(q) \in Frame
        /\ Last(q).phase \in {"dependsOn", "factory", "inject"}
    BY <1>1, <1>2, <1>4, FrontFacts
  <2>2. PICK g \in Frame : /\ r = SetTop(q, g)
                           /\ g.bean = Last(q).bean /\ g.val = Last(q).val
                           /\ g.phase \in {Last(q).phase, "failed"}
    <3>1. CASE r = Failed(q)
      <4> DEFINE g == [Last(q) EXCEPT !.phase = "failed"]
      <4>1. g \in Frame BY <2>1 DEF Frame, Phases, Creating
      <4>2. /\ r = SetTop(q, g) /\ g.bean = Last(q).bean /\ g.val = Last(q).val
            /\ g.phase = "failed"
        BY <3>1, <1>4, <2>1 DEF Failed, Frame
      <4> QED BY <4>1, <4>2
    <3>2. ASSUME NEW i \in Instance, r = Answered(q, i)
          PROVE  \E g \in Frame : /\ r = SetTop(q, g)
                                  /\ g.bean = Last(q).bean /\ g.val = Last(q).val
                                  /\ g.phase \in {Last(q).phase, "failed"}
      <4> DEFINE l == Last(q)
                 u == IF l.phase = "factory" THEN l.uses \cup {i} ELSE l.uses
                 g == [l EXCEPT !.next = @ + 1, !.uses = u]
      <4>1. u \in SUBSET Instance BY <2>1 DEF Frame
      <4>2. r = SetTop(q, g) BY <3>2, <1>4, <2>1 DEF Answered, Frame
      <4>3. l \in Frame BY <2>1
      <4> HIDE DEF u, l
      <4>4. l.next + 1 \in Nat \ {0} BY <4>3 DEF Frame
      <4>5. g \in Frame BY <4>1, <4>3, <4>4 DEF Frame
      <4>6. g.bean = l.bean /\ g.val = l.val /\ g.phase = l.phase BY <4>3 DEF Frame
      <4> QED BY <4>2, <4>5, <4>6 DEF l
    <3> QED BY <3>1, <3>2 DEF q
  <2>3. /\ r \in Seq(Frame) /\ Len(r) = Len(s) - 1
        /\ \A i \in 1 .. (Len(s) - 1) : r[i] = IF i = Len(s) - 1 THEN g ELSE s[i]
    <3>1. /\ SetTop(q, g) \in Seq(Frame) /\ Len(SetTop(q, g)) = Len(q)
          /\ \A i \in 1 .. Len(q) : SetTop(q, g)[i] = IF i = Len(q) THEN g ELSE q[i]
      BY <1>1, <1>4, SetTopFacts
    <3> QED BY <1>1, <2>2, <3>1
  <2>4. \A i \in 1 .. (Len(s) - 1) :
          /\ r[i].bean = s[i].bean /\ r[i].val = s[i].val
          /\ s[i].phase \in Creating /\ r[i].phase \in {s[i].phase, "failed"}
          /\ i < Len(s) - 1 => r[i] = s[i]
    BY <1>1, <1>2, <2>1, <2>2, <2>3 DEF Creating
  <2>5. Above(r)
    <3> SUFFICES ASSUME NEW i \in 1 .. (Len(r) - 1)
                 PROVE  i \in 1 .. (Len(s) - 1) /\ r[i] = s[i] /\ r[i + 1].bean = s[i + 1].bean
      BY DEF StackOK, Above
    <3> QED BY <1>1, <2>3, <2>4
  <2>6. Distinct(r)
    <3> SUFFICES ASSUME NEW i \in 1 .. Len(r), NEW j \in 1 .. Len(r), i < j
                 PROVE  r[i].bean # r[j].bean
      BY DEF Distinct
    <3>1. /\ i \in 1 .. (Len(s) - 1) /\ j \in 1 .. (Len(s) - 1)
          /\ r[i].bean = s[i].bean /\ r[j].bean = s[j].bean /\ s[j].phase \in Creating
      BY <1>1, <2>3, <2>4
    <3> QED BY <1>1, <3>1 DEF StackOK, Distinct
  <2>7. Objects(r) BY <1>1, <2>3, <2>4 DEF StackOK, Objects
  <2>9. Chained(r)
    <3> SUFFICES ASSUME NEW i \in 1 .. Len(r), NEW j \in 1 .. Len(r), i <= j
                 PROVE  <<r[i].bean, r[j].bean>> \in Leads
      BY DEF Chained
    <3>1. /\ i \in 1 .. Len(s) /\ j \in 1 .. Len(s)
          /\ r[i].bean = s[i].bean /\ r[j].bean = s[j].bean
      BY <1>1, <2>3, <2>4
    <3> QED BY <3>1 DEF StackOK, Chained
  <2>8. ASSUME NEW x PROVE At(r, x) = At(s, x) \ {Len(s)}
    BY <1>1, <2>3, <2>4 DEF At, Creating
  <2> QED BY <2>3, <2>4, <2>5, <2>6, <2>7, <2>8, <2>9 DEF StackOK
<1> QED BY <1>3, <1>4

-----------------------------------------------------------------------------
\* The innermost frame of a goroutine that is inside the container.
LEMMA TopFacts ==
  ASSUME IInv, NEW t \in Thread, stack[t] # <<>>
  PROVE  LET s == stack[t]
             n == Len(s)
         IN  /\ s \in Seq(Frame) /\ StackOK(s) /\ Waits(s, singletons)
             /\ n \in Nat \ {0} /\ Top(t) = s[n] /\ Top(t) \in Frame
             /\ Top(t).bean \in Bean /\ Top(t).val \in Nat
             /\ Top(t).bean \notin Active(t) =>
                  \A i \in 1 .. (n - 1) : s[i].bean # Top(t).bean
             /\ Top(t).phase \in Creating =>
                  \A i \in 1 .. (n - 1) : s[i].bean # Top(t).bean
<1>1. stack[t] \in Seq(Frame) /\ StackOK(stack[t]) /\ Waits(stack[t], singletons)
  BY DEF IInv, ContainerTypeOK, StackInv, WaitInv
<1>2. /\ Len(stack[t]) \in Nat \ {0} /\ Top(t) = stack[t][Len(stack[t])] /\ Top(t) \in Frame
  BY <1>1, FrontFacts DEF Top
<1>3. Top(t).bean \in Bean /\ Top(t).val \in Nat BY <1>2 DEF Frame
<1>4. Top(t).bean \notin Active(t) =>
        \A i \in 1 .. (Len(stack[t]) - 1) : stack[t][i].bean # Top(t).bean
  BY <1>2 DEF Active
<1>5. Top(t).phase \in Creating =>
        \A i \in 1 .. (Len(stack[t]) - 1) : stack[t][i].bean # Top(t).bean
  BY <1>1, <1>2 DEF StackOK, Distinct
<1> QED BY <1>1, <1>2, <1>3, <1>4, <1>5

\* Types of what a step may do to the history.
HistoryTypes ==
  /\ made \in [Bean -> Nat]
  /\ wired \in SUBSET (Instance \X Instance)
  /\ served \in SUBSET Instance
  /\ calls \in Nat /\ faults \in Nat

\* A step of one goroutine that begins and ends no creation.
LEMMA Moved ==
  ASSUME IInv, NEW t \in Thread, NEW r,
         stack' = [stack EXCEPT ![t] = r], UNCHANGED cacheVars, HistoryTypes',
         r \in Seq(Frame), StackOK(r), Waits(r, singletons),
         \A x \in Singletons : /\ At(r, x) = At(stack[t], x)
                               /\ \A i \in At(stack[t], x) : r[i].val = stack[t][i].val
  PROVE  IInv'
<1> USE DEF IInv, cacheVars
<1>1. /\ stack' \in [Thread -> Seq(Frame)] /\ stack'[t] = r
      /\ \A u \in Thread \ {t} : stack'[u] = stack[u]
  BY DEF ContainerTypeOK
<1>2. ContainerTypeOK' BY <1>1 DEF ContainerTypeOK, HistoryTypes
<1>3. StackInv' BY <1>1 DEF StackInv
<1>4. WaitInv' BY <1>1 DEF WaitInv
<1>5. ASSUME NEW x \in Singletons, NEW u \in Thread
      PROVE  /\ At(stack'[u], x) = At(stack[u], x)
             /\ \A i \in At(stack[u], x) : stack'[u][i].val = stack[u][i].val
  BY <1>1
<1>6. ClaimInv'
  <2>1. ASSUME NEW b \in Singletons
        PROVE  /\ \A u \in Thread : At(stack'[u], b) # {} <=> u \in inFlight'[b]
               /\ \A u, v \in inFlight'[b] : u = v
               /\ inFlight'[b] # {} => singletons'[b] = None
               /\ early'[b] # None =>
                    \E u \in Thread : \E i \in At(stack'[u], b) : stack'[u][i].val = early'[b]
    <3>2. \A u \in Thread : At(stack'[u], b) # {} <=> u \in inFlight'[b]
      BY <1>5 DEF ClaimInv
    <3>3. /\ \A u, v \in inFlight'[b] : u = v
          /\ inFlight'[b] # {} => singletons'[b] = None
      BY DEF ClaimInv
    <3>4. ASSUME early'[b] # None
          PROVE  \E u \in Thread : \E i \in At(stack'[u], b) : stack'[u][i].val = early'[b]
      <4>1. PICK u \in Thread : \E i \in At(stack[u], b) : stack[u][i].val = early[b]
        BY <3>4 DEF ClaimInv
      <4> QED BY <4>1, <1>5
    <3> QED BY <3>2, <3>3, <3>4
  <2>2. \A b \in Bean \ Singletons :
          inFlight'[b] = {} /\ singletons'[b] = None /\ early'[b] = None
    BY DEF ClaimInv
  <2> QED BY <2>1, <2>2 DEF ClaimInv
<1> QED BY <1>2, <1>3, <1>4, <1>6

\* A goroutine enters resolve.
LEMMA PushInv ==
  ASSUME IInv, NEW t \in Thread, NEW b \in Bean, Push(t, b),
         stack[t] # <<>> => Working(t) /\ ~ DepsDone(t)
                            /\ b = Deps(Top(t).bean, Top(t).phase)[Top(t).next],
         UNCHANGED cacheVars, HistoryTypes'
  PROVE  IInv'
<1> DEFINE r == Append(stack[t], NewFrame(b))
<1>1. stack[t] \in Seq(Frame) /\ StackOK(stack[t]) /\ Waits(stack[t], singletons)
  BY DEF IInv, ContainerTypeOK, StackInv, WaitInv
<1>2. stack[t] # <<>> =>
        /\ Last(stack[t]).phase \in {"dependsOn", "factory", "inject"}
        /\ Last(stack[t]).next <= Len(Deps(Last(stack[t]).bean, Last(stack[t]).phase))
        /\ b = Deps(Last(stack[t]).bean, Last(stack[t]).phase)[Last(stack[t]).next]
  <2> SUFFICES ASSUME stack[t] # <<>>
               PROVE  /\ Top(t).phase \in {"dependsOn", "factory", "inject"}
                      /\ Top(t).next <= Len(Deps(Top(t).bean, Top(t).phase))
                      /\ b = Deps(Top(t).bean, Top(t).phase)[Top(t).next]
    BY DEF Top
  <2>1. Top(t).bean \in Bean /\ Top(t).next \in Nat BY TopFacts DEF Frame
  <2>2. Deps(Top(t).bean, Top(t).phase) \in Seq(Bean)
    BY <2>1, ContainerAssumption, EmptySeq DEF Deps, Working
  <2>3. Len(Deps(Top(t).bean, Top(t).phase)) \in Nat BY <2>2, LenProperties
  <2> QED BY <2>1, <2>3 DEF Working, DepsDone
<1>3. /\ r \in Seq(Frame) /\ StackOK(r)
      /\ Len(r) = Len(stack[t]) + 1 /\ r[Len(stack[t]) + 1] = NewFrame(b)
      /\ \A i \in 1 .. Len(stack[t]) : r[i] = stack[t][i]
      /\ \A x : At(r, x) = At(stack[t], x)
  BY <1>1, <1>2, PushStack
<1> HIDE DEF r
<1>4. Len(stack[t]) \in Nat BY <1>1, LenProperties
<1>5. Waits(r, singletons) BY <1>1, <1>3, <1>4 DEF Waits, NewFrame
<1>6. \A x \in Singletons : \A i \in At(stack[t], x) : r[i].val = stack[t][i].val
  BY <1>3 DEF At
<1>7. stack' = [stack EXCEPT ![t] = r] BY DEF Push, r
<1> QED BY <1>3, <1>5, <1>6, <1>7, Moved

\* A resolve that was not creating returns.
LEMMA PopInv ==
  ASSUME IInv, NEW t \in Thread, stack[t] # <<>>, Top(t).phase \notin Creating, NEW r,
         \/ \E i \in Instance : r = Answered(Front(stack[t]), i)
         \/ r = Failed(Front(stack[t])),
         stack' = [stack EXCEPT ![t] = r], UNCHANGED cacheVars, HistoryTypes'
  PROVE  IInv'
<1> DEFINE s == stack[t]
           n == Len(s)
<1>1. /\ s \in Seq(Frame) /\ StackOK(s) /\ Waits(s, singletons)
      /\ n \in Nat \ {0} /\ Top(t) = s[n]
  BY TopFacts
<1>2. /\ r \in Seq(Frame) /\ StackOK(r) /\ Len(r) = n - 1
      /\ \A i \in 1 .. (n - 1) :
           /\ r[i].bean = s[i].bean /\ r[i].val = s[i].val
           /\ s[i].phase \in Creating /\ r[i].phase \in {s[i].phase, "failed"}
      /\ \A x : At(r, x) = At(s, x) \ {n}
  BY <1>1, DropStack
<1> HIDE DEF s, n
<1>3. \A x : n \notin At(s, x) BY <1>1 DEF At
<1>4. ASSUME NEW x \in Singletons
      PROVE  At(r, x) = At(s, x) /\ \A i \in At(s, x) : r[i].val = s[i].val
  <2>1. ASSUME NEW i \in At(s, x) PROVE i \in 1 .. (n - 1)
    BY <1>1, <1>3 DEF At, n
  <2> QED BY <1>2, <1>3, <2>1
<1>5. Waits(r, singletons) BY <1>1, <1>2 DEF Waits, Creating
<1> QED BY <1>2, <1>4, <1>5, Moved DEF s

\* The innermost frame goes on within its creation, or begins to wait.
LEMMA TurnInv ==
  ASSUME IInv, NEW t \in Thread, stack[t] # <<>>,
         NEW f \in Frame, f.bean = Top(t).bean,
         f.phase = "inject" => f.val # None,
         f.phase \in {"enter", "dependsOn", "factory"} => f.val = None,
         f.phase \in Creating <=> Top(t).phase \in Creating,
         f.phase \in Creating => f.val = Top(t).val,
         f.phase = "wait" => f.bean \in Singletons,
         f.phase # "got",
         stack' = [stack EXCEPT ![t] = SetTop(@, f)], UNCHANGED cacheVars, HistoryTypes'
  PROVE  IInv'
<1> DEFINE s == stack[t]
           n == Len(s)
           r == SetTop(s, f)
<1>1. /\ s \in Seq(Frame) /\ StackOK(s) /\ Waits(s, singletons)
      /\ n \in Nat \ {0} /\ Top(t) = s[n] /\ Last(s) = Top(t)
      /\ Top(t).phase \in Creating => \A i \in 1 .. (n - 1) : s[i].bean # Top(t).bean
  BY TopFacts DEF Top
<1>2. /\ r \in Seq(Frame) /\ StackOK(r) /\ Len(r) = n
      /\ \A i \in 1 .. n : r[i] = IF i = n THEN f ELSE s[i]
  BY <1>1, TurnStack
<1> HIDE DEF s, n, r
<1>3. ASSUME NEW x \in Singletons
      PROVE  At(r, x) = At(s, x) /\ \A i \in At(s, x) : r[i].val = s[i].val
  BY <1>1, <1>2 DEF At, n
<1>4. Waits(r, singletons) BY <1>1, <1>2 DEF Waits, n
<1>5. stack' = [stack EXCEPT ![t] = r] BY DEF r, s
<1> QED BY <1>2, <1>3, <1>4, <1>5, Moved DEF s
-----------------------------------------------------------------------------
\* At the start there is no frame, claim or instance.
LEMMA InitInv == Init => IInv
<1> SUFFICES ASSUME Init PROVE IInv OBVIOUS
<1> USE DEF Init
<1>1. <<>> \in Seq(Frame) /\ Len(<<>>) = 0 BY EmptySeq
<1>2. ContainerTypeOK BY <1>1, EmptySeq DEF ContainerTypeOK, None
<1>3. StackInv BY <1>1 DEF StackInv, StackOK, Above, Distinct, Objects, Chained
<1>4. WaitInv BY <1>1 DEF WaitInv, Waits
<1>5. \A t \in Thread, b \in Bean : At(stack[t], b) = {} BY <1>1 DEF At
<1>6. ClaimInv BY <1>5, ContainerAssumption DEF ClaimInv
<1> QED BY <1>2, <1>3, <1>4, <1>6 DEF IInv

\* History that a step leaves alone or adds a counted fault or call to.
LEMMA HistorySame ==
  ASSUME IInv, UNCHANGED historyVars,
         UNCHANGED calls \/ calls' = calls + 1, UNCHANGED faults \/ faults' = faults + 1
  PROVE  HistoryTypes'
BY DEF IInv, ContainerTypeOK, HistoryTypes, historyVars

\* What is recorded of an instance that resolve returns.
LEMMA RecordFacts ==
  ASSUME IInv, NEW st \in Seq(Frame), NEW i \in Instance, Record(st, i),
         UNCHANGED <<made, calls, faults>>
  PROVE  HistoryTypes'
<1>1. ASSUME st # <<>> PROVE <<Last(st).bean, Last(st).val>> \in Instance
  BY <1>1, FrontFacts DEF Frame, Instance
<1>2. wired' \in SUBSET (Instance \X Instance)
  <2> DEFINE w == <<<<Last(st).bean, Last(st).val>>, i>>
  <2>1. wired \in SUBSET (Instance \X Instance) BY DEF IInv, ContainerTypeOK
  <2>2. CASE st # <<>> /\ Last(st).phase = "inject"
    <3>1. w \in Instance \X Instance BY <1>1, <2>2
    <3>2. wired' = wired \cup {w} BY <2>2 DEF Record
    <3> QED BY <2>1, <3>1, <3>2
  <2>3. CASE ~ (st # <<>> /\ Last(st).phase = "inject")
    BY <2>1, <2>3 DEF Record
  <2> QED BY <2>2, <2>3
<1>3. served' \in SUBSET Instance BY DEF IInv, ContainerTypeOK, Record
<1> QED BY <1>2, <1>3 DEF IInv, ContainerTypeOK, HistoryTypes

\* Get enters resolve on an empty stack.
LEMMA CallInv ==
  ASSUME IInv, NEW t \in Thread, NEW b \in Roots, Call(t, b)
  PROVE  IInv'
<1>1. b \in Bean BY ContainerAssumption
<1>2. HistoryTypes' BY HistorySame DEF Call
<1> QED BY <1>1, <1>2, PushInv DEF Call

\* A creation enters the bean that it comes to.
LEMMA ResolveNextInv ==
  ASSUME IInv, NEW t \in Thread, ResolveNext(t)
  PROVE  IInv'
<1> DEFINE d == Deps(Top(t).bean, Top(t).phase)
           b == d[Top(t).next]
<1>1. Working(t) /\ ~ DepsDone(t) /\ Push(t, b) BY DEF ResolveNext
<1>2. stack[t] # <<>> /\ Top(t).bean \in Bean /\ Top(t).next \in Nat \ {0}
  BY <1>1, TopFacts DEF Working, Frame
<1>3. d \in Seq(Bean) BY <1>2, ContainerAssumption, EmptySeq DEF Deps
<1>4. Top(t).next \in 1 .. Len(d) BY <1>1, <1>2, <1>3, LenProperties DEF DepsDone
<1> HIDE DEF d
<1>5. b \in Bean BY <1>3, <1>4, ElementOfSeq
<1>6. HistoryTypes' BY HistorySame DEF ResolveNext
<1> QED BY <1>1, <1>5, <1>6, PushInv DEF ResolveNext, d

\* A resolve that is not creating fails.
LEMMA ErrorInv ==
  ASSUME IInv, NEW t \in Thread, stack[t] # <<>>, Top(t).phase \notin Creating, Error(t),
         UNCHANGED <<cacheVars, historyVars, calls>>,
         UNCHANGED faults \/ faults' = faults + 1
  PROVE  IInv'
<1> DEFINE r == Failed(Front(stack[t]))
<1>1. stack' = [stack EXCEPT ![t] = r] BY DEF Error
<1>2. HistoryTypes' BY HistorySame
<1> HIDE DEF r
<1>3. r = Failed(Front(stack[t])) BY DEF r
<1> QED BY <1>1, <1>2, <1>3, PopInv

\* A resolve that is not creating returns an instance.
LEMMA ReplyInv ==
  ASSUME IInv, NEW t \in Thread, stack[t] # <<>>, Top(t).phase \notin Creating,
         NEW n \in Nat, Reply(t, n), UNCHANGED <<cacheVars, calls, faults>>
  PROVE  IInv'
<1> DEFINE i == <<Top(t).bean, n>>
           r == Answered(Front(stack[t]), i)
<1>1. i \in Instance BY TopFacts DEF Instance
<1>2. stack' = [stack EXCEPT ![t] = r] BY DEF Reply
<1>3. Front(stack[t]) \in Seq(Frame) BY TopFacts, FrontFacts
<1>4. Record(Front(stack[t]), i) /\ UNCHANGED made BY DEF Reply
<1> HIDE DEF i
<1>5. HistoryTypes' BY <1>1, <1>3, <1>4, RecordFacts
<1>6. \E j \in Instance : r = Answered(Front(stack[t]), j) BY <1>1
<1> HIDE DEF r
<1> QED BY <1>2, <1>5, <1>6, PopInv

\* What resolve does without creating anything.
LEMMA ResolveInv ==
  ASSUME IInv, NEW t \in Thread,
         \/ ResolveCancelled(t) \/ ResolveEarly(t) \/ ResolveCircular(t)
         \/ ResolveCached(t) \/ Wake(t) \/ WaitCancelled(t)
  PROVE  IInv'
<1>1. stack[t] # <<>> /\ Top(t).phase \in {"enter", "wait", "got"}
  BY DEF ResolveCancelled, ResolveEarly, ResolveCircular, ResolveCached, Entered, Wake,
         WaitCancelled, In
<1>2. Top(t).phase \notin Creating BY <1>1 DEF Creating
<1>3. Top(t).bean \in Bean /\ Top(t).val \in Nat BY <1>1, TopFacts
<1>4. early[Top(t).bean] \in Nat /\ singletons[Top(t).bean] \in Nat
  BY <1>3 DEF IInv, ContainerTypeOK
<1>5. CASE ResolveCancelled(t) \/ WaitCancelled(t) \/ ResolveCircular(t)
  BY <1>1, <1>2, <1>5, ErrorInv
  DEF ResolveCancelled, WaitCancelled, ResolveCircular, Fault
<1>6. CASE ResolveEarly(t) BY <1>1, <1>2, <1>4, <1>6, ReplyInv DEF ResolveEarly
<1>7. CASE ResolveCached(t) BY <1>1, <1>2, <1>4, <1>7, ReplyInv DEF ResolveCached
<1>8. CASE Wake(t)
  <2>1. CASE Reply(t, Top(t).val) BY <1>1, <1>2, <1>3, <1>8, <2>1, ReplyInv DEF Wake
  <2>2. CASE Error(t) /\ UNCHANGED historyVars
    BY <1>1, <1>2, <1>8, <2>2, ErrorInv DEF Wake
  <2> QED BY <1>8, <2>1, <2>2 DEF Wake
<1> QED BY <1>5, <1>6, <1>7, <1>8

\* A waiter waits for a singleton.
LEMMA JoinInv ==
  ASSUME IInv, NEW t \in Thread, Join(t)
  PROVE  IInv'
<1> DEFINE f == [Top(t) EXCEPT !.phase = "wait"]
<1>1. /\ stack[t] # <<>> /\ Top(t).phase = "enter" /\ inFlight[Top(t).bean] # {}
      /\ stack' = [stack EXCEPT ![t] = SetTop(@, f)]
  BY DEF Join, Entered, In
<1>2. Top(t) \in Frame /\ Top(t).bean \in Bean BY <1>1, TopFacts
<1>3. Top(t).bean \in Singletons BY <1>1, <1>2 DEF IInv, ClaimInv
<1>4. f \in Frame /\ f.bean = Top(t).bean /\ f.phase = "wait"
  BY <1>2 DEF Frame, Phases, Creating
<1>5. HistoryTypes' BY HistorySame DEF Join
<1> HIDE DEF f
<1> QED BY <1>1, <1>3, <1>4, <1>5, TurnInv DEF Join, Creating

\* A creation goes on to its factory.
LEMMA DependsOnDoneInv ==
  ASSUME IInv, NEW t \in Thread, DependsOnDone(t)
  PROVE  IInv'
<1> DEFINE f == [Top(t) EXCEPT !.phase = "factory", !.next = 1]
<1>1. /\ stack[t] # <<>> /\ Top(t).phase = "dependsOn"
      /\ stack' = [stack EXCEPT ![t] = SetTop(@, f)]
  BY DEF DependsOnDone, In
<1>2. Top(t) \in Frame /\ Top(t).val = None
  BY <1>1, TopFacts DEF StackOK, Objects
<1>3. f \in Frame /\ f.bean = Top(t).bean /\ f.phase = "factory" /\ f.val = Top(t).val
  <2> DEFINE l == Top(t)
  <2>1. l \in Frame BY <1>2
  <2>2. f = [l EXCEPT !.phase = "factory", !.next = 1] OBVIOUS
  <2> HIDE DEF l, f
  <2>3. f \in Frame
    <3>1. "factory" \in Phases /\ 1 \in Nat \ {0} BY DEF Phases, Creating
    <3> QED BY <2>1, <2>2, <3>1 DEF Frame
  <2>4. f.bean = l.bean /\ f.phase = "factory" /\ f.val = l.val BY <2>1, <2>2 DEF Frame
  <2> QED BY <2>3, <2>4 DEF l
<1>4. HistoryTypes' BY HistorySame DEF DependsOnDone
<1> HIDE DEF f
<1> QED BY <1>1, <1>2, <1>3, <1>4, TurnInv DEF DependsOnDone, Creating

\* A factory or an injector fails by itself.
LEMMA CreationFailsInv ==
  ASSUME IInv, NEW t \in Thread, CreationFails(t)
  PROVE  IInv'
<1> DEFINE f == [Top(t) EXCEPT !.phase = "failed"]
<1>1. /\ stack[t] # <<>> /\ Top(t).phase \in {"factory", "inject"}
      /\ stack' = [stack EXCEPT ![t] = SetTop(@, f)]
  BY DEF CreationFails, In
<1>2. Top(t) \in Frame BY <1>1, TopFacts
<1>3. f \in Frame /\ f.bean = Top(t).bean /\ f.phase = "failed" /\ f.val = Top(t).val
  BY <1>2 DEF Frame, Phases, Creating
<1>4. HistoryTypes' BY HistorySame DEF CreationFails, Fault
<1> HIDE DEF f
<1> QED BY <1>1, <1>3, <1>4, TurnInv DEF CreationFails, Creating

\* What the claims and early instances say of singleton b.
ClaimsOf(b) ==
  /\ \A t \in Thread : At(stack[t], b) # {} <=> t \in inFlight[b]
  /\ \A t, u \in inFlight[b] : t = u
  /\ inFlight[b] # {} => singletons[b] = None
  /\ early[b] # None =>
       \E t \in Thread : \E i \in At(stack[t], b) : stack[t][i].val = early[b]

\* The creations of b, and what the maps say of it, stay as they are.
LEMMA ClaimsKept ==
  ASSUME IInv, NEW b \in Singletons,
         \A u \in Thread : /\ At(stack'[u], b) = At(stack[u], b)
                           /\ \A i \in At(stack[u], b) : stack'[u][i].val = stack[u][i].val,
         inFlight'[b] = inFlight[b], singletons'[b] = singletons[b], early'[b] = early[b]
  PROVE  ClaimsOf(b)'
<1>1. ClaimsOf(b) BY DEF IInv, ClaimInv, ClaimsOf
<1>2. ASSUME early'[b] # None
      PROVE  \E u \in Thread : \E i \in At(stack'[u], b) : stack'[u][i].val = early'[b]
  <2>1. PICK u \in Thread : \E i \in At(stack[u], b) : stack[u][i].val = early[b]
    BY <1>1, <1>2 DEF ClaimsOf
  <2> QED BY <2>1
<1> QED BY <1>1, <1>2 DEF ClaimsOf

\* A claim makes the innermost frame the one creation of its bean.
LEMMA ClaimStepInv ==
  ASSUME IInv, NEW t \in Thread, Claim(t)
  PROVE  IInv'
<1> DEFINE f == [Top(t) EXCEPT !.phase = "dependsOn"]
           s == stack[t]
           n == Len(s)
           r == SetTop(s, f)
           b == Top(t).bean
<1> USE DEF IInv
<1>1. /\ s # <<>> /\ Top(t).phase = "enter" /\ b \notin Active(t)
      /\ singletons[b] = None /\ inFlight[b] = {}
      /\ stack' = [stack EXCEPT ![t] = r]
      /\ inFlight' = IF b \in Singletons THEN [inFlight EXCEPT ![b] = {t}] ELSE inFlight
      /\ UNCHANGED <<singletons, early, historyVars, calls, faults>>
  BY DEF Claim, Entered, In
<1>2. /\ s \in Seq(Frame) /\ StackOK(s) /\ Waits(s, singletons)
      /\ n \in Nat \ {0} /\ Top(t) = s[n] /\ Last(s) = Top(t) /\ Top(t) \in Frame /\ b \in Bean
      /\ \A i \in 1 .. (n - 1) : s[i].bean # b
  BY <1>1, TopFacts DEF Top
<1>3. f \in Frame /\ f.bean = b /\ f.phase = "dependsOn" /\ f.val = Top(t).val
  BY <1>2 DEF Frame, Phases, Creating
<1>4. f.val = None BY <1>1, <1>2, <1>3 DEF StackOK, Objects
<1> HIDE DEF f
<1>5. /\ r \in Seq(Frame) /\ StackOK(r) /\ Len(r) = n
      /\ \A i \in 1 .. n : r[i] = IF i = n THEN f ELSE s[i]
  BY <1>1, <1>2, <1>3, <1>4, TurnStack
<1>6. \A x \in Bean \ {b} : At(r, x) = At(s, x) /\ \A i \in At(s, x) : r[i].val = s[i].val
  BY <1>1, <1>2, <1>3, <1>5 DEF At, Creating
<1>7. At(r, b) # {}
  <2>1. n \in At(r, b) BY <1>2, <1>3, <1>5 DEF At, Creating
  <2> QED BY <2>1
<1>8. Waits(r, singletons) BY <1>2, <1>3, <1>5 DEF Waits
<1> HIDE DEF r, s, n, b
<1>9. /\ stack' \in [Thread -> Seq(Frame)] /\ stack'[t] = r
      /\ \A u \in Thread \ {t} : stack'[u] = stack[u]
  BY <1>1, <1>5 DEF ContainerTypeOK
<1>10. /\ inFlight' \in [Bean -> SUBSET Thread]
       /\ \A x \in Bean : inFlight'[x] = IF x = b /\ b \in Singletons THEN {t} ELSE inFlight[x]
  BY <1>1, <1>2 DEF ContainerTypeOK
<1>11. ContainerTypeOK' BY <1>1, <1>9, <1>10 DEF ContainerTypeOK, historyVars
<1>12. StackInv' BY <1>5, <1>9 DEF StackInv
<1>13. WaitInv' BY <1>1, <1>8, <1>9 DEF WaitInv
<1>14. ASSUME NEW x \in Singletons PROVE ClaimsOf(x)'
  <2>0. x \in Bean BY ContainerAssumption
  <2>1. CASE x # b
    BY <2>0, <2>1, <1>1, <1>6, <1>9, <1>10, ClaimsKept DEF s
  <2>2. CASE x = b
    <3>1. inFlight'[b] = {t} BY <2>0, <2>2, <1>10
    <3>2. \A u \in Thread \ {t} : At(stack'[u], b) = {} BY <2>2, <1>1, <1>9 DEF ClaimInv
    <3>3. early'[b] = None
      <4>1. early[b] # None => \E u \in Thread : At(stack[u], b) # {} BY <2>2 DEF ClaimInv
      <4>2. \A u \in Thread : At(stack[u], b) = {} BY <2>2, <1>1 DEF ClaimInv
      <4> QED BY <4>1, <4>2, <1>1
    <3> QED BY <2>2, <3>1, <3>2, <3>3, <1>1, <1>7, <1>9 DEF ClaimsOf
  <2> QED BY <2>1, <2>2
<1>15. \A x \in Bean \ Singletons :
         inFlight'[x] = {} /\ singletons'[x] = None /\ early'[x] = None
  BY <1>1, <1>10 DEF ClaimInv
<1>16. ClaimInv' BY <1>14, <1>15 DEF ClaimInv, ClaimsOf
<1> QED BY <1>11, <1>12, <1>13, <1>16

\* An early instance is the object of the frame that holds the claim.
LEMMA InstantiateInv ==
  ASSUME IInv, NEW t \in Thread, Instantiate(t)
  PROVE  IInv'
<1> DEFINE s == stack[t]
           n == Len(s)
           b == Top(t).bean
           m == made[b] + 1
           f == [Top(t) EXCEPT !.phase = "inject", !.next = 1, !.val = m, !.uses = {}]
           r == SetTop(s, f)
<1> USE DEF IInv
<1>1. /\ s # <<>> /\ Top(t).phase = "factory"
      /\ made' = [made EXCEPT ![b] = m]
      /\ wired' = wired \cup {<<<<b, m>>, i>> : i \in Top(t).uses}
      /\ early' = IF AllowCircular /\ b \in Singletons /\ InjectDeps[b] # <<>>
                  THEN [early EXCEPT ![b] = m] ELSE early
      /\ stack' = [stack EXCEPT ![t] = r]
      /\ UNCHANGED <<singletons, inFlight, served, calls, faults>>
  BY DEF Instantiate, In
<1>2. /\ s \in Seq(Frame) /\ StackOK(s) /\ Waits(s, singletons)
      /\ n \in Nat \ {0} /\ Top(t) = s[n] /\ Last(s) = Top(t) /\ Top(t) \in Frame /\ b \in Bean
      /\ \A i \in 1 .. (n - 1) : s[i].bean # b
  BY <1>1, TopFacts DEF Top, Creating
<1>3. m \in Nat \ {0} BY <1>2 DEF ContainerTypeOK
<1>4. f \in Frame /\ f.bean = b /\ f.phase = "inject" /\ f.val = m
  <2> DEFINE l == Top(t)
             h == [l EXCEPT !.phase = "inject", !.next = 1]
  <2>1. l \in Frame BY <1>2
  <2>2. f = [h EXCEPT !.val = m, !.uses = {}] BY <1>2 DEF Frame
  <2> HIDE DEF l, m, f
  <2>3. h \in Frame /\ h.bean = l.bean /\ h.phase = "inject"
    <3>1. "inject" \in Phases /\ 1 \in Nat \ {0} BY DEF Phases, Creating
    <3> QED BY <2>1, <3>1 DEF Frame
  <2> HIDE DEF h
  <2>4. f \in Frame /\ f.bean = h.bean /\ f.phase = h.phase /\ f.val = m
    BY <1>3, <2>2, <2>3 DEF Frame
  <2> QED BY <2>3, <2>4 DEF l
<1>5. made' \in [Bean -> Nat] BY <1>1, <1>2, <1>3 DEF ContainerTypeOK
<1>6. wired' \in SUBSET (Instance \X Instance)
  <2>1. Top(t).uses \in SUBSET Instance BY <1>2 DEF Frame
  <2>2. <<b, m>> \in Instance BY <1>2, <1>3 DEF Instance
  <2> DEFINE o == <<b, m>>
  <2>3. wired' = wired \cup {<<o, i>> : i \in Top(t).uses} BY <1>1
  <2> HIDE DEF o
  <2>4. \A i \in Top(t).uses : <<o, i>> \in Instance \X Instance BY <2>1, <2>2 DEF o
  <2> QED BY <2>3, <2>4 DEF ContainerTypeOK
<1>7. /\ early' \in [Bean -> Nat]
      /\ \A x \in Bean : early'[x] = early[x] \/ (x = b /\ x \in Singletons /\ early'[x] = m)
  BY <1>1, <1>2, <1>3 DEF ContainerTypeOK
<1> HIDE DEF f, m
<1>8. /\ r \in Seq(Frame) /\ StackOK(r) /\ Len(r) = n
      /\ \A i \in 1 .. n : r[i] = IF i = n THEN f ELSE s[i]
  BY <1>1, <1>2, <1>3, <1>4, TurnStack DEF None
<1>9. /\ \A x \in Bean : At(r, x) = At(s, x)
      /\ \A x \in Bean \ {b} : \A i \in At(s, x) : r[i].val = s[i].val
      /\ n \in At(r, b)
  BY <1>1, <1>2, <1>4, <1>8 DEF At, Creating
<1>10. Waits(r, singletons) BY <1>2, <1>4, <1>8 DEF Waits
<1>11. r[n].val = m BY <1>2, <1>4, <1>8
<1> HIDE DEF r, s, n, b
<1>12. /\ stack' \in [Thread -> Seq(Frame)] /\ stack'[t] = r
       /\ \A u \in Thread \ {t} : stack'[u] = stack[u]
  BY <1>1, <1>8 DEF ContainerTypeOK
<1>13. ContainerTypeOK' BY <1>1, <1>5, <1>6, <1>7, <1>12 DEF ContainerTypeOK
<1>14. StackInv' BY <1>8, <1>12 DEF StackInv
<1>15. WaitInv' BY <1>1, <1>10, <1>12 DEF WaitInv
<1>16. ASSUME NEW x \in Singletons PROVE ClaimsOf(x)'
  <2>0. x \in Bean BY ContainerAssumption
  <2>1. CASE x # b
    <3>1. early'[x] = early[x] BY <2>0, <2>1, <1>7
    <3> QED BY <2>0, <2>1, <3>1, <1>1, <1>9, <1>12, ClaimsKept DEF s
  <2>2. CASE x = b
    <3>1. \A u \in Thread : At(stack'[u], x) = At(stack[u], x)
      BY <2>0, <1>9, <1>12 DEF s
    <3>2. /\ \A u \in Thread : At(stack[u], x) # {} <=> u \in inFlight[x]
          /\ \A u, v \in inFlight[x] : u = v
          /\ inFlight[x] # {} => singletons[x] = None
      BY DEF ClaimInv
    <3>3. early'[x] # None =>
            \E u \in Thread : \E i \in At(stack'[u], x) : stack'[u][i].val = early'[x]
      <4>1. CASE early'[x] = m BY <2>2, <4>1, <1>9, <1>11, <1>12
      <4>2. CASE early'[x] = early[x] /\ early[x] # None
        <5>1. PICK u \in Thread : \E i \in At(stack[u], x) : stack[u][i].val = early[x]
          BY <4>2 DEF ClaimInv
        <5>2. u = t BY <2>2, <3>2, <1>9, <1>12, <3>1, <5>1
        <5>3. PICK i \in At(s, x) : s[i].val = early[x] BY <5>1, <5>2 DEF s
        <5>4. i = n
          BY <2>2, <5>3, <1>2 DEF At, s, n, b
        <5>5. s[n].val = None BY <1>1, <1>2 DEF StackOK, Objects, n
        <5> QED BY <4>2, <5>3, <5>4, <5>5
      <4> QED BY <2>0, <4>1, <4>2, <1>7
    <3> QED BY <3>1, <3>2, <3>3, <1>1 DEF ClaimsOf
  <2> QED BY <2>1, <2>2
<1>17. \A x \in Bean \ Singletons :
         inFlight'[x] = {} /\ singletons'[x] = None /\ early'[x] = None
  BY <1>1, <1>7 DEF ClaimInv
<1>18. ClaimInv' BY <1>16, <1>17 DEF ClaimInv, ClaimsOf
<1> QED BY <1>13, <1>14, <1>15, <1>18

\* Stack s becomes q: only a frame that waits for b moves, and is given n.
Woken(s, q, b, n) ==
  /\ q \in Seq(Frame) /\ StackOK(q) /\ Len(q) = Len(s)
  /\ \A i \in 1 .. Len(s) :
       \/ q[i] = s[i]
       \/ /\ s[i].phase = "wait" /\ s[i].bean = b
          /\ q[i].phase = "got" /\ q[i].bean = b /\ q[i].val = n
  /\ \A x \in Bean : At(q, x) = At(s, x) /\ \A i \in At(s, x) : q[i] = s[i]

\* The end of a call for b reaches those who wait for it, and nobody else.
LEMMA DeliverFacts ==
  ASSUME IInv, NEW t \in Thread, NEW r \in Seq(Frame), NEW b \in Bean, NEW n \in Nat,
         stack' = Deliver([stack EXCEPT ![t] = r], t, b, n)
  PROVE  /\ stack' \in [Thread -> Seq(Frame)] /\ stack'[t] = r
         /\ \A u \in Thread \ {t} : Woken(stack[u], stack'[u], b, n)
<1> DEFINE st == [stack EXCEPT ![t] = r]
           f(u) == [Top(u) EXCEPT !.phase = "got", !.val = n]
           woken(u) == u # t /\ In(u, "wait") /\ Top(u).bean = b
<1>1. stack' = [u \in Thread |-> IF woken(u) THEN SetTop(stack[u], f(u)) ELSE st[u]]
  BY DEF Deliver
<1>2. st \in [Thread -> Seq(Frame)] /\ st[t] = r /\ \A u \in Thread \ {t} : st[u] = stack[u]
  BY DEF IInv, ContainerTypeOK
<1>3. ASSUME NEW u \in Thread, woken(u)
      PROVE  Woken(stack[u], SetTop(stack[u], f(u)), b, n)
  <2> DEFINE s == stack[u]
             g == f(u)
             q == SetTop(s, g)
             k == Len(s)
  <2>1. s # <<>> /\ Top(u).phase = "wait" /\ Top(u).bean = b BY <1>3 DEF In
  <2>2. /\ s \in Seq(Frame) /\ StackOK(s)
        /\ k \in Nat \ {0} /\ Top(u) = s[k] /\ Last(s) = Top(u) /\ Top(u) \in Frame
    BY <2>1, TopFacts DEF Top
  <2>3. g \in Frame /\ g.bean = b /\ g.phase = "got" /\ g.val = n
    <3> DEFINE l == Top(u)
    <3>1. l \in Frame /\ l.bean = b /\ "got" \in Phases BY <2>1, <2>2 DEF Phases
    <3>2. g = [l EXCEPT !.phase = "got", !.val = n] OBVIOUS
    <3> HIDE DEF l, g
    <3>3. g \in Frame BY <3>1, <3>2 DEF Frame
    <3>4. g.bean = l.bean /\ g.phase = "got" /\ g.val = n BY <3>1, <3>2 DEF Frame
    <3> QED BY <3>1, <3>3, <3>4
  <2> HIDE DEF g
  <2>4. /\ q \in Seq(Frame) /\ StackOK(q) /\ Len(q) = k
        /\ \A i \in 1 .. k : q[i] = IF i = k THEN g ELSE s[i]
    BY <2>1, <2>2, <2>3, TurnStack, SMTT(40) DEF Creating
  <2>5. ASSUME NEW x PROVE At(q, x) = At(s, x) /\ \A i \in At(s, x) : q[i] = s[i]
    BY <2>1, <2>2, <2>3, <2>4 DEF At, Creating
  <2> QED BY <2>1, <2>2, <2>3, <2>4, <2>5 DEF g, Woken
<1> HIDE DEF st, f, woken
<1>4. \A u \in Thread : (IF woken(u) THEN SetTop(stack[u], f(u)) ELSE st[u]) \in Seq(Frame)
  BY <1>2, <1>3 DEF Woken
<1>5. stack' \in [Thread -> Seq(Frame)] BY <1>1, <1>4
<1>6. stack'[t] = r
  <2>1. ~ woken(t) BY DEF woken
  <2> QED BY <1>1, <1>2, <2>1
<1>7. ASSUME NEW u \in Thread \ {t} PROVE Woken(stack[u], stack'[u], b, n)
  <2>1. CASE woken(u)
    <3>1. stack'[u] = SetTop(stack[u], f(u)) BY <1>1, <2>1
    <3> QED BY <1>3, <2>1, <3>1
  <2>2. CASE ~ woken(u)
    <3>1. stack'[u] = stack[u] BY <1>1, <1>2, <2>2
    <3>2. stack[u] \in Seq(Frame) /\ StackOK(stack[u])
      BY DEF IInv, ContainerTypeOK, StackInv
    <3> QED BY <3>1, <3>2 DEF Woken
  <2> QED BY <2>1, <2>2
<1> QED BY <1>5, <1>6, <1>7

\* Stack s becomes r: the creation of b, and nothing else, is over.
Ended(s, r, b) ==
  /\ r \in Seq(Frame) /\ StackOK(r)
  /\ \A p \in [Bean -> Nat] : Waits(r, p)
  /\ At(s, b) # {} /\ At(r, b) = {}
  /\ \A x \in Bean \ {b} : At(r, x) = At(s, x) /\ \A i \in At(s, x) : r[i].val = s[i].val

\* The stack of a goroutine whose innermost creation ends.
LEMMA EndedStack ==
  ASSUME IInv, NEW t \in Thread, stack[t] # <<>>, Top(t).phase \in Creating, NEW r,
         \/ \E i \in Instance : r = Answered(Front(stack[t]), i)
         \/ r = Failed(Front(stack[t]))
  PROVE  Ended(stack[t], r, Top(t).bean)
<1> DEFINE s == stack[t]
           k == Len(s)
           b == Top(t).bean
<1>1. s \in Seq(Frame) /\ StackOK(s) BY TopFacts
<1>2. /\ r \in Seq(Frame) /\ StackOK(r) /\ Len(r) = k - 1
      /\ \A i \in 1 .. (k - 1) :
           /\ r[i].bean = s[i].bean /\ r[i].val = s[i].val
           /\ s[i].phase \in Creating /\ r[i].phase \in {s[i].phase, "failed"}
      /\ \A x : At(r, x) = At(s, x) \ {k}
  BY <1>1, DropStack
<1>0. /\ k \in Nat \ {0} /\ Top(t) = s[k] /\ b \in Bean
      /\ \A i \in 1 .. (k - 1) : s[i].bean # b
  BY TopFacts
<1> HIDE DEF s, k, b
<1>3. At(r, b) = {} BY <1>0, <1>1, <1>2 DEF At, k
<1>4. ASSUME NEW x \in Bean \ {b}
      PROVE  At(r, x) = At(s, x) /\ \A i \in At(s, x) : r[i].val = s[i].val
  <2>1. k \notin At(s, x) BY <1>0, <1>1 DEF At, b
  <2>2. ASSUME NEW i \in At(s, x) PROVE i \in 1 .. (k - 1) BY <1>0, <1>1, <2>1 DEF At, k
  <2> QED BY <1>2, <2>1, <2>2
<1>5. \A p \in [Bean -> Nat] : Waits(r, p) BY <1>0, <1>1, <1>2 DEF Waits, Creating
<1>6. k \in At(s, b) BY <1>0, <1>1 DEF At, k, b
<1> QED BY <1>2, <1>3, <1>4, <1>5, <1>6 DEF Ended, s, b

\* A creation ends, well or not: its claim and its early instance go.
LEMMA EndInv ==
  ASSUME IInv, NEW t \in Thread, stack[t] # <<>>, Top(t).phase \in Creating,
         Top(t).bean \in Singletons, NEW r, NEW n \in Nat,
         \/ \E i \in Instance : r = Answered(Front(stack[t]), i)
         \/ r = Failed(Front(stack[t])),
         stack' = Deliver([stack EXCEPT ![t] = r], t, Top(t).bean, n),
         singletons' = [singletons EXCEPT ![Top(t).bean] = n],
         early' = [early EXCEPT ![Top(t).bean] = None],
         inFlight' = [inFlight EXCEPT ![Top(t).bean] = {}],
         HistoryTypes'
  PROVE  IInv'
<1> DEFINE s == stack[t]
           b == Top(t).bean
<1>1. b \in Bean BY TopFacts
<1>2. /\ r \in Seq(Frame) /\ StackOK(r)
      /\ \A p \in [Bean -> Nat] : Waits(r, p)
      /\ At(s, b) # {} /\ At(r, b) = {}
      /\ \A x \in Bean \ {b} :
           At(r, x) = At(s, x) /\ \A i \in At(s, x) : r[i].val = s[i].val
  <2>1. Ended(s, r, b) BY EndedStack
  <2> QED BY <2>1 DEF Ended
<1>4. At(s, b) # {} /\ At(r, b) = {} BY <1>2
<1>5. \A x \in Bean \ {b} :
        At(r, x) = At(s, x) /\ \A i \in At(s, x) : r[i].val = s[i].val
  BY <1>2
<1>3. /\ stack' = Deliver([stack EXCEPT ![t] = r], t, b, n) /\ b \in Singletons
      /\ singletons' = [singletons EXCEPT ![b] = n]
      /\ early' = [early EXCEPT ![b] = None]
      /\ inFlight' = [inFlight EXCEPT ![b] = {}]
  OBVIOUS
<1> HIDE DEF s, b
<1>7. /\ stack' \in [Thread -> Seq(Frame)] /\ stack'[t] = r
      /\ \A u \in Thread \ {t} : Woken(stack[u], stack'[u], b, n)
  BY <1>1, <1>2, <1>3, DeliverFacts
<1> USE DEF IInv
<1>8. /\ \A x \in Bean : singletons'[x] = IF x = b THEN n ELSE singletons[x]
      /\ \A x \in Bean : early'[x] = IF x = b THEN None ELSE early[x]
      /\ \A x \in Bean : inFlight'[x] = IF x = b THEN {} ELSE inFlight[x]
  BY <1>1, <1>3 DEF ContainerTypeOK
<1>9. ContainerTypeOK' /\ Waits(r, singletons')
  <2>1. /\ singletons' \in [Bean -> Nat] /\ early' \in [Bean -> Nat]
        /\ inFlight' \in [Bean -> SUBSET Thread]
    <3>1. None \in Nat BY DEF None
    <3>2. /\ singletons \in [Bean -> Nat] /\ early \in [Bean -> Nat]
          /\ inFlight \in [Bean -> SUBSET Thread]
      BY DEF ContainerTypeOK
    <3> QED BY <1>1, <1>3, <3>1, <3>2, ZenonT(40)
  <2>2. Waits(r, singletons') BY <1>2, <2>1
  <2> QED BY <2>1, <2>2, <1>7 DEF ContainerTypeOK, HistoryTypes
<1>10. StackInv'
  <2> SUFFICES ASSUME NEW u \in Thread PROVE StackOK(stack'[u]) BY DEF StackInv
  <2>1. CASE u = t BY <2>1, <1>2, <1>7
  <2>2. CASE u # t BY <2>2, <1>7 DEF Woken
  <2> QED BY <2>1, <2>2
\* Nothing was published of b while it was being created.
<1>11. At(s, b) # {} /\ inFlight[b] # {} /\ singletons[b] = None
  <2> QED BY <1>3, <1>4 DEF ClaimInv, s
<1>12. WaitInv'
  <2> SUFFICES ASSUME NEW u \in Thread \ {t} PROVE Waits(stack'[u], singletons')
    BY <1>7, <1>9 DEF WaitInv
  <2> SUFFICES ASSUME NEW i \in 1 .. Len(stack[u])
               PROVE  LET f == stack'[u][i]
                      IN  /\ f.phase \in {"wait", "got"} => f.bean \in Singletons
                          /\ f.phase = "got" /\ f.val # None => f.val = singletons'[f.bean]
    BY <1>7 DEF Waits, Woken
  <2>1. CASE stack'[u][i] = stack[u][i]
    <3>1. /\ stack[u][i].phase \in {"wait", "got"} => stack[u][i].bean \in Singletons
          /\ stack[u][i].phase = "got" /\ stack[u][i].val # None =>
               stack[u][i].val = singletons[stack[u][i].bean]
      BY DEF WaitInv, Waits
    <3>2. stack[u][i].bean \in Singletons => stack[u][i].bean \in Bean
      BY ContainerAssumption
    <3> QED BY <2>1, <3>1, <3>2, <1>8, <1>11
  <2>2. CASE /\ stack'[u][i].phase = "got" /\ stack'[u][i].bean = b
             /\ stack'[u][i].val = n
    BY <2>2, <1>1, <1>3, <1>8
  <2> QED BY <2>1, <2>2, <1>7 DEF Woken
<1>13. ASSUME NEW x \in Singletons PROVE ClaimsOf(x)'
  <2>0. x \in Bean BY ContainerAssumption
  <2>1. CASE x # b
    <3>1. \A u \in Thread : /\ At(stack'[u], x) = At(stack[u], x)
                            /\ \A i \in At(stack[u], x) : stack'[u][i].val = stack[u][i].val
      <4> TAKE u \in Thread
      <4>1. CASE u = t BY <4>1, <2>0, <2>1, <1>5, <1>7 DEF s
      <4>2. CASE u # t
        <5>1. Woken(stack[u], stack'[u], b, n) BY <4>2, <1>7
        <5> QED BY <2>0, <5>1 DEF Woken
      <4> QED BY <4>1, <4>2
    <3>2. inFlight'[x] = inFlight[x] /\ singletons'[x] = singletons[x] /\ early'[x] = early[x]
      BY <2>0, <2>1, <1>8
    <3> QED BY <3>1, <3>2, ClaimsKept
  <2>2. CASE x = b
    <3>1. inFlight'[b] = {} /\ early'[b] = None BY <1>1, <1>8
    <3>2. ASSUME NEW u \in Thread \ {t} PROVE At(stack[u], b) = {}
      <4>1. t \in inFlight[b] BY <1>3, <1>11 DEF ClaimInv, s
      <4>2. u \notin inFlight[b] BY <4>1, <1>3 DEF ClaimInv
      <4> QED BY <4>2, <1>3 DEF ClaimInv
    <3>3. \A u \in Thread : At(stack'[u], b) = {}
      <4> TAKE u \in Thread
      <4>1. CASE u = t BY <4>1, <1>4, <1>7
      <4>2. CASE u # t
        <5>1. Woken(stack[u], stack'[u], b, n) BY <4>2, <1>7
        <5>2. At(stack'[u], b) = At(stack[u], b) BY <1>1, <5>1 DEF Woken
        <5> QED BY <4>2, <3>2, <5>2
      <4> QED BY <4>1, <4>2
    <3> QED BY <2>2, <3>1, <3>3 DEF ClaimsOf
  <2> QED BY <2>1, <2>2
<1>14. \A x \in Bean \ Singletons :
         inFlight'[x] = {} /\ singletons'[x] = None /\ early'[x] = None
  BY <1>3, <1>8 DEF ClaimInv
<1>15. ClaimInv' BY <1>13, <1>14 DEF ClaimInv, ClaimsOf
<1> QED BY <1>9, <1>10, <1>12, <1>15

\* A prototype has no claim to drop.
LEMMA EndPrototypeInv ==
  ASSUME IInv, NEW t \in Thread, stack[t] # <<>>, Top(t).phase \in Creating,
         Top(t).bean \notin Singletons, NEW r,
         \/ \E i \in Instance : r = Answered(Front(stack[t]), i)
         \/ r = Failed(Front(stack[t])),
         stack' = [stack EXCEPT ![t] = r], UNCHANGED cacheVars, HistoryTypes'
  PROVE  IInv'
<1>1. Ended(stack[t], r, Top(t).bean) BY EndedStack
<1>2. singletons \in [Bean -> Nat] /\ Singletons \subseteq Bean \ {Top(t).bean}
  BY ContainerAssumption DEF IInv, ContainerTypeOK
<1>3. /\ r \in Seq(Frame) /\ StackOK(r) /\ Waits(r, singletons)
      /\ \A x \in Singletons : /\ At(r, x) = At(stack[t], x)
                               /\ \A i \in At(stack[t], x) : r[i].val = stack[t][i].val
  BY <1>1, <1>2 DEF Ended
<1> QED BY <1>3, Moved

\* A creation ends well.
LEMMA PublishInv ==
  ASSUME IInv, NEW t \in Thread, Publish(t)
  PROVE  IInv'
<1> DEFINE b == Top(t).bean
           i == <<b, Top(t).val>>
           rest == Front(stack[t])
           r == Answered(rest, i)
           mine == [stack EXCEPT ![t] = r]
<1>1. /\ stack[t] # <<>> /\ Top(t).phase = "inject"
      /\ Record(rest, i) /\ UNCHANGED <<made, calls, faults>>
      /\ IF b \in Singletons
         THEN /\ singletons' = [singletons EXCEPT ![b] = Top(t).val]
              /\ early' = [early EXCEPT ![b] = None]
              /\ inFlight' = [inFlight EXCEPT ![b] = {}]
              /\ stack' = Deliver(mine, t, b, Top(t).val)
         ELSE stack' = mine /\ UNCHANGED cacheVars
  BY DEF Publish, In
<1>2. i \in Instance /\ Top(t).val \in Nat /\ rest \in Seq(Frame) /\ Top(t).phase \in Creating
  BY <1>1, TopFacts, FrontFacts DEF Instance, Creating
<1>3. \E j \in Instance : r = Answered(Front(stack[t]), j) BY <1>2
<1> HIDE DEF i
<1>4. HistoryTypes' BY <1>1, <1>2, RecordFacts
<1> HIDE DEF r, rest
<1>5. CASE b \in Singletons BY <1>1, <1>2, <1>3, <1>4, <1>5, EndInv
<1>6. CASE b \notin Singletons BY <1>1, <1>2, <1>3, <1>4, <1>6, EndPrototypeInv
<1> QED BY <1>5, <1>6

\* A creation ends in an error.
LEMMA GiveUpInv ==
  ASSUME IInv, NEW t \in Thread, GiveUp(t)
  PROVE  IInv'
<1> DEFINE b == Top(t).bean
           r == Failed(Front(stack[t]))
           mine == [stack EXCEPT ![t] = r]
<1>1. /\ stack[t] # <<>> /\ Top(t).phase = "failed"
      /\ UNCHANGED <<singletons, historyVars, calls, faults>>
      /\ IF b \in Singletons
         THEN /\ early' = [early EXCEPT ![b] = None]
              /\ inFlight' = [inFlight EXCEPT ![b] = {}]
              /\ stack' = Deliver(mine, t, b, None)
         ELSE stack' = mine /\ UNCHANGED <<early, inFlight>>
  BY DEF GiveUp, In
<1>2. Top(t).phase \in Creating /\ None \in Nat BY <1>1 DEF Creating, None
<1>3. HistoryTypes' BY <1>1, HistorySame
<1> HIDE DEF r
<1>4. r = Failed(Front(stack[t])) BY DEF r
<1>5. CASE b \in Singletons
  <2>1. Ended(stack[t], r, b) BY <1>1, <1>2, <1>4, EndedStack
  <2>2. singletons[b] = None BY <1>5, <2>1 DEF Ended, IInv, ClaimInv
  <2>3. singletons' = [singletons EXCEPT ![b] = None]
    BY <1>1, <2>2 DEF IInv, ContainerTypeOK
  <2> QED BY <1>1, <1>2, <1>3, <1>4, <1>5, <2>3, EndInv
<1>6. CASE b \notin Singletons
  BY <1>1, <1>2, <1>3, <1>4, <1>6, EndPrototypeInv DEF cacheVars
<1> QED BY <1>5, <1>6

\* Every step keeps the invariant.
LEMMA StepInv ==
  ASSUME IInv, [Next]_vars
  PROVE  IInv'
<1>1. CASE UNCHANGED vars
  BY <1>1 DEF vars, cacheVars, historyVars, IInv, ContainerTypeOK, StackInv, ClaimInv, WaitInv
<1>2. ASSUME NEW t \in Thread, NEW b \in Roots, Call(t, b) PROVE IInv'
  BY <1>2, CallInv
<1>3. ASSUME NEW t \in Thread, Step(t) PROVE IInv'
  BY <1>3, ResolveInv, JoinInv, ClaimStepInv, ResolveNextInv, DependsOnDoneInv,
     InstantiateInv, PublishInv, GiveUpInv DEF Step
<1>4. ASSUME NEW t \in Thread, Misfortune(t) PROVE IInv'
  BY <1>4, ResolveInv, CreationFailsInv DEF Misfortune
<1> QED BY <1>1, <1>2, <1>3, <1>4 DEF Next

\* The invariant that ties stacks, claims and early instances holds throughout,
\* for any beans, dependencies and number of goroutines.
THEOREM ContainerInductive == Spec => []IInv
BY InitInv, StepInv, PTL DEF Spec

\* The container's maps and the goroutines' frames keep their types.
THEOREM ContainerTypeCorrect == Spec => []ContainerTypeOK
<1>1. IInv => ContainerTypeOK BY DEF IInv
<1> QED BY <1>1, ContainerInductive, PTL

\* The frames that create a singleton are at most one, which its claim names.
LEMMA InvOneCreator == IInv => OneCreator
<1> SUFFICES ASSUME IInv, NEW b \in Singletons
             PROVE  /\ Cardinality(CreatingFrames(b)) <= 1
                    /\ inFlight[b] = {c[1] : c \in CreatingFrames(b)}
                    /\ inFlight[b] # {} => singletons[b] = None
                    /\ early[b] # None =>
                         \E c \in CreatingFrames(b) : stack[c[1]][c[2]].val = early[b]
  BY DEF OneCreator
<1> DEFINE F == CreatingFrames(b)
<1>1. \A t \in Thread : DOMAIN stack[t] = 1 .. Len(stack[t]) /\ Len(stack[t]) \in Nat
  BY LenProperties DEF IInv, ContainerTypeOK
<1>2. \A c : c \in F <=> \E t \in Thread : \E i \in At(stack[t], b) : c = <<t, i>>
  <2> DEFINE G(t) == {j \in DOMAIN stack[t] :
                       stack[t][j].bean = b /\ stack[t][j].phase \in Creating}
  <2>1. \A t \in Thread : G(t) = At(stack[t], b) BY <1>1 DEF At
  <2>2. F = UNION {{<<t, i>> : i \in G(t)} : t \in Thread} BY DEF CreatingFrames
  <2> HIDE DEF G, F
  <2> DEFINE H(t) == {<<t, i>> : i \in G(t)}
  <2>3. \A t, c : c \in H(t) <=> \E i \in G(t) : c = <<t, i>> OBVIOUS
  <2>4. F = UNION {H(t) : t \in Thread} BY <2>2
  <2> HIDE DEF H
  <2>5. \A c : c \in F <=> \E t \in Thread : c \in H(t) BY <2>4
  <2> QED BY <2>1, <2>3, <2>5
<1>3. ClaimsOf(b) BY DEF IInv, ClaimInv, ClaimsOf
<1> HIDE DEF F
<1>4. ASSUME NEW c \in F, NEW d \in F PROVE c = d
  <2>1a. PICK t \in Thread : \E i \in At(stack[t], b) : c = <<t, i>> BY <1>2
  <2>1. PICK i \in At(stack[t], b) : c = <<t, i>> BY <2>1a
  <2>2a. PICK u \in Thread : \E j \in At(stack[u], b) : d = <<u, j>> BY <1>2
  <2>2. PICK j \in At(stack[u], b) : d = <<u, j>> BY <2>2a
  <2>3. t \in inFlight[b] /\ u \in inFlight[b] BY <1>3, <2>1, <2>2 DEF ClaimsOf
  <2>4. t = u BY <1>3, <2>3 DEF ClaimsOf
  <2>5. i = j
    <3>1. /\ i \in 1 .. Len(stack[t]) /\ j \in 1 .. Len(stack[t])
          /\ stack[t][i].bean = b /\ stack[t][i].phase \in Creating
          /\ stack[t][j].bean = b /\ stack[t][j].phase \in Creating
      BY <2>1, <2>2, <2>4 DEF At
    <3>2. ~ (i < j) /\ ~ (j < i) BY <3>1 DEF IInv, StackInv, StackOK, Distinct
    <3> QED BY <1>1, <3>1, <3>2
  <2> QED BY <2>1, <2>2, <2>4, <2>5
<1>5. Cardinality(F) <= 1
  <2>1. CASE F = {}
    <3>1. Cardinality(F) = 0 BY <2>1, FS_EmptySet, Zenon
    <3> QED BY <3>1
  <2>2. CASE F # {}
    <3>1. PICK c : c \in F BY <2>2
    <3>2. F = {c} BY <1>4, <3>1
    <3>3. Cardinality(F) = 1 BY <3>2, FS_Singleton, Zenon
    <3> QED BY <3>3
  <2> QED BY <2>1, <2>2
<1>6. inFlight[b] = {c[1] : c \in F}
  <2>1. ASSUME NEW t \in inFlight[b] PROVE t \in {c[1] : c \in F}
    <3>1. t \in Thread BY ContainerAssumption DEF IInv, ContainerTypeOK
    <3>2. PICK i : i \in At(stack[t], b) BY <1>3, <3>1 DEF ClaimsOf
    <3>3. <<t, i>> \in F /\ <<t, i>>[1] = t BY <1>2, <3>1, <3>2
    <3> QED BY <3>3
  <2>2. ASSUME NEW c \in F PROVE c[1] \in inFlight[b]
    <3>1a. PICK t \in Thread : \E i \in At(stack[t], b) : c = <<t, i>> BY <1>2
    <3>1. PICK i \in At(stack[t], b) : c = <<t, i>> BY <3>1a
    <3> QED BY <1>3, <3>1 DEF ClaimsOf
  <2> QED BY <2>1, <2>2
<1>7. early[b] # None => \E c \in F : stack[c[1]][c[2]].val = early[b]
  <2> SUFFICES ASSUME early[b] # None PROVE \E c \in F : stack[c[1]][c[2]].val = early[b]
    OBVIOUS
  <2>1a. PICK t \in Thread : \E i \in At(stack[t], b) : stack[t][i].val = early[b]
    BY <1>3 DEF ClaimsOf
  <2>1. PICK i \in At(stack[t], b) : stack[t][i].val = early[b] BY <2>1a
  <2>2. <<t, i>> \in F /\ <<t, i>>[1] = t /\ <<t, i>>[2] = i BY <1>2, <2>1
  <2> QED BY <2>1, <2>2
<1> QED BY <1>3, <1>5, <1>6, <1>7 DEF ClaimsOf, F

\* Every singleton has one creator at a time, the goroutine its claim names, and
\* neither claim nor early instance outlives that creation.
THEOREM SingleCreator == Spec => []OneCreator
BY ContainerInductive, InvOneCreator, PTL
-----------------------------------------------------------------------------
\* The first beans of seq exist, up to the n-th.
Exists(b, published) == b \in Singletons => published[b] # None
Met(seq, n, published) == \A j \in 1 .. Len(seq) : j < n => Exists(seq[j], published)

\* A creation in phase p has met the beans before its position, and a later one
\* has met them all.
After(p) == IF p = "dependsOn" THEN {"factory", "inject"} ELSE {"inject"}
HasMet(f, p, published) ==
  /\ f.phase = "enter" => f.next = 1
  /\ f.phase = p => Met(Deps(f.bean, p), f.next, published)
  /\ f.phase \in After(p) => Met(Deps(f.bean, p), Len(Deps(f.bean, p)) + 1, published)

MetStack(s, p, published) == \A i \in 1 .. Len(s) : HasMet(s[i], p, published)
MetInv(p) ==
  \A t \in Thread : MetStack(stack[t], p, singletons)

Preparing == {"dependsOn", "factory"}

\* Frames that stay, or leave the phases in which they ask, keep what was met.
LEMMA KeptStack ==
  ASSUME NEW p \in Preparing, NEW P, NEW Q,
         \A b \in Bean : P[b] # None => Q[b] # None,
         NEW s \in Seq(Frame), MetStack(s, p, P),
         NEW r \in Seq(Frame), Len(r) <= Len(s),
         \A i \in 1 .. Len(r) :
           /\ r[i].bean = s[i].bean
           /\ \/ r[i] = s[i]
              \/ r[i].phase \in {"wait", "got", "failed"}
              \/ HasMet(r[i], p, Q)
  PROVE  MetStack(r, p, Q)
<1>1. Len(r) \in Nat /\ Len(s) \in Nat BY LenProperties
<1>3. ASSUME NEW i \in 1 .. Len(r) PROVE HasMet(r[i], p, Q)
  <2>1. i \in 1 .. Len(s) /\ s[i] \in Frame BY <1>1, ElementOfSeq
  <2>2. CASE r[i] = s[i]
    <3> DEFINE d == Deps(s[i].bean, p)
    <3>1. HasMet(s[i], p, P) BY <2>1 DEF MetStack
    <3>2. d \in Seq(Bean) BY <2>1, DepsType DEF Frame
    <3> HIDE DEF d
    <3>3. ASSUME NEW j \in 1 .. Len(d), Exists(d[j], P) PROVE Exists(d[j], Q)
      BY <3>2, <3>3, ElementOfSeq DEF Exists
    <3>4. ASSUME NEW n, Met(d, n, P) PROVE Met(d, n, Q)
      BY <3>3, <3>4 DEF Met
    <3> QED BY <2>2, <3>1, <3>4 DEF HasMet, d
  <2>3. CASE r[i].phase \in {"wait", "got", "failed"}
    BY <2>3 DEF HasMet, After, Preparing
  <2> QED BY <2>2, <2>3
<1> QED BY <1>3 DEF MetStack

\* A bean that is entered was asked for, and has met nothing yet.
LEMMA PushedMet ==
  ASSUME NEW p \in Preparing, NEW P,
         NEW s \in Seq(Frame), MetStack(s, p, P), NEW b \in Bean
  PROVE  LET r == Append(s, NewFrame(b)) IN MetStack(r, p, P)
<1> DEFINE r == Append(s, NewFrame(b))
           n == Len(s)
<1>1. NewFrame(b) \in Frame BY DEF NewFrame, Frame, Phases, Instance, None
<1>2. /\ r \in Seq(Frame) /\ Len(r) = n + 1 /\ n \in Nat
      /\ r[n + 1] = NewFrame(b)
      /\ \A i \in 1 .. n : r[i] = s[i] /\ s[i] \in Frame
  BY <1>1, AppendProperties, LenProperties, ElementOfSeq
<1> HIDE DEF r, n
<1>5. MetStack(r, p, P)
  <2>1. HasMet(NewFrame(b), p, P) BY DEF HasMet, NewFrame, After, Preparing
  <2> QED BY <1>2, <2>1 DEF MetStack, n
<1> QED BY <1>5 DEF r

\* The frame that an answer, or an error, reaches.
LEMMA CallerFacts ==
  ASSUME NEW s \in Seq(Frame), s # <<>>, NEW i \in Instance
  PROVE  LET q == Front(s)
             n == Len(s)
             a == Answered(q, i)
             f == Failed(q)
         IN  n > 1 => /\ a[n - 1].phase = s[n - 1].phase
                      /\ a[n - 1].next = s[n - 1].next + 1
                      /\ a[n - 1].uses = IF s[n - 1].phase = "factory"
                                         THEN s[n - 1].uses \cup {i} ELSE s[n - 1].uses
                      /\ f[n - 1].phase = "failed"
<1> DEFINE q == Front(s)
           n == Len(s)
<1>1. /\ q \in Seq(Frame) /\ Len(q) = n - 1 /\ n \in Nat \ {0}
      /\ \A j \in 1 .. (n - 1) : q[j] = s[j]
  BY FrontFacts
<1> HIDE DEF q, n
<1> SUFFICES ASSUME n > 1
             PROVE  /\ Answered(q, i)[n - 1].phase = s[n - 1].phase
                    /\ Answered(q, i)[n - 1].next = s[n - 1].next + 1
                    /\ Answered(q, i)[n - 1].uses =
                         IF s[n - 1].phase = "factory"
                         THEN s[n - 1].uses \cup {i} ELSE s[n - 1].uses
                    /\ Failed(q)[n - 1].phase = "failed"
  BY DEF q, n
<1> DEFINE l == Last(q)
           u == IF l.phase = "factory" THEN l.uses \cup {i} ELSE l.uses
           g == [l EXCEPT !.next = @ + 1, !.uses = u]
           h == [l EXCEPT !.phase = "failed"]
<1>2. q # <<>> /\ n - 1 \in 1 .. (n - 1) BY <1>1, EmptySeq
<1>3. l = s[n - 1] /\ l \in Frame BY <1>1, <1>2, FrontFacts
<1>4. Failed(q) = SetTop(q, h) BY <1>2 DEF Failed
<1>5. Answered(q, i) = SetTop(q, g) BY <1>2, <1>3 DEF Answered, Frame
<1>6. /\ u \in SUBSET Instance
      /\ u = IF l.phase = "factory" THEN l.uses \cup {i} ELSE l.uses
  BY <1>3 DEF Frame
<1> HIDE DEF l, u
<1>7. h \in Frame /\ h.phase = "failed" BY <1>3 DEF Frame, Phases, Creating
<1>8. l.next + 1 \in Nat \ {0} BY <1>3 DEF Frame
<1>9. g \in Frame /\ g.phase = l.phase /\ g.next = l.next + 1 /\ g.uses = u
  BY <1>3, <1>6, <1>8 DEF Frame
<1> HIDE DEF g, h
<1>10. SetTop(q, h)[n - 1] = h /\ SetTop(q, g)[n - 1] = g
  <2>1. n - 1 \in 1 .. Len(q) /\ n - 1 = Len(q) BY <1>1, <1>2
  <2>2. \A x \in Frame : \A j \in 1 .. Len(q) : SetTop(q, x)[j] = IF j = Len(q) THEN x ELSE q[j]
    BY <1>1, <1>2, SetTopFacts
  <2> HIDE DEF n
  <2> QED BY <1>7, <1>9, <2>1, <2>2
<1> QED BY <1>3, <1>4, <1>5, <1>6, <1>7, <1>9, <1>10

\* The stack under a resolve that returns instance i of a bean that exists, or
\* that the caller did not need to exist.
LEMMA AnsweredMet ==
  ASSUME NEW p \in Preparing, NEW P, NEW Q,
         \A b \in Bean : P[b] # None => Q[b] # None,
         NEW s \in Seq(Frame), s # <<>>, StackOK(s), MetStack(s, p, P),
         NEW i \in Instance,
         Len(s) > 1 /\ s[Len(s) - 1].phase = p => Exists(s[Len(s)].bean, Q)
  PROVE  LET r == Answered(Front(s), i) IN MetStack(r, p, Q)
<1> DEFINE n == Len(s)
           r == Answered(Front(s), i)
<1>1. /\ r \in Seq(Frame) /\ Len(r) = n - 1
      /\ \A j \in 1 .. (n - 1) :
           /\ r[j].bean = s[j].bean
           /\ j < n - 1 => r[j] = s[j]
  <2>1. \E x \in Instance : r = Answered(Front(s), x) OBVIOUS
  <2> HIDE DEF r
  <2> QED BY <2>1, DropStack
<1>2. n > 1 => r[n - 1].phase = s[n - 1].phase /\ r[n - 1].next = s[n - 1].next + 1
  BY CallerFacts
<1>3. n \in Nat \ {0} /\ \A j \in 1 .. n : s[j] \in Frame BY FrontFacts
<1> HIDE DEF r, n
<1>4. ASSUME n > 1 PROVE HasMet(r[n - 1], p, Q)
  <2> DEFINE f == s[n - 1]
             d == Deps(f.bean, p)
  <2>1. f \in Frame /\ HasMet(f, p, P) /\ f.phase \in {"dependsOn", "factory", "inject"}
    <3>1. n - 1 \in 1 .. n /\ n - 1 \in 1 .. (n - 1) BY <1>3, <1>4
    <3>2. f \in Frame BY <1>3, <3>1
    <3>3. HasMet(f, p, P) BY <3>1 DEF MetStack, n
    <3>4. f.phase \in {"dependsOn", "factory", "inject"} BY <3>1 DEF StackOK, Above, n
    <3> QED BY <3>2, <3>3, <3>4
  <2>2. d \in Seq(Bean) /\ Len(d) \in Nat BY <2>1, DepsType DEF Frame
  <2>3. f.phase = p => f.next <= Len(d) /\ d[f.next] = s[n].bean
    BY <1>3, <1>4 DEF n, StackOK, Above
  <2>4. f.next \in Nat \ {0} BY <2>1 DEF Frame
  <2>5. r[n - 1].bean = f.bean /\ r[n - 1].phase = f.phase /\ r[n - 1].next = f.next + 1
    BY <1>1, <1>2, <1>3, <1>4
  <2>6. f.phase = p => Exists(s[n].bean, Q) BY <1>4 DEF n
  <2>7. HasMet(f, p, P) => /\ f.phase = p => Met(d, f.next, P)
                           /\ f.phase \in After(p) => Met(d, Len(d) + 1, P)
    BY DEF HasMet
  <2> HIDE DEF d, f
  <2>8. ASSUME NEW j \in 1 .. Len(d), Exists(d[j], P) PROVE Exists(d[j], Q)
    BY <2>2, <2>8, ElementOfSeq DEF Exists
  <2>9. ASSUME f.phase = p PROVE Met(d, f.next + 1, Q)
    <3>1. SUFFICES ASSUME NEW j \in 1 .. Len(d), j < f.next + 1 PROVE Exists(d[j], Q)
      BY DEF Met
    <3>2. CASE j < f.next BY <2>1, <2>7, <2>8, <2>9, <3>2 DEF Met
    <3>3. CASE j = f.next BY <2>3, <2>6, <2>9, <3>3
    <3> QED BY <2>4, <3>1, <3>2, <3>3
  <2>10. ASSUME f.phase \in After(p) PROVE Met(d, Len(d) + 1, Q)
    BY <2>1, <2>7, <2>8, <2>10 DEF Met
  <2> QED BY <2>1, <2>5, <2>9, <2>10 DEF HasMet, d, f
<1>5. ASSUME NEW j \in 1 .. (n - 1) PROVE r[j] = s[j] \/ HasMet(r[j], p, Q)
  BY <1>1, <1>3, <1>4
<1>6. MetStack(r, p, Q)
  <2>1. Len(r) <= Len(s) BY <1>1, <1>3 DEF n
  <2>2. \A j \in 1 .. Len(r) :
          /\ r[j].bean = s[j].bean
          /\ r[j] = s[j] \/ r[j].phase \in {"wait", "got", "failed"} \/ HasMet(r[j], p, Q)
    BY <1>1, <1>5
  <2> QED BY <1>1, <2>1, <2>2, KeptStack
<1> QED BY <1>6 DEF r

\* The stack under a resolve that fails.
LEMMA FailedMet ==
  ASSUME NEW p \in Preparing, NEW P, NEW Q,
         \A b \in Bean : P[b] # None => Q[b] # None,
         NEW s \in Seq(Frame), s # <<>>, StackOK(s), MetStack(s, p, P)
  PROVE  LET r == Failed(Front(s)) IN MetStack(r, p, Q)
<1> DEFINE n == Len(s)
           r == Failed(Front(s))
<1>1. /\ r \in Seq(Frame) /\ Len(r) = n - 1
      /\ \A j \in 1 .. (n - 1) : r[j].bean = s[j].bean /\ (j < n - 1 => r[j] = s[j])
  BY DropStack
<1>2. n > 1 => r[n - 1].phase = "failed"
  <2>1. PICK i : i \in Instance
    <3>1. s[Len(s)] \in Frame BY FrontFacts
    <3>2. <<s[Len(s)].bean, 0>> \in Instance BY <3>1 DEF Frame, Instance
    <3> QED BY <3>2
  <2> QED BY <2>1, CallerFacts
<1>3. n \in Nat \ {0} BY FrontFacts
<1> HIDE DEF r, n
<1>4. MetStack(r, p, Q)
  <2>1. Len(r) <= Len(s) BY <1>1, <1>3 DEF n
  <2>2. \A j \in 1 .. Len(r) :
          /\ r[j].bean = s[j].bean
          /\ r[j] = s[j] \/ r[j].phase \in {"wait", "got", "failed"} \/ HasMet(r[j], p, Q)
    <3> TAKE j \in 1 .. Len(r)
    <3>1. j \in 1 .. (n - 1) BY <1>1
    <3>2. CASE j < n - 1 BY <1>1, <3>1, <3>2
    <3>3. CASE j = n - 1 BY <1>1, <1>2, <1>3, <3>1, <3>3
    <3> QED BY <1>3, <3>1, <3>2, <3>3
  <2> QED BY <1>1, <2>1, <2>2, KeptStack
<1> QED BY <1>4 DEF r

\* An early instance is given only to what its injector resolves, directly or
\* not: never to a bean that must come after it.
LEMMA EarlyOnlyInside ==
  ASSUME IInv, NEW p \in Preparing, NoWayBack(p),
         NEW t \in Thread, stack[t] # <<>>, 
         Top(t).bean \in Active(t), AllowCircular, early[Top(t).bean] # None
  PROVE  LET n == Len(stack[t])
         IN  n > 1 /\ stack[t][n - 1].phase # p
<1> DEFINE s == stack[t]
           n == Len(s)
           b == Top(t).bean
<1>1. /\ s \in Seq(Frame) /\ StackOK(s) /\ n \in Nat \ {0} /\ Top(t) = s[n] /\ b \in Bean
      /\ \A i \in 1 .. n : s[i] \in Frame
  BY TopFacts, FrontFacts
<1>2. PICK k \in 1 .. (n - 1) : s[k].bean = b BY DEF Active
<1>3. b \in Singletons BY <1>1 DEF IInv, ClaimInv
<1>4a. PICK u \in Thread : \E i \in At(stack[u], b) : stack[u][i].val = early[b]
  BY <1>3 DEF IInv, ClaimInv
<1>4. PICK i \in At(stack[u], b) : stack[u][i].val = early[b] BY <1>4a
<1>5. s[k].phase \in {"dependsOn", "factory", "inject"}
  BY <1>1, <1>2 DEF StackOK, Above
<1>6. k \in At(s, b) BY <1>1, <1>2, <1>5 DEF At, Creating
<1>7. u = t
  <2>1. u \in inFlight[b] /\ t \in inFlight[b] BY <1>3, <1>4, <1>6 DEF IInv, ClaimInv
  <2> QED BY <1>3, <2>1 DEF IInv, ClaimInv
<1>8. i = k
  <2>1. /\ i \in 1 .. n /\ s[i].bean = b /\ s[i].phase \in Creating
        /\ k \in 1 .. n /\ s[k].bean = b /\ s[k].phase \in Creating
    BY <1>4, <1>6, <1>7 DEF At
  <2>2. ~ (i < k) /\ ~ (k < i) BY <1>1, <2>1 DEF StackOK, Distinct
  <2> QED BY <1>1, <2>1, <2>2
<1>9. s[k].phase = "inject"
  <2>1. s[k].val # None BY <1>4, <1>7, <1>8
  <2> QED BY <1>1, <1>2, <1>5, <2>1 DEF StackOK, Objects
<1>10. n > 1 BY <1>1, <1>2
<1>11. ASSUME s[n - 1].phase = p PROVE FALSE
  <2> DEFINE a == s[n - 1].bean
             e == s[k + 1].bean
  <2>1. k # n - 1 BY <1>9, <1>11 DEF Preparing
  <2>2. k + 1 \in 1 .. (n - 1) /\ n - 1 \in 1 .. (n - 1) BY <1>1, <1>2, <2>1
  <2>3. a \in Bean /\ e \in Bean /\ s[n - 1].next \in Nat \ {0} /\ s[k].next \in Nat \ {0}
    <3>1. n - 1 \in 1 .. n /\ k + 1 \in 1 .. n /\ k \in 1 .. n BY <1>1, <1>2, <2>2
    <3>2. s[n - 1] \in Frame /\ s[k + 1] \in Frame /\ s[k] \in Frame BY <1>1, <3>1
    <3> QED BY <3>2 DEF Frame
  <2>4. e \in Range(InjectDeps[b])
    <3>1. s[k].next <= Len(Deps(b, "inject")) /\ Deps(b, "inject")[s[k].next] = e
      BY <1>1, <1>2, <1>9 DEF StackOK, Above
    <3>2. Deps(b, "inject") = InjectDeps[b] BY DEF Deps
    <3>3. InjectDeps[b] \in Seq(Bean) BY <1>1, ContainerAssumption
    <3>4. DOMAIN InjectDeps[b] = 1 .. Len(InjectDeps[b]) /\ Len(InjectDeps[b]) \in Nat
      BY <3>3, LenProperties
    <3>5. s[k].next \in DOMAIN InjectDeps[b] BY <2>3, <3>1, <3>2, <3>4
    <3> QED BY <3>1, <3>2, <3>5 DEF Range
  <2>5. b \in Range(Deps(a, p))
    <3>1. s[n - 1].next <= Len(Deps(a, p)) /\ Deps(a, p)[s[n - 1].next] = b
      <4>1. /\ s[n - 1].next <= Len(Deps(a, s[n - 1].phase))
            /\ Deps(a, s[n - 1].phase)[s[n - 1].next] = s[(n - 1) + 1].bean
        BY <1>1, <2>2 DEF StackOK, Above
      <4>2. (n - 1) + 1 = n BY <1>1
      <4> QED BY <1>1, <1>11, <4>1, <4>2
    <3>2. Deps(a, p) \in Seq(Bean) BY <2>3, DepsType
    <3>3. DOMAIN Deps(a, p) = 1 .. Len(Deps(a, p)) /\ Len(Deps(a, p)) \in Nat
      BY <3>2, LenProperties
    <3>4. s[n - 1].next \in DOMAIN Deps(a, p) BY <2>3, <3>1, <3>3
    <3> QED BY <3>1, <3>4 DEF Range
  <2>6. <<e, a>> \in Leads
    <3>1. n - 1 \in 1 .. n /\ k + 1 \in 1 .. n /\ k + 1 <= n - 1 BY <1>1, <1>2, <2>2
    <3>2. Chained(s) BY <1>1 DEF StackOK
    <3> HIDE DEF s, n
    <3> QED BY <3>1, <3>2 DEF Chained, n, a, e
  <2> HIDE DEF a, e
  <2> QED BY <1>3, <2>3, <2>4, <2>5, <2>6 DEF NoWayBack
<1> QED BY <1>10, <1>11

\* A step of one goroutine that publishes nothing.
LEMMA MetMoved ==
  ASSUME IInv, NEW p \in Preparing, MetInv(p), NEW t \in Thread, NEW r,
         stack' = [stack EXCEPT ![t] = r], singletons' = singletons,
         MetStack(r, p, singletons)
  PROVE  MetInv(p)'
<1>1. stack'[t] = r /\ \A u \in Thread \ {t} : stack'[u] = stack[u]
  BY DEF IInv, ContainerTypeOK
<1> QED BY <1>1 DEF MetInv

\* Its innermost frame goes on.
LEMMA MetTurned ==
  ASSUME IInv, NEW p \in Preparing, MetInv(p), NEW t \in Thread, stack[t] # <<>>,
         NEW f \in Frame, f.bean = Top(t).bean,
         f.phase \in {"wait", "failed"} \/ HasMet(f, p, singletons),
         stack' = [stack EXCEPT ![t] = SetTop(@, f)], singletons' = singletons
  PROVE  MetInv(p)'
<1> DEFINE s == stack[t]
           n == Len(s)
           r == SetTop(s, f)
<1>1. s \in Seq(Frame) /\ n \in Nat \ {0} /\ Top(t) = s[n] BY TopFacts
<1>2. /\ r \in Seq(Frame) /\ Len(r) = n
      /\ \A i \in 1 .. n : r[i] = IF i = n THEN f ELSE s[i]
  BY <1>1, SetTopFacts
<1>3. MetStack(s, p, singletons) BY DEF MetInv
<1>4. stack' = [stack EXCEPT ![t] = r] OBVIOUS
<1> HIDE DEF r, s, n
<1>5. \A i \in 1 .. Len(r) :
        /\ r[i].bean = s[i].bean
        /\ r[i] = s[i] \/ r[i].phase \in {"wait", "got", "failed"} \/ HasMet(r[i], p, singletons)
  BY <1>1, <1>2
<1>6. Len(r) <= Len(s) BY <1>1, <1>2 DEF n
<1>7. MetStack(r, p, singletons)
  BY <1>1, <1>2, <1>3, <1>5, <1>6, KeptStack
<1> QED BY <1>4, <1>7, MetMoved DEF s

\* What a goroutine enters is a bean.
LEMMA Entering ==
  ASSUME IInv, NEW t \in Thread,
         \/ \E b \in Roots : Call(t, b)
         \/ ResolveNext(t)
  PROVE  \E b \in Bean : Push(t, b)
<1>1. ASSUME NEW b \in Roots, Call(t, b) PROVE b \in Bean /\ Push(t, b)
  BY <1>1, ContainerAssumption DEF Call
<1>2. ASSUME ResolveNext(t) PROVE \E b \in Bean : Push(t, b)
  <2> DEFINE l == Top(t)
             b == Deps(l.bean, l.phase)[l.next]
  <2>1. Working(t) /\ ~ DepsDone(t) /\ Push(t, b) BY <1>2 DEF ResolveNext
  <2>2. l.phase \in {"dependsOn", "factory", "inject"} /\ l \in Frame
    BY <2>1, TopFacts DEF Working
  <2>3. /\ l.bean \in Bean /\ l.next \in Nat \ {0}
        /\ Len(Deps(l.bean, l.phase)) \in Nat
    BY <2>2, DepsType DEF Frame
  <2>4. l.next <= Len(Deps(l.bean, l.phase)) BY <2>1, <2>3 DEF DepsDone
  <2>5. b \in Bean BY <2>2, <2>3, <2>4, AskedFacts
  <2> QED BY <2>1, <2>5
<1> QED BY <1>1, <1>2

\* It enters another bean.
LEMMA MetPushed ==
  ASSUME IInv, NEW p \in Preparing, MetInv(p), NEW t \in Thread,
         \/ \E b \in Roots : Call(t, b)
         \/ ResolveNext(t)
  PROVE  MetInv(p)'
<1> DEFINE s == stack[t]
<1>1. PICK b \in Bean : Push(t, b) BY Entering
<1>2. s \in Seq(Frame) BY DEF IInv, ContainerTypeOK
<1>3. MetStack(s, p, singletons) BY DEF MetInv
<1> DEFINE r == Append(s, NewFrame(b))
<1>4. stack' = [stack EXCEPT ![t] = r] BY <1>1 DEF Push
<1>5. MetStack(r, p, singletons) BY <1>1, <1>2, <1>3, PushedMet
<1>6. singletons' = singletons BY DEF Call, ResolveNext, cacheVars
<1> HIDE DEF r
<1> QED BY <1>4, <1>5, <1>6, MetMoved

\* Its innermost resolve returns an instance that exists, or an early one.
LEMMA MetReply ==
  ASSUME IInv, NEW p \in Preparing, MetInv(p), NEW t \in Thread, stack[t] # <<>>,
         NEW n \in Nat, Reply(t, n), singletons' = singletons,
         \/ Exists(Top(t).bean, singletons)
         \/ Len(stack[t]) > 1 /\ stack[t][Len(stack[t]) - 1].phase # p
  PROVE  MetInv(p)'
<1> DEFINE s == stack[t]
           i == <<Top(t).bean, n>>
           r == Answered(Front(s), i)
<1>1. /\ s \in Seq(Frame) /\ StackOK(s) /\ Top(t) = s[Len(s)] /\ i \in Instance
  BY TopFacts DEF Instance
<1>2. MetStack(s, p, singletons) BY DEF MetInv
<1>3. stack' = [stack EXCEPT ![t] = r] BY DEF Reply
<1> HIDE DEF i
<1>4. MetStack(r, p, singletons) BY <1>1, <1>2, AnsweredMet
<1> HIDE DEF r
<1> QED BY <1>3, <1>4, MetMoved

\* Its innermost resolve fails.
LEMMA MetError ==
  ASSUME IInv, NEW p \in Preparing, MetInv(p), NEW t \in Thread, stack[t] # <<>>,
         Error(t), singletons' = singletons
  PROVE  MetInv(p)'
<1> DEFINE s == stack[t]
           r == Failed(Front(s))
<1>1. s \in Seq(Frame) /\ StackOK(s) BY TopFacts
<1>2. MetStack(s, p, singletons) BY DEF MetInv
<1>3. stack' = [stack EXCEPT ![t] = r] BY DEF Error
<1>4. MetStack(r, p, singletons) BY <1>1, <1>2, FailedMet
<1> HIDE DEF r
<1> QED BY <1>3, <1>4, MetMoved

\* A creation ends, well or not, and wakes those who wait for it.
LEMMA MetEnd ==
  ASSUME IInv, NEW p \in Preparing, MetInv(p), NEW t \in Thread, stack[t] # <<>>,
         NEW r \in Seq(Frame), NEW n \in Nat,
         stack' = Deliver([stack EXCEPT ![t] = r], t, Top(t).bean, n),
         \A b \in Bean : singletons[b] # None => singletons'[b] # None,
         MetStack(r, p, singletons')
  PROVE  MetInv(p)'
<1> DEFINE b == Top(t).bean
<1>1. b \in Bean BY TopFacts
<1> HIDE DEF b
<1>2. stack'[t] = r /\ \A u \in Thread \ {t} : Woken(stack[u], stack'[u], b, n)
  BY <1>1, DeliverFacts DEF b
<1>3. ASSUME NEW u \in Thread
      PROVE  MetStack(stack'[u], p, singletons')
  <2>1. CASE u = t BY <1>2, <2>1
  <2>2. CASE u # t
    <3> DEFINE s == stack[u]
               q == stack'[u]
    <3>1. s \in Seq(Frame) /\ Len(s) \in Nat BY LenProperties DEF IInv, ContainerTypeOK
    <3>2. MetStack(s, p, singletons) BY DEF MetInv
    <3>3. Woken(s, q, b, n) BY <1>2, <2>2
    <3> HIDE DEF s, q
    <3>4. /\ q \in Seq(Frame) /\ Len(q) <= Len(s)
          /\ \A i \in 1 .. Len(q) : /\ q[i].bean = s[i].bean
                                    /\ q[i] = s[i] \/ q[i].phase = "got"
      BY <3>1, <3>3 DEF Woken
    <3>5. MetStack(q, p, singletons')
      BY <3>1, <3>2, <3>4, KeptStack
    <3> QED BY <3>5 DEF q
  <2> QED BY <2>1, <2>2
<1> QED BY <1>3 DEF MetInv

\* Its factory, or its injector, is entered with all met that came before.
LEMMA MetGoesOn ==
  ASSUME IInv, NEW p \in Preparing, MetInv(p), NEW t \in Thread,
         DependsOnDone(t) \/ Instantiate(t)
  PROVE  MetInv(p)'
<1> DEFINE l == Top(t)
           d == Deps(l.bean, p)
<1>1. /\ stack[t] # <<>> /\ DepsDone(t) /\ singletons' = singletons
      /\ l.phase = IF DependsOnDone(t) THEN "dependsOn" ELSE "factory"
  <2>1. DependsOnDone(t) => /\ stack[t] # <<>> /\ l.phase = "dependsOn"
                            /\ DepsDone(t) /\ singletons' = singletons
    BY DEF DependsOnDone, In, cacheVars
  <2>2. Instantiate(t) => /\ stack[t] # <<>> /\ l.phase = "factory"
                          /\ DepsDone(t) /\ singletons' = singletons
    BY DEF Instantiate, In
  <2> QED BY <2>1, <2>2
<1>2. l \in Frame BY <1>1, TopFacts
<1>3. HasMet(l, p, singletons)
  <2>1. l = stack[t][Len(stack[t])] /\ Len(stack[t]) \in 1 .. Len(stack[t]) BY <1>1, TopFacts
  <2> QED BY <2>1 DEF MetInv, MetStack
<1>4. d \in Seq(Bean) /\ Len(d) \in Nat BY <1>2, DepsType DEF Frame
<1>5. l.phase = p => l.next > Len(d) BY <1>1 DEF DepsDone
<1>6. /\ l.phase = p => Met(d, l.next, singletons)
      /\ l.phase \in After(p) => Met(d, Len(d) + 1, singletons)
      /\ l.next \in Nat
  BY <1>2, <1>3 DEF HasMet, Frame
<1>7. \A f \in Frame : f.bean = l.bean /\ d = Deps(f.bean, p) <=> f.bean = l.bean
  OBVIOUS
<1> HIDE DEF d
<1>8. l.phase \in {p} \cup After(p) => Met(d, Len(d) + 1, singletons)
  <2>1. l.phase = p => \A j \in 1 .. Len(d) : j < l.next BY <1>4, <1>5, <1>6
  <2> QED BY <1>6, <2>1 DEF Met
<1>9. CASE DependsOnDone(t)
  <2> DEFINE f == [l EXCEPT !.phase = "factory", !.next = 1]
  <2>1. f \in Frame /\ f.bean = l.bean /\ f.phase = "factory" /\ f.next = 1
    <3> HIDE DEF l
    <3>1. "factory" \in Phases /\ 1 \in Nat \ {0} BY DEF Phases, Creating
    <3>2. f \in Frame BY <1>2, <3>1 DEF Frame
    <3>3. f.bean = l.bean /\ f.phase = "factory" /\ f.next = 1 BY <1>2 DEF Frame
    <3> QED BY <3>2, <3>3
  <2>2. stack' = [stack EXCEPT ![t] = SetTop(@, f)] BY <1>9 DEF DependsOnDone
  <2> HIDE DEF f
  <2>3. HasMet(f, p, singletons)
    <3>1. Met(d, 1, singletons) BY <1>4 DEF Met
    <3>2. p = "dependsOn" => Met(d, Len(d) + 1, singletons) BY <1>1, <1>8, <1>9
    <3>3. d = Deps(f.bean, p) BY <2>1 DEF d
    <3> QED BY <2>1, <3>1, <3>2, <3>3 DEF HasMet, After, Preparing
  <2> QED BY <1>1, <2>1, <2>2, <2>3, MetTurned
<1>10. CASE ~ DependsOnDone(t)
  <2> DEFINE m == made[l.bean] + 1
             h == [l EXCEPT !.phase = "inject", !.next = 1]
             f == [l EXCEPT !.phase = "inject", !.next = 1, !.val = m, !.uses = {}]
  <2>1. f \in Frame /\ f.bean = l.bean /\ f.phase = "inject"
    <3>1. m \in Nat BY <1>2 DEF IInv, ContainerTypeOK, Frame
    <3>2. f = [h EXCEPT !.val = m, !.uses = {}] BY <1>2 DEF Frame
    <3> HIDE DEF l, m, f
    <3>3. h \in Frame /\ h.bean = l.bean /\ h.phase = "inject"
      <4>1. "inject" \in Phases /\ 1 \in Nat \ {0} BY DEF Phases, Creating
      <4> QED BY <1>2, <4>1 DEF Frame
    <3> HIDE DEF h
    <3>4. f \in Frame /\ f.bean = h.bean /\ f.phase = h.phase
      BY <3>1, <3>2, <3>3 DEF Frame
    <3> QED BY <3>3, <3>4
  <2>2. stack' = [stack EXCEPT ![t] = SetTop(@, f)] BY <1>10 DEF Instantiate
  <2> HIDE DEF f
  <2>3. HasMet(f, p, singletons)
    <3>1. Met(d, Len(d) + 1, singletons) BY <1>1, <1>8, <1>10 DEF After, Preparing
    <3>2. d = Deps(f.bean, p) BY <2>1 DEF d
    <3> QED BY <2>1, <3>1, <3>2 DEF HasMet, Preparing
  <2> QED BY <1>1, <2>1, <2>2, <2>3, MetTurned
<1> QED BY <1>9, <1>10

\* What exists stays, and what is published exists.
LEMMA MetPublished ==
  ASSUME IInv, NEW p \in Preparing, MetInv(p), NEW t \in Thread, Publish(t)
  PROVE  MetInv(p)'
<1> DEFINE s == stack[t]
           b == Top(t).bean
           i == <<b, Top(t).val>>
           r == Answered(Front(s), i)
<1>1. /\ s # <<>> /\ Top(t).phase = "inject"
      /\ IF b \in Singletons
         THEN /\ singletons' = [singletons EXCEPT ![b] = Top(t).val]
              /\ stack' = Deliver([stack EXCEPT ![t] = r], t, b, Top(t).val)
         ELSE stack' = [stack EXCEPT ![t] = r] /\ singletons' = singletons
  BY DEF Publish, In, cacheVars
<1>2. /\ s \in Seq(Frame) /\ StackOK(s) /\ Top(t) = s[Len(s)] /\ Len(s) \in Nat \ {0}
      /\ b \in Bean /\ Top(t).val \in Nat
  BY <1>1, TopFacts
<1>3. i \in Instance BY <1>2 DEF Instance
<1>4. Top(t).val # None BY <1>1, <1>2 DEF StackOK, Objects
<1>5. MetStack(s, p, singletons) BY DEF MetInv
<1>6. singletons \in [Bean -> Nat] BY DEF IInv, ContainerTypeOK
<1>7. \A x \in Bean : singletons[x] # None => singletons'[x] # None
  BY <1>1, <1>2, <1>4, <1>6
<1>8. Exists(b, singletons') BY <1>1, <1>2, <1>4, <1>6 DEF Exists
<1>9. r \in Seq(Frame) BY <1>1, <1>2, <1>3, DropStack
<1> HIDE DEF i
<1>10. MetStack(r, p, singletons')
  BY <1>1, <1>2, <1>3, <1>5, <1>7, <1>8, AnsweredMet
<1> HIDE DEF r
<1>11. CASE b \in Singletons BY <1>1, <1>2, <1>7, <1>9, <1>10, <1>11, MetEnd
<1>12. CASE b \notin Singletons BY <1>1, <1>10, <1>12, MetMoved
<1> QED BY <1>11, <1>12

\* A creation that failed publishes nothing.
LEMMA MetGivenUp ==
  ASSUME IInv, NEW p \in Preparing, MetInv(p), NEW t \in Thread, GiveUp(t)
  PROVE  MetInv(p)'
<1> DEFINE s == stack[t]
           b == Top(t).bean
           r == Failed(Front(s))
<1>1. /\ s # <<>> /\ singletons' = singletons
      /\ IF b \in Singletons
         THEN stack' = Deliver([stack EXCEPT ![t] = r], t, b, None)
         ELSE stack' = [stack EXCEPT ![t] = r]
  BY DEF GiveUp, In
<1>2. s \in Seq(Frame) /\ StackOK(s) /\ None \in Nat BY <1>1, TopFacts DEF None
<1>3. MetStack(s, p, singletons) BY DEF MetInv
<1>4. r \in Seq(Frame) BY <1>1, <1>2, DropStack
<1>5. MetStack(r, p, singletons) BY <1>1, <1>2, <1>3, FailedMet
<1> HIDE DEF r
<1>6. CASE b \in Singletons BY <1>1, <1>2, <1>4, <1>5, <1>6, MetEnd
<1>7. CASE b \notin Singletons BY <1>1, <1>5, <1>7, MetMoved
<1> QED BY <1>6, <1>7

\* Every step keeps what each creation has met.
LEMMA MetStep ==
  ASSUME IInv, NEW p \in Preparing, NoWayBack(p), MetInv(p),
         [Next]_vars
  PROVE  MetInv(p)'
<1>1. CASE UNCHANGED vars BY <1>1 DEF vars, cacheVars, MetInv
<1>2. ASSUME NEW t \in Thread, NEW b \in Roots, Call(t, b) PROVE MetInv(p)'
  BY <1>2, MetPushed
<1>3. ASSUME NEW t \in Thread,
             ResolveCancelled(t) \/ WaitCancelled(t) \/ ResolveCircular(t)
      PROVE  MetInv(p)'
  BY <1>3, MetError DEF ResolveCancelled, WaitCancelled, ResolveCircular, In, cacheVars
<1>4. ASSUME NEW t \in Thread, ResolveEarly(t) PROVE MetInv(p)'
  <2>1. /\ stack[t] # <<>> /\ Top(t).bean \in Active(t) /\ AllowCircular
        /\ early[Top(t).bean] # None /\ Reply(t, early[Top(t).bean])
        /\ singletons' = singletons
    BY <1>4 DEF ResolveEarly, In, cacheVars
  <2>2. early[Top(t).bean] \in Nat BY <2>1, TopFacts DEF IInv, ContainerTypeOK
  <2>4. Len(stack[t]) > 1 /\ stack[t][Len(stack[t]) - 1].phase # p
    BY <2>1, EarlyOnlyInside
  <2> QED BY <2>1, <2>2, <2>4, MetReply
<1>5. ASSUME NEW t \in Thread, ResolveCached(t) PROVE MetInv(p)'
  <2>1. /\ stack[t] # <<>> /\ singletons[Top(t).bean] # None
        /\ Reply(t, singletons[Top(t).bean]) /\ singletons' = singletons
    BY <1>5 DEF ResolveCached, Entered, In, cacheVars
  <2>2. singletons[Top(t).bean] \in Nat BY <2>1, TopFacts DEF IInv, ContainerTypeOK
  <2>3. Exists(Top(t).bean, singletons) BY <2>1 DEF Exists
  <2> QED BY <2>1, <2>2, <2>3, MetReply
<1>6. ASSUME NEW t \in Thread, Wake(t) PROVE MetInv(p)'
  <2>1. stack[t] # <<>> /\ Top(t).phase = "got" /\ singletons' = singletons
    BY <1>6 DEF Wake, In, cacheVars
  <2>2. CASE Error(t) BY <2>1, <2>2, MetError
  <2>3. CASE Top(t).val # None /\ Reply(t, Top(t).val)
    <3>1. Top(t).val = singletons[Top(t).bean] /\ Top(t).val \in Nat
      BY <2>1, <2>3, TopFacts DEF Waits
    <3>2. Exists(Top(t).bean, singletons) BY <2>3, <3>1 DEF Exists
    <3> QED BY <2>1, <2>3, <3>1, <3>2, MetReply
  <2> QED BY <1>6, <2>2, <2>3 DEF Wake
<1>7. ASSUME NEW t \in Thread, Join(t) \/ Claim(t) \/ CreationFails(t) PROVE MetInv(p)'
  <2> DEFINE l == Top(t)
             f(x) == [l EXCEPT !.phase = x]
  <2>1. /\ stack[t] # <<>> /\ singletons' = singletons
        /\ \/ stack' = [stack EXCEPT ![t] = SetTop(@, f("wait"))]
           \/ stack' = [stack EXCEPT ![t] = SetTop(@, f("failed"))]
           \/ /\ stack' = [stack EXCEPT ![t] = SetTop(@, f("dependsOn"))]
              /\ l.phase = "enter"
    BY <1>7 DEF Join, Claim, CreationFails, Entered, In, cacheVars
  <2>2. l \in Frame BY <2>1, TopFacts
  <2>3. HasMet(l, p, singletons)
    <3>1. l = stack[t][Len(stack[t])] /\ Len(stack[t]) \in 1 .. Len(stack[t])
      BY <2>1, TopFacts
    <3> QED BY <3>1 DEF MetInv, MetStack
  <2>4. Deps(l.bean, p) \in Seq(Bean) BY <2>2, DepsType DEF Frame
  <2> HIDE DEF l
  <2>5. \A x \in Phases : f(x) \in Frame /\ f(x).bean = l.bean /\ f(x).phase = x
                          /\ f(x).next = l.next
    BY <2>2 DEF Frame
  <2>6. {"wait", "failed", "dependsOn"} \subseteq Phases BY DEF Phases, Creating
  <2>7. l.phase = "enter" => HasMet(f("dependsOn"), p, singletons)
    <3>1. Met(Deps(l.bean, p), 1, singletons) BY <2>4, LenProperties DEF Met
    <3> QED BY <2>3, <2>5, <2>6, <3>1 DEF HasMet, After, Preparing
  <2> HIDE DEF f
  <2> QED BY <2>1, <2>5, <2>6, <2>7, MetTurned DEF l
<1>8. ASSUME NEW t \in Thread, Step(t) PROVE MetInv(p)'
  BY <1>8, <1>3, <1>4, <1>5, <1>6, <1>7, MetPushed, MetGoesOn, MetPublished, MetGivenUp
  DEF Step
<1>9. ASSUME NEW t \in Thread, Misfortune(t) PROVE MetInv(p)'
  BY <1>9, <1>3, <1>7 DEF Misfortune
<1> QED BY <1>1, <1>2, <1>8, <1>9 DEF Next

\* At the start no creation is under way.
LEMMA MetInit == ASSUME NEW p, Init PROVE MetInv(p)
<1>1. Len(<<>>) = 0 BY EmptySeq
<1> QED BY <1>1 DEF Init, MetInv, MetStack

\* Whatever the beans resolve, directly or not, and as long as no injector leads
\* back to a bean that depends on its own: an object is made only once the
\* singletons that its bean depends on are published, however calls overlap.
THEOREM MadeAfterDependsOn ==
  ASSUME NoWayBack("dependsOn")
  PROVE  Spec => DependsOnFirst
<1> DEFINE J == IInv /\ MetInv("dependsOn")
<1>1. "dependsOn" \in Preparing BY DEF Preparing
<1>2. Init => J BY InitInv, MetInit
<1>3. J /\ [Next]_vars => J' BY <1>1, StepInv, MetStep
<1>4. J /\ [Next]_vars =>
        [\A b \in Bean : made'[b] # made[b] =>
           \A d \in Range(DependsOn[b]) \cap Singletons : singletons[d] # None]_vars
  <2> SUFFICES ASSUME J, Next, NEW b \in Bean, made'[b] # made[b],
                      NEW d \in Range(DependsOn[b]) \cap Singletons
               PROVE  singletons[d] # None
    OBVIOUS
  <2>1. PICK t \in Thread : Instantiate(t)
    <3>1. ASSUME NEW t \in Thread, NEW x \in Roots, Call(t, x) PROVE FALSE
      BY <3>1 DEF Call, historyVars
    <3>2. ASSUME NEW t \in Thread, Misfortune(t) PROVE FALSE
      BY <3>2 DEF Misfortune, ResolveCancelled, WaitCancelled, CreationFails, historyVars
    <3>3. ASSUME NEW t \in Thread, Step(t), ~ Instantiate(t) PROVE FALSE
      BY <3>3 DEF Step, ResolveEarly, ResolveCircular, ResolveCached, Join, Claim, Wake,
                  ResolveNext, DependsOnDone, Publish, GiveUp, Reply, historyVars
    <3> QED BY <3>1, <3>2, <3>3 DEF Next
  <2>2. /\ stack[t] # <<>> /\ Top(t).phase = "factory"
        /\ made' = [made EXCEPT ![Top(t).bean] = made[Top(t).bean] + 1]
    BY <2>1 DEF Instantiate, In
  <2>3. Top(t).bean = b BY <2>2 DEF IInv, ContainerTypeOK
  <2>4. HasMet(Top(t), "dependsOn", singletons)
    <3>1. Top(t) = stack[t][Len(stack[t])] /\ Len(stack[t]) \in 1 .. Len(stack[t])
      BY <2>2, TopFacts
    <3> QED BY <3>1 DEF MetInv, MetStack
  <2>5. Met(DependsOn[b], Len(DependsOn[b]) + 1, singletons)
    BY <2>2, <2>3, <2>4 DEF HasMet, After, Deps
  <2>6. DependsOn[b] \in Seq(Bean) BY ContainerAssumption
  <2>7. PICK j \in 1 .. Len(DependsOn[b]) : DependsOn[b][j] = d
    BY <2>6, LenProperties DEF Range
  <2>8. Len(DependsOn[b]) \in Nat BY <2>6, LenProperties
  <2> QED BY <2>5, <2>7, <2>8 DEF Met, Exists
<1> QED BY <1>2, <1>3, <1>4, PTL DEF Spec, DependsOnFirst

-----------------------------------------------------------------------------
\* Refinement of SingletonScope.

\* The maps of the scope that its callers see.
Shown == [b \in Singletons |-> singletons[b]]
Given == {i \in served : i[1] \in Singletons}

\* A caller of Get receives the published instance of a singleton.
LEMMA ReplyShown ==
  ASSUME IInv, NEW t \in Thread, stack[t] # <<>>, NEW n \in Nat, Reply(t, n),
         UNCHANGED cacheVars,
         Top(t).bean \in Singletons /\ Front(stack[t]) = <<>> =>
           n # None /\ n = singletons[Top(t).bean]
  PROVE  Scope!Next \/ UNCHANGED Scope!scopeVars
<1>0. PICK b \in Bean : b = Top(t).bean BY TopFacts
<1> DEFINE i == <<b, n>>
<1>1. Shown' = Shown BY DEF Shown, cacheVars
<1>2. served' = IF Front(stack[t]) = <<>> THEN served \cup {i} ELSE served
  BY <1>0 DEF Reply, Record
<1>3. CASE b \in Singletons /\ Front(stack[t]) = <<>>
  <2>1. Shown[b] = n /\ n # None BY <1>0, <1>3 DEF Shown
  <2>2. Given' = Given \cup {<<b, Shown[b]>>} BY <1>2, <1>3, <2>1 DEF Given
  <2>3. Scope!HandOut(b) BY <1>1, <2>1, <2>2 DEF Scope!HandOut, Shown, Given, None
  <2>4. b \in Singletons /\ UNCHANGED [x \in Singletons |-> singletons[x]]
    BY <1>1, <1>3 DEF Shown
  <2> QED BY <2>3, <2>4 DEF Scope!Next
<1>4. CASE ~ (b \in Singletons /\ Front(stack[t]) = <<>>)
  <2>1. i[1] = b OBVIOUS
  <2>2. Given' = Given BY <1>2, <1>4, <2>1 DEF Given
  <2> QED BY <1>1, <2>2 DEF Scope!scopeVars, Shown, Given
<1> QED BY <1>3, <1>4

\* Publishing a singleton creates it in the scope, after what it must follow.
LEMMA PublishShown ==
  ASSUME IInv, MetInv("dependsOn"), MetInv("factory"),
         NEW t \in Thread, Publish(t)
  PROVE  Scope!Next \/ UNCHANGED Scope!scopeVars
<1> DEFINE l == Top(t)
           rest == Front(stack[t])
<1>0. PICK b \in Bean : b = l.bean BY TopFacts DEF Publish, In
<1> DEFINE i == <<b, l.val>>
<1>1. /\ stack[t] # <<>> /\ l.phase = "inject"
      /\ served' = IF rest = <<>> THEN served \cup {i} ELSE served
      /\ singletons' = IF b \in Singletons THEN [singletons EXCEPT ![b] = l.val] ELSE singletons
  BY <1>0 DEF Publish, In, Record, cacheVars
<1>2. /\ StackOK(stack[t]) /\ l = stack[t][Len(stack[t])]
      /\ Len(stack[t]) \in 1 .. Len(stack[t])
      /\ l.val \in Nat
  BY <1>1, TopFacts
<1>3. l.val # None BY <1>1, <1>2 DEF StackOK, Objects
<1>4. singletons \in [Bean -> Nat] BY DEF IInv, ContainerTypeOK
<1>5. CASE b \notin Singletons
  <2>1. i[1] = b /\ UNCHANGED singletons BY <1>1, <1>5
  <2>2. Given' = Given BY <1>1, <1>5, <2>1 DEF Given
  <2> QED BY <2>1, <2>2 DEF Scope!scopeVars, Given
<1>6. CASE b \in Singletons
  <2>1. singletons[b] = None
    <3>1. Len(stack[t]) \in At(stack[t], b) BY <1>0, <1>1, <1>2 DEF At, Creating
    <3> QED BY <1>6, <3>1 DEF IInv, ClaimInv
  <2>2. Shown' = [Shown EXCEPT ![b] = l.val]
    BY <1>1, <1>4, <1>6, ContainerAssumption DEF Shown
  <2>3. Shown'[b] = l.val /\ Shown[b] = 0 BY <1>6, <2>1, <2>2 DEF Shown, None
  <2>4. ASSUME NEW d \in Before[b] PROVE Shown[d] # 0
    <3>1. d \in Singletons BY <1>6, <2>4 DEF Before
    <3>2. HasMet(l, "dependsOn", singletons) /\ HasMet(l, "factory", singletons)
      BY <1>2 DEF MetInv, MetStack
    <3>3. /\ Met(DependsOn[b], Len(DependsOn[b]) + 1, singletons)
          /\ Met(FactoryDeps[b], Len(FactoryDeps[b]) + 1, singletons)
      BY <1>0, <1>1, <3>2 DEF HasMet, After, Deps
    <3>4. ASSUME NEW s \in Seq(Bean), d \in Range(s), Met(s, Len(s) + 1, singletons)
          PROVE  singletons[d] # None
      <4>1. Len(s) \in Nat /\ DOMAIN s = 1 .. Len(s) BY LenProperties
      <4>2. PICK j \in 1 .. Len(s) : s[j] = d BY <3>4, <4>1 DEF Range
      <4> QED BY <3>1, <3>4, <4>1, <4>2 DEF Met, Exists
    <3>5. d \in Range(DependsOn[b]) \/ d \in Range(FactoryDeps[b])
      BY <1>6, <2>4 DEF Before
    <3>6. DependsOn[b] \in Seq(Bean) /\ FactoryDeps[b] \in Seq(Bean)
      BY <1>2, ContainerAssumption
    <3>7. singletons[d] # None BY <3>3, <3>4, <3>5, <3>6
    <3> QED BY <3>1, <3>7 DEF Shown, None
  <2>5. Scope!Create(b)
    BY <1>3, <2>2, <2>3, <2>4 DEF Scope!Create, Shown, None
  <2>6. /\ Given \subseteq Given' /\ Given' \subseteq Given \cup {<<b, Shown'[b]>>}
    BY <1>1, <2>3 DEF Given
  <2>7. Scope!HandOut(b) BY <1>3, <2>3, <2>6 DEF Scope!HandOut, Shown, Given, None
  <2>8. b \in Singletons /\ Scope!Create(b) /\ Scope!HandOut(b) BY <1>6, <2>5, <2>7
  <2> QED BY <2>8 DEF Scope!Next
<1> QED BY <1>5, <1>6

\* Every step of the container is a step of the scope, or none.
LEMMA ScopeStep ==
  ASSUME IInv, MetInv("dependsOn"), MetInv("factory"), [Next]_vars
  PROVE  Scope!Next \/ UNCHANGED Scope!scopeVars
<1>1. ASSUME UNCHANGED <<singletons, served>> PROVE UNCHANGED Scope!scopeVars
  BY <1>1 DEF Scope!scopeVars
<1>2. CASE UNCHANGED vars BY <1>1, <1>2 DEF vars, cacheVars, historyVars
<1>3. ASSUME NEW t \in Thread, NEW b \in Roots, Call(t, b)
      PROVE  UNCHANGED Scope!scopeVars
  BY <1>1, <1>3 DEF Call, cacheVars, historyVars
<1>4. ASSUME NEW t \in Thread, Misfortune(t) PROVE UNCHANGED Scope!scopeVars
  BY <1>1, <1>4 DEF Misfortune, ResolveCancelled, WaitCancelled, CreationFails,
                    cacheVars, historyVars
<1>5. ASSUME NEW t \in Thread,
             \/ ResolveCircular(t) \/ Join(t) \/ Claim(t) \/ ResolveNext(t)
             \/ DependsOnDone(t) \/ Instantiate(t) \/ GiveUp(t)
      PROVE  UNCHANGED Scope!scopeVars
  BY <1>1, <1>5 DEF ResolveCircular, Join, Claim, ResolveNext, DependsOnDone, Instantiate,
                    GiveUp, cacheVars, historyVars
<1>6. ASSUME NEW t \in Thread, ResolveEarly(t)
      PROVE  Scope!Next \/ UNCHANGED Scope!scopeVars
  <2>1. /\ stack[t] # <<>> /\ Top(t).bean \in Active(t) /\ UNCHANGED cacheVars
        /\ Reply(t, early[Top(t).bean])
    BY <1>6 DEF ResolveEarly, In
  <2>2. early[Top(t).bean] \in Nat BY <2>1, TopFacts DEF IInv, ContainerTypeOK
  <2>3. Front(stack[t]) # <<>>
    <3>1. /\ Len(Front(stack[t])) = Len(stack[t]) - 1
          /\ Front(stack[t]) \in Seq(Frame) /\ Len(stack[t]) \in Nat
      BY <2>1, TopFacts, FrontFacts
    <3>2. PICK k \in 1 .. (Len(stack[t]) - 1) : stack[t][k].bean = Top(t).bean
      BY <2>1 DEF Active
    <3> DEFINE m == Len(stack[t]) - 1
    <3>3. m \in Int /\ k \in 1 .. m BY <3>1
    <3> HIDE DEF m
    <3>4. m # 0 BY <3>3
    <3> QED BY <3>1, <3>4, EmptySeq DEF m
  <2> QED BY <2>1, <2>2, <2>3, ReplyShown
<1>7. ASSUME NEW t \in Thread, ResolveCached(t)
      PROVE  Scope!Next \/ UNCHANGED Scope!scopeVars
  <2>1. /\ stack[t] # <<>> /\ UNCHANGED cacheVars /\ singletons[Top(t).bean] # None
        /\ Reply(t, singletons[Top(t).bean])
    BY <1>7 DEF ResolveCached, Entered, In
  <2>2. singletons[Top(t).bean] \in Nat BY <2>1, TopFacts DEF IInv, ContainerTypeOK
  <2> QED BY <2>1, <2>2, ReplyShown
<1>8. ASSUME NEW t \in Thread, Wake(t)
      PROVE  Scope!Next \/ UNCHANGED Scope!scopeVars
  <2>1. stack[t] # <<>> /\ Top(t).phase = "got" /\ UNCHANGED cacheVars
    BY <1>8 DEF Wake, In
  <2>2. CASE Error(t) /\ UNCHANGED historyVars
    BY <1>1, <2>1, <2>2 DEF historyVars, cacheVars
  <2>3. CASE Top(t).val # None /\ Reply(t, Top(t).val)
    <3>1. Top(t).val = singletons[Top(t).bean] /\ Top(t).val \in Nat
      BY <2>1, <2>3, TopFacts DEF Waits
    <3> QED BY <2>1, <2>3, <3>1, ReplyShown
  <2> QED BY <1>8, <2>2, <2>3 DEF Wake
<1>9. ASSUME NEW t \in Thread, Publish(t)
      PROVE  Scope!Next \/ UNCHANGED Scope!scopeVars
  BY <1>9, PublishShown
<1> QED BY <1>2, <1>3, <1>4, <1>5, <1>6, <1>7, <1>8, <1>9 DEF Next, Step

\* To its callers the container is a singleton scope, as long as no injector
\* leads back to a bean that depends on, or is made from, its own: a singleton
\* appears once, after what it is made from, never changes, and is the instance
\* that every Get returns.
THEOREM ContainerIsSingletonScope ==
  ASSUME NoWayBack("dependsOn"), NoWayBack("factory")
  PROVE  Spec => ImplementsScope
<1> DEFINE J == IInv /\ MetInv("dependsOn") /\ MetInv("factory")
<1>1. "dependsOn" \in Preparing /\ "factory" \in Preparing BY DEF Preparing
<1>2. Init => J BY InitInv, MetInit
<1>3. J /\ [Next]_vars => J' BY <1>1, StepInv, MetStep
<1>4. Init => Scope!Init
  BY ContainerAssumption DEF Init, Scope!Init, None
<1>5. J /\ [Next]_vars => [Scope!Next]_(Scope!scopeVars) BY ScopeStep
<1> QED BY <1>2, <1>3, <1>4, <1>5, PTL DEF Spec, ImplementsScope, Scope!Spec

-----------------------------------------------------------------------------
\* Injection.

\* With fields W: instance o holds one of bean d; all fields of i are set; bean
\* a may hold i, which its injector has finished or which leads to a itself.
Filled(o, d, W) == \E w \in W : w[1] = o /\ w[2][1] = d
Ready(i, W) == \A d \in Range(InjectDeps[i[1]]) : Filled(i, d, W)
MayHold(a, i, W) == Ready(i, W) \/ <<i[1], a>> \in Leads

\* What a creation has resolved may be held, and what it has injected is set.
FrameFields(f, W) ==
  /\ f.phase \in {"enter", "dependsOn"} => f.uses = {}
  /\ f.phase = "factory" => \A i \in f.uses : MayHold(f.bean, i, W)
  /\ f.phase = "inject" =>
       \A j \in 1 .. Len(InjectDeps[f.bean]) :
         j < f.next => Filled(<<f.bean, f.val>>, InjectDeps[f.bean][j], W)

Fields(s, W) == \A i \in 1 .. Len(s) : FrameFields(s[i], W)
FieldsInv == DeeplyInjected /\ \A t \in Thread : Fields(stack[t], wired)

\* A field that is set stays set.
LEMMA MoreFields ==
  ASSUME NEW W, NEW Q, W \subseteq Q
  PROVE  /\ \A i : Ready(i, W) => Ready(i, Q)
         /\ \A a, i : MayHold(a, i, W) => MayHold(a, i, Q)
         /\ \A f : FrameFields(f, W) => FrameFields(f, Q)
<1>1. \A o, d : Filled(o, d, W) => Filled(o, d, Q) BY DEF Filled
<1>2. \A i : Ready(i, W) => Ready(i, Q) BY <1>1 DEF Ready
<1>3. \A a, i : MayHold(a, i, W) => MayHold(a, i, Q) BY <1>2 DEF MayHold
<1>4. ASSUME NEW f, FrameFields(f, W) PROVE FrameFields(f, Q)
  <2>1. f.phase \in {"enter", "dependsOn"} => f.uses = {} BY <1>4 DEF FrameFields
  <2>2. f.phase = "factory" => \A i \in f.uses : MayHold(f.bean, i, Q)
    BY <1>3, <1>4 DEF FrameFields
  <2>3. f.phase = "inject" =>
          \A j \in 1 .. Len(InjectDeps[f.bean]) :
            j < f.next => Filled(<<f.bean, f.val>>, InjectDeps[f.bean][j], Q)
    BY <1>1, <1>4 DEF FrameFields
  <2> QED BY <2>1, <2>2, <2>3 DEF FrameFields
<1> QED BY <1>2, <1>3, <1>4

\* Frames that stay, or leave their creation, keep their fields.
LEMMA KeptFields ==
  ASSUME NEW W, NEW Q, W \subseteq Q,
         NEW s \in Seq(Frame), Fields(s, W), NEW r \in Seq(Frame), Len(r) <= Len(s),
         \A i \in 1 .. Len(r) : \/ r[i] = s[i]
                                \/ r[i].phase \in {"wait", "got", "failed"}
                                \/ FrameFields(r[i], Q)
  PROVE  Fields(r, Q)
<1>1. Len(r) \in Nat /\ Len(s) \in Nat BY LenProperties
<1>2. ASSUME NEW i \in 1 .. Len(r) PROVE FrameFields(r[i], Q)
  <2>1. i \in 1 .. Len(s) BY <1>1
  <2>2. CASE r[i] = s[i] BY <2>1, <2>2, MoreFields DEF Fields
  <2>3. CASE r[i].phase \in {"wait", "got", "failed"} BY <2>3 DEF FrameFields
  <2> QED BY <2>2, <2>3
<1> QED BY <1>2 DEF Fields

\* The caller of a resolve may hold what it is given, and its injector sets it.
LEMMA AnsweredFields ==
  ASSUME NEW W, NEW Q, W \subseteq Q,
         NEW s \in Seq(Frame), s # <<>>, StackOK(s), Fields(s, W),
         NEW i \in Instance, i[1] = s[Len(s)].bean,
         Len(s) > 1 => /\ MayHold(s[Len(s) - 1].bean, i, Q)
                       /\ s[Len(s) - 1].phase = "inject" =>
                            <<<<s[Len(s) - 1].bean, s[Len(s) - 1].val>>, i>> \in Q
  PROVE  Fields(Answered(Front(s), i), Q)
<1> DEFINE n == Len(s)
           r == Answered(Front(s), i)
           f == s[n - 1]
           g == r[n - 1]
<1>1. /\ r \in Seq(Frame) /\ Len(r) = n - 1
      /\ \A j \in 1 .. (n - 1) :
           /\ r[j].bean = s[j].bean /\ r[j].val = s[j].val
           /\ j < n - 1 => r[j] = s[j]
  <2>1. \E x \in Instance : r = Answered(Front(s), x) OBVIOUS
  <2> HIDE DEF r
  <2> QED BY <2>1, DropStack
<1>2. n > 1 => /\ g.phase = f.phase /\ g.next = f.next + 1
               /\ g.uses = IF f.phase = "factory" THEN f.uses \cup {i} ELSE f.uses
  BY CallerFacts
<1>3. n \in Nat \ {0} /\ \A j \in 1 .. n : s[j] \in Frame BY FrontFacts
<1> HIDE DEF r, n
<1>4. ASSUME n > 1 PROVE FrameFields(g, Q)
  <2>1. n - 1 \in 1 .. n /\ n - 1 \in 1 .. (n - 1) BY <1>3, <1>4
  <2>2. f \in Frame /\ FrameFields(f, W) /\ f.phase \in {"dependsOn", "factory", "inject"}
    BY <1>3, <2>1 DEF Fields, StackOK, Above, n
  <2>3. FrameFields(f, Q) BY <2>2, MoreFields
  <2>4. /\ f.phase = "inject" => InjectDeps[f.bean][f.next] = i[1]
    <3>1. Deps(f.bean, f.phase)[f.next] = s[(n - 1) + 1].bean
      BY <1>3, <2>1 DEF StackOK, Above, n
    <3>2. (n - 1) + 1 = n BY <1>3
    <3> QED BY <3>1, <3>2 DEF Deps, n
  <2>5. g.bean = f.bean /\ g.val = f.val BY <1>1, <2>1
  <2>6. f.bean \in Bean /\ f.next \in Nat \ {0} BY <2>2 DEF Frame
  <2>7. MayHold(f.bean, i, Q) /\ (f.phase = "inject" => <<<<f.bean, f.val>>, i>> \in Q)
    BY <1>4 DEF n
  <2>8. /\ g.phase = f.phase /\ g.next = f.next + 1
        /\ g.uses = IF f.phase = "factory" THEN f.uses \cup {i} ELSE f.uses
    BY <1>2, <1>4
  <2> HIDE DEF f, g
  <2>9. CASE f.phase = "dependsOn" BY <2>3, <2>8, <2>9 DEF FrameFields
  <2>10. CASE f.phase = "factory" BY <2>3, <2>5, <2>7, <2>8, <2>10 DEF FrameFields
  <2>11. CASE f.phase = "inject"
    <3>1. Filled(<<f.bean, f.val>>, InjectDeps[f.bean][f.next], Q)
      <4> DEFINE w == <<<<f.bean, f.val>>, i>>
      <4>1. w \in Q /\ w[1] = <<f.bean, f.val>> /\ w[2][1] = i[1] BY <2>7, <2>11
      <4> HIDE DEF w
      <4> QED BY <2>4, <2>11, <4>1 DEF Filled
    <3>2. ASSUME NEW j \in 1 .. Len(InjectDeps[f.bean]), j < f.next + 1
          PROVE  Filled(<<f.bean, f.val>>, InjectDeps[f.bean][j], Q)
      <4>1. CASE j < f.next BY <2>3, <2>11, <4>1 DEF FrameFields
      <4>2. CASE j = f.next BY <3>1, <4>2
      <4> QED BY <2>6, <3>2, <4>1, <4>2
    <3> QED BY <2>5, <2>8, <2>11, <3>2 DEF FrameFields
  <2> QED BY <2>2, <2>9, <2>10, <2>11
<1>5. \A j \in 1 .. Len(r) : r[j] = s[j] \/ FrameFields(r[j], Q)
  <2> TAKE j \in 1 .. Len(r)
  <2>1. j \in 1 .. (n - 1) BY <1>1
  <2>2. CASE j < n - 1 BY <1>1, <2>1, <2>2
  <2>3. CASE j = n - 1
    <3>1. n > 1 BY <1>3, <2>1
    <3> QED BY <1>4, <2>3, <3>1
  <2> QED BY <1>3, <2>1, <2>2, <2>3
<1>6. Len(r) <= Len(s) BY <1>1, <1>3 DEF n
<1>7. Fields(r, Q) BY <1>1, <1>5, <1>6, KeptFields
<1> QED BY <1>7 DEF r

\* DeeplyInjected, in terms of the fields that are set.
DeepIn(given, published, W) ==
  /\ \A i \in given : Ready(i, W)
  /\ \A b \in Singletons : published[b] # None => Ready(<<b, published[b]>>, W)
  /\ \A w \in W : MayHold(w[1][1], w[2], W)

\* The property says that of what is handed out, cached and held.
LEMMA DeepDef == DeeplyInjected <=> DeepIn(served, singletons, wired)
<1>1. \A i : Injected(i) <=> Ready(i, wired) BY DEF Injected, Ready, Filled
<1> DEFINE C == {<<b, singletons[b]>> : b \in {x \in Singletons : singletons[x] # None}}
<1>2. (\A i \in C : Ready(i, wired)) <=>
        \A b \in Singletons : singletons[b] # None => Ready(<<b, singletons[b]>>, wired)
  OBVIOUS
<1> HIDE DEF C
<1>3. DeeplyInjected <=>
        /\ \A i \in served \cup C : Ready(i, wired)
        /\ \A w \in wired : MayHold(w[1][1], w[2], wired)
  BY <1>1 DEF DeeplyInjected, MayHold, C
<1> QED BY <1>2, <1>3 DEF DeepIn

\* New fields hold what may be held, and what is new outside is ready.
LEMMA DeepGrows ==
  ASSUME NEW G, NEW H, NEW P, NEW Q, NEW V, NEW W, DeepIn(G, P, V), V \subseteq W,
         \A i \in H : i \in G \/ Ready(i, V),
         \A b \in Singletons : Q[b] # None => Q[b] = P[b] \/ Ready(<<b, Q[b]>>, V),
         \A w \in W : w \in V \/ MayHold(w[1][1], w[2], V)
  PROVE  DeepIn(H, Q, W)
<1>1. /\ \A i : Ready(i, V) => Ready(i, W)
      /\ \A a, i : MayHold(a, i, V) => MayHold(a, i, W)
  BY MoreFields
<1>2. \A i \in H : Ready(i, W) BY <1>1 DEF DeepIn
<1>3. \A b \in Singletons : Q[b] # None => Ready(<<b, Q[b]>>, W) BY <1>1 DEF DeepIn
<1>4. \A w \in W : MayHold(w[1][1], w[2], W) BY <1>1 DEF DeepIn
<1> QED BY <1>2, <1>3, <1>4 DEF DeepIn

\* DeepIn in the next state.
LEMMA DeepNext == DeeplyInjected' <=> DeepIn(served', singletons', wired')
<1>1. \A i : Injected(i)' <=> Ready(i, wired') BY DEF Injected, Ready, Filled
<1> DEFINE C == {<<b, singletons'[b]>> : b \in {x \in Singletons : singletons'[x] # None}}
<1>2. (\A i \in C : Ready(i, wired')) <=>
        \A b \in Singletons : singletons'[b] # None => Ready(<<b, singletons'[b]>>, wired')
  OBVIOUS
<1> HIDE DEF C
<1>3. DeeplyInjected' <=>
        /\ \A i \in served' \cup C : Ready(i, wired')
        /\ \A w \in wired' : MayHold(w[1][1], w[2], wired')
  BY <1>1 DEF DeeplyInjected, MayHold, C
<1> QED BY <1>2, <1>3 DEF DeepIn

\* A step that hands out nothing.
LEMMA DeepSame ==
  ASSUME FieldsInv, UNCHANGED <<served, singletons, wired>>
  PROVE  DeeplyInjected'
BY DeepDef, DeepNext DEF FieldsInv

\* An instance is recorded that is ready, or early and given inside its cycle.
LEMMA Recorded ==
  ASSUME IInv, FieldsInv, NEW t \in Thread, stack[t] # <<>>,
         NEW i \in Instance, i[1] = Top(t).bean, Record(Front(stack[t]), i),
         \/ Ready(i, wired)
         \/ /\ Len(stack[t]) > 1
            /\ <<i[1], stack[t][Len(stack[t]) - 1].bean>> \in Leads,
         \A b \in Singletons : singletons'[b] # None =>
           singletons'[b] = singletons[b] \/ Ready(<<b, singletons'[b]>>, wired)
  PROVE  /\ DeeplyInjected' /\ wired \subseteq wired'
         /\ Fields(Answered(Front(stack[t]), i), wired')
<1> DEFINE s == stack[t]
           n == Len(s)
           q == Front(s)
           f == s[n - 1]
<1>1. /\ s \in Seq(Frame) /\ StackOK(s) /\ n \in Nat \ {0} /\ Top(t) = s[n]
      /\ s # <<>> /\ Fields(s, wired)
  BY TopFacts DEF FieldsInv
<1>2. q \in Seq(Frame) /\ Len(q) = n - 1 /\ \A j \in 1 .. (n - 1) : q[j] = s[j]
  BY <1>1, FrontFacts
<1>3. wired' = IF q # <<>> /\ Last(q).phase = "inject"
               THEN wired \cup {<<<<Last(q).bean, Last(q).val>>, i>>} ELSE wired
  BY DEF Record
<1>4. served' = IF q = <<>> THEN served \cup {i} ELSE served BY DEF Record
<1>5. n > 1 <=> q # <<>>
  <2> HIDE DEF q, n
  <2>1. q = <<>> <=> Len(q) = 0 BY <1>2, EmptySeq
  <2> QED BY <1>1, <1>2, <2>1
<1>6. n > 1 => Last(q) = f
  <2> HIDE DEF q, s
  <2>1. Last(q) = q[n - 1] BY <1>2 DEF Last
  <2> QED BY <1>1, <1>2, <2>1
<1> HIDE DEF q
<1>7. n > 1 => MayHold(f.bean, i, wired) BY DEF MayHold
<1>8. ~ (n > 1) => Ready(i, wired) OBVIOUS
<1>9. s[n].bean = i[1] BY <1>1
<1> HIDE DEF s, n, f
<1>10. wired \subseteq wired' BY <1>3
<1>11. DeeplyInjected'
  <2>1. \A j \in served' : j \in served \/ Ready(j, wired) BY <1>4, <1>5, <1>8
  <2>2. \A w \in wired' : w \in wired \/ MayHold(w[1][1], w[2], wired)
    <3> DEFINE v == <<<<f.bean, f.val>>, i>>
    <3>1. \A w \in wired' : w \in wired \/ (n > 1 /\ w = v) BY <1>3, <1>5, <1>6
    <3>2. v[1][1] = f.bean /\ v[2] = i OBVIOUS
    <3> HIDE DEF v
    <3> QED BY <1>7, <3>1, <3>2
  <2>3. DeepIn(served, singletons, wired) BY DeepDef DEF FieldsInv
  <2>4. DeepIn(served', singletons', wired') BY <1>10, <2>1, <2>2, <2>3, DeepGrows
  <2> QED BY <2>4, DeepNext
<1>12. n > 1 => /\ MayHold(f.bean, i, wired')
                /\ f.phase = "inject" => <<<<f.bean, f.val>>, i>> \in wired'
  BY <1>3, <1>5, <1>6, <1>7, <1>10, MoreFields
<1>13. Fields(Answered(q, i), wired')
  BY <1>1, <1>9, <1>10, <1>12, AnsweredFields DEF q, n, f
<1> QED BY <1>10, <1>11, <1>13 DEF q, s

\* A step of one goroutine.
LEMMA FieldsMoved ==
  ASSUME IInv, FieldsInv, NEW t \in Thread, NEW r,
         stack' = [stack EXCEPT ![t] = r], DeeplyInjected', wired \subseteq wired',
         Fields(r, wired')
  PROVE  FieldsInv'
<1>1. stack'[t] = r /\ \A u \in Thread \ {t} : stack'[u] = stack[u]
  BY DEF IInv, ContainerTypeOK
<1>2. ASSUME NEW u \in Thread PROVE Fields(stack'[u], wired')
  <2>1. CASE u = t BY <1>1, <2>1
  <2>2. CASE u # t
    <3>1. stack[u] \in Seq(Frame) /\ Fields(stack[u], wired) /\ stack'[u] = stack[u]
      BY <1>1, <2>2 DEF IInv, ContainerTypeOK, FieldsInv
    <3>2. Len(stack[u]) <= Len(stack[u]) BY <3>1, LenProperties
    <3> QED BY <3>1, <3>2, KeptFields
  <2> QED BY <2>1, <2>2
<1> QED BY <1>2 DEF FieldsInv

\* A creation ends and wakes those who wait for it.
LEMMA FieldsEnd ==
  ASSUME IInv, FieldsInv, NEW t \in Thread, stack[t] # <<>>,
         NEW r \in Seq(Frame), NEW n \in Nat,
         stack' = Deliver([stack EXCEPT ![t] = r], t, Top(t).bean, n),
         DeeplyInjected', wired \subseteq wired', Fields(r, wired')
  PROVE  FieldsInv'
<1> DEFINE b == Top(t).bean
<1>1. b \in Bean BY TopFacts
<1> HIDE DEF b
<1>2. stack'[t] = r /\ \A u \in Thread \ {t} : Woken(stack[u], stack'[u], b, n)
  BY <1>1, DeliverFacts DEF b
<1>3. ASSUME NEW u \in Thread PROVE Fields(stack'[u], wired')
  <2>1. CASE u = t BY <1>2, <2>1
  <2>2. CASE u # t
    <3> DEFINE s == stack[u]
               q == stack'[u]
    <3>1. s \in Seq(Frame) /\ Len(s) \in Nat /\ Fields(s, wired)
      BY LenProperties DEF IInv, ContainerTypeOK, FieldsInv
    <3>2. Woken(s, q, b, n) BY <1>2, <2>2
    <3> HIDE DEF s, q
    <3>3. /\ q \in Seq(Frame) /\ Len(q) <= Len(s)
          /\ \A i \in 1 .. Len(q) : q[i] = s[i] \/ q[i].phase = "got"
      BY <3>1, <3>2 DEF Woken
    <3>4. Fields(q, wired') BY <3>1, <3>3, KeptFields
    <3> QED BY <3>4 DEF q
  <2> QED BY <2>1, <2>2
<1> QED BY <1>3 DEF FieldsInv

\* The innermost frame goes on.
LEMMA FieldsTurned ==
  ASSUME IInv, FieldsInv, NEW t \in Thread, stack[t] # <<>>,
         NEW f \in Frame, f.phase \in {"wait", "failed"} \/ FrameFields(f, wired'),
         stack' = [stack EXCEPT ![t] = SetTop(@, f)],
         DeeplyInjected', wired \subseteq wired'
  PROVE  FieldsInv'
<1> DEFINE s == stack[t]
           n == Len(s)
           r == SetTop(s, f)
<1>1. s \in Seq(Frame) /\ n \in Nat \ {0} /\ Fields(s, wired)
  BY TopFacts DEF FieldsInv
<1>2. /\ r \in Seq(Frame) /\ Len(r) = n
      /\ \A i \in 1 .. n : r[i] = IF i = n THEN f ELSE s[i]
  BY <1>1, SetTopFacts
<1>3. stack' = [stack EXCEPT ![t] = r] OBVIOUS
<1> HIDE DEF r, s, n
<1>4. \A i \in 1 .. Len(r) : \/ r[i] = s[i]
                             \/ r[i].phase \in {"wait", "got", "failed"}
                             \/ FrameFields(r[i], wired')
  BY <1>1, <1>2
<1>5. Len(r) <= Len(s) BY <1>1, <1>2 DEF n
<1>6. Fields(r, wired') BY <1>1, <1>2, <1>4, <1>5, KeptFields
<1> QED BY <1>3, <1>6, FieldsMoved

\* The stack under a resolve that fails.
LEMMA FailedFields ==
  ASSUME NEW W, NEW s \in Seq(Frame), s # <<>>, StackOK(s), Fields(s, W)
  PROVE  Fields(Failed(Front(s)), W)
<1> DEFINE n == Len(s)
           r == Failed(Front(s))
<1>1. /\ r \in Seq(Frame) /\ Len(r) = n - 1
      /\ \A j \in 1 .. (n - 1) : j < n - 1 => r[j] = s[j]
  <2>1. r = Failed(Front(s)) OBVIOUS
  <2> HIDE DEF r
  <2> QED BY <2>1, DropStack
<1>2. n > 1 => r[n - 1].phase = "failed"
  <2>1. PICK i : i \in Instance
    <3>1. s[Len(s)] \in Frame BY FrontFacts
    <3>2. <<s[Len(s)].bean, 0>> \in Instance BY <3>1 DEF Frame, Instance
    <3> QED BY <3>2
  <2> QED BY <2>1, CallerFacts
<1>3. n \in Nat \ {0} BY FrontFacts
<1> HIDE DEF r, n
<1>4. Len(r) <= Len(s) BY <1>1, <1>3 DEF n
<1>5. \A j \in 1 .. Len(r) : r[j] = s[j] \/ r[j].phase \in {"wait", "got", "failed"}
  <2> TAKE j \in 1 .. Len(r)
  <2>1. j \in 1 .. (n - 1) BY <1>1
  <2>2. CASE j < n - 1 BY <1>1, <2>1, <2>2
  <2>3. CASE j = n - 1
    <3>1. n > 1 BY <1>3, <2>1
    <3> QED BY <1>2, <2>3, <3>1
  <2> QED BY <1>3, <2>1, <2>2, <2>3
<1>6. Fields(r, W) BY <1>1, <1>4, <1>5, KeptFields
<1> QED BY <1>6 DEF r

\* A resolve fails.
LEMMA FieldsError ==
  ASSUME IInv, FieldsInv, NEW t \in Thread, stack[t] # <<>>, Error(t),
         UNCHANGED <<cacheVars, historyVars>>
  PROVE  FieldsInv'
<1> DEFINE r == Failed(Front(stack[t]))
<1>1. stack' = [stack EXCEPT ![t] = r] BY DEF Error
<1>2. Fields(r, wired) BY TopFacts, FailedFields DEF FieldsInv
<1>3. DeeplyInjected' /\ wired' = wired BY DeepSame DEF cacheVars, historyVars
<1> HIDE DEF r
<1> QED BY <1>1, <1>2, <1>3, FieldsMoved

\* A resolve returns an instance that is ready, or an early one.
LEMMA FieldsReply ==
  ASSUME IInv, FieldsInv, NEW t \in Thread, stack[t] # <<>>, NEW n \in Nat, Reply(t, n),
         UNCHANGED cacheVars,
         \/ Ready(<<Top(t).bean, n>>, wired)
         \/ /\ Len(stack[t]) > 1
            /\ <<Top(t).bean, stack[t][Len(stack[t]) - 1].bean>> \in Leads
  PROVE  FieldsInv'
<1> DEFINE i == <<Top(t).bean, n>>
           r == Answered(Front(stack[t]), i)
<1>1. i \in Instance /\ i[1] = Top(t).bean BY TopFacts DEF Instance
<1>2. stack' = [stack EXCEPT ![t] = r] /\ Record(Front(stack[t]), i)
      /\ singletons' = singletons
  BY DEF Reply, cacheVars
<1>3. Ready(i, wired) \/ (Len(stack[t]) > 1 /\ <<i[1], stack[t][Len(stack[t]) - 1].bean>> \in Leads)
  BY <1>1
<1> HIDE DEF i
<1>4. DeeplyInjected' /\ wired \subseteq wired' /\ Fields(r, wired')
  BY <1>1, <1>2, <1>3, Recorded
<1> HIDE DEF r
<1> QED BY <1>2, <1>4, FieldsMoved

\* What is cached is ready.
LEMMA CachedReady ==
  ASSUME FieldsInv, NEW b \in Singletons, singletons[b] # None
  PROVE  Ready(<<b, singletons[b]>>, wired)
BY DeepDef DEF FieldsInv, DeepIn

\* What resolve answers without creating anything.
LEMMA FieldsAnswer ==
  ASSUME IInv, FieldsInv, NEW t \in Thread,
         ResolveEarly(t) \/ ResolveCached(t) \/ Wake(t)
  PROVE  FieldsInv'
<1>1. stack[t] # <<>> /\ UNCHANGED cacheVars
  BY DEF ResolveEarly, ResolveCached, Entered, Wake, In
<1>2. /\ stack[t] \in Seq(Frame) /\ StackOK(stack[t]) /\ Waits(stack[t], singletons)
      /\ Len(stack[t]) \in Nat \ {0} /\ Top(t) = stack[t][Len(stack[t])]
      /\ Top(t).bean \in Bean /\ Top(t).val \in Nat
  BY <1>1, TopFacts
<1>3. early[Top(t).bean] \in Nat /\ singletons[Top(t).bean] \in Nat
  BY <1>2 DEF IInv, ContainerTypeOK
<1>4. CASE ResolveEarly(t)
  <2> DEFINE s == stack[t]
             m == Len(s) - 1
  <2>1. Reply(t, early[Top(t).bean]) /\ Top(t).bean \in Active(t)
    BY <1>4 DEF ResolveEarly
  <2>2. PICK k \in 1 .. m : s[k].bean = Top(t).bean BY <2>1 DEF Active
  <2>3. m \in Nat /\ m >= 1 /\ k <= m BY <1>2, <2>2
  <2>4. m \in 1 .. Len(s) /\ k \in 1 .. Len(s) /\ Len(s) > 1 BY <1>2, <2>3
  <2>5. <<s[k].bean, s[m].bean>> \in Leads BY <1>2, <2>3, <2>4 DEF StackOK, Chained
  <2> QED BY <1>1, <1>3, <2>1, <2>2, <2>4, <2>5, FieldsReply
<1>5. CASE ResolveCached(t)
  <2>1. /\ Top(t).bean \in Singletons /\ singletons[Top(t).bean] # None
        /\ Reply(t, singletons[Top(t).bean])
    BY <1>5 DEF ResolveCached
  <2>2. Ready(<<Top(t).bean, singletons[Top(t).bean]>>, wired) BY <2>1, CachedReady
  <2> QED BY <1>1, <1>3, <2>1, <2>2, FieldsReply
<1>6. CASE Wake(t)
  <2>1. Top(t).phase = "got" BY <1>6 DEF Wake, In
  <2>2. CASE Error(t) /\ UNCHANGED historyVars BY <1>1, <2>2, FieldsError
  <2>3. CASE Top(t).val # None /\ Reply(t, Top(t).val)
    <3>1. Top(t).bean \in Singletons /\ Top(t).val = singletons[Top(t).bean]
      BY <1>2, <2>1, <2>3 DEF Waits
    <3>2. Ready(<<Top(t).bean, Top(t).val>>, wired) BY <2>3, <3>1, CachedReady
    <3> QED BY <1>1, <1>2, <2>3, <3>2, FieldsReply
  <2> QED BY <1>6, <2>2, <2>3 DEF Wake
<1> QED BY <1>4, <1>5, <1>6

\* A goroutine enters resolve.
LEMMA FieldsPushed ==
  ASSUME IInv, FieldsInv, NEW t \in Thread,
         \/ \E b \in Roots : Call(t, b)
         \/ ResolveNext(t)
  PROVE  FieldsInv'
<1>1. PICK b \in Bean : Push(t, b) BY Entering
<1> DEFINE s == stack[t]
           n == Len(s)
           r == Append(s, NewFrame(b))
<1>2. s \in Seq(Frame) /\ Fields(s, wired) BY DEF IInv, ContainerTypeOK, FieldsInv
<1>3. NewFrame(b) \in Frame BY DEF NewFrame, Frame, Phases, Instance, None
<1>4. /\ r \in Seq(Frame) /\ Len(r) = n + 1 /\ n \in Nat
      /\ r[n + 1] = NewFrame(b) /\ \A i \in 1 .. n : r[i] = s[i]
  BY <1>2, <1>3, AppendProperties, LenProperties
<1>5. stack' = [stack EXCEPT ![t] = r] BY <1>1 DEF Push
<1> HIDE DEF r, n
<1>6. FrameFields(NewFrame(b), wired) BY DEF FrameFields, NewFrame
<1>7. Fields(r, wired) BY <1>2, <1>4, <1>6 DEF Fields, n
<1>8. UNCHANGED <<served, singletons, wired>> BY DEF Call, ResolveNext, cacheVars, historyVars
<1>9. DeeplyInjected' BY <1>8, DeepSame
<1> QED BY <1>5, <1>7, <1>8, <1>9, FieldsMoved

\* The innermost frame in the fields it has.
LEMMA TopFields ==
  ASSUME IInv, FieldsInv, NEW t \in Thread, stack[t] # <<>>
  PROVE  FrameFields(Top(t), wired) /\ Top(t) \in Frame
<1>1. /\ Top(t) = stack[t][Len(stack[t])] /\ Len(stack[t]) \in 1 .. Len(stack[t])
      /\ Top(t) \in Frame
  BY TopFacts
<1> QED BY <1>1 DEF FieldsInv, Fields

\* It begins, waits, goes on to its factory, or fails.
LEMMA FieldsPhase ==
  ASSUME IInv, FieldsInv, NEW t \in Thread,
         Join(t) \/ Claim(t) \/ DependsOnDone(t) \/ CreationFails(t)
  PROVE  FieldsInv'
<1> DEFINE l == Top(t)
           f(x) == [l EXCEPT !.phase = x]
           g == [l EXCEPT !.phase = "factory", !.next = 1]
<1>1. stack[t] # <<>> /\ UNCHANGED <<served, singletons, wired>>
  BY DEF Join, Claim, DependsOnDone, CreationFails, Entered, In, cacheVars, historyVars
<1>2. \/ stack' = [stack EXCEPT ![t] = SetTop(@, f("wait"))]
      \/ stack' = [stack EXCEPT ![t] = SetTop(@, f("failed"))]
      \/ stack' = [stack EXCEPT ![t] = SetTop(@, f("dependsOn"))] /\ l.phase = "enter"
      \/ stack' = [stack EXCEPT ![t] = SetTop(@, g)] /\ l.phase = "dependsOn"
  BY DEF Join, Claim, DependsOnDone, CreationFails, Entered, In
<1>3. FrameFields(l, wired) /\ l \in Frame BY <1>1, TopFields
<1>4. DeeplyInjected' /\ wired \subseteq wired' /\ wired' = wired BY <1>1, DeepSame
<1> HIDE DEF l
<1>5. \A x \in Phases : f(x) \in Frame /\ f(x).phase = x /\ f(x).uses = l.uses
  BY <1>3 DEF Frame
<1>6. {"wait", "failed", "dependsOn", "factory"} \subseteq Phases BY DEF Phases, Creating
<1>7. g \in Frame /\ g.phase = "factory" /\ g.uses = l.uses
  <2>1. "factory" \in Phases /\ 1 \in Nat \ {0} BY <1>6
  <2>2. g \in Frame BY <1>3, <2>1 DEF Frame
  <2>3. g.phase = "factory" /\ g.uses = l.uses BY <1>3 DEF Frame
  <2> QED BY <2>2, <2>3
<1>8. l.phase = "enter" => FrameFields(f("dependsOn"), wired)
  BY <1>3, <1>5, <1>6 DEF FrameFields
<1>9. l.phase = "dependsOn" => FrameFields(g, wired)
  BY <1>3, <1>7 DEF FrameFields
<1> HIDE DEF f, g
<1>10. CASE stack' = [stack EXCEPT ![t] = SetTop(@, f("wait"))]
  BY <1>1, <1>4, <1>5, <1>6, <1>10, FieldsTurned
<1>11. CASE stack' = [stack EXCEPT ![t] = SetTop(@, f("failed"))]
  BY <1>1, <1>4, <1>5, <1>6, <1>11, FieldsTurned
<1>12. CASE stack' = [stack EXCEPT ![t] = SetTop(@, f("dependsOn"))] /\ l.phase = "enter"
  BY <1>1, <1>4, <1>5, <1>6, <1>8, <1>12, FieldsTurned
<1>13. CASE stack' = [stack EXCEPT ![t] = SetTop(@, g)] /\ l.phase = "dependsOn"
  BY <1>1, <1>4, <1>7, <1>9, <1>13, FieldsTurned
<1> QED BY <1>2, <1>10, <1>11, <1>12, <1>13

\* A new object holds what its factory resolved.
LEMMA FieldsInstantiate ==
  ASSUME IInv, FieldsInv, NEW t \in Thread, Instantiate(t)
  PROVE  FieldsInv'
<1> DEFINE l == Top(t)
           b == l.bean
           m == made[b] + 1
           o == <<b, m>>
           h == [l EXCEPT !.phase = "inject", !.next = 1]
           f == [l EXCEPT !.phase = "inject", !.next = 1, !.val = m, !.uses = {}]
<1>1. /\ stack[t] # <<>> /\ l.phase = "factory"
      /\ wired' = wired \cup {<<o, i>> : i \in l.uses}
      /\ stack' = [stack EXCEPT ![t] = SetTop(@, f)]
      /\ singletons' = singletons /\ served' = served
  BY DEF Instantiate, In
<1>2. FrameFields(l, wired) /\ l \in Frame BY <1>1, TopFields
<1>3. f \in Frame /\ f.bean = b /\ f.phase = "inject" /\ f.next = 1
  <2>1. m \in Nat BY <1>2 DEF IInv, ContainerTypeOK, Frame
  <2>2. f = [h EXCEPT !.val = m, !.uses = {}] BY <1>2 DEF Frame
  <2> HIDE DEF l, m, f
  <2>3. h \in Frame /\ h.bean = l.bean /\ h.phase = "inject" /\ h.next = 1
    <3>1. "inject" \in Phases /\ 1 \in Nat \ {0} BY DEF Phases, Creating
    <3> QED BY <1>2, <3>1 DEF Frame
  <2> HIDE DEF h
  <2>4. f \in Frame /\ f.bean = h.bean /\ f.phase = h.phase /\ f.next = h.next
    BY <2>1, <2>2, <2>3 DEF Frame
  <2> QED BY <2>3, <2>4
<1>4. o[1] = b OBVIOUS
<1> HIDE DEF f, h, m, o
<1>5. \A w \in wired' : w \in wired \/ MayHold(w[1][1], w[2], wired)
  <2>1. \A i \in l.uses : MayHold(b, i, wired) BY <1>1, <1>2 DEF FrameFields
  <2> DEFINE v(i) == <<o, i>>
  <2>2. \A i : v(i)[1][1] = b /\ v(i)[2] = i BY <1>4
  <2>3. \A w \in wired' : w \in wired \/ \E i \in l.uses : w = v(i) BY <1>1
  <2> HIDE DEF v
  <2> QED BY <2>1, <2>2, <2>3
<1>6. wired \subseteq wired' BY <1>1
<1>7. DeeplyInjected'
  <2>1. DeepIn(served, singletons, wired) BY DeepDef DEF FieldsInv
  <2>2. DeepIn(served', singletons', wired') BY <1>1, <1>5, <1>6, <2>1, DeepGrows
  <2> QED BY <2>2, DeepNext
<1>8. FrameFields(f, wired')
  <2>1. \A j \in 1 .. Len(InjectDeps[f.bean]) : ~ (j < 1) OBVIOUS
  <2> QED BY <1>3, <2>1 DEF FrameFields
<1> QED BY <1>1, <1>3, <1>6, <1>7, <1>8, FieldsTurned

\* What is published is ready: its injector has set every field.
LEMMA FieldsPublished ==
  ASSUME IInv, FieldsInv, NEW t \in Thread, Publish(t)
  PROVE  FieldsInv'
<1> DEFINE s == stack[t]
           b == Top(t).bean
           i == <<b, Top(t).val>>
           r == Answered(Front(s), i)
<1>1. /\ s # <<>> /\ Top(t).phase = "inject" /\ DepsDone(t) /\ Record(Front(s), i)
      /\ IF b \in Singletons
         THEN /\ singletons' = [singletons EXCEPT ![b] = Top(t).val]
              /\ stack' = Deliver([stack EXCEPT ![t] = r], t, b, Top(t).val)
         ELSE stack' = [stack EXCEPT ![t] = r] /\ singletons' = singletons
  BY DEF Publish, In, cacheVars
<1>2. /\ s \in Seq(Frame) /\ StackOK(s) /\ b \in Bean /\ Top(t).val \in Nat
      /\ Top(t).next \in Nat \ {0}
  BY <1>1, TopFacts DEF Frame
<1>3. i \in Instance /\ i[1] = b BY <1>2 DEF Instance
<1>4. Ready(i, wired)
  <2> DEFINE d == InjectDeps[b]
  <2>1. d \in Seq(Bean) /\ Len(d) \in Nat /\ DOMAIN d = 1 .. Len(d)
    BY <1>2, ContainerAssumption, LenProperties
  <2>2. Top(t).next > Len(d) BY <1>1 DEF DepsDone, Deps
  <2>3. FrameFields(Top(t), wired) BY <1>1, TopFields
  <2>4. \A j \in 1 .. Len(d) : Filled(i, d[j], wired)
    <3>1. \A j \in 1 .. Len(d) : j < Top(t).next BY <1>2, <2>1, <2>2
    <3>2. \A j \in 1 .. Len(d) : j < Top(t).next => Filled(i, d[j], wired)
      BY <1>1, <2>3 DEF FrameFields
    <3> QED BY <3>1, <3>2
  <2>5. \A x \in Range(d) : \E j \in 1 .. Len(d) : d[j] = x BY <2>1 DEF Range
  <2>6. InjectDeps[i[1]] = d BY <1>3
  <2> HIDE DEF d, i
  <2>7. \A x \in Range(d) : Filled(i, x, wired) BY <2>4, <2>5
  <2> QED BY <2>6, <2>7 DEF Ready
<1>5. \A x \in Singletons : singletons'[x] # None =>
        singletons'[x] = singletons[x] \/ Ready(<<x, singletons'[x]>>, wired)
  <2> TAKE x \in Singletons
  <2>1. singletons \in [Bean -> Nat] /\ x \in Bean
    BY ContainerAssumption DEF IInv, ContainerTypeOK
  <2>2. CASE x = b /\ b \in Singletons BY <1>1, <1>4, <2>1, <2>2
  <2>3. CASE ~ (x = b /\ b \in Singletons) BY <1>1, <2>1, <2>3
  <2> QED BY <2>2, <2>3
<1>6. \E x \in Instance : r = Answered(Front(s), x) BY <1>3
<1> HIDE DEF i
<1>7. DeeplyInjected' /\ wired \subseteq wired' /\ Fields(r, wired')
  BY <1>1, <1>3, <1>4, <1>5, Recorded
<1> HIDE DEF r
<1>8. r \in Seq(Frame) BY <1>1, <1>2, <1>6, DropStack
<1>9. CASE b \in Singletons BY <1>1, <1>2, <1>7, <1>8, <1>9, FieldsEnd
<1>10. CASE b \notin Singletons BY <1>1, <1>7, <1>10, FieldsMoved
<1> QED BY <1>9, <1>10

\* A creation that failed hands out nothing.
LEMMA FieldsGivenUp ==
  ASSUME IInv, FieldsInv, NEW t \in Thread, GiveUp(t)
  PROVE  FieldsInv'
<1> DEFINE s == stack[t]
           b == Top(t).bean
           r == Failed(Front(s))
<1>1. /\ s # <<>> /\ UNCHANGED <<served, singletons, wired>>
      /\ IF b \in Singletons
         THEN stack' = Deliver([stack EXCEPT ![t] = r], t, b, None)
         ELSE stack' = [stack EXCEPT ![t] = r]
  BY DEF GiveUp, In, historyVars
<1>2. s \in Seq(Frame) /\ StackOK(s) /\ None \in Nat BY <1>1, TopFacts DEF None
<1>3. r \in Seq(Frame)
  <2>1. r = Failed(Front(s)) OBVIOUS
  <2> HIDE DEF r
  <2> QED BY <1>1, <1>2, <2>1, DropStack
<1>4. Fields(r, wired') /\ DeeplyInjected' /\ wired \subseteq wired'
  BY <1>1, <1>2, FailedFields, DeepSame DEF FieldsInv
<1> HIDE DEF r
<1>5. CASE b \in Singletons BY <1>1, <1>2, <1>3, <1>4, <1>5, FieldsEnd
<1>6. CASE b \notin Singletons BY <1>1, <1>4, <1>6, FieldsMoved
<1> QED BY <1>5, <1>6

\* Every step keeps what is injected.
LEMMA FieldsStep ==
  ASSUME IInv, FieldsInv, [Next]_vars
  PROVE  FieldsInv'
<1>1. CASE UNCHANGED vars
  <2>1. UNCHANGED <<served, singletons, wired>> /\ stack' = stack
    BY <1>1 DEF vars, cacheVars, historyVars
  <2> QED BY <2>1, DeepSame DEF FieldsInv
<1>2. ASSUME NEW t \in Thread, NEW b \in Roots, Call(t, b) PROVE FieldsInv'
  BY <1>2, FieldsPushed
<1>3. ASSUME NEW t \in Thread,
             ResolveCancelled(t) \/ WaitCancelled(t) \/ ResolveCircular(t)
      PROVE  FieldsInv'
  BY <1>3, FieldsError DEF ResolveCancelled, WaitCancelled, ResolveCircular, In
<1>4. ASSUME NEW t \in Thread, Step(t) PROVE FieldsInv'
  BY <1>3, <1>4, FieldsAnswer, FieldsPushed, FieldsPhase, FieldsInstantiate,
     FieldsPublished, FieldsGivenUp DEF Step
<1>5. ASSUME NEW t \in Thread, Misfortune(t) PROVE FieldsInv'
  BY <1>3, <1>5, FieldsPhase DEF Misfortune
<1> QED BY <1>1, <1>2, <1>4, <1>5 DEF Next

\* Nothing is held at the start.
LEMMA FieldsInit == Init => FieldsInv
<1> SUFFICES ASSUME Init PROVE FieldsInv OBVIOUS
<1>1. Len(<<>>) = 0 BY EmptySeq
<1>2. \A t \in Thread : Fields(stack[t], wired) BY <1>1 DEF Init, Fields
<1>3. DeepIn(served, singletons, wired)
  BY ContainerAssumption DEF Init, DeepIn
<1> QED BY <1>2, <1>3, DeepDef DEF FieldsInv

\* Whatever beans inject each other, and however creations overlap and fail: what
\* Get returns, what is cached and what any object holds has all its fields,
\* save for the beans of one cycle, which may hold each other before.
THEOREM NothingHalfInjected == Spec => []DeeplyInjected
<1> DEFINE J == IInv /\ FieldsInv
<1>1. Init => J BY InitInv, FieldsInit
<1>2. J /\ [Next]_vars => J' BY StepInv, FieldsStep
<1>3. J => DeeplyInjected BY DEF FieldsInv
<1> QED BY <1>1, <1>2, <1>3, PTL DEF Spec
=============================================================================
