-------------------------- MODULE WebPipelineProofs --------------------------
(***************************************************************************)
(* Theorems about WebPipeline for any deployment, request and way of       *)
(* matching paths: what was changed for the time of a call is put back,    *)
(* and who let a request pass is told of its end, in reverse.  Then what a *)
(* response comes to: results write themselves in steps, the filter for    *)
(* conditional requests captures them, and a client that asks again with   *)
(* the validators it was given is told no less than the handler says.      *)
(***************************************************************************)
EXTENDS Web, FiniteSetTheorems, SequenceTheorems, WellFoundedInduction, TLAPS

-----------------------------------------------------------------------------
\* The request as a record, and the stack as a list.
Bound == {"webApp", "binder", "kind", "adviceKind", "once"}

Shape ==
  /\ request = [k \in DOMAIN request |-> request[k]]
  /\ {"method", "asked", "attributes"} \subseteq DOMAIN request
  /\ request.attributes = [a \in Attributes |-> request.attributes[a]]

\* Whoever restores an attribute, from the top of the stack down, and whoever
\* restores the method: the deepest of them has what the request came with.
Restorers(s, a) == {i \in DOMAIN s : s[i].kind = "restore" /\ s[i].attribute = a}
Overriders(s) == {i \in DOMAIN s : s[i].kind = "method"}
Deepest(i, I) == i \in I /\ \A j \in I : j <= i

AttributesOwed(s, attributes) ==
  \A a \in Bound :
    /\ Restorers(s, a) = {} => attributes[a] = Absent
    /\ \A i \in Restorers(s, a) : Deepest(i, Restorers(s, a)) => s[i].value = Absent
MethodOwed(s, r) ==
  /\ Overriders(s) = {} => r.method = r.asked /\ r.attributes["originalMethod"] = Absent
  /\ \A i \in Overriders(s) : Deepest(i, Overriders(s)) => s[i].value = r.asked

RestoreInv ==
  /\ Shape
  /\ \E S : stack \in Seq(S)
  /\ \A i \in DOMAIN stack : stack[i].kind = "restore" => stack[i].attribute \in Bound
  /\ AttributesOwed(stack, request.attributes)
  /\ MethodOwed(stack, request)

\* Binding an attribute changes that attribute only.
LEMMA BindOne ==
  ASSUME Shape, NEW name \in Attributes, NEW value, request' = With(name, value)
  PROVE  /\ Shape'
         /\ request'.method = request.method /\ request'.asked = request.asked
         /\ \A a \in Attributes : request'.attributes[a] = IF a = name THEN value ELSE request.attributes[a]
BY DEF Shape, With

\* Overriding the method keeps the one there was.
LEMMA BindMethod ==
  ASSUME Shape, NEW value, NEW method,
         request' = [With("originalMethod", value) EXCEPT !.method = method]
  PROVE  /\ Shape'
         /\ request'.method = method /\ request'.asked = request.asked
         /\ \A a \in Attributes : request'.attributes[a] = IF a = "originalMethod" THEN value ELSE request.attributes[a]
BY DEF Shape, With, Attributes

\* An element entered is on top of the others.
LEMMA OnTop ==
  ASSUME NEW s, NEW S, s \in Seq(S), NEW e
  PROVE  /\ \E T : <<e>> \o s \in Seq(T)
         /\ DOMAIN s = 1 .. Len(s) /\ Len(s) \in Nat
         /\ DOMAIN (<<e>> \o s) = 1 .. (Len(s) + 1)
         /\ (<<e>> \o s)[1] = e
         /\ \A i \in 1 .. Len(s) : (<<e>> \o s)[i + 1] = s[i]
<1>1. <<e>> \in Seq(S \cup {e}) /\ s \in Seq(S \cup {e}) OBVIOUS
<1> QED BY <1>1

\* The element left is the one on top.
LEMMA OffTop ==
  ASSUME NEW s, NEW S, s \in Seq(S), s # <<>>
  PROVE  /\ \E T : Tail(s) \in Seq(T)
         /\ DOMAIN s = 1 .. Len(s) /\ Len(s) \in Nat \ {0} /\ Head(s) = s[1]
         /\ DOMAIN Tail(s) = 1 .. (Len(s) - 1)
         /\ \A i \in 1 .. (Len(s) - 1) : Tail(s)[i] = s[i + 1]
OBVIOUS

\* Entering owes no more than before, if who restores an attribute remembers
\* it and nobody else binds one.
LEMMA PushOwes ==
  ASSUME NEW s, NEW S, s \in Seq(S), NEW e, NEW old, NEW new, AttributesOwed(s, old),
         \A a \in Bound : IF e.kind = "restore" /\ e.attribute = a
                          THEN old[a] = Absent => e.value = Absent
                          ELSE new[a] = old[a]
  PROVE  AttributesOwed(<<e>> \o s, new)
<1> DEFINE n == <<e>> \o s
<1>1. /\ DOMAIN s = 1 .. Len(s) /\ Len(s) \in Nat /\ DOMAIN n = 1 .. (Len(s) + 1) /\ n[1] = e
      /\ \A i \in 1 .. Len(s) : n[i + 1] = s[i]
  BY OnTop
<1> HIDE DEF n
<1> SUFFICES ASSUME NEW a \in Bound
             PROVE  /\ Restorers(n, a) = {} => new[a] = Absent
                    /\ \A i \in Restorers(n, a) : Deepest(i, Restorers(n, a)) => n[i].value = Absent
  BY DEF AttributesOwed, n
<1>2. \A i \in 1 .. Len(s) : i \in Restorers(s, a) <=> i + 1 \in Restorers(n, a)
  BY <1>1 DEF Restorers
<1>3. 1 \in Restorers(n, a) <=> e.kind = "restore" /\ e.attribute = a
  BY <1>1 DEF Restorers
<1>4. \A i \in Restorers(n, a) : i \in 1 .. (Len(s) + 1) /\ (i # 1 => i - 1 \in Restorers(s, a))
  BY <1>1, <1>2 DEF Restorers
<1>5. \A i \in Restorers(s, a) : i \in 1 .. Len(s) BY <1>1 DEF Restorers
<1>6. /\ Restorers(s, a) = {} => old[a] = Absent
      /\ \A i \in Restorers(s, a) : Deepest(i, Restorers(s, a)) => s[i].value = Absent
  BY DEF AttributesOwed
<1>7. ASSUME Restorers(n, a) = {} PROVE new[a] = Absent
  <2>1. Restorers(s, a) = {} BY <1>2, <1>5, <1>7
  <2> QED BY <1>3, <1>6, <1>7, <2>1
<1>8. ASSUME NEW i \in Restorers(n, a), Deepest(i, Restorers(n, a)) PROVE n[i].value = Absent
  <2>1. CASE i = 1
    <3>1. ASSUME NEW j \in Restorers(s, a) PROVE FALSE
      <4>1. j \in 1 .. Len(s) /\ j + 1 \in Restorers(n, a) BY <1>2, <1>5
      <4>2. j + 1 <= 1 BY <1>8, <2>1, <4>1 DEF Deepest
      <4> QED BY <1>1, <4>1, <4>2
    <3>2. Restorers(s, a) = {} BY <3>1
    <3> QED BY <1>1, <1>3, <1>6, <1>8, <2>1, <3>2
  <2>2. CASE i # 1
    <3>1. i - 1 \in Restorers(s, a) /\ i - 1 \in 1 .. Len(s) BY <1>4, <1>5, <1>8, <2>2
    <3>2. Deepest(i - 1, Restorers(s, a)) BY <1>1, <1>2, <1>4, <1>5, <1>8, <3>1 DEF Deepest
    <3>3. n[(i - 1) + 1] = s[i - 1] /\ (i - 1) + 1 = i BY <1>1, <1>4, <1>8, <3>1
    <3> QED BY <1>6, <3>1, <3>2, <3>3
  <2> QED BY <2>1, <2>2
<1> QED BY <1>7, <1>8

\* Leaving the top owes no more, if what it restores is restored.
LEMMA PopOwes ==
  ASSUME NEW s, NEW S, s \in Seq(S), s # <<>>, NEW old, NEW new, AttributesOwed(s, old),
         \A a \in Bound : new[a] = IF Head(s).kind = "restore" /\ Head(s).attribute = a
                                   THEN Head(s).value ELSE old[a]
  PROVE  AttributesOwed(Tail(s), new)
<1> DEFINE n == Tail(s)
<1>1. /\ DOMAIN s = 1 .. Len(s) /\ Len(s) \in Nat \ {0} /\ Head(s) = s[1] /\ DOMAIN n = 1 .. (Len(s) - 1)
      /\ \A i \in 1 .. (Len(s) - 1) : n[i] = s[i + 1]
  BY OffTop
<1> HIDE DEF n
<1> SUFFICES ASSUME NEW a \in Bound
             PROVE  /\ Restorers(n, a) = {} => new[a] = Absent
                    /\ \A i \in Restorers(n, a) : Deepest(i, Restorers(n, a)) => n[i].value = Absent
  BY DEF AttributesOwed, n
<1>2. \A i \in 1 .. (Len(s) - 1) : i \in Restorers(n, a) <=> i + 1 \in Restorers(s, a)
  BY <1>1 DEF Restorers
<1>3. 1 \in Restorers(s, a) <=> s[1].kind = "restore" /\ s[1].attribute = a
  BY <1>1 DEF Restorers
<1>4. \A i \in Restorers(s, a) : i \in 1 .. Len(s) /\ (i # 1 => i - 1 \in Restorers(n, a))
  BY <1>1, <1>2 DEF Restorers
<1>5. \A i \in Restorers(n, a) : i \in 1 .. (Len(s) - 1) BY <1>1 DEF Restorers
<1>6. /\ Restorers(s, a) = {} => old[a] = Absent
      /\ \A i \in Restorers(s, a) : Deepest(i, Restorers(s, a)) => s[i].value = Absent
  BY DEF AttributesOwed
<1>7. ASSUME Restorers(n, a) = {} PROVE new[a] = Absent
  <2>1. \A i \in Restorers(s, a) : i = 1 BY <1>4, <1>7
  <2>2. CASE 1 \in Restorers(s, a)
    <3>1. Deepest(1, Restorers(s, a)) BY <2>1, <2>2 DEF Deepest
    <3> QED BY <1>1, <1>3, <1>6, <2>2, <3>1
  <2>3. CASE 1 \notin Restorers(s, a)
    <3>1. Restorers(s, a) = {} BY <2>1, <2>3
    <3> QED BY <1>1, <1>3, <1>6, <2>3, <3>1
  <2> QED BY <2>2, <2>3
<1>8. ASSUME NEW i \in Restorers(n, a), Deepest(i, Restorers(n, a)) PROVE n[i].value = Absent
  <2>1. i \in 1 .. (Len(s) - 1) /\ i + 1 \in Restorers(s, a) BY <1>2, <1>5, <1>8
  <2>2. Deepest(i + 1, Restorers(s, a)) BY <1>1, <1>4, <1>5, <1>8, <2>1 DEF Deepest
  <2> QED BY <1>1, <1>6, <2>1, <2>2
<1> QED BY <1>7, <1>8

\* The same for the method: entering, who overrides it remembers it.
LEMMA PushOwesMethod ==
  ASSUME NEW s, NEW S, s \in Seq(S), NEW e, NEW old, NEW new, MethodOwed(s, old), new.asked = old.asked,
         IF e.kind = "method" THEN e.value = old.method
         ELSE new.method = old.method /\ new.attributes["originalMethod"] = old.attributes["originalMethod"]
  PROVE  MethodOwed(<<e>> \o s, new)
<1> DEFINE n == <<e>> \o s
<1>1. /\ DOMAIN s = 1 .. Len(s) /\ Len(s) \in Nat /\ DOMAIN n = 1 .. (Len(s) + 1) /\ n[1] = e
      /\ \A i \in 1 .. Len(s) : n[i + 1] = s[i]
  BY OnTop
<1> HIDE DEF n
<1>2. \A i \in 1 .. Len(s) : i \in Overriders(s) <=> i + 1 \in Overriders(n)
  BY <1>1 DEF Overriders
<1>3. 1 \in Overriders(n) <=> e.kind = "method" BY <1>1 DEF Overriders
<1>4. \A i \in Overriders(n) : i \in 1 .. (Len(s) + 1) /\ (i # 1 => i - 1 \in Overriders(s))
  BY <1>1, <1>2 DEF Overriders
<1>5. \A i \in Overriders(s) : i \in 1 .. Len(s) BY <1>1 DEF Overriders
<1>6. /\ Overriders(s) = {} => old.method = old.asked /\ old.attributes["originalMethod"] = Absent
      /\ \A i \in Overriders(s) : Deepest(i, Overriders(s)) => s[i].value = old.asked
  BY DEF MethodOwed
<1>7. ASSUME Overriders(n) = {} PROVE new.method = new.asked /\ new.attributes["originalMethod"] = Absent
  <2>1. Overriders(s) = {} BY <1>2, <1>5, <1>7
  <2> QED BY <1>3, <1>6, <1>7, <2>1
<1>8. ASSUME NEW i \in Overriders(n), Deepest(i, Overriders(n)) PROVE n[i].value = new.asked
  <2>1. CASE i = 1
    <3>1. ASSUME NEW j \in Overriders(s) PROVE FALSE
      <4>1. j \in 1 .. Len(s) /\ j + 1 \in Overriders(n) BY <1>2, <1>5
      <4>2. j + 1 <= 1 BY <1>8, <2>1, <4>1 DEF Deepest
      <4> QED BY <1>1, <4>1, <4>2
    <3>2. Overriders(s) = {} BY <3>1
    <3> QED BY <1>1, <1>3, <1>6, <1>8, <2>1, <3>2
  <2>2. CASE i # 1
    <3>1. i - 1 \in Overriders(s) /\ i - 1 \in 1 .. Len(s) BY <1>4, <1>5, <1>8, <2>2
    <3>2. Deepest(i - 1, Overriders(s)) BY <1>1, <1>2, <1>4, <1>5, <1>8, <3>1 DEF Deepest
    <3>3. n[(i - 1) + 1] = s[i - 1] /\ (i - 1) + 1 = i BY <1>1, <1>4, <1>8, <3>1
    <3> QED BY <1>6, <3>1, <3>2, <3>3
  <2> QED BY <2>1, <2>2
<1> QED BY <1>7, <1>8 DEF MethodOwed, n

\* ... and leaving, it is put back.
LEMMA PopOwesMethod ==
  ASSUME NEW s, NEW S, s \in Seq(S), s # <<>>, NEW old, NEW new, MethodOwed(s, old), new.asked = old.asked,
         IF Head(s).kind = "method"
         THEN new.method = Head(s).value /\ new.attributes["originalMethod"] = Absent
         ELSE new.method = old.method /\ new.attributes["originalMethod"] = old.attributes["originalMethod"]
  PROVE  MethodOwed(Tail(s), new)
<1> DEFINE n == Tail(s)
<1>1. /\ DOMAIN s = 1 .. Len(s) /\ Len(s) \in Nat \ {0} /\ Head(s) = s[1] /\ DOMAIN n = 1 .. (Len(s) - 1)
      /\ \A i \in 1 .. (Len(s) - 1) : n[i] = s[i + 1]
  BY OffTop
<1> HIDE DEF n
<1>2. \A i \in 1 .. (Len(s) - 1) : i \in Overriders(n) <=> i + 1 \in Overriders(s)
  BY <1>1 DEF Overriders
<1>3. 1 \in Overriders(s) <=> s[1].kind = "method" BY <1>1 DEF Overriders
<1>4. \A i \in Overriders(s) : i \in 1 .. Len(s) /\ (i # 1 => i - 1 \in Overriders(n))
  BY <1>1, <1>2 DEF Overriders
<1>5. \A i \in Overriders(n) : i \in 1 .. (Len(s) - 1) BY <1>1 DEF Overriders
<1>6. /\ Overriders(s) = {} => old.method = old.asked /\ old.attributes["originalMethod"] = Absent
      /\ \A i \in Overriders(s) : Deepest(i, Overriders(s)) => s[i].value = old.asked
  BY DEF MethodOwed
<1>7. ASSUME Overriders(n) = {} PROVE new.method = new.asked /\ new.attributes["originalMethod"] = Absent
  <2>1. \A i \in Overriders(s) : i = 1 BY <1>4, <1>7
  <2>2. CASE 1 \in Overriders(s)
    <3>1. Deepest(1, Overriders(s)) BY <2>1, <2>2 DEF Deepest
    <3> QED BY <1>1, <1>3, <1>6, <2>2, <3>1
  <2>3. CASE 1 \notin Overriders(s)
    <3>1. Overriders(s) = {} BY <2>1, <2>3
    <3> QED BY <1>1, <1>3, <1>6, <2>3, <3>1
  <2> QED BY <2>2, <2>3
<1>8. ASSUME NEW i \in Overriders(n), Deepest(i, Overriders(n)) PROVE n[i].value = new.asked
  <2>1. i \in 1 .. (Len(s) - 1) /\ i + 1 \in Overriders(s) BY <1>2, <1>5, <1>8
  <2>2. Deepest(i + 1, Overriders(s)) BY <1>1, <1>4, <1>5, <1>8, <2>1 DEF Deepest
  <2> QED BY <1>1, <1>6, <2>1, <2>2
<1> QED BY <1>7, <1>8 DEF MethodOwed, n

-----------------------------------------------------------------------------
\* How a step may change request and stack, and that RestoreInv survives it.

Leaves(a) == request'.attributes[a] = request.attributes[a]

\* Nothing is entered or left, and no bound attribute changes.
LEMMA StayRestores ==
  ASSUME RestoreInv, Shape', stack' = stack,
         request'.method = request.method, request'.asked = request.asked,
         \A a \in Bound \cup {"originalMethod"} : Leaves(a)
  PROVE  RestoreInv'
BY DEF RestoreInv, AttributesOwed, MethodOwed, Leaves

\* An element is entered.
LEMMA EnterRestores ==
  ASSUME RestoreInv, Shape', NEW e, stack' = <<e>> \o stack, request'.asked = request.asked,
         e.kind = "restore" => e.attribute \in Bound,
         \A a \in Bound : IF e.kind = "restore" /\ e.attribute = a
                          THEN request.attributes[a] = Absent => e.value = Absent
                          ELSE Leaves(a),
         IF e.kind = "method" THEN e.value = request.method
         ELSE request'.method = request.method /\ Leaves("originalMethod")
  PROVE  RestoreInv'
<1>1. PICK S : stack \in Seq(S) BY DEF RestoreInv
<1>2. AttributesOwed(stack, request.attributes) /\ MethodOwed(stack, request) BY DEF RestoreInv
<1>3. AttributesOwed(<<e>> \o stack, request'.attributes)
  <2>1. \A a \in Bound : IF e.kind = "restore" /\ e.attribute = a
                         THEN request.attributes[a] = Absent => e.value = Absent
                         ELSE request'.attributes[a] = request.attributes[a]
    BY DEF Leaves
  <2> DEFINE new == request'.attributes
             old == request.attributes
  <2>2. \A a \in Bound : IF e.kind = "restore" /\ e.attribute = a
                         THEN old[a] = Absent => e.value = Absent ELSE new[a] = old[a]
    BY <2>1
  <2>3. AttributesOwed(stack, old) BY <1>2
  <2> HIDE DEF new, old
  <2>4. AttributesOwed(<<e>> \o stack, new) BY ONLY <1>1, <2>2, <2>3, PushOwes
  <2> QED BY <2>4 DEF new
<1>4. MethodOwed(<<e>> \o stack, request') BY <1>1, <1>2, PushOwesMethod DEF Leaves
<1>5. /\ \E T : stack' \in Seq(T)
      /\ DOMAIN stack = 1 .. Len(stack) /\ Len(stack) \in Nat /\ DOMAIN stack' = 1 .. (Len(stack) + 1)
      /\ stack'[1] = e /\ \A i \in 1 .. Len(stack) : stack'[i + 1] = stack[i]
  BY <1>1, OnTop
<1>6. ASSUME NEW i \in DOMAIN stack', stack'[i].kind = "restore" PROVE stack'[i].attribute \in Bound
  <2>1. CASE i = 1 BY <1>5, <1>6, <2>1
  <2>2. CASE i # 1
    <3>1. i - 1 \in DOMAIN stack /\ stack'[(i - 1) + 1] = stack[i - 1] /\ (i - 1) + 1 = i BY <1>5, <1>6, <2>2
    <3> QED BY <1>6, <3>1 DEF RestoreInv
  <2> QED BY <2>1, <2>2
<1> QED BY <1>3, <1>4, <1>5, <1>6 DEF RestoreInv

\* An element is left.
LEMMA LeaveRestores ==
  ASSUME RestoreInv, Shape', stack # <<>>, stack' = Tail(stack), request'.asked = request.asked,
         \A a \in Bound : request'.attributes[a] =
           IF Head(stack).kind = "restore" /\ Head(stack).attribute = a
           THEN Head(stack).value ELSE request.attributes[a],
         IF Head(stack).kind = "method"
         THEN request'.method = Head(stack).value /\ request'.attributes["originalMethod"] = Absent
         ELSE request'.method = request.method /\ Leaves("originalMethod")
  PROVE  RestoreInv'
<1>1. PICK S : stack \in Seq(S) BY DEF RestoreInv
<1>2. AttributesOwed(stack, request.attributes) /\ MethodOwed(stack, request) BY DEF RestoreInv
<1>3. AttributesOwed(stack', request'.attributes) BY <1>1, <1>2, PopOwes
<1>4. MethodOwed(stack', request') BY <1>1, <1>2, PopOwesMethod DEF Leaves
<1>5. /\ \E T : stack' \in Seq(T)
      /\ DOMAIN stack = 1 .. Len(stack) /\ Len(stack) \in Nat \ {0} /\ DOMAIN stack' = 1 .. (Len(stack) - 1)
      /\ \A i \in 1 .. (Len(stack) - 1) : stack'[i] = stack[i + 1]
  BY <1>1, OffTop
<1>6. ASSUME NEW i \in DOMAIN stack', stack'[i].kind = "restore" PROVE stack'[i].attribute \in Bound
  <2>1. i + 1 \in DOMAIN stack /\ stack'[i] = stack[i + 1] BY <1>5, <1>6
  <2> QED BY <1>6, <2>1 DEF RestoreInv
<1> QED BY <1>3, <1>4, <1>5, <1>6 DEF RestoreInv

\* Nothing is bound when the request comes.
LEMMA InitRestores == Init => RestoreInv
<1> SUFFICES ASSUME NEW application \in Applications, NEW q \in Requests, Begin(application, q) PROVE RestoreInv
  BY DEF Init
<1>1. stack = <<>> /\ request.method = request.asked /\ \A a \in Attributes : request.attributes[a] = Absent
  BY DEF Begin
<1>2. Shape BY DEF Begin, Shape
<1>3. stack \in Seq({}) /\ DOMAIN stack = {} BY <1>1
<1>4. (\A a : Restorers(stack, a) = {}) /\ Overriders(stack) = {} BY <1>3 DEF Restorers, Overriders
<1>5. Bound \cup {"originalMethod"} \subseteq Attributes BY DEF Bound, Attributes
<1> QED BY <1>1, <1>2, <1>3, <1>4, <1>5 DEF RestoreInv, AttributesOwed, MethodOwed

\* A step that changes neither the request nor the stack.
LEMMA IdleRestores ==
  ASSUME RestoreInv, request' = request, stack' = stack
  PROVE  RestoreInv'
BY DEF RestoreInv, Shape, AttributesOwed, MethodOwed

\* A step that binds an attribute of the request, not for the time of a call.
LEMMA KeepRestores ==
  ASSUME RestoreInv, NEW name \in {"formContent", "originalScheme", "model"}, NEW value,
         request' = With(name, value), stack' = stack
  PROVE  RestoreInv'
<1>1. Shape /\ name \in Attributes BY DEF RestoreInv, Attributes
<1>2. name \notin Bound \cup {"originalMethod"} /\ Bound \cup {"originalMethod"} \subseteq Attributes
  BY DEF Bound, Attributes
<1> QED BY <1>1, <1>2, BindOne, StayRestores DEF Leaves

\* A call that binds an attribute and will put back what there was.
LEMMA CallRestores ==
  ASSUME RestoreInv, NEW name \in Bound, NEW value, NEW before, request' = With(name, value),
         stack' = <<[kind |-> "restore", attribute |-> name, value |-> before]>> \o stack,
         request.attributes[name] = Absent => before = Absent
  PROVE  RestoreInv'
<1> DEFINE e == [kind |-> "restore", attribute |-> name, value |-> before]
<1>1. Shape /\ name \in Attributes BY DEF RestoreInv, Bound, Attributes
<1>2. "originalMethod" \notin Bound /\ Bound \cup {"originalMethod"} \subseteq Attributes BY DEF Bound, Attributes
<1>3. e.kind = "restore" /\ e.attribute = name /\ e.value = before /\ stack' = <<e>> \o stack OBVIOUS
<1> HIDE DEF e
<1>4. /\ Shape' /\ request'.method = request.method /\ request'.asked = request.asked
      /\ \A a \in Attributes : request'.attributes[a] = IF a = name THEN value ELSE request.attributes[a]
  BY <1>1, BindOne
<1>5. \A a \in Bound : IF e.kind = "restore" /\ e.attribute = a
                       THEN request.attributes[a] = Absent => e.value = Absent ELSE Leaves(a)
  BY <1>2, <1>3, <1>4 DEF Leaves
<1>6. Leaves("originalMethod") BY <1>2, <1>4 DEF Leaves
<1>7. e.kind # "method" BY <1>3
<1> QED BY <1>3, <1>4, <1>5, <1>6, <1>7, EnterRestores

\* An element that restores nothing.
LEMMA PlainRestores ==
  ASSUME RestoreInv, NEW e, e.kind \notin {"restore", "method"}, stack' = <<e>> \o stack,
         \/ request' = request
         \/ \E value : request' = With("model", value)
  PROVE  RestoreInv'
<1>1. Shape /\ "model" \in Attributes BY DEF RestoreInv, Attributes
<1>2. "model" \notin Bound \cup {"originalMethod"} /\ Bound \cup {"originalMethod"} \subseteq Attributes
  BY DEF Bound, Attributes
<1>3. /\ Shape' /\ request'.method = request.method /\ request'.asked = request.asked
      /\ \A a \in Attributes \ {"model"} : request'.attributes[a] = request.attributes[a]
  <2>1. CASE request' = request BY <1>1, <2>1 DEF Shape
  <2>2. CASE \E value : request' = With("model", value)
    <3>1. PICK value : request' = With("model", value) BY <2>2
    <3> QED BY <1>1, <3>1, BindOne
  <2> QED BY <2>1, <2>2
<1>4. \A a \in Bound \cup {"originalMethod"} : Leaves(a) BY <1>2, <1>3 DEF Leaves
<1> QED BY <1>3, <1>4, EnterRestores

\* The steps on the way in.
LEMMA InwardRestores ==
  ASSUME RestoreInv,
         \/ Mapped \/ WebApp \/ Once \/ HiddenMethod \/ FormContent \/ Forwarded \/ User \/ Messages
         \/ EnterRouter \/ PreHandle \/ InitBinders \/ ModelAttributes \/ LoadSessionAttributes
         \/ bindControllerKind \/ Handle
  PROVE  RestoreInv'
<1>1. CASE Mapped BY <1>1, IdleRestores DEF Mapped
<1>2. CASE WebApp
  <2>1. "webApp" \in Bound BY DEF Bound
  <2> QED BY <1>2, <2>1, CallRestores DEF WebApp, Push, Attribute
<1>3. CASE Once
  <2>1. CASE Attribute("once") # Absent BY <1>3, <2>1, IdleRestores DEF Once
  <2>2. CASE Attribute("once") = Absent
    <3>1. "once" \in Bound BY DEF Bound
    <3> QED BY <1>3, <2>2, <3>1, CallRestores DEF Once, Push
  <2> QED BY <2>1, <2>2
<1>4. CASE HiddenMethod
  <2>1. CASE request' = request /\ stack' = stack BY <2>1, IdleRestores
  <2>2. CASE /\ Push([kind |-> "method", value |-> request.method])
             /\ request' = [With("originalMethod", <<request.method>>) EXCEPT !.method = request.override]
    <3> DEFINE e == [kind |-> "method", value |-> request.method]
    <3>1. e.kind = "method" /\ e.value = request.method /\ stack' = <<e>> \o stack BY <2>2 DEF Push
    <3> HIDE DEF e
    <3>2. Shape BY DEF RestoreInv
    <3>3. /\ Shape' /\ request'.asked = request.asked
          /\ \A a \in Attributes \ {"originalMethod"} : request'.attributes[a] = request.attributes[a]
      BY <2>2, <3>2, BindMethod
    <3>4. Bound \subseteq Attributes \ {"originalMethod"} BY DEF Bound, Attributes
    <3>5. \A a \in Bound : Leaves(a) BY <3>3, <3>4 DEF Leaves
    <3> QED BY <3>1, <3>3, <3>5, EnterRestores
  <2> QED BY <1>4, <2>1, <2>2 DEF HiddenMethod
<1>5. CASE FormContent
  <2>1. CASE request' = request BY <1>5, <2>1, IdleRestores DEF FormContent
  <2>2. CASE request' = With("formContent", <<request.form>>) BY <1>5, <2>2, KeepRestores DEF FormContent
  <2> QED BY <1>5, <2>1, <2>2 DEF FormContent
<1>6. CASE Forwarded
  <2>1. Shape /\ "originalScheme" \in Attributes BY DEF RestoreInv, Attributes
  <2>2. /\ Shape' /\ request'.method = request.method /\ request'.asked = request.asked
        /\ \A a \in Attributes \ {"originalScheme"} : request'.attributes[a] = request.attributes[a]
    BY <1>6, <2>1 DEF Forwarded, Shape, With
  <2>3. Bound \cup {"originalMethod"} \subseteq Attributes \ {"originalScheme"} BY DEF Bound, Attributes
  <2>4. stack' = stack BY <1>6 DEF Forwarded
  <2> QED BY <2>2, <2>3, <2>4, StayRestores DEF Leaves
<1>7. CASE User BY <1>7, IdleRestores DEF User
<1>8. CASE Messages BY <1>8, IdleRestores DEF Messages
<1>9. CASE EnterRouter BY <1>9, PlainRestores DEF EnterRouter, Push
<1>10. CASE PreHandle
  <2>1. CASE stack' = stack BY <1>10, <2>1, IdleRestores DEF PreHandle
  <2>2. CASE Push(Head(todo)) BY <1>10, <2>2, PlainRestores DEF PreHandle, Push, At
  <2> QED BY <1>10, <2>1, <2>2 DEF PreHandle
<1>11. CASE InitBinders
  <2>1. "binder" \in Bound BY DEF Bound
  <2>2. PICK value : request' = With("binder", value) BY <1>11 DEF InitBinders
  <2> QED BY <1>11, <2>1, <2>2, CallRestores DEF InitBinders, Push, Attribute
<1>12. CASE ModelAttributes
  <2>1. PICK value : request' = With("model", value) BY <1>12 DEF ModelAttributes
  <2> QED BY <1>12, <2>1, KeepRestores DEF ModelAttributes
<1>13. CASE LoadSessionAttributes
  <2>1. PICK value : request' = With("model", value) BY <1>13 DEF LoadSessionAttributes
  <2> QED BY <1>13, <2>1, PlainRestores DEF LoadSessionAttributes, Push
<1>14. CASE bindControllerKind
  <2>1. "kind" \in Bound BY DEF Bound
  <2> QED BY <1>14, <2>1, CallRestores DEF bindControllerKind, Push, Attribute
<1>15. CASE Handle BY <1>15, IdleRestores DEF Handle
<1> QED BY <1>1, <1>2, <1>3, <1>4, <1>5, <1>6, <1>7, <1>8, <1>9, <1>10, <1>11, <1>12, <1>13, <1>14, <1>15

\* The steps on the way out.
LEMMA OutwardRestores ==
  ASSUME RestoreInv,
         Restore \/ RestoreMethod \/ PostHandle \/ AfterCompletion \/ SaveSessionAttributes \/ LeaveRouter
  PROVE  RestoreInv'
<1>1. Shape /\ Bound \subseteq Attributes \ {"originalMethod"} /\ "originalMethod" \in Attributes
  BY DEF RestoreInv, Bound, Attributes
<1>2. CASE Restore
  <2>1. /\ stack # <<>> /\ Head(stack).kind = "restore" /\ stack' = Tail(stack)
        /\ request' = With(Head(stack).attribute, Head(stack).value)
    BY <1>2 DEF Restore, Leaving, Pop
  <2>2. Head(stack).attribute \in Bound
    <3>1. PICK S : stack \in Seq(S) BY DEF RestoreInv
    <3>2. 1 \in DOMAIN stack /\ Head(stack) = stack[1] BY <2>1, <3>1, OffTop
    <3> QED BY <2>1, <3>2 DEF RestoreInv
  <2>3. /\ Shape' /\ request'.method = request.method /\ request'.asked = request.asked
        /\ \A a \in Attributes : request'.attributes[a] =
             IF a = Head(stack).attribute THEN Head(stack).value ELSE request.attributes[a]
    BY <1>1, <2>1, <2>2, BindOne
  <2>4. \A a \in Bound : request'.attributes[a] =
          IF Head(stack).kind = "restore" /\ Head(stack).attribute = a THEN Head(stack).value ELSE request.attributes[a]
    BY <1>1, <2>1, <2>3
  <2>5. Leaves("originalMethod") BY <1>1, <2>2, <2>3 DEF Leaves
  <2> QED BY <2>1, <2>3, <2>4, <2>5, LeaveRestores
<1>3. CASE RestoreMethod
  <2>1. /\ stack # <<>> /\ Head(stack).kind = "method" /\ stack' = Tail(stack)
        /\ request' = [With("originalMethod", Absent) EXCEPT !.method = Head(stack).value]
    BY <1>3 DEF RestoreMethod, Leaving, Pop
  <2>2. /\ Shape' /\ request'.method = Head(stack).value /\ request'.asked = request.asked
        /\ \A a \in Attributes : request'.attributes[a] = IF a = "originalMethod" THEN Absent ELSE request.attributes[a]
    BY <1>1, <2>1, BindMethod
  <2> QED BY <1>1, <2>1, <2>2, LeaveRestores
<1>4. ASSUME request' = request, stack # <<>>, stack' = Tail(stack), Head(stack).kind \notin {"restore", "method"}
      PROVE  RestoreInv'
  <2>1. Shape' BY <1>1, <1>4 DEF Shape
  <2> QED BY <1>4, <2>1, LeaveRestores DEF Leaves
<1>5. CASE PostHandle BY <1>4, <1>5 DEF PostHandle, Complete, Leaving, Pop
<1>6. CASE AfterCompletion BY <1>4, <1>6 DEF AfterCompletion, Complete, Leaving, Pop
<1>7. CASE SaveSessionAttributes BY <1>4, <1>7 DEF SaveSessionAttributes, Leaving, Pop
<1>8. CASE LeaveRouter BY <1>4, <1>8 DEF LeaveRouter, Leaving, Pop
<1> QED BY <1>2, <1>3, <1>5, <1>6, <1>7, <1>8

\* However a request ends, it has the method it came with, and nothing bound
\* for the time of a call is left on it (hidden_method.go, once.go,
\* configuration.go, the wrappers of web/mvc).
THEOREM EveryCallRestores == Spec => []RequestRestored
<1>1. RestoreInv /\ [Next]_vars => RestoreInv'
  BY InwardRestores, OutwardRestores, IdleRestores DEF Next, vars
<1>2. RestoreInv => RequestRestored
  <2> SUFFICES ASSUME RestoreInv, Done PROVE /\ request.method = request.asked
                                             /\ \A a \in Bound \cup {"originalMethod"} : Attribute(a) = Absent
    BY DEF RequestRestored, Bound
  <2>1. DOMAIN stack = {} BY DEF Done
  <2>2. (\A a : Restorers(stack, a) = {}) /\ Overriders(stack) = {} BY <2>1 DEF Restorers, Overriders
  <2> QED BY <2>2 DEF RestoreInv, AttributesOwed, MethodOwed, Attribute
<1> QED BY <1>1, <1>2, InitRestores, PTL DEF Spec

-----------------------------------------------------------------------------
(***************************************************************************)
(* Who let the request pass is told of its end.                            *)
(***************************************************************************)
AList(s) == \E S : s \in Seq(S)

\* What is ahead: filters up to the router, interceptors after it.
Plain(e) == e.kind \notin {"router", "handler", "mapped", "once"}
IsOuter(e) == e \in Filters \/ Plain(e)
IsInner(e) == e \in Interceptors \/ Plain(e)
OuterFirst(t) ==
  /\ \A i \in DOMAIN t : (\A j \in DOMAIN t : t[j].kind = "router" => i < j) => IsOuter(t[i])
  /\ \A i, j \in DOMAIN t : t[j].kind = "router" /\ j < i => IsInner(t[i])
AllInner(t) == \A i \in DOMAIN t : IsInner(t[i])

\* What was entered: the handlers are inside the one router.
Routers(s) == {i \in DOMAIN s : s[i].kind = "router"}
HandlersOn(s) == {i \in DOMAIN s : s[i].kind = "handler"}
Nested(s) == /\ \A i, j \in Routers(s) : i = j
             /\ \A h \in HandlersOn(s) : \E r \in Routers(s) : h < r

\* The handlers on the stack, from the top down, are those that let the
\* request pass and were not told of its end yet, the last one first.
Accounts(s, in, out, k, p) ==
  /\ k \in Nat /\ p \in [1 .. k -> DOMAIN s]
  /\ \A i, j \in 1 .. k : i < j => p[i] < p[j]
  /\ \A i \in HandlersOn(s) : \E j \in 1 .. k : p[j] = i
  /\ \A j \in 1 .. k : s[p[j]].kind = "handler" /\ s[p[j]].id = in[k + 1 - j]
  /\ Len(in) = k + Len(out)
  /\ \A j \in 1 .. Len(out) : out[j].id = in[Len(in) + 1 - j]
Ledger(s, in, out) == \E k, p : Accounts(s, in, out, k, p)

\* What the handlers were told: the error of the call, once there is one.
Told ==
  /\ \A i, j \in DOMAIN completed : i < j /\ completed[i].error # None => completed[j].error = completed[i].error
  /\ Routers(stack) # {} =>
       /\ asked = <<>>
       /\ completed # <<>> => completed[Len(completed)].error = Seen(outcome)
       /\ \A i \in DOMAIN completed : completed[i].error # None => completed[i].error = Seen(outcome)
  /\ Routers(stack) = {} /\ completed # <<>> =>
       completed[Len(completed)].error = IF asked = <<>> THEN None ELSE asked[1].error

CompletionInv ==
  /\ AList(stack) /\ AList(todo) /\ AList(passed) /\ AList(completed) /\ AList(asked)
  /\ Nested(stack)
  /\ Ledger(stack, passed, completed)
  /\ outcome = Going => /\ completed = <<>> /\ asked = <<>>
                        /\ IF Routers(stack) = {} THEN OuterFirst(todo) ELSE AllInner(todo)
  /\ Told

\* An element entered, left, or taken for another.
LEMMA Entered ==
  ASSUME NEW s, AList(s), NEW e
  PROVE  /\ AList(<<e>> \o s)
         /\ DOMAIN s = 1 .. Len(s) /\ Len(s) \in Nat
         /\ DOMAIN (<<e>> \o s) = 1 .. (Len(s) + 1)
         /\ (<<e>> \o s)[1] = e
         /\ \A i \in 1 .. Len(s) : (<<e>> \o s)[i + 1] = s[i]
<1>1. PICK S : s \in Seq(S) BY DEF AList
<1> QED BY <1>1, OnTop DEF AList

\* Whoever leaves is off the top; the others move up.
LEMMA Left ==
  ASSUME NEW s, AList(s), s # <<>>
  PROVE  /\ AList(Tail(s))
         /\ DOMAIN s = 1 .. Len(s) /\ Len(s) \in Nat \ {0} /\ Head(s) = s[1]
         /\ DOMAIN Tail(s) = 1 .. (Len(s) - 1)
         /\ \A i \in 1 .. (Len(s) - 1) : Tail(s)[i] = s[i + 1]
<1>1. PICK S : s \in Seq(S) BY DEF AList
<1> QED BY <1>1, OffTop DEF AList

\* The one on top may be exchanged for another.
LEMMA Exchanged ==
  ASSUME NEW s, AList(s), s # <<>>, NEW e
  PROVE  /\ AList(<<e>> \o Tail(s))
         /\ DOMAIN (<<e>> \o Tail(s)) = DOMAIN s
         /\ (<<e>> \o Tail(s))[1] = e
         /\ \A i \in DOMAIN s : i # 1 => (<<e>> \o Tail(s))[i] = s[i]
<1> DEFINE u == Tail(s)
<1>1. /\ AList(u) /\ DOMAIN s = 1 .. Len(s) /\ Len(s) \in Nat \ {0}
      /\ \A i \in 1 .. (Len(s) - 1) : u[i] = s[i + 1]
  BY Left
<1>3. Len(u) = Len(s) - 1 BY DEF AList
<1>5. AList(u) BY <1>1
<1> HIDE DEF u
<1>2. /\ AList(<<e>> \o u) /\ DOMAIN u = 1 .. Len(u) /\ Len(u) \in Nat
      /\ DOMAIN (<<e>> \o u) = 1 .. (Len(u) + 1) /\ (<<e>> \o u)[1] = e
      /\ \A i \in 1 .. Len(u) : (<<e>> \o u)[i + 1] = u[i]
  BY ONLY <1>5, Entered
<1>4. ASSUME NEW i \in DOMAIN s, i # 1 PROVE (<<e>> \o u)[i] = s[i]
  <2>1. i - 1 \in 1 .. Len(u) /\ (i - 1) + 1 = i BY <1>1, <1>3, <1>4
  <2>2. (<<e>> \o u)[(i - 1) + 1] = u[i - 1] /\ u[i - 1] = s[(i - 1) + 1] BY <1>1, <1>2, <1>3, <2>1
  <2> QED BY <2>1, <2>2
<1> QED BY <1>1, <1>2, <1>3, <1>4 DEF u

\* The order of what is ahead survives the passing over of an element ...
LEMMA PassOver ==
  ASSUME NEW t, AList(t), t # <<>>
  PROVE  /\ OuterFirst(t) /\ Head(t).kind # "router" => OuterFirst(Tail(t))
         /\ OuterFirst(t) /\ Head(t).kind = "router" => AllInner(Tail(t))
         /\ AllInner(t) => AllInner(Tail(t))
<1> DEFINE n == Tail(t)
<1>1. /\ DOMAIN t = 1 .. Len(t) /\ Len(t) \in Nat \ {0} /\ Head(t) = t[1]
      /\ DOMAIN n = 1 .. (Len(t) - 1) /\ \A i \in 1 .. (Len(t) - 1) : n[i] = t[i + 1]
  BY Left
<1> HIDE DEF n
<1>2. ASSUME OuterFirst(t), Head(t).kind # "router" PROVE OuterFirst(n)
  <2>1. ASSUME NEW i \in DOMAIN n, \A j \in DOMAIN n : n[j].kind = "router" => i < j PROVE IsOuter(n[i])
    <3>1. i + 1 \in DOMAIN t /\ n[i] = t[i + 1] BY <1>1
    <3>2. ASSUME NEW j \in DOMAIN t, t[j].kind = "router" PROVE i + 1 < j
      <4>1. j # 1 BY <1>1, <1>2, <3>2
      <4>2. j - 1 \in DOMAIN n /\ (j - 1) + 1 = j BY <1>1, <3>2, <4>1
      <4>3. n[j - 1].kind = "router" BY <1>1, <3>2, <4>2
      <4> QED BY <1>1, <2>1, <4>2, <4>3
    <3> QED BY <1>2, <3>1, <3>2 DEF OuterFirst
  <2>2. ASSUME NEW i \in DOMAIN n, NEW j \in DOMAIN n, n[j].kind = "router", j < i PROVE IsInner(n[i])
    <3>1. i + 1 \in DOMAIN t /\ n[i] = t[i + 1] /\ j + 1 \in DOMAIN t /\ n[j] = t[j + 1] /\ j + 1 < i + 1
      BY <1>1, <2>2
    <3> QED BY <1>2, <2>2, <3>1 DEF OuterFirst
  <2> QED BY <2>1, <2>2 DEF OuterFirst
<1>3. ASSUME OuterFirst(t), Head(t).kind = "router" PROVE AllInner(n)
  <2> SUFFICES ASSUME NEW i \in DOMAIN n PROVE IsInner(n[i]) BY DEF AllInner
  <2>1. i + 1 \in DOMAIN t /\ n[i] = t[i + 1] /\ 1 \in DOMAIN t /\ 1 < i + 1 BY <1>1
  <2> QED BY <1>1, <1>3, <2>1 DEF OuterFirst
<1>4. ASSUME AllInner(t) PROVE AllInner(n)
  <2> SUFFICES ASSUME NEW i \in DOMAIN n PROVE IsInner(n[i]) BY DEF AllInner
  <2>1. i + 1 \in DOMAIN t /\ n[i] = t[i + 1] BY <1>1
  <2> QED BY <1>4, <2>1 DEF AllInner
<1> QED BY <1>2, <1>3, <1>4 DEF n

\* ... and the unwrapping of one.
LEMMA Unwrap ==
  ASSUME NEW t, AList(t), t # <<>>, NEW e, e.kind # "router", Head(t).kind # "router",
         IsOuter(Head(t)) => IsOuter(e), IsInner(Head(t)) => IsInner(e)
  PROVE  /\ OuterFirst(t) => OuterFirst(<<e>> \o Tail(t))
         /\ AllInner(t) => AllInner(<<e>> \o Tail(t))
<1> DEFINE n == <<e>> \o Tail(t)
<1>1. /\ DOMAIN t = 1 .. Len(t) /\ Len(t) \in Nat \ {0} /\ Head(t) = t[1]
      /\ DOMAIN n = DOMAIN t /\ n[1] = e /\ \A i \in DOMAIN t : i # 1 => n[i] = t[i]
  BY Left, Exchanged
<1> HIDE DEF n
<1>2. ASSUME OuterFirst(t) PROVE OuterFirst(n)
  <2>1. \A j \in DOMAIN t : t[j].kind = "router" <=> n[j].kind = "router" BY <1>1
  <2>2. ASSUME NEW i \in DOMAIN n, \A j \in DOMAIN n : n[j].kind = "router" => i < j PROVE IsOuter(n[i])
    <3>1. IsOuter(t[i]) BY <1>1, <1>2, <2>1, <2>2 DEF OuterFirst
    <3> QED BY <1>1, <3>1
  <2>3. ASSUME NEW i \in DOMAIN n, NEW j \in DOMAIN n, n[j].kind = "router", j < i PROVE IsInner(n[i])
    <3>1. IsInner(t[i]) BY <1>1, <1>2, <2>1, <2>3 DEF OuterFirst
    <3> QED BY <1>1, <3>1
  <2> QED BY <2>2, <2>3 DEF OuterFirst
<1>3. ASSUME AllInner(t) PROVE AllInner(n) BY <1>1, <1>3 DEF AllInner
<1> QED BY <1>2, <1>3 DEF n

\* The nesting of what was entered.
LEMMA PushNests ==
  ASSUME NEW s, AList(s), Nested(s), NEW e,
         e.kind = "handler" => Routers(s) # {}, e.kind = "router" => Routers(s) = {}
  PROVE  /\ Nested(<<e>> \o s)
         /\ Routers(<<e>> \o s) = {} <=> Routers(s) = {} /\ e.kind # "router"
<1> DEFINE n == <<e>> \o s
<1>1. /\ DOMAIN s = 1 .. Len(s) /\ Len(s) \in Nat /\ DOMAIN n = 1 .. (Len(s) + 1) /\ n[1] = e
      /\ \A i \in 1 .. Len(s) : n[i + 1] = s[i]
  BY Entered
<1> HIDE DEF n
<1>2. \A i \in 1 .. Len(s) : /\ i \in Routers(s) <=> i + 1 \in Routers(n)
                             /\ i \in HandlersOn(s) <=> i + 1 \in HandlersOn(n)
  BY <1>1 DEF Routers, HandlersOn
<1>3. (1 \in Routers(n) <=> e.kind = "router") /\ (1 \in HandlersOn(n) <=> e.kind = "handler")
  BY <1>1 DEF Routers, HandlersOn
<1>4. /\ \A i \in Routers(n) : i \in 1 .. (Len(s) + 1) /\ (i # 1 => i - 1 \in Routers(s))
      /\ \A i \in HandlersOn(n) : i \in 1 .. (Len(s) + 1) /\ (i # 1 => i - 1 \in HandlersOn(s))
  BY <1>1, <1>2 DEF Routers, HandlersOn
<1>5. \A i \in Routers(s) \cup HandlersOn(s) : i \in 1 .. Len(s) BY <1>1 DEF Routers, HandlersOn
<1>6. Routers(n) = {} <=> Routers(s) = {} /\ e.kind # "router"
  <2>1. ASSUME Routers(n) = {} PROVE Routers(s) = {} /\ e.kind # "router" BY <1>2, <1>3, <1>5, <2>1
  <2>2. ASSUME Routers(s) = {}, e.kind # "router" PROVE Routers(n) = {} BY <1>3, <1>4, <2>2
  <2> QED BY <2>1, <2>2
<1>7. ASSUME NEW i \in Routers(n), NEW j \in Routers(n) PROVE i = j
  <2>1. CASE e.kind = "router" BY <1>4, <2>1
  <2>2. CASE e.kind # "router"
    <3>1. i - 1 \in Routers(s) /\ j - 1 \in Routers(s) BY <1>3, <1>4, <1>7, <2>2
    <3>2. i - 1 = j - 1 BY <3>1 DEF Nested
    <3> QED BY <1>1, <1>4, <3>2
  <2> QED BY <2>1, <2>2
<1>8. ASSUME NEW h \in HandlersOn(n) PROVE \E r \in Routers(n) : h < r
  <2>1. CASE h = 1
    <3>1. PICK r : r \in Routers(s) BY <1>3, <2>1
    <3>2. r + 1 \in Routers(n) /\ 1 < r + 1 BY <1>2, <1>5, <3>1
    <3> QED BY <2>1, <3>2
  <2>2. CASE h # 1
    <3>1. h - 1 \in HandlersOn(s) BY <1>4, <2>2
    <3>2. PICK r \in Routers(s) : h - 1 < r BY <3>1 DEF Nested
    <3>3. r + 1 \in Routers(n) /\ h < r + 1 BY <1>1, <1>2, <1>4, <1>5, <3>2
    <3> QED BY <3>3
  <2> QED BY <2>1, <2>2
<1> QED BY <1>6, <1>7, <1>8 DEF Nested, n

\* What is left of a well nested stack is well nested.
LEMMA PopNests ==
  ASSUME NEW s, AList(s), Nested(s), s # <<>>
  PROVE  /\ Nested(Tail(s))
         /\ Head(s).kind # "router" => (Routers(Tail(s)) = {} <=> Routers(s) = {})
         /\ Head(s).kind = "router" => Routers(Tail(s)) = {} /\ Routers(s) # {}
         /\ Head(s).kind = "handler" => Routers(s) # {}
<1> DEFINE n == Tail(s)
<1>1. /\ DOMAIN s = 1 .. Len(s) /\ Len(s) \in Nat \ {0} /\ Head(s) = s[1] /\ DOMAIN n = 1 .. (Len(s) - 1)
      /\ \A i \in 1 .. (Len(s) - 1) : n[i] = s[i + 1]
  BY Left
<1> HIDE DEF n
<1>2. \A i \in 1 .. (Len(s) - 1) : /\ i \in Routers(n) <=> i + 1 \in Routers(s)
                                   /\ i \in HandlersOn(n) <=> i + 1 \in HandlersOn(s)
  BY <1>1 DEF Routers, HandlersOn
<1>3. (1 \in Routers(s) <=> Head(s).kind = "router") /\ (1 \in HandlersOn(s) <=> Head(s).kind = "handler")
  BY <1>1 DEF Routers, HandlersOn
<1>4. /\ \A i \in Routers(s) : i \in 1 .. Len(s) /\ (i # 1 => i - 1 \in Routers(n))
      /\ \A i \in HandlersOn(s) : i \in 1 .. Len(s)
  BY <1>1, <1>2 DEF Routers, HandlersOn
<1>5. \A i \in Routers(n) \cup HandlersOn(n) : i \in 1 .. (Len(s) - 1) BY <1>1 DEF Routers, HandlersOn
<1>6. ASSUME Head(s).kind = "router" PROVE Routers(n) = {} /\ Routers(s) # {}
  <2>1. ASSUME NEW i \in Routers(n) PROVE FALSE
    <3>1. i + 1 \in Routers(s) /\ 1 \in Routers(s) /\ i \in 1 .. (Len(s) - 1) BY <1>2, <1>3, <1>5, <1>6
    <3>2. i + 1 = 1 BY <3>1 DEF Nested
    <3> QED BY <3>1, <3>2
  <2> QED BY <1>3, <1>6, <2>1
<1>7. ASSUME Head(s).kind # "router" PROVE Routers(n) = {} <=> Routers(s) = {}
  <2>1. ASSUME Routers(s) = {} PROVE Routers(n) = {} BY <1>2, <1>5, <2>1
  <2>2. ASSUME Routers(n) = {} PROVE Routers(s) = {} BY <1>3, <1>4, <1>7, <2>2
  <2> QED BY <2>1, <2>2
<1>8. ASSUME Head(s).kind = "handler" PROVE Routers(s) # {} BY <1>3, <1>8 DEF Nested
<1>9. ASSUME NEW i \in Routers(n), NEW j \in Routers(n) PROVE i = j
  <2>1. i + 1 \in Routers(s) /\ j + 1 \in Routers(s) /\ i \in 1 .. (Len(s) - 1) /\ j \in 1 .. (Len(s) - 1)
    BY <1>2, <1>5
  <2>2. i + 1 = j + 1 BY <2>1 DEF Nested
  <2> QED BY <1>1, <2>1, <2>2
<1>10. ASSUME NEW h \in HandlersOn(n) PROVE \E r \in Routers(n) : h < r
  <2>1. h + 1 \in HandlersOn(s) /\ h \in 1 .. (Len(s) - 1) BY <1>2, <1>5
  <2>2. PICK r \in Routers(s) : h + 1 < r BY <2>1 DEF Nested
  <2>3. r - 1 \in Routers(n) /\ h < r - 1 BY <1>1, <1>4, <2>1, <2>2
  <2> QED BY <2>3
<1> QED BY <1>6, <1>7, <1>8, <1>9, <1>10 DEF Nested, n

\* The ledger when an element that is no handler is entered ...
LEMMA PushLedger ==
  ASSUME NEW s, AList(s), NEW e, e.kind # "handler", NEW in, NEW out, Ledger(s, in, out)
  PROVE  Ledger(<<e>> \o s, in, out)
<1> DEFINE n == <<e>> \o s
<1>1. /\ DOMAIN s = 1 .. Len(s) /\ Len(s) \in Nat /\ DOMAIN n = 1 .. (Len(s) + 1) /\ n[1] = e
      /\ \A i \in 1 .. Len(s) : n[i + 1] = s[i]
  BY Entered
<1> HIDE DEF n
<1>2. PICK k, p : Accounts(s, in, out, k, p) BY DEF Ledger
<1>3. k \in Nat /\ \A j \in 1 .. k : p[j] \in 1 .. Len(s) BY <1>1, <1>2 DEF Accounts
<1> DEFINE q == [j \in 1 .. k |-> p[j] + 1]
<1>4. q \in [1 .. k -> DOMAIN n] BY <1>1, <1>3
<1>5. \A j \in 1 .. k : q[j] = p[j] + 1 /\ n[q[j]] = s[p[j]] BY <1>1, <1>3
<1> HIDE DEF q
<1>6. \A i, j \in 1 .. k : i < j => q[i] < q[j] BY <1>2, <1>3, <1>5 DEF Accounts
<1>7. ASSUME NEW i \in HandlersOn(n) PROVE \E j \in 1 .. k : q[j] = i
  <2>1. i \in 1 .. (Len(s) + 1) /\ i # 1 BY <1>1, <1>7 DEF HandlersOn
  <2>2. i - 1 \in 1 .. Len(s) /\ (i - 1) + 1 = i BY <1>1, <2>1
  <2>3. n[(i - 1) + 1] = s[i - 1] BY <1>1, <2>2
  <2>4. i - 1 \in HandlersOn(s) BY <1>1, <1>7, <2>2, <2>3 DEF HandlersOn
  <2>5. PICK j \in 1 .. k : p[j] = i - 1 BY <1>2, <2>4 DEF Accounts
  <2> QED BY <1>5, <2>2, <2>5
<1>8. Accounts(n, in, out, k, q) BY <1>2, <1>4, <1>5, <1>6, <1>7 DEF Accounts
<1> QED BY <1>8 DEF Ledger, n

\* ... when a handler lets the request pass ...
LEMMA PassLedger ==
  ASSUME NEW s, AList(s), NEW e, e.kind = "handler", NEW in, AList(in), Ledger(s, in, <<>>)
  PROVE  Ledger(<<e>> \o s, Append(in, e.id), <<>>)
<1> DEFINE n == <<e>> \o s
           m == Append(in, e.id)
<1>1. /\ DOMAIN s = 1 .. Len(s) /\ Len(s) \in Nat /\ DOMAIN n = 1 .. (Len(s) + 1) /\ n[1] = e
      /\ \A i \in 1 .. Len(s) : n[i + 1] = s[i]
  BY Entered
<1>2. Len(in) \in Nat /\ Len(m) = Len(in) + 1 /\ m[Len(in) + 1] = e.id /\ \A j \in 1 .. Len(in) : m[j] = in[j]
  <2>1. PICK S : in \in Seq(S) BY DEF AList
  <2>2. in \in Seq(S \cup {e.id}) BY <2>1
  <2> QED BY <2>2
<1> HIDE DEF n, m
<1>3. PICK k, p : Accounts(s, in, <<>>, k, p) BY DEF Ledger
<1>4. k \in Nat /\ k = Len(in) /\ \A j \in 1 .. k : p[j] \in 1 .. Len(s) BY <1>1, <1>2, <1>3 DEF Accounts
<1> DEFINE q == [j \in 1 .. (k + 1) |-> IF j = 1 THEN 1 ELSE p[j - 1] + 1]
<1>5. \A j \in 1 .. (k + 1) : j # 1 => j - 1 \in 1 .. k /\ p[j - 1] \in 1 .. Len(s) /\ q[j] = p[j - 1] + 1 /\ n[q[j]] = s[p[j - 1]]
  BY <1>1, <1>4
<1>6. q[1] = 1 /\ n[q[1]] = e BY <1>1, <1>4
<1>7. q \in [1 .. (k + 1) -> DOMAIN n]
  <2>1. \A j \in 1 .. (k + 1) : q[j] \in DOMAIN n BY <1>1, <1>5, <1>6
  <2> QED BY <2>1
<1> HIDE DEF q
<1>8. ASSUME NEW i \in 1 .. (k + 1), NEW j \in 1 .. (k + 1), i < j PROVE q[i] < q[j]
  <2>1. j # 1 /\ q[j] = p[j - 1] + 1 /\ p[j - 1] \in 1 .. Len(s) /\ j - 1 \in 1 .. k BY <1>4, <1>5, <1>8
  <2>2. CASE i = 1 BY <1>1, <1>6, <2>1, <2>2
  <2>3. CASE i # 1
    <3>1. i - 1 \in 1 .. k /\ i - 1 < j - 1 /\ q[i] = p[i - 1] + 1 /\ p[i - 1] \in 1 .. Len(s) BY <1>4, <1>5, <1>8, <2>3
    <3>2. p[i - 1] < p[j - 1] BY <1>3, <2>1, <3>1 DEF Accounts
    <3> QED BY <1>1, <2>1, <3>1, <3>2
  <2> QED BY <2>2, <2>3
<1>9. ASSUME NEW i \in HandlersOn(n) PROVE \E j \in 1 .. (k + 1) : q[j] = i
  <2>1. i \in 1 .. (Len(s) + 1) BY <1>1, <1>9 DEF HandlersOn
  <2>2. CASE i = 1 BY <1>4, <1>6, <2>2
  <2>3. CASE i # 1
    <3>1. i - 1 \in 1 .. Len(s) /\ (i - 1) + 1 = i BY <1>1, <2>1, <2>3
    <3>2. n[(i - 1) + 1] = s[i - 1] BY <1>1, <3>1
    <3>3. i - 1 \in HandlersOn(s) BY <1>1, <1>9, <3>1, <3>2 DEF HandlersOn
    <3>4. PICK j \in 1 .. k : p[j] = i - 1 BY <1>3, <3>3 DEF Accounts
    <3>5. j + 1 \in 1 .. (k + 1) /\ j + 1 # 1 /\ (j + 1) - 1 = j BY <1>4
    <3>6. q[j + 1] = p[j] + 1 BY <1>5, <3>5
    <3> QED BY <3>1, <3>4, <3>5, <3>6
  <2> QED BY <2>2, <2>3
<1>10. ASSUME NEW j \in 1 .. (k + 1) PROVE n[q[j]].kind = "handler" /\ n[q[j]].id = m[(k + 1) + 1 - j]
  <2>1. CASE j = 1 BY <1>2, <1>4, <1>6, <2>1
  <2>2. CASE j # 1
    <3>1. j - 1 \in 1 .. k /\ n[q[j]] = s[p[j - 1]] BY <1>5, <2>2
    <3>2. s[p[j - 1]].kind = "handler" /\ s[p[j - 1]].id = in[k + 1 - (j - 1)] BY <1>3, <3>1 DEF Accounts
    <3>3. k + 1 - (j - 1) \in 1 .. Len(in) /\ k + 1 - (j - 1) = (k + 1) + 1 - j BY <1>4, <3>1
    <3>4. m[k + 1 - (j - 1)] = in[k + 1 - (j - 1)] BY <1>2, <3>3
    <3> QED BY <3>1, <3>2, <3>3, <3>4
  <2> QED BY <2>1, <2>2
<1>11. Len(m) = (k + 1) + Len(<<>>) /\ Len(<<>>) = 0 BY <1>2, <1>4
<1>12. Accounts(n, m, <<>>, k + 1, q) BY <1>4, <1>7, <1>8, <1>9, <1>10, <1>11 DEF Accounts
<1> QED BY <1>12 DEF Ledger, n, m

\* ... when an element that is no handler is left ...
LEMMA PopLedger ==
  ASSUME NEW s, AList(s), s # <<>>, Head(s).kind # "handler", NEW in, NEW out, Ledger(s, in, out)
  PROVE  Ledger(Tail(s), in, out)
<1> DEFINE n == Tail(s)
<1>1. /\ DOMAIN s = 1 .. Len(s) /\ Len(s) \in Nat \ {0} /\ Head(s) = s[1] /\ DOMAIN n = 1 .. (Len(s) - 1)
      /\ \A i \in 1 .. (Len(s) - 1) : n[i] = s[i + 1]
  BY Left
<1> HIDE DEF n
<1>2. PICK k, p : Accounts(s, in, out, k, p) BY DEF Ledger
<1>3. k \in Nat /\ \A j \in 1 .. k : p[j] \in 2 .. Len(s)
  <2>1. k \in Nat /\ \A j \in 1 .. k : p[j] \in 1 .. Len(s) /\ s[p[j]].kind = "handler" BY <1>1, <1>2 DEF Accounts
  <2>2. \A j \in 1 .. k : p[j] # 1 BY <1>1, <2>1
  <2> QED BY <1>1, <2>1, <2>2
<1> DEFINE q == [j \in 1 .. k |-> p[j] - 1]
<1>4. q \in [1 .. k -> DOMAIN n] BY <1>1, <1>3
<1>5. ASSUME NEW j \in 1 .. k PROVE q[j] = p[j] - 1 /\ n[q[j]] = s[p[j]]
  <2>1. p[j] - 1 \in 1 .. (Len(s) - 1) /\ (p[j] - 1) + 1 = p[j] BY <1>1, <1>3
  <2> QED BY <1>1, <2>1
<1> HIDE DEF q
<1>6. \A i, j \in 1 .. k : i < j => q[i] < q[j] BY <1>2, <1>3, <1>5 DEF Accounts
<1>7. ASSUME NEW i \in HandlersOn(n) PROVE \E j \in 1 .. k : q[j] = i
  <2>1. i \in 1 .. (Len(s) - 1) /\ n[i].kind = "handler" BY <1>1, <1>7 DEF HandlersOn
  <2>2. i + 1 \in HandlersOn(s) BY <1>1, <2>1 DEF HandlersOn
  <2>3. PICK j \in 1 .. k : p[j] = i + 1 BY <1>2, <2>2 DEF Accounts
  <2> QED BY <1>5, <2>1, <2>3
<1>8. Accounts(n, in, out, k, q) BY <1>2, <1>4, <1>5, <1>6, <1>7 DEF Accounts
<1> QED BY <1>8 DEF Ledger, n

\* ... and when a handler is told of the end.
LEMMA TellLedger ==
  ASSUME NEW s, AList(s), s # <<>>, Head(s).kind = "handler",
         NEW in, NEW out, AList(out), Ledger(s, in, out), NEW e, e.id = Head(s).id
  PROVE  Ledger(Tail(s), in, Append(out, e))
<1> DEFINE n == Tail(s)
           m == Append(out, e)
<1>1. /\ DOMAIN s = 1 .. Len(s) /\ Len(s) \in Nat \ {0} /\ Head(s) = s[1] /\ DOMAIN n = 1 .. (Len(s) - 1)
      /\ \A i \in 1 .. (Len(s) - 1) : n[i] = s[i + 1]
  BY Left
<1>2. /\ Len(out) \in Nat /\ Len(m) = Len(out) + 1 /\ m[Len(out) + 1] = e
      /\ \A j \in 1 .. Len(out) : m[j] = out[j]
  <2>1. PICK S : out \in Seq(S) BY DEF AList
  <2>2. out \in Seq(S \cup {e}) BY <2>1
  <2> QED BY <2>2
<1> HIDE DEF n, m
<1>3. PICK k, p : Accounts(s, in, out, k, p) BY DEF Ledger
<1>4. k \in Nat /\ \A j \in 1 .. k : p[j] \in 1 .. Len(s) BY <1>1, <1>3 DEF Accounts
<1>5. 1 \in 1 .. k /\ p[1] = 1
  <2>1. 1 \in HandlersOn(s) BY <1>1 DEF HandlersOn
  <2>2. PICK j \in 1 .. k : p[j] = 1 BY <1>3, <2>1 DEF Accounts
  <2>3. 1 \in 1 .. k BY <1>4, <2>2
  <2>4. 1 < j => p[1] < p[j] BY <1>3, <2>2, <2>3 DEF Accounts
  <2> QED BY <1>4, <2>2, <2>3, <2>4
<1>6. ASSUME NEW j \in 1 .. (k - 1)
      PROVE  j + 1 \in 1 .. k /\ p[j + 1] \in 2 .. Len(s)
  <2>1. j + 1 \in 1 .. k /\ 1 < j + 1 BY <1>4
  <2>2. p[1] < p[j + 1] BY <1>3, <1>5, <2>1 DEF Accounts
  <2> QED BY <1>4, <1>5, <2>1, <2>2
<1> DEFINE q == [j \in 1 .. (k - 1) |-> p[j + 1] - 1]
<1>7. ASSUME NEW j \in 1 .. (k - 1) PROVE q[j] = p[j + 1] - 1 /\ q[j] \in DOMAIN n /\ n[q[j]] = s[p[j + 1]]
  <2>1. p[j + 1] - 1 \in 1 .. (Len(s) - 1) /\ (p[j + 1] - 1) + 1 = p[j + 1] BY <1>1, <1>6
  <2> QED BY <1>1, <2>1
<1>8. q \in [1 .. (k - 1) -> DOMAIN n] BY <1>7
<1> HIDE DEF q
<1>9. ASSUME NEW i \in 1 .. (k - 1), NEW j \in 1 .. (k - 1), i < j PROVE q[i] < q[j]
  <2>1. i + 1 < j + 1 BY <1>4, <1>9
  <2>2. p[i + 1] < p[j + 1] BY <1>3, <1>6, <2>1 DEF Accounts
  <2> QED BY <1>1, <1>6, <1>7, <2>2
<1>10. ASSUME NEW i \in HandlersOn(n) PROVE \E j \in 1 .. (k - 1) : q[j] = i
  <2>1. i \in 1 .. (Len(s) - 1) /\ n[i].kind = "handler" BY <1>1, <1>10 DEF HandlersOn
  <2>2. i + 1 \in HandlersOn(s) BY <1>1, <2>1 DEF HandlersOn
  <2>3. PICK j \in 1 .. k : p[j] = i + 1 BY <1>3, <2>2 DEF Accounts
  <2>4. j # 1 BY <1>5, <2>1, <2>3
  <2>5. j - 1 \in 1 .. (k - 1) /\ (j - 1) + 1 = j BY <1>4, <2>4
  <2>6. q[j - 1] = p[j] - 1 BY <1>7, <2>5
  <2> QED BY <2>1, <2>3, <2>5, <2>6
<1>11. Len(in) = k + Len(out) BY <1>3 DEF Accounts
<1>12. ASSUME NEW j \in 1 .. (k - 1) PROVE n[q[j]].kind = "handler" /\ n[q[j]].id = in[(k - 1) + 1 - j]
  <2>1. s[p[j + 1]].kind = "handler" /\ s[p[j + 1]].id = in[k + 1 - (j + 1)] BY <1>3, <1>6 DEF Accounts
  <2>2. k + 1 - (j + 1) = (k - 1) + 1 - j BY <1>4
  <2> QED BY <1>7, <2>1, <2>2
<1>13. ASSUME NEW j \in 1 .. Len(m) PROVE m[j].id = in[Len(in) + 1 - j]
  <2>1. CASE j \in 1 .. Len(out) BY <1>2, <1>3, <2>1 DEF Accounts
  <2>2. CASE j = Len(out) + 1
    <3>1. s[p[1]].id = in[k + 1 - 1] BY <1>3, <1>5 DEF Accounts
    <3>2. k + 1 - 1 = Len(in) + 1 - j BY <1>2, <1>4, <1>11, <2>2
    <3> QED BY <1>1, <1>2, <1>5, <2>2, <3>1, <3>2
  <2> QED BY <1>2, <2>1, <2>2
<1>14. k - 1 \in Nat /\ Len(in) = (k - 1) + Len(m) BY <1>2, <1>4, <1>5, <1>11
<1>15. Accounts(n, in, m, k - 1, q) BY <1>8, <1>9, <1>10, <1>12, <1>13, <1>14 DEF Accounts
<1> QED BY <1>15 DEF Ledger, n, m

-----------------------------------------------------------------------------
\* While nobody was told anything, everybody was told the same.
LEMMA NothingTold ==
  ASSUME completed' = <<>>, asked' = <<>>
  PROVE  Told'
BY DEF Told

\* A list with one more at its end.
LEMMA OneMore ==
  ASSUME NEW s, AList(s), NEW e
  PROVE  /\ AList(Append(s, e)) /\ Len(s) \in Nat /\ Len(Append(s, e)) = Len(s) + 1
         /\ DOMAIN s = 1 .. Len(s) /\ DOMAIN Append(s, e) = 1 .. (Len(s) + 1)
         /\ Append(s, e)[Len(s) + 1] = e /\ \A i \in 1 .. Len(s) : Append(s, e)[i] = s[i]
<1>1. PICK S : s \in Seq(S) BY DEF AList
<1>2. s \in Seq(S \cup {e}) BY <1>1
<1>3. Append(s, e) \in Seq(S \cup {e}) BY <1>2
<1> QED BY <1>2, <1>3 DEF AList

\* How a step on the way in may change what is ahead.
Onward ==
  \/ outcome' = Going /\ todo' = Tail(todo)
  \/ /\ outcome' = Going
     /\ \E e : /\ e.kind # "router" /\ todo' = <<e>> \o Tail(todo)
               /\ IsOuter(Head(todo)) => IsOuter(e)
               /\ IsInner(Head(todo)) => IsInner(e)
  \/ outcome' # Going /\ todo' = <<>>

\* Going on keeps what is ahead in order.
LEMMA OnwardIsOrdered ==
  ASSUME CompletionInv, outcome = Going, todo # <<>>, Head(todo).kind # "router", Onward
  PROVE  /\ AList(todo')
         /\ outcome' = Going => IF Routers(stack) = {} THEN OuterFirst(todo') ELSE AllInner(todo')
<1>1. /\ AList(todo)
      /\ Routers(stack) = {} => OuterFirst(todo)
      /\ Routers(stack) # {} => AllInner(todo)
  BY DEF CompletionInv
<1>2. CASE todo' = Tail(todo) BY <1>1, <1>2, Left, PassOver
<1>3. ASSUME NEW e, e.kind # "router", todo' = <<e>> \o Tail(todo),
             IsOuter(Head(todo)) => IsOuter(e), IsInner(Head(todo)) => IsInner(e)
      PROVE  AList(todo') /\ IF Routers(stack) = {} THEN OuterFirst(todo') ELSE AllInner(todo')
  BY <1>1, <1>3, Exchanged, Unwrap
<1>4. CASE outcome' # Going /\ todo' = <<>>
  <2>1. <<>> \in Seq({}) OBVIOUS
  <2> QED BY <1>4, <2>1 DEF AList
<1> QED BY <1>2, <1>3, <1>4 DEF Onward

\* What comes next is in its place.
LEMMA HeadIsPlaced ==
  ASSUME CompletionInv, outcome = Going, todo # <<>>, Head(todo).kind # "router"
  PROVE  IsOuter(Head(todo)) \/ IsInner(Head(todo))
<1>1. AList(todo) /\ (OuterFirst(todo) \/ AllInner(todo)) BY DEF CompletionInv
<1>2. Head(todo) = todo[1] /\ DOMAIN todo = 1 .. Len(todo) /\ Len(todo) \in Nat \ {0} BY <1>1, Left
<1>3. ASSUME OuterFirst(todo) PROVE IsOuter(todo[1])
  <2>1. 1 \in DOMAIN todo /\ \A j \in DOMAIN todo : todo[j].kind = "router" => 1 < j BY <1>2
  <2> QED BY <1>3, <2>1 DEF OuterFirst
<1>4. ASSUME AllInner(todo) PROVE IsInner(todo[1]) BY <1>2, <1>4 DEF AllInner
<1> QED BY <1>1, <1>2, <1>3, <1>4

\* A step on the way in that enters no handler and not the router.
LEMMA WayIn ==
  ASSUME CompletionInv, outcome = Going, todo # <<>>, Head(todo).kind # "router", Onward,
         \/ stack' = stack
         \/ \E e : e.kind \notin {"router", "handler"} /\ stack' = <<e>> \o stack,
         passed' = passed, completed' = completed, asked' = asked
  PROVE  CompletionInv'
<1>1. completed = <<>> /\ asked = <<>> BY DEF CompletionInv
<1>2. Told' BY <1>1, NothingTold
<1>3. /\ AList(todo')
      /\ outcome' = Going => IF Routers(stack) = {} THEN OuterFirst(todo') ELSE AllInner(todo')
  BY OnwardIsOrdered
<1>4. /\ AList(stack') /\ Nested(stack') /\ Ledger(stack', passed, completed)
      /\ Routers(stack') = {} <=> Routers(stack) = {}
  <2>1. AList(stack) /\ Nested(stack) /\ Ledger(stack, passed, completed) BY DEF CompletionInv
  <2>2. CASE stack' = stack BY <2>1, <2>2
  <2>3. ASSUME NEW e, e.kind \notin {"router", "handler"}, stack' = <<e>> \o stack
        PROVE  /\ AList(stack') /\ Nested(stack') /\ Ledger(stack', passed, completed)
               /\ Routers(stack') = {} <=> Routers(stack) = {}
    BY <2>1, <2>3, Entered, PushNests, PushLedger
  <2> QED BY <2>2, <2>3
<1>5. AList(passed') /\ AList(completed') /\ AList(asked') BY DEF CompletionInv
<1> QED BY <1>1, <1>2, <1>3, <1>4, <1>5 DEF CompletionInv

\* The invariant survives the way into the router,
LEMMA EnterRouterInside == CompletionInv /\ EnterRouter => CompletionInv'
<1> SUFFICES ASSUME CompletionInv, EnterRouter PROVE CompletionInv' OBVIOUS
<1> DEFINE e == [kind |-> "router"]
<1>1. /\ outcome = Going /\ outcome' = Going /\ todo # <<>> /\ Head(todo).kind = "router" /\ todo' = Tail(todo)
      /\ stack' = <<e>> \o stack /\ passed' = passed /\ completed' = completed /\ asked' = asked
  BY DEF EnterRouter, At, Push, GoOn, history
<1>2. e.kind = "router" OBVIOUS
<1> HIDE DEF e
<1>3. /\ AList(stack) /\ Nested(stack) /\ Ledger(stack, passed, completed) /\ AList(todo)
      /\ completed = <<>> /\ asked = <<>> /\ IF Routers(stack) = {} THEN OuterFirst(todo) ELSE AllInner(todo)
  BY <1>1 DEF CompletionInv
<1>4. Routers(stack) = {}
  <2>1. ~AllInner(todo)
    <3>1. 1 \in DOMAIN todo /\ todo[1].kind = "router" BY <1>1, <1>3, Left
    <3>2. \A i \in Interceptors : i.kind # "router" BY PipelineAssumption DEF PipelineAssumption, InterceptorKinds
    <3> QED BY <3>1, <3>2 DEF AllInner, IsInner, Plain
  <2> QED BY <1>3, <2>1
<1>5. AllInner(todo') /\ AList(todo') BY <1>1, <1>3, <1>4, Left, PassOver
<1>6. AList(stack') /\ Nested(stack') /\ Routers(stack') # {} BY <1>1, <1>2, <1>3, <1>4, Entered, PushNests
<1>7. Ledger(stack', passed, completed) BY <1>1, <1>2, <1>3, PushLedger
<1>8. Told' BY <1>1, <1>3, NothingTold
<1> QED BY <1>1, <1>3, <1>5, <1>6, <1>7, <1>8 DEF CompletionInv

\* the interceptors' and the handler's turn,
LEMMA PreHandleInside == CompletionInv /\ PreHandle => CompletionInv'
<1> SUFFICES ASSUME CompletionInv, PreHandle PROVE CompletionInv' OBVIOUS
<1>1. /\ outcome = Going /\ todo # <<>> /\ Head(todo).kind = "handler"
      /\ completed' = completed /\ asked' = asked
  BY DEF PreHandle, At
<1>2. CASE stack' = stack /\ passed' = passed /\ (Stop(Result("nil")) \/ Stop(Error("E1")))
  <2>1. Onward BY <1>2 DEF Onward, Stop, Result, Error, Going
  <2> QED BY <1>1, <1>2, <2>1, WayIn
<1>3. CASE GoOn /\ Push(Head(todo)) /\ passed' = Append(passed, Head(todo).id)
  <2>1. outcome' = Going /\ todo' = Tail(todo) /\ stack' = <<Head(todo)>> \o stack BY <1>1, <1>3 DEF GoOn, Push
  <2>2. /\ AList(stack) /\ AList(passed) /\ Nested(stack) /\ Ledger(stack, passed, completed) /\ AList(todo)
        /\ completed = <<>> /\ asked = <<>> /\ IF Routers(stack) = {} THEN OuterFirst(todo) ELSE AllInner(todo)
    BY <1>1 DEF CompletionInv
  <2>3. Routers(stack) # {}
    <3>1. 1 \in DOMAIN todo /\ todo[1].kind = "handler" /\ \A j \in DOMAIN todo : j >= 1 BY <1>1, <2>2, Left
    <3>2. \A f \in Filters : f.kind # "handler" BY PipelineAssumption DEF PipelineAssumption, FilterKinds
    <3>3. ~IsOuter(todo[1]) BY <3>1, <3>2 DEF IsOuter, Plain
    <3>4. ASSUME OuterFirst(todo) PROVE FALSE
      <4>1. \A j \in DOMAIN todo : todo[j].kind = "router" => 1 < j
        <5>1. DOMAIN todo = 1 .. Len(todo) /\ Len(todo) \in Nat BY <1>1, <2>2, Left
        <5> QED BY <3>1, <5>1
      <4> QED BY <3>1, <3>3, <3>4, <4>1 DEF OuterFirst
    <3> QED BY <2>2, <3>4
  <2>4. AllInner(todo') /\ AList(todo') BY <1>1, <2>1, <2>2, <2>3, Left, PassOver
  <2>5. AList(stack') /\ Nested(stack') /\ Routers(stack') # {} BY <1>1, <2>1, <2>2, <2>3, Entered, PushNests
  <2>6. Ledger(stack', passed', <<>>) BY <1>1, <1>3, <2>1, <2>2, PassLedger
  <2>7. AList(passed') BY <1>3, <2>2, OneMore
  <2>8. Told' BY <1>1, <2>2, NothingTold
  <2>9. AList(completed') /\ AList(asked') BY <1>1 DEF CompletionInv
  <2> QED BY <1>1, <2>1, <2>2, <2>4, <2>5, <2>6, <2>7, <2>8, <2>9 DEF CompletionInv
<1> QED BY <1>2, <1>3 DEF PreHandle

\* The other steps on the way in.
LEMMA InwardInside ==
  ASSUME CompletionInv,
         \/ Mapped \/ WebApp \/ Once \/ HiddenMethod \/ FormContent \/ Forwarded \/ User \/ Messages
         \/ InitBinders \/ ModelAttributes \/ LoadSessionAttributes \/ bindControllerKind \/ Handle
  PROVE  CompletionInv'
<1> USE DEF GoOn, Stop, Push, At
<1>0. \A by : Result(by) # Going /\ Error(by) # Going /\ Panicking # Going BY DEF Result, Error, Panicking, Going
<1>1. CASE Mapped
  <2>1. /\ outcome = Going /\ outcome' = outcome /\ todo # <<>> /\ Head(todo).kind = "mapped"
        /\ stack' = stack /\ passed' = passed /\ completed' = completed /\ asked' = asked
    BY <1>1 DEF Mapped, history
  <2>2. CASE todo' = <<Head(todo).target>> \o Tail(todo)
    <3>1. /\ \A f \in Filters : f.kind = "mapped" => f.target \in Filters /\ f.target.kind # "router"
          /\ \A i \in Interceptors : i.kind = "mapped" => i.target \in Interceptors /\ i.target.kind # "router"
      BY PipelineAssumption DEF PipelineAssumption, FilterKinds, InterceptorKinds
    <3>2. /\ IsOuter(Head(todo)) => Head(todo).target \in Filters
          /\ IsInner(Head(todo)) => Head(todo).target \in Interceptors
      BY <2>1, <3>1 DEF IsOuter, IsInner, Plain
    <3>3. IsOuter(Head(todo)) \/ IsInner(Head(todo)) BY <2>1, HeadIsPlaced
    <3>4. Onward
      <4> DEFINE e == Head(todo).target
      <4>1. /\ e.kind # "router" /\ todo' = <<e>> \o Tail(todo)
            /\ IsOuter(Head(todo)) => IsOuter(e)
            /\ IsInner(Head(todo)) => IsInner(e)
        BY <2>1, <2>2, <3>1, <3>2, <3>3 DEF IsOuter, IsInner, Plain
      <4> HIDE DEF e
      <4> QED BY <2>1, <4>1 DEF Onward
    <3> QED BY <2>1, <3>4, WayIn
  <2>3. CASE todo' = <<>> \o Tail(todo)
    <3>1. AList(Tail(todo)) BY <2>1, Left DEF CompletionInv
    <3>2. PICK S : Tail(todo) \in Seq(S) BY <3>1 DEF AList
    <3>3. <<>> \o Tail(todo) = Tail(todo) BY <3>2
    <3> QED BY <2>1, <2>3, <3>3, WayIn DEF Onward
  <2> QED BY <1>1, <2>2, <2>3 DEF Mapped
<1>2. CASE WebApp
  <2>1. \E e : e.kind \notin {"router", "handler"} /\ stack' = <<e>> \o stack BY <1>2 DEF WebApp
  <2> QED BY <1>2, <2>1, WayIn DEF WebApp, Onward, history
<1>3. CASE Once
  <2>1. /\ outcome = Going /\ outcome' = outcome /\ todo # <<>> /\ Head(todo).kind = "once"
        /\ passed' = passed /\ completed' = completed /\ asked' = asked
    BY <1>3 DEF Once, history
  <2>2. CASE GoOn /\ UNCHANGED <<request, stack>> BY <2>1, <2>2, WayIn DEF Onward
  <2>3. CASE /\ Push([kind |-> "restore", attribute |-> "once", value |-> Absent])
             /\ todo' = <<Head(todo).delegate>> \o Tail(todo)
    <3>1. \E e : e.kind \notin {"router", "handler"} /\ stack' = <<e>> \o stack BY <2>3
    <3>2. /\ \A f \in Filters : f.kind = "once" => f.delegate \in Filters /\ f.delegate.kind # "router"
          /\ \A i \in Interceptors : i.kind # "once"
      BY PipelineAssumption DEF PipelineAssumption, FilterKinds, InterceptorKinds
    <3>3. ~IsInner(Head(todo)) /\ (IsOuter(Head(todo)) => Head(todo) \in Filters)
      BY <2>1, <3>2 DEF IsInner, IsOuter, Plain
    <3>4. IsOuter(Head(todo)) BY <2>1, <3>3, HeadIsPlaced
    <3>5. Onward
      <4> DEFINE e == Head(todo).delegate
      <4>1. e.kind # "router" /\ todo' = <<e>> \o Tail(todo) /\ IsOuter(e)
        BY <2>1, <2>3, <3>2, <3>3, <3>4 DEF IsOuter
      <4> HIDE DEF e
      <4> QED BY <2>1, <3>3, <4>1 DEF Onward
    <3> QED BY <2>1, <3>1, <3>5, WayIn
  <2> QED BY <1>3, <2>2, <2>3 DEF Once
<1>4. CASE HiddenMethod
  <2>1. /\ outcome = Going /\ todo # <<>> /\ Head(todo).kind = "hidden"
        /\ passed' = passed /\ completed' = completed /\ asked' = asked
    BY <1>4 DEF HiddenMethod, history
  <2>2. Onward BY <1>0, <1>4, <2>1 DEF HiddenMethod, Onward
  <2>3. \/ stack' = stack
        \/ \E e : e.kind \notin {"router", "handler"} /\ stack' = <<e>> \o stack
    <3>1. stack' = stack \/ Push([kind |-> "method", value |-> request.method]) BY <1>4 DEF HiddenMethod
    <3> QED BY <3>1
  <2> QED BY <2>1, <2>2, <2>3, WayIn
<1>5. CASE FormContent
  <2>1. Onward BY <1>0, <1>5 DEF FormContent, Onward
  <2> QED BY <1>5, <2>1, WayIn DEF FormContent, history
<1>6. CASE Forwarded BY <1>6, WayIn DEF Forwarded, Onward, history
<1>7. CASE User
  <2>1. Onward BY <1>0, <1>7 DEF User, Onward
  <2> QED BY <1>7, <2>1, WayIn DEF User, history
<1>8. CASE Messages BY <1>8, WayIn DEF Messages, Onward, history
<1>9. CASE InitBinders
  <2>1. /\ outcome = Going /\ todo # <<>> /\ Head(todo).kind = "binders"
        /\ passed' = passed /\ completed' = completed /\ asked' = asked
        /\ GoOn \/ Stop(Error("binder"))
    BY <1>9 DEF InitBinders, history
  <2>2. Onward BY <1>0, <2>1 DEF Onward
  <2>3. \E e : e.kind \notin {"router", "handler"} /\ stack' = <<e>> \o stack BY <1>9 DEF InitBinders
  <2> QED BY <2>1, <2>2, <2>3, WayIn
<1>10. CASE ModelAttributes
  <2>1. Onward BY <1>0, <1>10 DEF ModelAttributes, Onward
  <2> QED BY <1>10, <2>1, WayIn DEF ModelAttributes, history
<1>11. CASE LoadSessionAttributes
  <2>1. \E e : e.kind \notin {"router", "handler"} /\ stack' = <<e>> \o stack BY <1>11 DEF LoadSessionAttributes
  <2> QED BY <1>11, <2>1, WayIn DEF LoadSessionAttributes, Onward, history
<1>12. CASE bindControllerKind
  <2>1. \E e : e.kind \notin {"router", "handler"} /\ stack' = <<e>> \o stack BY <1>12 DEF bindControllerKind
  <2> QED BY <1>12, <2>1, WayIn DEF bindControllerKind, Onward, history
<1>13. CASE Handle
  <2>1. Onward BY <1>0, <1>13 DEF Handle, Onward
  <2> QED BY <1>13, <2>1, WayIn DEF Handle, history
<1> QED BY <1>1, <1>2, <1>3, <1>4, <1>5, <1>6, <1>7, <1>8, <1>9, <1>10, <1>11, <1>12, <1>13

\* A step on the way out that leaves no handler and not the router.
LEMMA WayOut ==
  ASSUME CompletionInv, outcome # Going, stack # <<>>, Head(stack).kind \notin {"router", "handler"},
         stack' = Tail(stack), outcome' = outcome, todo' = todo,
         passed' = passed, completed' = completed, asked' = asked
  PROVE  CompletionInv'
<1>1. AList(stack) /\ Nested(stack) /\ Ledger(stack, passed, completed) BY DEF CompletionInv
<1>2. AList(stack') /\ Nested(stack') /\ (Routers(stack') = {} <=> Routers(stack) = {}) BY <1>1, Left, PopNests
<1>3. Ledger(stack', passed, completed) BY <1>1, PopLedger
<1>4. Told' BY <1>2 DEF CompletionInv, Told
<1> QED BY <1>2, <1>3, <1>4 DEF CompletionInv

\* A handler is told of the end, with the error the call has by then.
LEMMA TellInside ==
  ASSUME CompletionInv, outcome # Going, stack # <<>>, Head(stack).kind = "handler",
         NEW o, o # Going, outcome.kind = "error" => o = outcome, Complete(o)
  PROVE  CompletionInv'
<1>1. /\ AList(stack) /\ Nested(stack) /\ Ledger(stack, passed, completed) /\ AList(completed) /\ Told
      /\ AList(todo) /\ AList(passed) /\ AList(asked)
  BY DEF CompletionInv
<1> DEFINE e == [id |-> Head(stack).id, error |-> Seen(o)]
<1>2. /\ outcome' = o /\ completed' = Append(completed, e) /\ stack' = Tail(stack)
      /\ passed' = passed /\ todo' = todo /\ asked' = asked
  BY DEF Complete, Pop
<1>3. e.id = Head(stack).id /\ e.error = Seen(o) OBVIOUS
<1> HIDE DEF e
<1>4. AList(stack') /\ Nested(stack') /\ Routers(stack') # {} /\ Routers(stack) # {}
  BY <1>1, <1>2, Left, PopNests
<1>5. Ledger(stack', passed, completed') BY <1>1, <1>2, <1>3, TellLedger
<1>6. /\ AList(completed') /\ Len(completed) \in Nat /\ Len(completed') = Len(completed) + 1
      /\ DOMAIN completed = 1 .. Len(completed) /\ DOMAIN completed' = 1 .. (Len(completed) + 1)
      /\ completed'[Len(completed) + 1] = e /\ \A i \in 1 .. Len(completed) : completed'[i] = completed[i]
  BY <1>1, <1>2, OneMore
<1>7. \A i \in DOMAIN completed : completed[i].error # None => completed[i].error = Seen(o)
  <2> SUFFICES ASSUME NEW i \in DOMAIN completed, completed[i].error # None PROVE completed[i].error = Seen(o)
    OBVIOUS
  <2>1. completed[i].error = Seen(outcome) BY <1>1, <1>4 DEF Told
  <2>2. outcome.kind = "error" BY <2>1 DEF Seen
  <2> QED BY <2>1, <2>2
<1>8. \A i \in DOMAIN completed' : completed'[i].error # None => completed'[i].error = Seen(o)
  BY <1>3, <1>6, <1>7
<1>9. \A i, j \in DOMAIN completed' : i < j /\ completed'[i].error # None => completed'[j].error = completed'[i].error
  <2> SUFFICES ASSUME NEW i \in DOMAIN completed', NEW j \in DOMAIN completed', i < j, completed'[i].error # None
               PROVE  completed'[j].error = completed'[i].error
    OBVIOUS
  <2>1. CASE j = Len(completed) + 1 BY <1>3, <1>6, <1>8, <2>1
  <2>2. CASE j # Len(completed) + 1
    <3>1. i \in DOMAIN completed /\ j \in DOMAIN completed BY <1>6, <2>2
    <3>2. completed[j].error = completed[i].error BY <1>1, <1>6, <3>1 DEF Told
    <3> QED BY <1>6, <3>1, <3>2
  <2> QED BY <2>1, <2>2
<1>10. asked' = <<>> BY <1>1, <1>2, <1>4 DEF Told
<1>11. Told' BY <1>2, <1>3, <1>4, <1>6, <1>8, <1>9, <1>10 DEF Told
<1> QED BY <1>1, <1>2, <1>4, <1>5, <1>6, <1>11 DEF CompletionInv

\* and the way out of the router.
LEMMA LeaveRouterInside == CompletionInv /\ LeaveRouter => CompletionInv'
<1> SUFFICES ASSUME CompletionInv, LeaveRouter PROVE CompletionInv' OBVIOUS
<1>1. /\ outcome # Going /\ stack # <<>> /\ Head(stack).kind = "router" /\ stack' = Tail(stack)
      /\ todo' = todo /\ passed' = passed /\ completed' = completed
  BY DEF LeaveRouter, Leaving, Pop, history
<1>2. /\ AList(stack) /\ Nested(stack) /\ Ledger(stack, passed, completed) /\ AList(completed) /\ Told
      /\ AList(todo) /\ AList(passed) /\ AList(asked)
  BY DEF CompletionInv
<1>3. AList(stack') /\ Nested(stack') /\ Routers(stack') = {} /\ Routers(stack) # {}
  BY <1>1, <1>2, Left, PopNests
<1>4. Ledger(stack', passed, completed) BY <1>1, <1>2, PopLedger
<1>5. asked = <<>> /\ (completed # <<>> => completed[Len(completed)].error = Seen(outcome))
  BY <1>2, <1>3 DEF Told
<1>6. outcome' # Going /\ AList(asked') /\ Seen(outcome) = IF asked' = <<>> THEN None ELSE asked'[1].error
  <2>1. CASE outcome.kind = "error"
    <3> DEFINE mapped == MapError(registry, outcome.by)
               a == [error |-> outcome.by, mappers |-> mapped.asked]
    <3>1. asked' = Append(asked, a) /\ outcome' = Result(mapped.by) BY <2>1 DEF LeaveRouter
    <3>2. a.error = outcome.by OBVIOUS
    <3> HIDE DEF mapped, a
    <3>3. /\ AList(asked') /\ Len(asked') = 1 /\ asked'[1] = a
      <4>1. /\ AList(asked') /\ Len(asked') = Len(asked) + 1 /\ asked'[Len(asked) + 1] = a BY <1>2, <3>1, OneMore
      <4> QED BY <1>5, <4>1
    <3>4. asked' # <<>> BY <3>3
    <3>5. outcome' # Going BY <3>1 DEF Result, Going
    <3> QED BY <2>1, <3>2, <3>3, <3>4, <3>5 DEF Seen
  <2>2. CASE outcome.kind # "error"
    <3>1. asked' = asked /\ outcome' = outcome BY <2>2 DEF LeaveRouter
    <3> QED BY <1>1, <1>2, <1>5, <2>2, <3>1 DEF Seen
  <2> QED BY <2>1, <2>2
<1>7. Told' BY <1>1, <1>2, <1>3, <1>5, <1>6 DEF Told
<1> QED BY <1>1, <1>2, <1>3, <1>4, <1>6, <1>7 DEF CompletionInv

\* The steps on the way out.
LEMMA OutwardInside ==
  ASSUME CompletionInv,
         Restore \/ RestoreMethod \/ PostHandle \/ AfterCompletion \/ SaveSessionAttributes
  PROVE  CompletionInv'
<1>1. CASE Restore BY <1>1, WayOut DEF Restore, Leaving, Pop, history
<1>2. CASE RestoreMethod BY <1>2, WayOut DEF RestoreMethod, Leaving, Pop, history
<1>3. CASE PostHandle
  <2>1. outcome # Going /\ stack # <<>> /\ Head(stack).kind = "handler" /\ outcome.kind = "result"
    BY <1>3 DEF PostHandle, Leaving
  <2>2. PICK o : Complete(o) /\ (o = outcome \/ o = Error("E2")) BY <1>3 DEF PostHandle
  <2>3. o # Going BY <2>1, <2>2 DEF Error, Going
  <2> QED BY <2>1, <2>2, <2>3, TellInside
<1>4. CASE AfterCompletion BY <1>4, TellInside DEF AfterCompletion, Leaving
<1>5. CASE SaveSessionAttributes BY <1>5, WayOut DEF SaveSessionAttributes, Leaving, Pop
<1> QED BY <1>1, <1>2, <1>3, <1>4, <1>5

-----------------------------------------------------------------------------
\* A deployment has filters up to its router, and interceptors after it.
LEMMA DeploymentIsOrdered ==
  ASSUME NEW a, NEW b, NEW r, r.kind = "router",
         AList(a), \A i \in DOMAIN a : IsOuter(a[i]) /\ a[i].kind # "router",
         AList(b), \A i \in DOMAIN b : IsInner(b[i]) /\ b[i].kind # "router"
  PROVE  AList(a \o <<r>> \o b) /\ OuterFirst(a \o <<r>> \o b)
<1> DEFINE t == a \o <<r>> \o b
<1>1. PICK A, B : a \in Seq(A) /\ b \in Seq(B) BY DEF AList
<1>2. /\ a \in Seq(A \cup B \cup {r}) /\ b \in Seq(A \cup B \cup {r}) /\ <<r>> \in Seq(A \cup B \cup {r})
  BY <1>1
<1>3. /\ t \in Seq(A \cup B \cup {r}) /\ Len(t) = Len(a) + 1 + Len(b) /\ Len(a) \in Nat /\ Len(b) \in Nat
      /\ \A i \in 1 .. Len(a) : t[i] = a[i]
      /\ t[Len(a) + 1] = r
      /\ \A i \in 1 .. Len(b) : t[Len(a) + 1 + i] = b[i]
  BY <1>2
<1>4. DOMAIN a = 1 .. Len(a) /\ DOMAIN b = 1 .. Len(b) /\ DOMAIN t = 1 .. (Len(a) + 1 + Len(b)) BY <1>2, <1>3
<1> HIDE DEF t
<1>5. \A i \in DOMAIN t : \/ i \in 1 .. Len(a) /\ t[i] = a[i]
                          \/ i = Len(a) + 1
                          \/ i - (Len(a) + 1) \in 1 .. Len(b) /\ t[i] = b[i - (Len(a) + 1)]
  BY <1>3, <1>4
<1>6. ASSUME NEW i \in DOMAIN t, \A j \in DOMAIN t : t[j].kind = "router" => i < j PROVE IsOuter(t[i])
  <2>1. i < Len(a) + 1 BY <1>3, <1>4, <1>6
  <2> QED BY <1>3, <1>4, <2>1
<1>7. ASSUME NEW i \in DOMAIN t, NEW j \in DOMAIN t, t[j].kind = "router", j < i PROVE IsInner(t[i])
  <2>1. j = Len(a) + 1 BY <1>4, <1>5, <1>7
  <2>2. i - (Len(a) + 1) \in 1 .. Len(b) /\ t[i] = b[i - (Len(a) + 1)] BY <1>3, <1>4, <1>5, <1>7, <2>1
  <2> QED BY <1>4, <2>2
<1> QED BY <1>3, <1>6, <1>7 DEF AList, OuterFirst, t

\* Concatenations, with the lists given by the sets they are over.
LEMMA Concatenated ==
  ASSUME NEW S, NEW a \in Seq(S), NEW b \in Seq(S), NEW c \in Seq(S)
  PROVE  /\ a \o b \in Seq(S) /\ b \o c \in Seq(S)
         /\ (a \o b) \o c = a \o (b \o c)
BY ConcatProperties, ConcatAssociative

\* Filters only: nothing is inside.
LEMMA FiltersAreOuter ==
  ASSUME NEW S, NEW t \in Seq(S), \A e \in S : IsOuter(e) /\ e.kind # "router"
  PROVE  AList(t) /\ OuterFirst(t)
<1>1. \A i \in DOMAIN t : t[i] \in S OBVIOUS
<1> QED BY <1>1 DEF AList, OuterFirst

\* It holds of a deployment about to be called.
LEMMA InitInside == Init => CompletionInv
<1> SUFFICES ASSUME NEW application \in Applications, NEW q \in Requests, Begin(application, q)
             PROVE  CompletionInv
  BY DEF Init
<1> DEFINE r == ApplyConfigurers(application.configurers)
           controller == application.controller
           inner == IF q.servlet = "" THEN Wraps(controller) ELSE <<>>
           target == [kind |-> "target"]
           webapp == [kind |-> "webapp"]
           router == [kind |-> "router"]
           W == {[kind |-> "kind", value |-> controller.kind], [kind |-> "session"],
                 [kind |-> "binders", initializers |-> controller.binders],
                 [kind |-> "models", initializers |-> controller.models]}
           O == Filters \cup W \cup {target, webapp}
           N == Interceptors \cup W \cup {target, [kind |-> "messages"]}
<1>1. /\ stack = <<>> /\ passed = <<>> /\ completed = <<>> /\ asked = <<>>
      /\ todo = IF r.err # None THEN <<>> ELSE Deployment(r, q.servlet) \o inner \o <<target>>
      /\ r.err # None => outcome # Going
  BY DEF Begin, Error, Going
<1>2. /\ \A e \in O : IsOuter(e) /\ e.kind # "router"
      /\ \A e \in N : IsInner(e) /\ e.kind # "router"
  <2>1. \A e \in W \cup {target, webapp, [kind |-> "messages"]} : Plain(e) BY DEF Plain
  <2>2. /\ \A e \in Filters : e.kind # "router"
        /\ \A e \in Interceptors : e.kind # "router"
    BY PipelineAssumption DEF PipelineAssumption, FilterKinds, InterceptorKinds
  <2> HIDE DEF W, target, webapp
  <2> QED BY <2>1, <2>2 DEF IsOuter, IsInner, Plain
<1>3. inner \in Seq(W)
  <2> DEFINE c == controller
             x == <<[kind |-> "kind", value |-> c.kind]>>
             y == IF c.session THEN <<[kind |-> "session"]>> ELSE <<>>
             z == IF c.binders = <<>> THEN <<>> ELSE <<[kind |-> "binders", initializers |-> c.binders]>>
             v == IF c.models = <<>> THEN <<>> ELSE <<[kind |-> "models", initializers |-> c.models]>>
  <2>1. Wraps(c) = ((x \o y) \o z) \o v BY DEF Wraps
  <2>2. x \in Seq(W) /\ y \in Seq(W) /\ z \in Seq(W) /\ v \in Seq(W)
    <3> DEFINE e1 == [kind |-> "kind", value |-> c.kind]
               e2 == [kind |-> "session"]
               e3 == [kind |-> "binders", initializers |-> c.binders]
               e4 == [kind |-> "models", initializers |-> c.models]
    <3>1. e1 \in W /\ e2 \in W /\ e3 \in W /\ e4 \in W OBVIOUS
    <3> HIDE DEF e1, e2, e3, e4, W, c
    <3> QED BY ONLY <3>1 DEF x, y, z, v, e1, e2, e3, e4
  <2>3. <<>> \in Seq(W) OBVIOUS
  <2> HIDE DEF W, x, y, z, v
  <2>4. x \o y \in Seq(W) BY <2>2, ConcatProperties
  <2>5. (x \o y) \o z \in Seq(W) BY <2>2, <2>4, ConcatProperties
  <2>6. ((x \o y) \o z) \o v \in Seq(W) BY <2>2, <2>5, ConcatProperties
  <2> QED BY <2>1, <2>3, <2>6
<1>4. router.kind = "router" OBVIOUS
<1>5. /\ W \subseteq O /\ W \subseteq N /\ Filters \subseteq O /\ Interceptors \subseteq N
      /\ target \in O /\ target \in N /\ webapp \in O /\ [kind |-> "messages"] \in N
  OBVIOUS
<1>6. r.err = None => /\ r.filters \in Seq(Filters) /\ r.interceptors \in Seq(Interceptors)
                      /\ \A i \in DOMAIN r.servlets : r.servlets[i].filters \in Seq(Filters)
  BY PipelineAssumption DEF PipelineAssumption
<1>7. ASSUME r.err = None PROVE AList(todo) /\ OuterFirst(todo)
  <2> HIDE DEF W, O, N, r, controller, inner, target, webapp, router
  <2>2. inner \in Seq(O) /\ inner \in Seq(N) BY <1>3, <1>5
  <2>3. <<target>> \in Seq(O) /\ <<target>> \in Seq(N) /\ <<webapp>> \in Seq(O) BY <1>5
  <2>4. r.filters \in Seq(O) /\ r.interceptors \in Seq(N) BY <1>5, <1>6, <1>7
  <2> DEFINE named == {i \in DOMAIN r.servlets : r.servlets[i].name = q.servlet}
  <2>5. CASE named = {}
    <3> DEFINE a == <<webapp>> \o r.filters
               m == Router(r)
    <3>1. Deployment(r, q.servlet) = a \o <<router>> \o m BY <2>5 DEF Deployment, webapp, router
    <3>2. a \in Seq(O) BY <2>3, <2>4, ConcatProperties
    <3>3. m \in Seq(N)
      <4> DEFINE h == IF hasMessageIO(r) THEN <<[kind |-> "messages"]>> ELSE <<>>
      <4>1. h \in Seq(N) BY <1>5
      <4>2. m = h \o r.interceptors BY DEF Router
      <4> HIDE DEF h
      <4> QED BY <2>4, <4>1, <4>2, ConcatProperties
    <3> HIDE DEF a, m
    <3>4. todo = ((a \o <<router>> \o m) \o inner) \o <<target>> BY <1>1, <1>7, <3>1
    <3> DEFINE S == O \cup N \cup {router}
               b == m \o inner \o <<target>>
               c == a \o <<router>>
    <3>5. /\ a \in Seq(S) /\ m \in Seq(S) /\ inner \in Seq(S) /\ <<target>> \in Seq(S) /\ <<router>> \in Seq(S)
      BY <1>5, <2>2, <2>3, <3>2, <3>3
    <3>6. b \in Seq(N) BY <2>2, <2>3, <3>3, Concatenated
    <3> HIDE DEF S
    <3>7. c \in Seq(S) BY <3>5, ConcatProperties
    <3> DEFINE d == <<target>>
    <3>8. (c \o m) \o inner = c \o (m \o inner) /\ m \o inner \in Seq(S) BY ONLY <3>5, <3>7, Concatenated
    <3>9. (c \o (m \o inner)) \o d = c \o ((m \o inner) \o d)
      <4> DEFINE u == m \o inner
      <4>1. u \in Seq(S) /\ c \in Seq(S) /\ d \in Seq(S) BY <3>5, <3>7, <3>8
      <4> HIDE DEF u, c, d
      <4>2. (c \o u) \o d = c \o (u \o d) BY ONLY <4>1, Concatenated
      <4> QED BY <4>2 DEF u
    <3>10. todo = a \o <<router>> \o b BY <3>4, <3>8, <3>9
    <3> HIDE DEF b, c
    <3>11. /\ AList(a) /\ \A i \in DOMAIN a : IsOuter(a[i]) /\ a[i].kind # "router"
           /\ AList(b) /\ \A i \in DOMAIN b : IsInner(b[i]) /\ b[i].kind # "router"
      <4>1. (\A i \in DOMAIN a : a[i] \in O) /\ (\A i \in DOMAIN b : b[i] \in N) BY <3>2, <3>6
      <4> QED BY <1>2, <3>2, <3>6, <4>1 DEF AList
    <3> QED BY <1>4, <3>10, <3>11, DeploymentIsOrdered
  <2>6. CASE named # {}
    <3> DEFINE own == r.servlets[CHOOSE i \in named : TRUE].filters
    <3>1. own \in Seq(O)
      <4>1. own \in Seq(Filters) BY <1>6, <1>7, <2>6
      <4> HIDE DEF own
      <4> QED BY <1>5, <4>1
    <3>2. Deployment(r, q.servlet) = r.filters \o own BY <2>6 DEF Deployment
    <3> HIDE DEF own
    <3>3. r.filters \o own \in Seq(O) BY <2>4, <3>1, ConcatProperties
    <3>4. (r.filters \o own) \o inner \in Seq(O) BY <2>2, <3>3, ConcatProperties
    <3>5. ((r.filters \o own) \o inner) \o <<target>> \in Seq(O) BY <2>3, <3>4, ConcatProperties
    <3>6. todo = ((r.filters \o own) \o inner) \o <<target>> BY <1>1, <1>7, <3>2
    <3> QED BY <1>2, <3>5, <3>6, FiltersAreOuter
  <2> QED BY <2>5, <2>6
<1>8. r.err # None => AList(todo) BY <1>1 DEF AList
<1>9. Routers(<<>>) = {} /\ HandlersOn(<<>>) = {} BY DEF Routers, HandlersOn
<1>10. Ledger(<<>>, <<>>, <<>>)
  <2> DEFINE p == [j \in 1 .. 0 |-> 1]
  <2>1. Accounts(<<>>, <<>>, <<>>, 0, p) BY <1>9 DEF Accounts
  <2> QED BY <2>1 DEF Ledger
<1>11. AList(<<>>) BY DEF AList
<1>12. Told
  <2>1. completed = <<>> /\ asked = <<>> BY <1>1
  <2>2. DOMAIN completed = {} BY ONLY <2>1
  <2> QED BY ONLY <2>1, <2>2 DEF Told
<1> HIDE DEF r
<1> QED BY <1>1, <1>7, <1>8, <1>9, <1>10, <1>11, <1>12 DEF CompletionInv, Nested

\* However a request ends, every handler interceptor that let it pass is told
\* of it once, the last one first, with the error that the mappers are asked
\* about from where it arose outwards (controller_part3.go).
THEOREM EveryPassIsCompleted == Spec => []CompletedInReverse
<1>1. CompletionInv /\ [Next]_vars => CompletionInv'
  <2> SUFFICES ASSUME CompletionInv, [Next]_vars PROVE CompletionInv' OBVIOUS
  <2>1. CASE UNCHANGED vars
    BY <2>1 DEF vars, history, CompletionInv, Told
  <2>2. CASE Next
    BY <2>2, EnterRouterInside, PreHandleInside, InwardInside, LeaveRouterInside, OutwardInside DEF Next
  <2> QED BY <2>1, <2>2
<1>2. CompletionInv => CompletedInReverse
  <2> SUFFICES ASSUME CompletionInv, Done
               PROVE  /\ Ids(completed) = Reverse(passed)
                      /\ \A i, j \in DOMAIN completed : i < j /\ completed[i].error # None =>
                           completed[j].error = completed[i].error
                      /\ completed # <<>> =>
                           Last(completed).error = IF asked = <<>> THEN None ELSE asked[1].error
    BY DEF CompletedInReverse
  <2>1. stack = <<>> /\ Routers(stack) = {} BY DEF Done, Routers
  <2>2. PICK k, p : Accounts(stack, passed, completed, k, p) BY DEF CompletionInv, Ledger
  <2>3. k = 0 BY <2>1, <2>2 DEF Accounts
  <2>4. AList(passed) /\ AList(completed) BY DEF CompletionInv
  <2>5. /\ DOMAIN completed = 1 .. Len(completed) /\ Len(completed) \in Nat /\ Len(passed) = Len(completed)
        /\ \A j \in 1 .. Len(completed) : completed[j].id = passed[(Len(passed) - j) + 1]
    <3>1. Len(completed) \in Nat /\ DOMAIN completed = 1 .. Len(completed) BY <2>4 DEF AList
    <3>2. /\ Len(passed) = k + Len(completed)
          /\ \A j \in 1 .. Len(completed) : completed[j].id = passed[Len(passed) + 1 - j]
      BY <2>2 DEF Accounts
    <3>3. \A j \in 1 .. Len(completed) : Len(passed) + 1 - j = (Len(passed) - j) + 1 BY <2>3, <3>1, <3>2
    <3> QED BY <2>3, <3>1, <3>2, <3>3
  <2>6. Ids(completed) = Reverse(passed) BY <2>5 DEF Ids, Reverse
  <2> QED BY <2>1, <2>6 DEF CompletionInv, Told, Last
<1> QED BY <1>1, <1>2, InitInside, PTL DEF Spec

-----------------------------------------------------------------------------
\* Loops over lists.  What holds before the first turn and is kept by each turn
\* holds after the last.
LEMMA LeastNumber ==
  ASSUME NEW S \in SUBSET Nat, S # {}
  PROVE  \E m \in S : \A k \in S : m <= k
<1>1. PICK m \in S : \A k \in S : <<k, m>> \notin OpToRel(<, Nat)
  BY WFMin, NatLessThanWellFounded, Zenon
<1>2. \A k \in S : ~ (k < m) BY <1>1, Zenon DEF OpToRel
<1> QED BY <1>2

\* What holds before the first turn, and after each if before it, holds after all.
LEMMA Turns ==
  ASSUME NEW n \in Nat, NEW S, 0 \in S, \A i \in 1 .. n : i - 1 \in S => i \in S
  PROVE  \A i \in 0 .. n : i \in S
<1> DEFINE Bad == {i \in 0 .. n : i \notin S}
<1>1. SUFFICES ASSUME Bad # {} PROVE FALSE OBVIOUS
<1>2. Bad \in SUBSET Nat OBVIOUS
<1>3. PICK m \in Bad : \A k \in Bad : m <= k
  <2> HIDE DEF Bad
  <2> QED BY <1>1, <1>2, LeastNumber
<1>4. m \in 1 .. n /\ m \notin S BY <1>3
<1>5. m - 1 \in S BY <1>3, <1>4
<1> QED BY <1>4, <1>5

\* A fold over a list is over the set of its indices, the greatest last.
LEMMA Upto ==
  ASSUME NEW i \in Nat, i > 0
  PROVE  Max(1 .. i) = i /\ (1 .. i) \ {Max(1 .. i)} = 1 .. (i - 1) /\ 1 .. i # {}
<1>1. i \in 1 .. i /\ \A y \in 1 .. i : i >= y OBVIOUS
<1>2. \A x \in 1 .. i : (\A y \in 1 .. i : x >= y) => x = i OBVIOUS
<1>3. Max(1 .. i) = i BY <1>1, <1>2 DEF Max
<1> QED BY <1>3

\* The greatest index of a set is one of it.
LEMMA Greatest ==
  ASSUME NEW n \in Nat, NEW T \in SUBSET (1 .. n), T # {}
  PROVE  Max(T) \in T /\ \A y \in T : Max(T) >= y
<1> DEFINE Above == {x \in Nat : \A y \in T : x >= y}
<1>1. n \in Above OBVIOUS
<1>2. PICK m \in Above : \A k \in Above : m <= k
  <2>1. Above \in SUBSET Nat OBVIOUS
  <2> HIDE DEF Above
  <2> QED BY <1>1, <2>1, LeastNumber
<1>3. m \in T
  <2> SUFFICES ASSUME m \notin T PROVE FALSE OBVIOUS
  <2>1. PICK t \in T : TRUE OBVIOUS
  <2>2. m > 0 /\ m - 1 \in Nat BY <1>2, <2>1
  <2>3. m - 1 \in Above BY <1>2, <2>2
  <2> QED BY <1>2, <2>2, <2>3
<1> QED BY <1>2, <1>3 DEF Max

\* What a loop computes exists: step is one turn, from a value and an index.
FoldOf(f, n, start, step) ==
  \A T \in SUBSET (1 .. n) : f[T] = IF T = {} THEN start ELSE step[<<f[T \ {Max(T)}], Max(T)>>]

\* Such a function over sets of indices exists, for any turn that keeps to X.
LEMMA FoldExists ==
  ASSUME NEW n \in Nat, NEW X, NEW start \in X, NEW step \in [X \X (1 .. n) -> X]
  PROVE  \E f \in [SUBSET (1 .. n) -> X] : FoldOf(f, n, start, step)
<1> DEFINE Folds(f, m) ==
      /\ f \in [SUBSET (1 .. m) -> X]
      /\ \A T \in SUBSET (1 .. m) : f[T] = IF T = {} THEN start ELSE step[<<f[T \ {Max(T)}], Max(T)>>]
           Reached == {m \in 0 .. n : \E f : Folds(f, m)}
<1>1. 0 \in Reached
  <2>1. SUBSET (1 .. 0) = {{}} OBVIOUS
  <2>2. Folds([T \in SUBSET (1 .. 0) |-> start], 0) BY <2>1
  <2> HIDE DEF Folds
  <2> QED BY <2>2
<1>2. ASSUME NEW m \in 1 .. n, m - 1 \in Reached PROVE m \in Reached
  <2>1. PICK f : Folds(f, m - 1) BY <1>2
  <2> DEFINE g == [T \in SUBSET (1 .. m) |-> IF m \in T THEN step[<<f[T \ {m}], m>>] ELSE f[T]]
  <2>2. \A T \in SUBSET (1 .. m) : T \ {m} \in SUBSET (1 .. (m - 1)) OBVIOUS
  <2>3. \A T \in SUBSET (1 .. m) : m \notin T => T \in SUBSET (1 .. (m - 1)) OBVIOUS
  <2>4. \A T \in SUBSET (1 .. m) : g[T] \in X
    <3>1. \A T \in SUBSET (1 .. (m - 1)) : f[T] \in X BY <2>1
    <3>2. \A x \in X : step[<<x, m>>] \in X OBVIOUS
    <3> HIDE DEF Folds
    <3> QED BY <2>2, <2>3, <3>1, <3>2
  <2>5. ASSUME NEW T \in SUBSET (1 .. m)
        PROVE  g[T] = IF T = {} THEN start ELSE step[<<g[T \ {Max(T)}], Max(T)>>]
    <3>1. CASE m \in T
      <4>1. Max(T) = m
        <5>1. m \in Nat BY <1>2
        <5>2. Max(T) \in T /\ \A y \in T : Max(T) >= y
          <6>1. T \in SUBSET (1 .. m) /\ T # {} BY <3>1
          <6> QED BY <5>1, <6>1, Greatest
        <5>3. Max(T) \in 1 .. m BY <5>2
        <5>4. Max(T) >= m BY <3>1, <5>2
        <5> QED BY <5>1, <5>3, <5>4
      <4>2. g[T \ {m}] = f[T \ {m}] BY <2>2, <2>5
      <4> QED BY <3>1, <4>1, <4>2
    <3>2. CASE m \notin T
      <4>1. T \in SUBSET (1 .. (m - 1)) BY <2>3, <3>2
      <4>2. g[T] = f[T] BY <3>2
      <4>3. g[T \ {Max(T)}] = f[T \ {Max(T)}] BY <3>2
      <4>4. f[T] = IF T = {} THEN start ELSE step[<<f[T \ {Max(T)}], Max(T)>>] BY <2>1, <4>1
      <4> HIDE DEF g, Folds
      <4> QED BY <4>2, <4>3, <4>4
    <3> QED BY <3>1, <3>2
  <2>6. Folds(g, m)
    <3>1. g \in [SUBSET (1 .. m) -> X] BY <2>4
    <3> HIDE DEF g
    <3> QED BY <2>5, <3>1
  <2> HIDE DEF Folds, g
  <2> QED BY <2>6
<1>3. n \in Reached
  <2>1. n \in 0 .. n OBVIOUS
  <2> HIDE DEF Reached
  <2> QED BY <1>1, <1>2, <2>1, Turns
<1>4. PICK f : Folds(f, n)
  <2> HIDE DEF Folds
  <2> QED BY <1>3
<1>5. FoldOf(f, n, start, step) BY <1>4 DEF FoldOf
<1>6. f \in [SUBSET (1 .. n) -> X] BY <1>4
<1> HIDE DEF Folds
<1> QED BY <1>5, <1>6

\* Whatever solves the equation of a fold runs through the list from its head.
Solves(c, n, X, start, step) ==
  /\ c[{}] = start
  /\ \A T \in SUBSET (1 .. n) :
       T # {} /\ c[T \ {Max(T)}] \in X => c[T] = step[<<c[T \ {Max(T)}], Max(T)>>]
Loop(run, n, X, start, step) ==
  /\ run \in [0 .. n -> X] /\ run[0] = start
  /\ \A i \in 1 .. n : run[i] = step[<<run[i - 1], i>>]
RunsThrough(c, n, X, start, step) == \E run : Loop(run, n, X, start, step) /\ c[1 .. n] = run[n]

\* It runs through the indices one by one.
LEMMA FoldRuns ==
  ASSUME NEW n \in Nat, NEW X, NEW start \in X, NEW step \in [X \X (1 .. n) -> X],
         NEW c, Solves(c, n, X, start, step)
  PROVE  RunsThrough(c, n, X, start, step)
<1> DEFINE Good == {i \in 0 .. n : c[1 .. i] \in X}
           run == [i \in 0 .. n |-> c[1 .. i]]
<1>1. 1 .. 0 = {} OBVIOUS
<1>2. 0 \in Good /\ run[0] = start BY <1>1 DEF Solves
<1>3. ASSUME NEW i \in 1 .. n, c[1 .. (i - 1)] \in X
      PROVE  c[1 .. i] = step[<<c[1 .. (i - 1)], i>>]
  <2>1. i \in Nat /\ i > 0 /\ 1 .. i \in SUBSET (1 .. n) OBVIOUS
  <2>2. Max(1 .. i) = i /\ (1 .. i) \ {Max(1 .. i)} = 1 .. (i - 1) /\ 1 .. i # {} BY <2>1, Upto
  <2> QED BY <1>3, <2>1, <2>2 DEF Solves
<1>4. \A i \in 1 .. n : i - 1 \in Good => i \in Good
  <2> SUFFICES ASSUME NEW i \in 1 .. n, i - 1 \in Good PROVE i \in Good OBVIOUS
  <2>1. c[1 .. i] = step[<<c[1 .. (i - 1)], i>>] BY <1>3
  <2> QED BY <2>1
<1>5. \A i \in 0 .. n : i \in Good
  <2> HIDE DEF Good
  <2> QED BY <1>2, <1>4, Turns
<1>6. run \in [0 .. n -> X] BY <1>5
<1>7. \A i \in 1 .. n : run[i] = step[<<run[i - 1], i>>]
  <2> SUFFICES ASSUME NEW i \in 1 .. n PROVE run[i] = step[<<run[i - 1], i>>] OBVIOUS
  <2>1. i - 1 \in 0 .. n OBVIOUS
  <2>2. c[1 .. (i - 1)] \in X BY <1>5, <2>1
  <2> QED BY <1>3, <2>1, <2>2
<1>8. c[1 .. n] = run[n] OBVIOUS
<1>9. Loop(run, n, X, start, step) BY <1>2, <1>6, <1>7 DEF Loop
<1> QED BY <1>8, <1>9 DEF RunsThrough

\* In the direction that a CHOOSE needs: the equation of a fold has a solution.
LEMMA FoldSolved ==
  ASSUME NEW n \in Nat, NEW X, NEW start \in X, NEW step \in [X \X (1 .. n) -> X]
  PROVE  \E f : f = [T \in SUBSET (1 .. n) |-> f[T]] /\ Solves(f, n, X, start, step)
            /\ \A T \in SUBSET (1 .. n) : T # {} => f[T \ {Max(T)}] \in X /\ Max(T) \in 1 .. n
<1>1. PICK f \in [SUBSET (1 .. n) -> X] : FoldOf(f, n, start, step) BY FoldExists
<1>2. f = [T \in SUBSET (1 .. n) |-> f[T]] OBVIOUS
<1>3. \A T \in SUBSET (1 .. n) : T # {} => f[T \ {Max(T)}] \in X /\ Max(T) \in 1 .. n
  <2> SUFFICES ASSUME NEW T \in SUBSET (1 .. n), T # {} PROVE f[T \ {Max(T)}] \in X /\ Max(T) \in 1 .. n
    OBVIOUS
  <2>1. Max(T) \in T BY Greatest
  <2> QED BY <2>1
<1>4. Solves(f, n, X, start, step) BY <1>1, <1>3 DEF FoldOf, Solves
<1> QED BY <1>2, <1>3, <1>4

-----------------------------------------------------------------------------
\* An answer is the reply to its question: a question is asked once.
AnswerInv ==
  question \in Questions /\ (answer = Pending \/ answer = Answered(Reply(question)))

\* That holds throughout.
LEMMA AnswersAreReplies == SpecAll => []AnswerInv
<1>1. InitAll => AnswerInv BY DEF InitAll, AnswerInv
<1>2. AnswerInv /\ [NextAll]_webvars => AnswerInv'
  <2> SUFFICES ASSUME AnswerInv, [NextAll]_webvars PROVE AnswerInv' OBVIOUS
  <2>1. CASE question' = question /\ answer' = answer BY <2>1 DEF AnswerInv
  <2>2. CASE question' = question /\ answer' = Answered(Reply(question)) BY <2>2 DEF AnswerInv
  <2>3. \/ question' = question /\ answer' = answer
        \/ question' = question /\ answer' = Answered(Reply(question))
    BY DEF NextAll, webvars, Pipeline, Session, Static, Writing, Reading, Closing, Answer, Rest
  <2> QED BY <2>1, <2>2, <2>3
<1> QED BY <1>1, <1>2, PTL DEF SpecAll

-----------------------------------------------------------------------------
\* What is done to a response, and what a response and a capture are.
HeaderNames == {"etag", "noStore", "length", "location", "modified"}
StepKinds == {"status", "set", "write", "flush", "reset", "fail"}
IsStep(op, B, V) ==
  /\ op.op \in StepKinds /\ op.value \in V
  /\ op.op = "set" => op.name \in HeaderNames
  /\ op.op = "write" => op.value \in Seq(B)
Common == {0, 200, 500, -1, FALSE, "", <<>>}
ResponsesOf(B, V) ==
  [committed : BOOLEAN, status : V, body : Seq(B), headers : [HeaderNames -> V], err : V]
CapturesOf(B, V) == [parent : ResponsesOf(B, V), status : V, body : Seq(B), passthrough : BOOLEAN]

Doing(r, op) == IF r.err # 0 THEN r ELSE RS!Do(r, op)
Captured(max, c, op) == IF c.parent.err # 0 THEN c ELSE RS!Capture(max, c, op)

\* Nothing has been done to a fresh response.
LEMMA FreshResponse ==
  ASSUME NEW B, NEW V, Common \subseteq V
  PROVE  RS!Fresh \in ResponsesOf(B, V) /\ RS!newCaptureResponse \in CapturesOf(B, V)
<1>1. RS!NoHeaders \in [HeaderNames -> V]
  <2>1. RS!NoTag \in V /\ FALSE \in V /\ RS!Unset \in V /\ "" \in V 
    <3>1. RS!NoTag = <<>> /\ RS!Unset = -1 BY DEF RS!NoTag, RS!Unset
    <3> QED BY <3>1 DEF Common
  <2> DEFINE h == [etag |-> RS!NoTag, noStore |-> FALSE, length |-> RS!Unset, location |-> "", modified |-> RS!Unset]
  <2>2. h = [n \in HeaderNames |-> h[n]] BY DEF HeaderNames
  <2>3. \A n \in HeaderNames : h[n] \in V
    <3> HIDE DEF RS!NoTag, RS!Unset
    <3>1. /\ h["etag"] = RS!NoTag /\ h["noStore"] = FALSE /\ h["length"] = RS!Unset
          /\ h["location"] = "" /\ h["modified"] = RS!Unset
      OBVIOUS
    <3> HIDE DEF h
    <3> QED BY <2>1, <3>1 DEF HeaderNames
  <2>4. RS!NoHeaders = h BY DEF RS!NoHeaders
  <2> HIDE DEF h
  <2> QED BY <2>2, <2>3, <2>4
<1>2. 200 \in V /\ 0 \in V BY DEF Common
<1>3. RS!Fresh \in ResponsesOf(B, V) BY <1>1, <1>2 DEF RS!Fresh, ResponsesOf
<1>4. RS!newCaptureResponse \in CapturesOf(B, V) BY <1>2, <1>3 DEF RS!newCaptureResponse, CapturesOf
<1> QED BY <1>3, <1>4

Effect(r, op, B, V) ==
  /\ RS!Do(r, op) \in ResponsesOf(B, V)
  /\ op.op = "status" /\ ~r.committed => RS!Do(r, op) = [r EXCEPT !.status = op.value]
  /\ op.op = "set" /\ ~r.committed => RS!Do(r, op) = [r EXCEPT !.headers[op.name] = op.value]
  /\ op.op \in {"status", "set"} /\ r.committed => RS!Do(r, op) = r
  /\ op.op = "write" => RS!Do(r, op) = [r EXCEPT !.committed = TRUE, !.body = @ \o op.value]
  /\ op.op = "flush" => RS!Do(r, op) = [r EXCEPT !.committed = TRUE]
  /\ op.op = "reset" /\ r.committed => RS!Do(r, op) = [r EXCEPT !.err = 500]
  /\ op.op = "reset" /\ ~r.committed => RS!Do(r, op) = RS!Fresh
  /\ op.op = "fail" => RS!Do(r, op) = [r EXCEPT !.err = op.value]

\* What a step makes of a response, by its kind.
LEMMA StepOfResponse ==
  ASSUME NEW B, NEW V, Common \subseteq V, NEW r \in ResponsesOf(B, V), NEW op, IsStep(op, B, V)
  PROVE  Effect(r, op, B, V)
<1>1. r.committed \in BOOLEAN /\ r.body \in Seq(B) /\ r.headers \in [HeaderNames -> V] BY DEF ResponsesOf
<1>2. op.value \in V /\ 500 \in V /\ RS!Fresh \in ResponsesOf(B, V) BY FreshResponse DEF IsStep, Common
<1>3. CASE op.op = "status"
  <2>1. RS!Do(r, op) = IF r.committed THEN r ELSE [r EXCEPT !.status = op.value] BY <1>3 DEF RS!Do
  <2>2. [r EXCEPT !.status = op.value] \in ResponsesOf(B, V) BY <1>2 DEF ResponsesOf
  <2> QED BY <1>1, <1>3, <2>1, <2>2 DEF Effect
<1>4. CASE op.op = "set"
  <2>1. RS!Do(r, op) = IF r.committed THEN r ELSE [r EXCEPT !.headers[op.name] = op.value] BY <1>4 DEF RS!Do
  <2>2. [r EXCEPT !.headers[op.name] = op.value] \in ResponsesOf(B, V)
    <3>1. [r.headers EXCEPT ![op.name] = op.value] \in [HeaderNames -> V] BY <1>1, <1>2
    <3>2. [r EXCEPT !.headers[op.name] = op.value] = [r EXCEPT !.headers = [r.headers EXCEPT ![op.name] = op.value]]
      OBVIOUS
    <3> QED BY <3>1, <3>2 DEF ResponsesOf
  <2> QED BY <1>1, <1>4, <2>1, <2>2 DEF Effect
<1>5. CASE op.op = "write"
  <2>1. RS!Do(r, op) = [r EXCEPT !.committed = TRUE, !.body = @ \o op.value] BY <1>5 DEF RS!Do
  <2>2. r.body \o op.value \in Seq(B) BY <1>1, <1>5 DEF IsStep
  <2>3. [r EXCEPT !.committed = TRUE, !.body = @ \o op.value] \in ResponsesOf(B, V) BY <2>2 DEF ResponsesOf
  <2> QED BY <1>5, <2>1, <2>3 DEF Effect
<1>6. CASE op.op = "flush"
  <2>1. RS!Do(r, op) = [r EXCEPT !.committed = TRUE] BY <1>6 DEF RS!Do
  <2>2. [r EXCEPT !.committed = TRUE] \in ResponsesOf(B, V) BY DEF ResponsesOf
  <2> QED BY <1>6, <2>1, <2>2 DEF Effect
<1>7. CASE op.op = "reset"
  <2>1. RS!Do(r, op) = IF r.committed THEN [r EXCEPT !.err = 500] ELSE RS!Fresh BY <1>7 DEF RS!Do
  <2>2. [r EXCEPT !.err = 500] \in ResponsesOf(B, V) BY <1>2 DEF ResponsesOf
  <2> QED BY <1>1, <1>2, <1>7, <2>1, <2>2 DEF Effect
<1>8. CASE op.op = "fail"
  <2>1. RS!Do(r, op) = [r EXCEPT !.err = op.value] BY <1>8 DEF RS!Do
  <2>2. [r EXCEPT !.err = op.value] \in ResponsesOf(B, V) BY <1>2 DEF ResponsesOf
  <2> QED BY <1>8, <2>1, <2>2 DEF Effect
<1> HIDE DEF ResponsesOf
<1> QED BY <1>3, <1>4, <1>5, <1>6, <1>7, <1>8 DEF Effect, IsStep, StepKinds

Passed(c, op, B, V) ==
  /\ RS!Hand(c, op) \in CapturesOf(B, V) /\ RS!Hand(c, op).parent = RS!Do(c.parent, op)
  /\ RS!Hand(c, op).status = c.status /\ RS!Hand(c, op).body = c.body
  /\ RS!Hand(c, op).passthrough = c.passthrough

\* A capture hands a step on to the response behind it.
LEMMA Handed ==
  ASSUME NEW B, NEW V, Common \subseteq V, NEW c \in CapturesOf(B, V), NEW op, IsStep(op, B, V)
  PROVE  Passed(c, op, B, V)
<1>1. RS!Do(c.parent, op) \in ResponsesOf(B, V)
  <2>1. c.parent \in ResponsesOf(B, V) BY DEF CapturesOf
  <2>2. Effect(c.parent, op, B, V) BY <2>1, StepOfResponse
  <2> QED BY <2>2 DEF Effect
<1>2. RS!Hand(c, op) = [c EXCEPT !.parent = RS!Do(c.parent, op)] BY DEF RS!Hand
<1> HIDE DEF ResponsesOf
<1> QED BY <1>1, <1>2 DEF CapturesOf, Passed

\* When it holds no more, what it held is with the response behind it.
LEMMA SwitchedOver ==
  ASSUME NEW B, NEW V, Common \subseteq V, NEW c \in CapturesOf(B, V),
         ~c.parent.committed, c.parent.body = <<>>
  PROVE  LET d == RS!switchToPassthrough(c)
         IN  /\ d \in CapturesOf(B, V) /\ d.passthrough /\ d.status = c.status
             /\ d.parent.status = c.status /\ d.parent.body = c.body /\ d.parent.err = c.parent.err
             /\ d.parent.headers = c.parent.headers
<1> DEFINE told == RS!Status(c.status)
           full == RS!Body(c.body)
           open == [c EXCEPT !.passthrough = TRUE, !.body = <<>>]
           begun == RS!Hand(open, told)
<1>1. c.parent \in ResponsesOf(B, V) /\ c.status \in V /\ c.body \in Seq(B) BY DEF CapturesOf
<1>2. /\ told.op = "status" /\ told.value = c.status /\ full.op = "write" /\ full.value = c.body
  BY DEF RS!Status, RS!Body, RS!Op
<1>3. IsStep(told, B, V) BY <1>1, <1>2 DEF IsStep, StepKinds
<1>4. open \in CapturesOf(B, V) /\ open.parent = c.parent /\ open.status = c.status /\ open.passthrough
  <2>1. <<>> \in Seq(B) OBVIOUS
  <2> HIDE DEF ResponsesOf
  <2> QED BY <2>1 DEF CapturesOf
<1>5. /\ begun \in CapturesOf(B, V) /\ begun.passthrough /\ begun.status = c.status
      /\ begun.parent = [c.parent EXCEPT !.status = c.status]
  <2> HIDE DEF open, told
  <2>1. /\ begun \in CapturesOf(B, V) /\ begun.parent = RS!Do(open.parent, told)
        /\ begun.status = open.status /\ begun.passthrough = open.passthrough
    <3>1. Passed(open, told, B, V) BY <1>3, <1>4, Handed
    <3> QED BY <3>1 DEF Passed
  <2>2. RS!Do(c.parent, told) = [c.parent EXCEPT !.status = told.value]
    <3>1. Effect(c.parent, told, B, V) BY <1>1, <1>3, StepOfResponse
    <3> QED BY <1>2, <3>1 DEF Effect
  <2> QED BY <1>2, <1>4, <2>1, <2>2
<1>6. /\ begun.parent.status = c.status /\ begun.parent.body = <<>> /\ begun.parent.err = c.parent.err
      /\ begun.parent.headers = c.parent.headers /\ begun.parent \in ResponsesOf(B, V)
  <2>1. begun.parent \in ResponsesOf(B, V) BY <1>5 DEF CapturesOf
  <2> HIDE DEF begun
  <2> QED BY <1>1, <1>5, <2>1 DEF ResponsesOf
<1>7. RS!switchToPassthrough(c) = IF c.body = <<>> THEN begun ELSE RS!Hand(begun, full)
  BY DEF RS!switchToPassthrough
<1>8. CASE c.body = <<>>
  <2> HIDE DEF begun
  <2> QED BY <1>5, <1>6, <1>7, <1>8
<1>9. CASE c.body # <<>>
  <2> DEFINE d == RS!Hand(begun, full)
  <2> HIDE DEF begun, full
  <2>2. d.parent = [begun.parent EXCEPT !.committed = TRUE, !.body = @ \o c.body]
    <3>1. RS!Do(begun.parent, full) = [begun.parent EXCEPT !.committed = TRUE, !.body = @ \o c.body]
      BY <1>2 DEF RS!Do
    <3>2. d = [begun EXCEPT !.parent = RS!Do(begun.parent, full)] BY DEF RS!Hand
    <3>3. "parent" \in DOMAIN begun BY <1>5 DEF CapturesOf
    <3> QED BY <3>1, <3>2, <3>3
  <2>3. /\ d.parent.status = c.status /\ d.parent.body = <<>> \o c.body /\ d.parent.err = c.parent.err
        /\ d.parent.headers = c.parent.headers /\ d.parent \in ResponsesOf(B, V)
    <3>1. <<>> \o c.body = c.body BY <1>1
    <3> QED BY <1>1, <1>6, <2>2, <3>1 DEF ResponsesOf
  <2>4. d \in CapturesOf(B, V) /\ d.passthrough /\ d.status = c.status
    <3>1. d = [begun EXCEPT !.parent = d.parent] BY DEF RS!Hand
    <3> HIDE DEF d, ResponsesOf
    <3> QED BY <1>5, <2>3, <3>1 DEF CapturesOf
  <2>5. <<>> \o c.body = c.body BY <1>1
  <2> HIDE DEF d
  <2>6. RS!switchToPassthrough(c) = d BY <1>7, <1>9 DEF d
  <2> QED BY <2>3, <2>4, <2>5, <2>6
<1> QED BY <1>8, <1>9

\* A capture that holds a body back has sent none of it.
HeldCaptures(B, V) ==
  {c \in CapturesOf(B, V) : /\ c.passthrough = c.parent.committed
                            /\ ~c.passthrough => c.parent.body = <<>>}
Room(max, c, op) == op.op = "write" /\ Len(c.body \o op.value) <= max
CaptureEffect(max, c, op, B, V) ==
  LET d == RS!Capture(max, c, op)
  IN  /\ d \in HeldCaptures(B, V)
      /\ op.op = "reset" /\ c.passthrough => d = RS!Hand(c, RS!Fail(500))
      /\ op.op = "reset" /\ ~c.passthrough => d = RS!newCaptureResponse
      /\ op.op = "status" /\ ~c.passthrough => d = [c EXCEPT !.status = RS!normalizeStatus(op.value, 500)]
      /\ Room(max, c, op) /\ ~c.passthrough => d = [c EXCEPT !.body = @ \o op.value]
      /\ op.op \in {"write", "flush"} /\ ~c.passthrough /\ ~Room(max, c, op) =>
           d = RS!Hand(RS!switchToPassthrough(c), op)
      /\ op.op # "reset" /\ (c.passthrough \/ op.op \in {"set", "fail"}) => d = RS!Hand(c, op)

\* A status that is out of range becomes one that is.
LEMMA NormalStatus ==
  ASSUME NEW s, NEW f
  PROVE  RS!normalizeStatus(s, f) = IF s = 0 THEN f ELSE IF s \in 100 .. 999 THEN s ELSE 500
<1>1. 0 \notin 100 .. 999 OBVIOUS
<1> QED BY <1>1 DEF RS!normalizeStatus

\* What a step makes of a capture.
LEMMA StepOfCapture ==
  ASSUME NEW B, NEW V, Common \subseteq V, NEW max, NEW c \in HeldCaptures(B, V), NEW op, IsStep(op, B, V)
  PROVE  CaptureEffect(max, c, op, B, V)
<1> DEFINE d == RS!Capture(max, c, op)
           p == c.parent
<1>1. /\ c \in CapturesOf(B, V) /\ c.passthrough = p.committed
      /\ ~c.passthrough => p.body = <<>>
      /\ p \in ResponsesOf(B, V) /\ c.passthrough \in BOOLEAN /\ c.body \in Seq(B)
  BY DEF HeldCaptures, CapturesOf
<1>2. op.op \in StepKinds /\ op.value \in V BY DEF IsStep
<1>3. Effect(p, op, B, V) BY <1>1, StepOfResponse
<1>4. p.committed \in BOOLEAN BY <1>1 DEF ResponsesOf
<1>5. ASSUME NEW e \in CapturesOf(B, V), IsStep(op, B, V), e.passthrough = e.parent.committed \/ op.op \in {"write", "flush"},
             e.passthrough \/ op.op \in {"set", "fail", "status"}, ~e.passthrough => e.parent.body = <<>>,
             op.op # "reset"
      PROVE  RS!Hand(e, op) \in HeldCaptures(B, V)
  <2> DEFINE h == RS!Hand(e, op)
  <2>1. e.parent \in ResponsesOf(B, V) /\ e.passthrough \in BOOLEAN BY DEF CapturesOf
  <2>2. Effect(e.parent, op, B, V) BY <2>1, StepOfResponse
  <2>3. /\ h \in CapturesOf(B, V) /\ h.parent = RS!Do(e.parent, op) /\ h.passthrough = e.passthrough
    <3>1. Passed(e, op, B, V) BY Handed
    <3> QED BY <3>1 DEF Passed
  <2>4. e.parent.committed \in BOOLEAN BY <2>1 DEF ResponsesOf
  <2>5. /\ h.parent.committed = h.passthrough
        /\ ~h.passthrough => h.parent.body = <<>>
    <3>1. CASE op.op \in {"status", "set"} /\ e.parent.committed
      <4>1. h.parent = e.parent BY <2>2, <2>3, <3>1 DEF Effect
      <4> HIDE DEF h
      <4> QED BY <1>5, <2>3, <3>1, <4>1
    <3>2. CASE op.op = "status" /\ ~e.parent.committed
      <4>1. h.parent = [e.parent EXCEPT !.status = op.value] BY <2>2, <2>3, <3>2 DEF Effect
      <4>2. h.parent.committed = e.parent.committed /\ h.parent.body = e.parent.body
        BY <2>1, <4>1 DEF ResponsesOf
      <4> HIDE DEF h
      <4> QED BY <1>5, <2>3, <3>2, <4>2
    <3>3. CASE op.op = "set" /\ ~e.parent.committed
      <4>1. h.parent = [e.parent EXCEPT !.headers[op.name] = op.value] BY <2>2, <2>3, <3>3 DEF Effect
      <4>2. h.parent.committed = e.parent.committed /\ h.parent.body = e.parent.body
        BY <2>1, <4>1 DEF ResponsesOf
      <4> HIDE DEF h
      <4> QED BY <1>5, <2>3, <3>3, <4>2
    <3>4. CASE op.op = "write"
      <4>1. h.parent = [e.parent EXCEPT !.committed = TRUE, !.body = @ \o op.value] BY <2>2, <2>3, <3>4 DEF Effect
      <4>2. h.parent.committed = TRUE BY <2>1, <4>1 DEF ResponsesOf
      <4> HIDE DEF h
      <4> QED BY <1>5, <2>1, <2>3, <3>4, <4>2
    <3>5. CASE op.op = "flush"
      <4>1. h.parent = [e.parent EXCEPT !.committed = TRUE] BY <2>2, <2>3, <3>5 DEF Effect
      <4>2. h.parent.committed = TRUE BY <2>1, <4>1 DEF ResponsesOf
      <4> HIDE DEF h
      <4> QED BY <1>5, <2>1, <2>3, <3>5, <4>2
    <3>6. CASE op.op = "fail"
      <4>1. h.parent = [e.parent EXCEPT !.err = op.value] BY <2>2, <2>3, <3>6 DEF Effect
      <4>2. h.parent.committed = e.parent.committed /\ h.parent.body = e.parent.body
        BY <2>1, <4>1 DEF ResponsesOf
      <4> HIDE DEF h
      <4> QED BY <1>5, <2>3, <3>6, <4>2
    <3> QED BY <1>2, <1>5, <2>4, <3>1, <3>2, <3>3, <3>4, <3>5, <3>6 DEF StepKinds
  <2> HIDE DEF h
  <2>6. h \in HeldCaptures(B, V) BY <2>3, <2>5 DEF HeldCaptures
  <2> QED BY <2>6 DEF h
<1>6. CASE op.op = "reset" /\ c.passthrough
  <2> DEFINE failed == RS!Fail(500)
             h == RS!Hand(c, failed)
  <2>1. failed.op = "fail" /\ failed.value = 500 BY DEF RS!Fail, RS!Op
  <2>2. IsStep(failed, B, V) BY <2>1 DEF IsStep, StepKinds, Common
  <2>3. /\ h \in CapturesOf(B, V) /\ h.parent = RS!Do(p, failed) /\ h.passthrough = c.passthrough
    <3> HIDE DEF failed
    <3>1. Passed(c, failed, B, V) BY <1>1, <2>2, Handed
    <3> QED BY <3>1 DEF Passed
  <2>4. h.parent = [p EXCEPT !.err = 500] BY <2>1, <2>3 DEF RS!Do
  <2>5. h.parent.committed = p.committed
    <3> HIDE DEF h
    <3> QED BY <1>1, <2>4 DEF ResponsesOf
  <2>6. d = h BY <1>1, <1>6 DEF RS!Capture
  <2>7. h \in HeldCaptures(B, V)
    <3> HIDE DEF h
    <3> QED BY <1>1, <1>6, <2>3, <2>5 DEF HeldCaptures
  <2> HIDE DEF d, h, failed
  <2> QED BY <1>6, <2>6, <2>7 DEF CaptureEffect, Room, d, h, failed
<1>7. CASE op.op = "reset" /\ ~c.passthrough
  <2>1. d = RS!newCaptureResponse BY <1>1, <1>7 DEF RS!Capture
  <2>2. RS!newCaptureResponse \in HeldCaptures(B, V)
    <3>1. RS!newCaptureResponse \in CapturesOf(B, V) BY FreshResponse
    <3> QED BY <3>1 DEF HeldCaptures, RS!newCaptureResponse, RS!Fresh
  <2> QED BY <1>7, <2>1, <2>2 DEF CaptureEffect, Room
<1>8. CASE op.op = "status" /\ ~c.passthrough
  <2>1. d = [c EXCEPT !.status = RS!normalizeStatus(op.value, 500)] BY <1>8 DEF RS!Capture
  <2>2. RS!normalizeStatus(op.value, 500) \in V BY <1>2, NormalStatus DEF Common
  <2>3. d \in HeldCaptures(B, V)
    <3> HIDE DEF d
    <3>1. d \in CapturesOf(B, V) /\ d.passthrough = c.passthrough /\ d.parent = c.parent BY <1>1, <2>1, <2>2 DEF CapturesOf
    <3> QED BY <1>1, <3>1 DEF HeldCaptures
  <2> QED BY <1>8, <2>1, <2>3 DEF CaptureEffect, Room
<1>9. CASE Room(max, c, op) /\ ~c.passthrough
  <2>1. d = [c EXCEPT !.body = @ \o op.value] BY <1>9 DEF RS!Capture, Room
  <2>2. c.body \o op.value \in Seq(B) BY <1>1, <1>9 DEF IsStep, Room
  <2>3. d \in HeldCaptures(B, V)
    <3> HIDE DEF d
    <3>1. d \in CapturesOf(B, V) /\ d.passthrough = c.passthrough /\ d.parent = c.parent BY <1>1, <2>1, <2>2 DEF CapturesOf
    <3> QED BY <1>1, <3>1 DEF HeldCaptures
  <2> QED BY <1>9, <2>1, <2>3 DEF CaptureEffect, Room
<1>10. CASE op.op \in {"write", "flush"} /\ ~c.passthrough /\ ~Room(max, c, op)
  <2> DEFINE e == RS!switchToPassthrough(c)
  <2>1. d = RS!Hand(e, op) BY <1>10 DEF RS!Capture, Room
  <2>2. e \in CapturesOf(B, V) /\ e.passthrough BY <1>1, <1>10, SwitchedOver
  <2>3. RS!Hand(e, op) \in HeldCaptures(B, V)
    <3> HIDE DEF e
    <3> QED BY <1>5, <1>10, <2>2
  <2> QED BY <1>10, <2>1, <2>3 DEF CaptureEffect
<1>11. CASE op.op # "reset" /\ (c.passthrough \/ op.op \in {"set", "fail"})
  <2>1. d = RS!Hand(c, op) BY <1>1, <1>11 DEF RS!Capture
  <2>2. RS!Hand(c, op) \in HeldCaptures(B, V) BY <1>1, <1>5, <1>11
  <2> QED BY <1>11, <2>1, <2>2 DEF CaptureEffect, Room
<1> HIDE DEF d, p
<1> QED BY <1>1, <1>2, <1>6, <1>7, <1>8, <1>9, <1>10, <1>11 DEF StepKinds

\* The steps of a list, one after the other.
BareRun(run, ops) ==
  run[0] = RS!Fresh /\ \A i \in 1 .. Len(ops) : run[i] = Doing(run[i - 1], ops[i])
AfterCapture(max, ops) ==
  RS!FoldLeft(LAMBDA s, op : IF s.parent.err # 0 THEN s ELSE RS!Capture(max, s, op), RS!newCaptureResponse, ops)
CaptureRun(run, max, ops) ==
  run[0] = RS!newCaptureResponse /\ \A i \in 1 .. Len(ops) : run[i] = Captured(max, run[i - 1], ops[i])

IsSteps(ops, B, V) == Common \subseteq V /\ \E S : ops \in Seq(S) /\ \A op \in S : IsStep(op, B, V)
RunsBare(ops, B, V) ==
  \E run \in [0 .. Len(ops) -> ResponsesOf(B, V)] : BareRun(run, ops) /\ RS!Bare(ops) = run[Len(ops)]
RunsCaptured(max, ops, B, V) ==
  \E run \in [0 .. Len(ops) -> HeldCaptures(B, V)] :
    CaptureRun(run, max, ops) /\ AfterCapture(max, ops) = run[Len(ops)]

\* A list of steps runs through responses, one by one.
LEMMA BareRuns ==
  ASSUME NEW B, NEW V, NEW ops, IsSteps(ops, B, V)
  PROVE  RunsBare(ops, B, V)
<1> SUFFICES ASSUME Common \subseteq V, NEW S, ops \in Seq(S), \A op \in S : IsStep(op, B, V)
             PROVE  RunsBare(ops, B, V)
  BY DEF IsSteps
<1> DEFINE n == Len(ops)
           X == ResponsesOf(B, V)
           start == RS!Fresh
           Turn(x, op) == Doing(x, op)
           Fits(h) == h = [T \in SUBSET DOMAIN ops |->
                             IF T = {} THEN start ELSE Turn(h[T \ {Max(T)}], ops[Max(T)])]
           step == [p \in X \X (1 .. n) |-> Turn(p[1], ops[p[2]])]
<1>1. n \in Nat /\ DOMAIN ops = 1 .. n /\ \A i \in 1 .. n : ops[i] \in S OBVIOUS
<1>2. start \in X BY FreshResponse
<1>3. ASSUME NEW x \in X, NEW i \in 1 .. n PROVE Turn(x, ops[i]) \in X
  <2>1. IsStep(ops[i], B, V) BY <1>1
  <2> HIDE DEF n
  <2>2. Effect(x, ops[i], B, V) BY <2>1, StepOfResponse
  <2> QED BY <2>2 DEF Effect, Doing
<1>4. step \in [X \X (1 .. n) -> X]
  <2> HIDE DEF Turn, n, X
  <2> QED BY <1>3
<1>5. \E f : Fits(f)
  <2> HIDE DEF X, n, step, Fits, start
  <2>1. PICK f : /\ f = [T \in SUBSET (1 .. n) |-> f[T]] /\ Solves(f, n, X, start, step)
                 /\ \A T \in SUBSET (1 .. n) : T # {} => f[T \ {Max(T)}] \in X /\ Max(T) \in 1 .. n
    BY <1>1, <1>2, <1>4, FoldSolved
  <2> HIDE DEF Turn
  <2>2. \A x \in X, i \in 1 .. n : step[<<x, i>>] = Turn(x, ops[i]) BY DEF step
  <2>3. ASSUME NEW T \in SUBSET (1 .. n), T # {} PROVE f[T] = Turn(f[T \ {Max(T)}], ops[Max(T)])
    BY <2>1, <2>2, <2>3 DEF Solves
  <2>4. f[{}] = start BY <2>1 DEF Solves
  <2> QED BY <1>1, <2>1, <2>3, <2>4 DEF Fits
<1> DEFINE c == CHOOSE h : Fits(h)
<1>6. Fits(c)
  <2> HIDE DEF Fits
  <2> QED BY <1>5
<1>7. RS!Bare(ops) = c[DOMAIN ops]
  BY Zenon DEF RS!Bare, Doing, RS!FoldLeft, RS!MapThenFoldSet, RS!Max, Max
<1> HIDE DEF c
<1>8. Solves(c, n, X, start, step)
  <2> HIDE DEF Turn, n, X, start
  <2>1. c[{}] = start BY <1>6
  <2>2. ASSUME NEW T \in SUBSET (1 .. n), T # {}, c[T \ {Max(T)}] \in X
        PROVE  c[T] = step[<<c[T \ {Max(T)}], Max(T)>>]
    <3>1. Max(T) \in 1 .. n BY <1>1, <2>2, Greatest
    <3> QED BY <1>1, <1>6, <2>2, <3>1
  <2> HIDE DEF step
  <2> QED BY <2>1, <2>2 DEF Solves
<1>9. PICK run : Loop(run, n, X, start, step) /\ c[1 .. n] = run[n]
  <2> HIDE DEF X, n, step, start
  <2>1. n \in Nat BY <1>1
  <2>2. RunsThrough(c, n, X, start, step) BY <1>2, <1>4, <1>8, <2>1, FoldRuns
  <2> QED BY <2>2 DEF RunsThrough
<1>10. run \in [0 .. n -> X] /\ run[0] = start /\ \A i \in 1 .. n : run[i] = Turn(run[i - 1], ops[i])
  <2> HIDE DEF X, n, start, Turn
  <2>1. run \in [0 .. n -> X] /\ run[0] = start BY <1>9 DEF Loop
  <2>2. ASSUME NEW i \in 1 .. n PROVE run[i] = Turn(run[i - 1], ops[i])
    <3>1. i - 1 \in 0 .. n BY <1>1
    <3>2. run[i - 1] \in X /\ run[i] = step[<<run[i - 1], i>>] BY <1>9, <3>1 DEF Loop
    <3> QED BY <3>2
  <2> QED BY <2>1, <2>2
<1> HIDE DEF X, step
<1>11. BareRun(run, ops) BY <1>10 DEF BareRun
<1> QED BY <1>1, <1>7, <1>9, <1>10, <1>11 DEF X, RunsBare

\* And through captures.
LEMMA CaptureRuns ==
  ASSUME NEW B, NEW V, NEW ops, IsSteps(ops, B, V), NEW max
  PROVE  RunsCaptured(max, ops, B, V)
<1> SUFFICES ASSUME Common \subseteq V, NEW S, ops \in Seq(S), \A op \in S : IsStep(op, B, V)
             PROVE  RunsCaptured(max, ops, B, V)
  BY DEF IsSteps
<1> DEFINE n == Len(ops)
           X == HeldCaptures(B, V)
           start == RS!newCaptureResponse
           Turn(x, op) == Captured(max, x, op)
           Fits(h) == h = [T \in SUBSET DOMAIN ops |->
                             IF T = {} THEN start ELSE Turn(h[T \ {Max(T)}], ops[Max(T)])]
           step == [p \in X \X (1 .. n) |-> Turn(p[1], ops[p[2]])]
<1>1. n \in Nat /\ DOMAIN ops = 1 .. n /\ \A i \in 1 .. n : ops[i] \in S OBVIOUS
<1>2. start \in X BY FreshResponse DEF HeldCaptures, RS!newCaptureResponse, RS!Fresh
<1>3. ASSUME NEW x \in X, NEW i \in 1 .. n PROVE Turn(x, ops[i]) \in X
  <2>1. IsStep(ops[i], B, V) BY <1>1
  <2> HIDE DEF n
  <2>2. CaptureEffect(max, x, ops[i], B, V) BY <2>1, StepOfCapture
  <2> QED BY <2>2 DEF CaptureEffect, Captured
<1>4. step \in [X \X (1 .. n) -> X]
  <2> HIDE DEF Turn, n, X
  <2> QED BY <1>3
<1>5. \E f : Fits(f)
  <2> HIDE DEF X, n, step, Fits, start
  <2>1. PICK f : /\ f = [T \in SUBSET (1 .. n) |-> f[T]] /\ Solves(f, n, X, start, step)
                 /\ \A T \in SUBSET (1 .. n) : T # {} => f[T \ {Max(T)}] \in X /\ Max(T) \in 1 .. n
    BY <1>1, <1>2, <1>4, FoldSolved
  <2> HIDE DEF Turn
  <2>2. \A x \in X, i \in 1 .. n : step[<<x, i>>] = Turn(x, ops[i]) BY DEF step
  <2>3. ASSUME NEW T \in SUBSET (1 .. n), T # {} PROVE f[T] = Turn(f[T \ {Max(T)}], ops[Max(T)])
    BY <2>1, <2>2, <2>3 DEF Solves
  <2>4. f[{}] = start BY <2>1 DEF Solves
  <2> QED BY <1>1, <2>1, <2>3, <2>4 DEF Fits
<1> DEFINE c == CHOOSE h : Fits(h)
<1>6. Fits(c)
  <2> HIDE DEF Fits
  <2> QED BY <1>5
<1>7. AfterCapture(max, ops) = c[DOMAIN ops]
  BY Zenon DEF AfterCapture, Captured, RS!FoldLeft, RS!MapThenFoldSet, RS!Max, Max
<1> HIDE DEF c
<1>8. Solves(c, n, X, start, step)
  <2> HIDE DEF Turn, n, X, start
  <2>1. c[{}] = start BY <1>6
  <2>2. ASSUME NEW T \in SUBSET (1 .. n), T # {}, c[T \ {Max(T)}] \in X
        PROVE  c[T] = step[<<c[T \ {Max(T)}], Max(T)>>]
    <3>1. Max(T) \in 1 .. n BY <1>1, <2>2, Greatest
    <3> QED BY <1>1, <1>6, <2>2, <3>1
  <2> HIDE DEF step
  <2> QED BY <2>1, <2>2 DEF Solves
<1>9. PICK run : Loop(run, n, X, start, step) /\ c[1 .. n] = run[n]
  <2> HIDE DEF X, n, step, start
  <2>1. n \in Nat BY <1>1
  <2>2. RunsThrough(c, n, X, start, step) BY <1>2, <1>4, <1>8, <2>1, FoldRuns
  <2> QED BY <2>2 DEF RunsThrough
<1>10. run \in [0 .. n -> X] /\ run[0] = start /\ \A i \in 1 .. n : run[i] = Turn(run[i - 1], ops[i])
  <2> HIDE DEF X, n, start, Turn
  <2>1. run \in [0 .. n -> X] /\ run[0] = start BY <1>9 DEF Loop
  <2>2. ASSUME NEW i \in 1 .. n PROVE run[i] = Turn(run[i - 1], ops[i])
    <3>1. i - 1 \in 0 .. n BY <1>1
    <3>2. run[i - 1] \in X /\ run[i] = step[<<run[i - 1], i>>] BY <1>9, <3>1 DEF Loop
    <3> QED BY <3>2
  <2> QED BY <2>1, <2>2
<1> HIDE DEF X, step
<1>11. CaptureRun(run, max, ops) BY <1>10 DEF CaptureRun
<1> QED BY <1>1, <1>7, <1>9, <1>10, <1>11 DEF X, RunsCaptured

\* The steps of a list are steps.
LEMMA StepsAreSteps ==
  ASSUME NEW B, NEW V, NEW ops, IsSteps(ops, B, V)
  PROVE  Common \subseteq V /\ Len(ops) \in Nat /\ \A i \in 1 .. Len(ops) : IsStep(ops[i], B, V)
BY DEF IsSteps

\* Where a list of steps ends.
LEMMA RunsEnd ==
  ASSUME NEW B, NEW V, NEW ops, IsSteps(ops, B, V), NEW max
  PROVE  RS!Bare(ops) \in ResponsesOf(B, V) /\ AfterCapture(max, ops) \in HeldCaptures(B, V)
<1>1. RunsBare(ops, B, V) /\ RunsCaptured(max, ops, B, V) BY BareRuns, CaptureRuns
<1>2. Len(ops) \in 0 .. Len(ops) BY StepsAreSteps
<1> QED BY <1>1, <1>2 DEF RunsBare, RunsCaptured

\* Two lists of steps make one.
LEMMA StepsJoin ==
  ASSUME NEW B, NEW V, NEW u, IsSteps(u, B, V), NEW v, IsSteps(v, B, V)
  PROVE  /\ IsSteps(u \o v, B, V) /\ Len(u \o v) = Len(u) + Len(v)
         /\ \A i \in 1 .. Len(u) : (u \o v)[i] = u[i]
         /\ \A i \in 1 .. Len(v) : (u \o v)[Len(u) + i] = v[i]
<1>1. PICK S : u \in Seq(S) /\ \A op \in S : IsStep(op, B, V) BY DEF IsSteps
<1>2. PICK T : v \in Seq(T) /\ \A op \in T : IsStep(op, B, V) BY DEF IsSteps
<1> DEFINE A == S \cup T
<1>3. /\ \A op \in A : IsStep(op, B, V)
      /\ \A s \in Seq(S) : s \in Seq(A)
      /\ \A s \in Seq(T) : s \in Seq(A)
  BY <1>1, <1>2
<1> HIDE DEF A
<1>4. u \in Seq(A) /\ v \in Seq(A) BY <1>1, <1>2, <1>3
<1>5. u \o v \in Seq(A) BY <1>4
<1>6. IsSteps(u \o v, B, V) BY <1>3, <1>5 DEF IsSteps
<1>7. /\ Len(u \o v) = Len(u) + Len(v)
      /\ \A i \in 1 .. Len(u) : (u \o v)[i] = u[i]
      /\ \A i \in 1 .. Len(v) : (u \o v)[Len(u) + i] = v[i]
  BY <1>4
<1> QED BY <1>6, <1>7

\* Two responses that differ in headers at most.
Alike(r, s) == r.committed = s.committed /\ r.status = s.status /\ r.body = s.body /\ r.err = s.err

\* A step keeps them so.
LEMMA AlikeAfter ==
  ASSUME NEW B, NEW V, Common \subseteq V, NEW op, IsStep(op, B, V),
         NEW r \in ResponsesOf(B, V), NEW s \in ResponsesOf(B, V), Alike(r, s)
  PROVE  Alike(Doing(r, op), Doing(s, op))
<1>1. CASE r.err # 0 BY <1>1 DEF Doing, Alike
<1>2. CASE r.err = 0
  <2>1. Doing(r, op) = RS!Do(r, op) /\ Doing(s, op) = RS!Do(s, op) BY <1>2 DEF Doing, Alike
  <2>2. Effect(r, op, B, V) /\ Effect(s, op, B, V) BY StepOfResponse
  <2>3. r.committed \in BOOLEAN BY DEF ResponsesOf
  <2>4. CASE op.op = "status" /\ ~r.committed
    <3>1. RS!Do(r, op) = [r EXCEPT !.status = op.value] /\ RS!Do(s, op) = [s EXCEPT !.status = op.value]
      BY <2>2, <2>4 DEF Effect, Alike
    <3> QED BY <2>1, <3>1 DEF Alike, ResponsesOf
  <2>5. CASE op.op = "set" /\ ~r.committed
    <3>1. /\ RS!Do(r, op) = [r EXCEPT !.headers[op.name] = op.value]
          /\ RS!Do(s, op) = [s EXCEPT !.headers[op.name] = op.value]
      BY <2>2, <2>5 DEF Effect, Alike
    <3> QED BY <2>1, <3>1 DEF Alike, ResponsesOf
  <2>6. CASE op.op \in {"status", "set"} /\ r.committed BY <2>1, <2>2, <2>6 DEF Effect, Alike
  <2>7. CASE op.op = "write"
    <3>1. /\ RS!Do(r, op) = [r EXCEPT !.committed = TRUE, !.body = @ \o op.value]
          /\ RS!Do(s, op) = [s EXCEPT !.committed = TRUE, !.body = @ \o op.value]
      BY <2>2, <2>7 DEF Effect
    <3> QED BY <2>1, <3>1 DEF Alike, ResponsesOf
  <2>8. CASE op.op = "flush"
    <3>1. RS!Do(r, op) = [r EXCEPT !.committed = TRUE] /\ RS!Do(s, op) = [s EXCEPT !.committed = TRUE]
      BY <2>2, <2>8 DEF Effect
    <3> QED BY <2>1, <3>1 DEF Alike, ResponsesOf
  <2>9. CASE op.op = "reset" /\ r.committed
    <3>1. RS!Do(r, op) = [r EXCEPT !.err = 500] /\ RS!Do(s, op) = [s EXCEPT !.err = 500]
      BY <2>2, <2>9 DEF Effect, Alike
    <3> QED BY <2>1, <3>1 DEF Alike, ResponsesOf
  <2>10. CASE op.op = "reset" /\ ~r.committed
    <3>1. RS!Do(r, op) = RS!Fresh /\ RS!Do(s, op) = RS!Fresh BY <2>2, <2>10 DEF Effect, Alike
    <3> QED BY <2>1, <3>1 DEF Alike
  <2>11. CASE op.op = "fail"
    <3>1. RS!Do(r, op) = [r EXCEPT !.err = op.value] /\ RS!Do(s, op) = [s EXCEPT !.err = op.value]
      BY <2>2, <2>11 DEF Effect
    <3> QED BY <2>1, <3>1 DEF Alike, ResponsesOf
  <2> QED BY <2>3, <2>4, <2>5, <2>6, <2>7, <2>8, <2>9, <2>10, <2>11 DEF IsStep, StepKinds
<1> QED BY <1>1, <1>2

OnlySets(v) == \A i \in 1 .. Len(v) : v[i].op = "set"

\* Headers that are set first change neither the status nor the body of what follows.
LEMMA HeadersAside ==
  ASSUME NEW B, NEW V, NEW v, IsSteps(v, B, V), NEW ops, IsSteps(ops, B, V), OnlySets(v)
  PROVE  Alike(RS!Bare(v \o ops), RS!Bare(ops))
<1> DEFINE u == v \o ops
           n == Len(v)
           m == Len(ops)
           R == ResponsesOf(B, V)
<1>0. Common \subseteq V BY StepsAreSteps
<1>1. IsSteps(u, B, V) /\ Len(u) = n + m /\ n \in Nat /\ m \in Nat BY StepsJoin, StepsAreSteps
<1>2. (\A i \in 1 .. n : u[i] = v[i]) /\ (\A i \in 1 .. m : u[n + i] = ops[i]) BY StepsJoin
<1> HIDE DEF u
<1>3. PICK long \in [0 .. Len(u) -> R] : BareRun(long, u) /\ RS!Bare(u) = long[Len(u)]
  BY <1>1, BareRuns DEF RunsBare
<1>4. PICK short \in [0 .. m -> R] : BareRun(short, ops) /\ RS!Bare(ops) = short[m]
  BY BareRuns DEF RunsBare
<1>5. \A i \in 1 .. n : IsStep(v[i], B, V) BY StepsAreSteps
<1>6. \A i \in 1 .. m : IsStep(ops[i], B, V) BY StepsAreSteps
<1>7. RS!Fresh \in R /\ ~RS!Fresh.committed /\ RS!Fresh.err = 0 BY <1>0, FreshResponse DEF RS!Fresh
<1> HIDE DEF n, m, R
<1> DEFINE Good == {i \in 0 .. n : Alike(long[i], RS!Fresh)}
<1>8. 0 \in Good BY <1>1, <1>3 DEF BareRun, Alike
<1>9. ASSUME NEW i \in 1 .. n, i - 1 \in Good PROVE i \in Good
  <2>1. i \in 1 .. Len(u) /\ i - 1 \in 0 .. Len(u) BY <1>1
  <2>2. long[i - 1] \in R /\ long[i] = Doing(long[i - 1], v[i]) BY <1>2, <1>3, <2>1 DEF BareRun
  <2>3. Alike(long[i - 1], RS!Fresh) BY <1>9
  <2>4. Alike(Doing(long[i - 1], v[i]), long[i - 1])
    <3> DEFINE r == long[i - 1]
    <3>1. r.err = 0 /\ ~r.committed BY <1>7, <2>3 DEF Alike
    <3>2. Effect(r, v[i], B, V) BY <1>0, <1>5, <2>2, StepOfResponse DEF R
    <3>3. v[i].op = "set" BY DEF n, OnlySets
    <3> HIDE DEF r
    <3>4. Doing(r, v[i]) = [r EXCEPT !.headers[v[i].name] = v[i].value] BY <3>1, <3>2, <3>3 DEF Doing, Effect
    <3>5. r \in R BY <2>2 DEF r
    <3>6. Alike(Doing(r, v[i]), r) BY <3>4, <3>5 DEF Alike, R, ResponsesOf
    <3> QED BY <3>6 DEF r
  <2>5. Alike(long[i], RS!Fresh) BY <2>2, <2>3, <2>4 DEF Alike
  <2> QED BY <2>5
<1>10. n \in Good
  <2>1. n \in 0 .. n BY <1>1
  <2> HIDE DEF Good
  <2> QED BY <1>1, <1>8, <1>9, <2>1, Turns
<1> DEFINE Fine == {i \in 0 .. m : Alike(long[n + i], short[i])}
<1>11. 0 \in Fine
  <2>1. short[0] = RS!Fresh BY <1>4 DEF BareRun
  <2>2. Alike(long[n], RS!Fresh) BY <1>10
  <2> QED BY <1>1, <2>1, <2>2
<1>12. ASSUME NEW i \in 1 .. m, i - 1 \in Fine PROVE i \in Fine
  <2>1. n + i \in 1 .. Len(u) /\ n + (i - 1) \in 0 .. Len(u) /\ (n + i) - 1 = n + (i - 1) /\ i - 1 \in 0 .. m BY <1>1
  <2>2. long[n + (i - 1)] \in R /\ long[n + i] = Doing(long[n + (i - 1)], ops[i])
    BY <1>2, <1>3, <2>1 DEF BareRun
  <2>3. short[i - 1] \in R /\ short[i] = Doing(short[i - 1], ops[i]) BY <1>4, <2>1 DEF BareRun, m
  <2>4. Alike(long[n + (i - 1)], short[i - 1]) BY <1>12
  <2>5. Alike(long[n + i], short[i]) BY <1>0, <1>6, <2>2, <2>3, <2>4, AlikeAfter DEF R
  <2> QED BY <2>5
<1>13. m \in Fine
  <2>1. m \in 0 .. m BY <1>1
  <2> HIDE DEF Fine
  <2> QED BY <1>1, <1>11, <1>12, <2>1, Turns
<1> QED BY <1>1, <1>3, <1>4, <1>13 DEF u

\* The validators that a response bears are those that its steps give.
Bears(headers, tag, changed) ==
  headers.etag \in {RS!NoTag, tag} /\ headers.modified \in {RS!Unset, changed}
Gives(op, tag, changed) ==
  /\ op.op = "set" /\ op.name = "etag" => op.value = tag
  /\ op.op = "set" /\ op.name = "modified" => op.value = changed
Giving(ops, tag, changed) == \A i \in 1 .. Len(ops) : Gives(ops[i], tag, changed)

\* A step gives no others.
LEMMA BearsAfter ==
  ASSUME NEW B, NEW V, Common \subseteq V, NEW op, IsStep(op, B, V), NEW tag, NEW changed,
         Gives(op, tag, changed), NEW r \in ResponsesOf(B, V), Bears(r.headers, tag, changed)
  PROVE  Bears(RS!Do(r, op).headers, tag, changed)
<1>1. Effect(r, op, B, V) BY StepOfResponse
<1>2. r.committed \in BOOLEAN /\ r.headers \in [HeaderNames -> V] BY DEF ResponsesOf
<1>3. \/ RS!Do(r, op).headers = r.headers
      \/ RS!Do(r, op) = RS!Fresh
      \/ op.op = "set" /\ op.name \in HeaderNames /\ RS!Do(r, op) = [r EXCEPT !.headers[op.name] = op.value]
  <2>1. CASE op.op = "set" /\ ~r.committed BY <1>1, <2>1 DEF Effect, IsStep
  <2>2. CASE op.op = "status" /\ ~r.committed
    <3>1. RS!Do(r, op) = [r EXCEPT !.status = op.value] BY <1>1, <2>2 DEF Effect
    <3> QED BY <3>1 DEF ResponsesOf
  <2>3. CASE op.op \in {"status", "set"} /\ r.committed BY <1>1, <2>3 DEF Effect
  <2>4. CASE op.op = "write"
    <3>1. RS!Do(r, op) = [r EXCEPT !.committed = TRUE, !.body = @ \o op.value] BY <1>1, <2>4 DEF Effect
    <3> QED BY <3>1 DEF ResponsesOf
  <2>5. CASE op.op = "flush"
    <3>1. RS!Do(r, op) = [r EXCEPT !.committed = TRUE] BY <1>1, <2>5 DEF Effect
    <3> QED BY <3>1 DEF ResponsesOf
  <2>6. CASE op.op = "reset" /\ r.committed
    <3>1. RS!Do(r, op) = [r EXCEPT !.err = 500] BY <1>1, <2>6 DEF Effect
    <3> QED BY <3>1 DEF ResponsesOf
  <2>7. CASE op.op = "reset" /\ ~r.committed BY <1>1, <2>7 DEF Effect
  <2>8. CASE op.op = "fail"
    <3>1. RS!Do(r, op) = [r EXCEPT !.err = op.value] BY <1>1, <2>8 DEF Effect
    <3> QED BY <3>1 DEF ResponsesOf
  <2> QED BY <1>2, <2>1, <2>2, <2>3, <2>4, <2>5, <2>6, <2>7, <2>8 DEF IsStep, StepKinds
<1>4. CASE RS!Do(r, op).headers = r.headers BY <1>4
<1>5. CASE RS!Do(r, op) = RS!Fresh
  <2>1. RS!Fresh.headers = RS!NoHeaders BY DEF RS!Fresh
  <2>2. RS!NoHeaders.etag = RS!NoTag /\ RS!NoHeaders.modified = RS!Unset
    <3> HIDE DEF RS!NoTag, RS!Unset
    <3> QED BY DEF RS!NoHeaders
  <2> QED BY <1>5, <2>1, <2>2 DEF Bears
<1>6. CASE op.op = "set" /\ op.name \in HeaderNames /\ RS!Do(r, op) = [r EXCEPT !.headers[op.name] = op.value]
  <2>1. RS!Do(r, op).headers = [r.headers EXCEPT ![op.name] = op.value] BY <1>6 DEF ResponsesOf
  <2>2. RS!Do(r, op).headers.etag = (IF op.name = "etag" THEN op.value ELSE r.headers.etag)
    BY <1>2, <2>1 DEF HeaderNames
  <2>3. RS!Do(r, op).headers.modified = (IF op.name = "modified" THEN op.value ELSE r.headers.modified)
    BY <1>2, <2>1 DEF HeaderNames
  <2> QED BY <1>6, <2>2, <2>3 DEF Bears, Gives
<1> QED BY <1>3, <1>4, <1>5, <1>6

\* So does a list of steps, to a response or through a capture.
LEMMA BearsWhatIsGiven ==
  ASSUME NEW B, NEW V, NEW ops, IsSteps(ops, B, V), NEW tag, NEW changed, Giving(ops, tag, changed), NEW max
  PROVE  /\ Bears(RS!Bare(ops).headers, tag, changed)
         /\ Bears(AfterCapture(max, ops).parent.headers, tag, changed)
<1> DEFINE n == Len(ops)
<1>0. Common \subseteq V BY StepsAreSteps
<1>1. n \in Nat /\ \A i \in 1 .. n : IsStep(ops[i], B, V) /\ Gives(ops[i], tag, changed)
  BY StepsAreSteps DEF Giving
<1>2. PICK bare \in [0 .. n -> ResponsesOf(B, V)] : BareRun(bare, ops) /\ RS!Bare(ops) = bare[n]
  BY BareRuns DEF RunsBare
<1>3. PICK caught \in [0 .. n -> HeldCaptures(B, V)] : CaptureRun(caught, max, ops) /\ AfterCapture(max, ops) = caught[n]
  BY CaptureRuns DEF RunsCaptured
<1>4. Bears(RS!NoHeaders, tag, changed) BY DEF Bears, RS!NoHeaders
<1> DEFINE Good == {i \in 0 .. n : Bears(bare[i].headers, tag, changed) /\ Bears(caught[i].parent.headers, tag, changed)}
<1>5. 0 \in Good
  <2>1. bare[0] = RS!Fresh /\ caught[0] = RS!newCaptureResponse BY <1>2, <1>3 DEF BareRun, CaptureRun
  <2> QED BY <1>1, <1>4, <2>1 DEF RS!Fresh, RS!newCaptureResponse
<1>6. ASSUME NEW i \in 1 .. n, i - 1 \in Good PROVE i \in Good
  <2> DEFINE r == bare[i - 1]
             c == caught[i - 1]
             op == ops[i]
  <2>1. i - 1 \in 0 .. n BY <1>1
  <2>2. r \in ResponsesOf(B, V) /\ bare[i] = Doing(r, op) BY <1>2, <2>1 DEF BareRun
  <2>3. c \in HeldCaptures(B, V) /\ caught[i] = Captured(max, c, op) BY <1>3, <2>1 DEF CaptureRun
  <2>4. Bears(r.headers, tag, changed) /\ Bears(c.parent.headers, tag, changed) BY <1>6
  <2>5. IsStep(op, B, V) /\ Gives(op, tag, changed) BY <1>1
  <2> HIDE DEF r, c, op, n
  <2>6. Bears(bare[i].headers, tag, changed)
    <3>1. Bears(RS!Do(r, op).headers, tag, changed) BY <1>0, <2>2, <2>4, <2>5, BearsAfter
    <3> QED BY <2>2, <2>4, <3>1 DEF Doing
  <2>7. Bears(caught[i].parent.headers, tag, changed)
    <3> DEFINE d == RS!Capture(max, c, op)
               e == RS!switchToPassthrough(c)
    <3>1. CaptureEffect(max, c, op, B, V) BY <1>0, <2>3, <2>5, StepOfCapture
    <3>2. c \in CapturesOf(B, V) /\ c.parent \in ResponsesOf(B, V) /\ c.passthrough \in BOOLEAN
      BY <2>3 DEF HeldCaptures, CapturesOf
    <3>3. ASSUME NEW f \in CapturesOf(B, V), Bears(f.parent.headers, tag, changed)
          PROVE  Bears(RS!Hand(f, op).parent.headers, tag, changed)
      <4>1. f.parent \in ResponsesOf(B, V) BY DEF CapturesOf
      <4>2. Bears(RS!Do(f.parent, op).headers, tag, changed) BY <1>0, <2>5, <3>3, <4>1, BearsAfter
      <4>3. Passed(f, op, B, V) BY <1>0, <2>5, Handed
      <4> QED BY <4>2, <4>3 DEF Passed
    <3>4. CASE op.op = "reset" /\ c.passthrough
      <4>1. d = RS!Hand(c, RS!Fail(500)) BY <3>1, <3>4 DEF CaptureEffect
      <4>2. d.parent = [c.parent EXCEPT !.err = 500] BY <3>2, <4>1 DEF RS!Hand, RS!Fail, RS!Op, RS!Do, CapturesOf
      <4>3. d.parent.headers = c.parent.headers
        <5> HIDE DEF d
        <5> QED BY <3>2, <4>2 DEF ResponsesOf
      <4> QED BY <2>3, <2>4, <4>3 DEF Captured
    <3>5. CASE op.op = "reset" /\ ~c.passthrough
      <4>1. d = RS!newCaptureResponse BY <3>1, <3>5 DEF CaptureEffect
      <4>2. Bears(d.parent.headers, tag, changed) BY <1>4, <4>1 DEF RS!newCaptureResponse, RS!Fresh
      <4> QED BY <2>3, <2>4, <4>2 DEF Captured
    <3>6. CASE (op.op = "status" \/ Room(max, c, op)) /\ ~c.passthrough
      <4>1. d.parent = c.parent
        <5>1. \/ d = [c EXCEPT !.status = RS!normalizeStatus(op.value, 500)]
              \/ d = [c EXCEPT !.body = @ \o op.value]
          BY <3>1, <3>6 DEF CaptureEffect
        <5> HIDE DEF d
        <5> QED BY <3>2, <5>1 DEF CapturesOf
      <4> QED BY <2>3, <2>4, <4>1 DEF Captured
    <3>7. CASE op.op \in {"write", "flush"} /\ ~c.passthrough /\ ~Room(max, c, op)
      <4>1. d = RS!Hand(e, op) BY <3>1, <3>7 DEF CaptureEffect
      <4>2. c.passthrough = c.parent.committed /\ c.parent.body = <<>> BY <2>3, <3>7 DEF HeldCaptures
      <4>3. e \in CapturesOf(B, V) /\ e.parent.headers = c.parent.headers BY <1>0, <3>2, <3>7, <4>2, SwitchedOver
      <4> HIDE DEF e
      <4>4. Bears(RS!Hand(e, op).parent.headers, tag, changed) BY <2>4, <3>3, <4>3
      <4> QED BY <2>3, <2>4, <4>1, <4>4 DEF Captured
    <3>8. CASE op.op # "reset" /\ (c.passthrough \/ op.op \in {"set", "fail"})
      <4>1. d = RS!Hand(c, op) BY <3>1, <3>8 DEF CaptureEffect
      <4>2. Bears(RS!Hand(c, op).parent.headers, tag, changed) BY <2>4, <3>2, <3>3
      <4> QED BY <2>3, <2>4, <4>1, <4>2 DEF Captured
    <3>9. op.op \in StepKinds BY <2>5 DEF IsStep
    <3> HIDE DEF d, e
    <3> QED BY <3>2, <3>4, <3>5, <3>6, <3>7, <3>8, <3>9 DEF StepKinds
  <2> QED BY <2>6, <2>7
<1>7. n \in Good
  <2>1. n \in 0 .. n BY <1>1
  <2> HIDE DEF Good, n
  <2> QED BY <1>1, <1>5, <1>6, <2>1, Turns
<1> QED BY <1>2, <1>3, <1>7

\* What a response would hold, its capture holds or has sent.
Mirrors(r, c) ==
  r.err # 0 \/
    /\ c.parent.err = 0
    /\ ~c.passthrough => c.body = r.body
    /\ ~c.passthrough /\ r.status \in 100 .. 999 => c.status = r.status
    /\ c.passthrough => r.committed /\ c.parent.body = r.body
    /\ c.passthrough /\ r.status \in 100 .. 999 => c.parent.status = r.status
Sends == {"write", "flush"}

\* Where headers and status come before the body, a step keeps it so.
LEMMA MirrorsAfter ==
  ASSUME NEW B, NEW V, Common \subseteq V, NEW max, NEW op, IsStep(op, B, V),
         NEW r \in ResponsesOf(B, V), NEW c \in HeldCaptures(B, V), r.err = 0, Mirrors(r, c),
         r.committed => op.op \in Sends \cup {"fail"}
  PROVE  Mirrors(RS!Do(r, op), RS!Capture(max, c, op))
<1> DEFINE s == RS!Do(r, op)
           d == RS!Capture(max, c, op)
<1>1. Effect(r, op, B, V) BY StepOfResponse
<1>2. CaptureEffect(max, c, op, B, V) BY StepOfCapture
<1>3. /\ c \in CapturesOf(B, V) /\ c.parent \in ResponsesOf(B, V) /\ c.passthrough \in BOOLEAN
      /\ c.passthrough = c.parent.committed
      /\ ~c.passthrough => c.parent.body = <<>>
  BY DEF HeldCaptures, CapturesOf
<1>4. /\ c.parent.err = 0
      /\ ~c.passthrough => c.body = r.body
      /\ ~c.passthrough /\ r.status \in 100 .. 999 => c.status = r.status
      /\ c.passthrough => r.committed /\ c.parent.body = r.body
      /\ c.passthrough /\ r.status \in 100 .. 999 => c.parent.status = r.status
  BY DEF Mirrors
<1>5. r.committed \in BOOLEAN BY DEF ResponsesOf
<1>6. op.op \in StepKinds BY DEF IsStep
<1>7. CASE op.op = "status"
  <2>1. ~r.committed /\ ~c.passthrough BY <1>4, <1>7 DEF Sends
  <2>2. s = [r EXCEPT !.status = op.value] BY <1>1, <1>7, <2>1 DEF Effect
  <2>3. d = [c EXCEPT !.status = RS!normalizeStatus(op.value, 500)] BY <1>2, <1>7, <2>1 DEF CaptureEffect
  <2>4. s.status = op.value /\ s.body = r.body BY <2>2 DEF ResponsesOf
  <2>5. /\ d.status = RS!normalizeStatus(op.value, 500) /\ d.body = c.body /\ d.parent = c.parent
        /\ d.passthrough = c.passthrough
    <3> HIDE DEF d
    <3> QED BY <1>3, <2>3 DEF CapturesOf
  <2>6. op.value \in 100 .. 999 => d.status = op.value
    <3>1. 0 \notin 100 .. 999 OBVIOUS
    <3> HIDE DEF d
    <3> QED BY <2>5, <3>1, NormalStatus
  <2> HIDE DEF s, d
  <2> QED BY <1>4, <2>1, <2>4, <2>5, <2>6 DEF Mirrors, s, d
<1>8. CASE op.op = "set"
  <2>1. ~r.committed /\ ~c.passthrough BY <1>4, <1>8 DEF Sends
  <2>2. s = [r EXCEPT !.headers[op.name] = op.value] BY <1>1, <1>8, <2>1 DEF Effect
  <2>3. d = RS!Hand(c, op) BY <1>2, <1>8, <2>1 DEF CaptureEffect
  <2>4. Passed(c, op, B, V) BY <1>3, Handed
  <2>5. Effect(c.parent, op, B, V) BY <1>3, StepOfResponse
  <2>6. d.parent = [c.parent EXCEPT !.headers[op.name] = op.value]
    BY <1>3, <1>8, <2>1, <2>3, <2>4, <2>5 DEF Passed, Effect
  <2>7. s.status = r.status /\ s.body = r.body BY <2>2 DEF ResponsesOf
  <2>8. d.status = c.status /\ d.body = c.body /\ d.passthrough = c.passthrough BY <2>3, <2>4 DEF Passed
  <2> HIDE DEF s, d
  <2>9. d.parent.err = c.parent.err BY <1>3, <2>6 DEF ResponsesOf
  <2> QED BY <1>4, <2>1, <2>7, <2>8, <2>9 DEF Mirrors, s, d
<1>9. ASSUME NEW e \in CapturesOf(B, V), op.op \in Sends, d = RS!Hand(e, op), e.passthrough,
             e.parent.err = 0, e.parent.body = r.body, r.status \in 100 .. 999 => e.parent.status = r.status
      PROVE  Mirrors(s, d)
  <2>1. e.parent \in ResponsesOf(B, V) BY DEF CapturesOf
  <2>2. Effect(e.parent, op, B, V) BY <2>1, StepOfResponse
  <2>3. Passed(e, op, B, V) BY Handed
  <2>4. d.parent = RS!Do(e.parent, op) /\ d.passthrough BY <1>9, <2>3 DEF Passed
  <2> HIDE DEF d
  <2>5. CASE op.op = "write"
    <3>1. s = [r EXCEPT !.committed = TRUE, !.body = @ \o op.value] BY <1>1, <2>5 DEF Effect
    <3>2. d.parent = [e.parent EXCEPT !.committed = TRUE, !.body = @ \o op.value] BY <2>2, <2>4, <2>5 DEF Effect
    <3> HIDE DEF s
    <3>3. s.committed = TRUE /\ s.body = r.body \o op.value /\ s.status = r.status BY <3>1 DEF ResponsesOf
    <3>4. d.parent.err = 0 /\ d.parent.body = r.body \o op.value /\ d.parent.status = e.parent.status
      BY <1>9, <2>1, <3>2 DEF ResponsesOf
    <3> QED BY <1>9, <2>4, <3>3, <3>4 DEF Mirrors
  <2>6. CASE op.op = "flush"
    <3>1. s = [r EXCEPT !.committed = TRUE] BY <1>1, <2>6 DEF Effect
    <3>2. d.parent = [e.parent EXCEPT !.committed = TRUE] BY <2>2, <2>4, <2>6 DEF Effect
    <3> HIDE DEF s
    <3>3. s.committed = TRUE /\ s.body = r.body /\ s.status = r.status BY <3>1 DEF ResponsesOf
    <3>4. d.parent.err = 0 /\ d.parent.body = r.body /\ d.parent.status = e.parent.status
      BY <1>9, <2>1, <3>2 DEF ResponsesOf
    <3> QED BY <1>9, <2>4, <3>3, <3>4 DEF Mirrors
  <2> QED BY <1>9, <2>5, <2>6 DEF Sends
<1>10. CASE op.op \in Sends
  <2>1. CASE c.passthrough
    <3>1. d = RS!Hand(c, op) BY <1>2, <1>10, <2>1 DEF CaptureEffect, Sends
    <3> HIDE DEF s, d
    <3> QED BY <1>3, <1>4, <1>9, <1>10, <2>1, <3>1 DEF s, d
  <2>2. CASE ~c.passthrough /\ Room(max, c, op)
    <3>1. d = [c EXCEPT !.body = @ \o op.value] BY <1>2, <2>2 DEF CaptureEffect
    <3>2. s = [r EXCEPT !.committed = TRUE, !.body = @ \o op.value] BY <1>1, <2>2 DEF Effect, Room
    <3> HIDE DEF s, d
    <3>3. s.body = r.body \o op.value /\ s.status = r.status BY <3>2 DEF ResponsesOf
    <3>4. d.body = c.body \o op.value /\ d.status = c.status /\ d.passthrough = c.passthrough /\ d.parent = c.parent
      BY <1>3, <3>1 DEF CapturesOf
    <3> QED BY <1>4, <2>2, <3>3, <3>4 DEF Mirrors, s, d
  <2>3. CASE ~c.passthrough /\ ~Room(max, c, op)
    <3> DEFINE e == RS!switchToPassthrough(c)
    <3>1. d = RS!Hand(e, op) BY <1>2, <1>10, <2>3 DEF CaptureEffect, Sends
    <3>2. /\ e \in CapturesOf(B, V) /\ e.passthrough /\ e.parent.status = c.status
          /\ e.parent.body = c.body /\ e.parent.err = c.parent.err
      BY <1>3, <2>3, SwitchedOver
    <3> HIDE DEF s, d, e
    <3> QED BY <1>4, <1>9, <1>10, <2>3, <3>1, <3>2 DEF s, d
  <2> QED BY <1>3, <2>1, <2>2, <2>3
<1>11. CASE op.op = "reset"
  <2>1. ~r.committed /\ ~c.passthrough BY <1>4, <1>11 DEF Sends
  <2>2. s = RS!Fresh /\ d = RS!newCaptureResponse BY <1>1, <1>2, <1>11, <2>1 DEF Effect, CaptureEffect
  <2>3. Mirrors(RS!Fresh, RS!newCaptureResponse) BY DEF Mirrors, RS!Fresh, RS!newCaptureResponse
  <2> QED BY <2>2, <2>3
<1>12. CASE op.op = "fail"
  <2>1. d = RS!Hand(c, op) BY <1>2, <1>12 DEF CaptureEffect
  <2>2. Passed(c, op, B, V) BY <1>3, Handed
  <2>3. Effect(c.parent, op, B, V) BY <1>3, StepOfResponse
  <2>4. s = [r EXCEPT !.err = op.value] BY <1>1, <1>12 DEF Effect
  <2>5. d.parent = [c.parent EXCEPT !.err = op.value] BY <1>12, <2>1, <2>2, <2>3 DEF Passed, Effect
  <2>6. d.status = c.status /\ d.body = c.body /\ d.passthrough = c.passthrough BY <2>1, <2>2 DEF Passed
  <2> HIDE DEF s, d
  <2>7. s.status = r.status /\ s.body = r.body /\ s.committed = r.committed /\ s.err = op.value
    BY <2>4 DEF ResponsesOf
  <2>8. d.parent.err = op.value /\ d.parent.body = c.parent.body /\ d.parent.status = c.parent.status
    BY <1>3, <2>5 DEF ResponsesOf
  <2> QED BY <1>4, <2>6, <2>7, <2>8 DEF Mirrors, s, d
<1> QED BY <1>6, <1>7, <1>8, <1>10, <1>11, <1>12 DEF StepKinds, Sends

\* Headers and status before the body, as the steps of a list go.
Ordered(ops) == \A i, j \in 1 .. Len(ops) : i < j /\ ops[i].op \in Sends => ops[j].op \in Sends \cup {"fail"}

\* What a list of steps makes of a response, it makes of a capture.
LEMMA CaptureMirrors ==
  ASSUME NEW B, NEW V, NEW ops, IsSteps(ops, B, V), NEW max, Ordered(ops)
  PROVE  Mirrors(RS!Bare(ops), AfterCapture(max, ops))
<1> DEFINE n == Len(ops)
           Began(i) == \E j \in 1 .. i : ops[j].op \in Sends
<1>0. Common \subseteq V BY StepsAreSteps
<1>1. n \in Nat /\ \A i \in 1 .. n : IsStep(ops[i], B, V) BY StepsAreSteps
<1>2. PICK bare \in [0 .. n -> ResponsesOf(B, V)] : BareRun(bare, ops) /\ RS!Bare(ops) = bare[n]
  BY BareRuns DEF RunsBare
<1>3. PICK caught \in [0 .. n -> HeldCaptures(B, V)] : CaptureRun(caught, max, ops) /\ AfterCapture(max, ops) = caught[n]
  BY CaptureRuns DEF RunsCaptured
<1> DEFINE Good == {i \in 0 .. n : /\ Mirrors(bare[i], caught[i])
                                   /\ bare[i].err = 0 /\ bare[i].committed => Began(i)}
<1>4. 0 \in Good
  <2>1. bare[0] = RS!Fresh /\ caught[0] = RS!newCaptureResponse BY <1>2, <1>3 DEF BareRun, CaptureRun
  <2>2. Mirrors(RS!Fresh, RS!newCaptureResponse) /\ ~RS!Fresh.committed
    BY DEF Mirrors, RS!Fresh, RS!newCaptureResponse
  <2>3. 0 \in 0 .. n BY <1>1
  <2> HIDE DEF n, Began
  <2> QED BY <2>1, <2>2, <2>3
<1>5. ASSUME NEW i \in 1 .. n, i - 1 \in Good PROVE i \in Good
  <2> DEFINE r == bare[i - 1]
             c == caught[i - 1]
             op == ops[i]
  <2>1. i - 1 \in 0 .. n /\ i \in 0 .. n BY <1>1
  <2>2. r \in ResponsesOf(B, V) /\ bare[i] = Doing(r, op) BY <1>2, <2>1 DEF BareRun
  <2>3. c \in HeldCaptures(B, V) /\ caught[i] = Captured(max, c, op) BY <1>3, <2>1 DEF CaptureRun
  <2>4. Mirrors(r, c) /\ (r.err = 0 /\ r.committed => Began(i - 1)) BY <1>5
  <2>5. IsStep(op, B, V) BY <1>1
  <2>6. Began(i - 1) => op.op \in Sends \cup {"fail"} /\ Began(i)
    <3> SUFFICES ASSUME NEW j \in 1 .. i - 1, ops[j].op \in Sends
                 PROVE  op.op \in Sends \cup {"fail"} /\ Began(i)
      OBVIOUS
    <3>1. j \in 1 .. n /\ j < i /\ j \in 1 .. i BY <1>1
    <3> QED BY <3>1 DEF Ordered
  <2>7. op.op \in Sends => Began(i)
    <3>1. i \in 1 .. i BY <1>1
    <3> QED BY <3>1
  <2> HIDE DEF r, c, op, n, Began
  <2>8. CASE r.err # 0
    <3>1. bare[i].err # 0 BY <2>2, <2>8 DEF Doing
    <3> QED BY <2>1, <3>1 DEF Mirrors
  <2>9. CASE r.err = 0
    <3>1. bare[i] = RS!Do(r, op) BY <2>2, <2>9 DEF Doing
    <3>2. caught[i] = RS!Capture(max, c, op) BY <2>3, <2>4, <2>9 DEF Captured, Mirrors
    <3>3. Mirrors(bare[i], caught[i])
      <4>1. r.committed => op.op \in Sends \cup {"fail"} BY <2>4, <2>6, <2>9
      <4>2. Mirrors(RS!Do(r, op), RS!Capture(max, c, op)) BY <1>0, <2>2, <2>3, <2>4, <2>5, <2>9, <4>1, MirrorsAfter
      <4> QED BY <3>1, <3>2, <4>2
    <3>4. bare[i].err = 0 /\ bare[i].committed => Began(i)
      <4>1. Effect(r, op, B, V) BY <1>0, <2>2, <2>5, StepOfResponse
      <4>2. CASE r.committed BY <2>4, <2>6, <2>9, <4>2
      <4>3. CASE op.op \in Sends BY <2>7, <4>3
      <4>4. CASE ~r.committed /\ op.op \notin Sends
        <5>1. CASE op.op = "status"
          <6>1. bare[i] = [r EXCEPT !.status = op.value] BY <3>1, <4>1, <4>4, <5>1 DEF Effect
          <6> QED BY <2>2, <4>4, <6>1 DEF ResponsesOf
        <5>2. CASE op.op = "set"
          <6>1. bare[i] = [r EXCEPT !.headers[op.name] = op.value] BY <3>1, <4>1, <4>4, <5>2 DEF Effect
          <6> QED BY <2>2, <4>4, <6>1 DEF ResponsesOf
        <5>3. CASE op.op = "reset"
          <6>1. bare[i] = RS!Fresh BY <3>1, <4>1, <4>4, <5>3 DEF Effect
          <6> QED BY <6>1 DEF RS!Fresh
        <5>4. CASE op.op = "fail"
          <6>1. bare[i] = [r EXCEPT !.err = op.value] BY <3>1, <4>1, <5>4 DEF Effect
          <6> QED BY <2>2, <4>4, <6>1 DEF ResponsesOf
        <5> QED BY <2>5, <4>4, <5>1, <5>2, <5>3, <5>4 DEF IsStep, StepKinds, Sends
      <4>5. r.committed \in BOOLEAN BY <2>2 DEF ResponsesOf
      <4> QED BY <4>2, <4>3, <4>4, <4>5
    <3> QED BY <2>1, <3>3, <3>4
  <2> QED BY <2>8, <2>9
<1>6. n \in Good
  <2>1. n \in 0 .. n BY <1>1
  <2> HIDE DEF Good, n
  <2> QED BY <1>1, <1>4, <1>5, <2>1, Turns
<1> QED BY <1>2, <1>3, <1>6

\* What a capture still holds is sent with its status, unless that allows no body.
LEMMA HeldIsSent ==
  ASSUME NEW B, NEW V, NEW c, c.parent \in ResponsesOf(B, V), c.body \in Seq(B),
         ~c.parent.committed, c.parent.body = <<>>
  PROVE  /\ RS!writeCaptured(c, "GET").status = c.status
         /\ RS!writeCaptured(c, "GET").headers = c.parent.headers
         /\ RS!captureAllowsBody(c.status) => RS!writeCaptured(c, "GET").body = c.body
<1> DEFINE told == RS!Status(c.status)
           full == RS!Body(c.body)
           begun == RS!Do(c.parent, told)
           w == RS!writeCaptured(c, "GET")
<1>1. told.op = "status" /\ told.value = c.status /\ full.op = "write" /\ full.value = c.body
  BY DEF RS!Status, RS!Body, RS!Op
<1>2. begun = [c.parent EXCEPT !.status = c.status]
  <2> HIDE DEF told
  <2> QED BY <1>1 DEF RS!Do
<1>3. begun.status = c.status /\ begun.headers = c.parent.headers /\ begun.body = <<>> /\ begun = [begun EXCEPT !.err = @]
  <2> HIDE DEF begun
  <2> QED BY <1>2 DEF ResponsesOf
<1>4. w = IF ~RS!captureAllowsBody(c.status) THEN begun ELSE RS!Do(begun, full) BY DEF RS!writeCaptured
<1>5. RS!Do(begun, full) = [begun EXCEPT !.committed = TRUE, !.body = @ \o c.body]
  <2> HIDE DEF full, begun
  <2> QED BY <1>1 DEF RS!Do
<1>6. /\ RS!Do(begun, full).status = c.status /\ RS!Do(begun, full).headers = c.parent.headers
      /\ RS!Do(begun, full).body = c.body
  <2>1. DOMAIN begun = {"committed", "status", "body", "headers", "err"}
    <3> HIDE DEF begun
    <3> QED BY <1>2 DEF ResponsesOf
  <2>2. <<>> \o c.body = c.body OBVIOUS
  <2> HIDE DEF begun
  <2> QED BY <1>3, <1>5, <2>1, <2>2
<1> HIDE DEF begun, w
<1> QED BY <1>3, <1>4, <1>6 DEF w

\* What the filter makes of a body that it holds: it is sent, with the filter's
\* tag or with what its headers were, or the client has it.
LEMMA Finished ==
  ASSUME NEW B, NEW V, NEW c \in HeldCaptures(B, V), NEW q, q.method = "GET", ~c.passthrough
  PROVE  \E tag \in {<<"sha", c.body>>, <<"fnv", c.body>>} :
           LET s == RS!finish(c, q)
           IN  \/ /\ s.status = c.status /\ s.headers = c.parent.headers
                  /\ RS!captureAllowsBody(c.status) => s.body = c.body
               \/ /\ s.status = c.status /\ s.body = c.body
                  /\ s.headers.etag = tag /\ s.headers.modified = c.parent.headers.modified
               \/ s.status = 304 /\ RS!ifNoneMatch(q.noneMatch, tag) /\ RS!etagStatusAllowed(c.status)
<1> DEFINE tag == RS!makeETag(c.body, q.filter.weak)
           p == c.parent
           tagged == [c EXCEPT !.parent.headers.etag = tag]
           sized == [tagged EXCEPT !.parent.headers.length = Len(c.body)]
           W == V \cup {tag, Len(c.body)}
           aside == ~RS!etagStatusAllowed(c.status) \/ p.headers.noStore \/ p.headers.etag # RS!NoTag
           s == RS!finish(c, q)
<1>1. tag \in {<<"sha", c.body>>, <<"fnv", c.body>>} BY DEF RS!makeETag
<1>2. c \in CapturesOf(B, V) /\ p \in ResponsesOf(B, V) /\ c.body \in Seq(B) /\ ~p.committed /\ p.body = <<>>
  BY DEF HeldCaptures, CapturesOf
<1>3. p.headers \in [HeaderNames -> V] BY <1>2 DEF ResponsesOf
<1>4. CASE aside
  <2>1. s = RS!writeCaptured(c, "GET") BY <1>2, <1>4 DEF RS!finish
  <2> HIDE DEF s, aside, p
  <2> QED BY <1>1, <1>2, <2>1, HeldIsSent DEF s, p
<1>5. CASE ~aside
  <2>1. s = IF RS!ifNoneMatch(q.noneMatch, tag) THEN [tagged.parent EXCEPT !.headers.length = RS!Unset, !.status = 304]
            ELSE RS!writeCaptured(sized, "GET")
    BY <1>2, <1>5 DEF RS!finish
  <2> DEFINE t == [p EXCEPT !.headers = [p.headers EXCEPT !["etag"] = tag]]
             u == [t EXCEPT !.headers = [t.headers EXCEPT !["length"] = Len(c.body)]]
  <2> HIDE DEF tag, s
  <2>2. tagged.parent = t /\ tagged.body = c.body /\ tagged.status = c.status
    <3> HIDE DEF p
    <3> QED BY <1>2 DEF CapturesOf, p
  <2>3. tagged = [c EXCEPT !.parent = t] BY DEF p
  <2>4. sized.parent = u /\ sized.body = c.body /\ sized.status = c.status
    <3>1. tagged = [tagged EXCEPT !.parent = @] /\ "parent" \in DOMAIN tagged BY <1>2, <2>3 DEF CapturesOf
    <3>2. sized = [tagged EXCEPT !.parent = [tagged.parent EXCEPT !.headers = [tagged.parent.headers EXCEPT !["length"] = Len(c.body)]]]
      OBVIOUS
    <3> HIDE DEF tagged, sized, t
    <3> QED BY <2>2, <3>1, <3>2
  <2>5. p \in ResponsesOf(B, W) /\ [p.headers EXCEPT !["etag"] = tag] \in [HeaderNames -> W]
    <3>1. p.headers \in [HeaderNames -> W] BY <1>3
    <3>2. "etag" \in HeaderNames BY DEF HeaderNames
    <3> HIDE DEF p
    <3> QED BY <1>2, <3>1, <3>2 DEF ResponsesOf
  <2>6. /\ t \in ResponsesOf(B, W) /\ t.headers = [p.headers EXCEPT !["etag"] = tag]
        /\ t.committed = p.committed /\ t.body = p.body
    <3> HIDE DEF p
    <3> QED BY <1>2, <2>5 DEF ResponsesOf
  <2>7. [t.headers EXCEPT !["length"] = Len(c.body)] \in [HeaderNames -> W]
    <3>1. "length" \in HeaderNames BY DEF HeaderNames
    <3> HIDE DEF t
    <3> QED BY <2>5, <2>6, <3>1
  <2>8. /\ u \in ResponsesOf(B, W) /\ u.headers = [t.headers EXCEPT !["length"] = Len(c.body)]
        /\ u.committed = p.committed /\ u.body = p.body
    <3> HIDE DEF p, t
    <3> QED BY <2>6, <2>7 DEF ResponsesOf
  <2>9. u.headers.etag = tag /\ u.headers.modified = p.headers.modified
    <3> HIDE DEF p, t, u
    <3> QED BY <1>3, <2>6, <2>8 DEF HeaderNames
  <2>10. CASE RS!ifNoneMatch(q.noneMatch, tag)
    <3>1. s = [t EXCEPT !.headers.length = RS!Unset, !.status = 304] BY <2>1, <2>2, <2>10
    <3>2. s.status = 304
      <4> HIDE DEF t
      <4> QED BY <2>6, <3>1 DEF ResponsesOf
    <3> HIDE DEF t, p
    <3> QED BY <1>1, <1>5, <2>10, <3>2 DEF s
  <2>11. CASE ~RS!ifNoneMatch(q.noneMatch, tag)
    <3>1. s = RS!writeCaptured(sized, "GET") BY <2>1, <2>11
    <3>2. RS!captureAllowsBody(sized.status) BY <1>5, <2>4 DEF RS!etagStatusAllowed
    <3> HIDE DEF t, p, u, sized, W
    <3>3. s.status = sized.status /\ s.headers = sized.parent.headers /\ s.body = sized.body
      BY <1>2, <2>4, <2>8, <3>1, <3>2, HeldIsSent DEF p
    <3> QED BY <1>1, <2>4, <2>9, <3>3 DEF s, p
  <2> QED BY <2>10, <2>11
<1> QED BY <1>4, <1>5

HashTags(body) == {<<"sha", body>>, <<"fnv", body>>}

\* The filter, by what its capture holds at the end.
LEMMA FilterByCapture ==
  ASSUME NEW ops, NEW q
  PROVE  LET c == AfterCapture(q.filter.max, ops)
         IN  RS!ShallowETag(ops, q) = IF c.parent.err # 0 THEN c.parent ELSE RS!finish(c, q)
BY DEF RS!ShallowETag, AfterCapture

PassedOn(r, s, q) ==
  \/ s.status = 200 /\ s.body = r.body
  \/ s.status = 304 /\ \E tag \in HashTags(r.body) : RS!ifNoneMatch(q.noneMatch, tag)

\* Of an answer 200 to a GET the filter passes on status and body, or the client has it.
LEMMA FilterPasses ==
  ASSUME NEW B, NEW V, NEW ops, IsSteps(ops, B, V), Ordered(ops), NEW q, q.method = "GET",
         RS!Bare(ops).err = 0, RS!Bare(ops).status = 200
  PROVE  PassedOn(RS!Bare(ops), RS!ShallowETag(ops, q), q)
<1> DEFINE c == AfterCapture(q.filter.max, ops)
           r == RS!Bare(ops)
           s == RS!ShallowETag(ops, q)
<1>1. Mirrors(r, c) /\ c \in HeldCaptures(B, V) BY CaptureMirrors, RunsEnd
<1>2. s = IF c.parent.err # 0 THEN c.parent ELSE RS!finish(c, q) BY FilterByCapture
<1>3. c.passthrough \in BOOLEAN BY <1>1 DEF HeldCaptures, CapturesOf
<1>4. 200 \in 100 .. 999 /\ RS!captureAllowsBody(200) BY DEF RS!captureAllowsBody
<1> HIDE DEF c, r, s
<1>5. r.err = 0 /\ r.status = 200 BY DEF r
<1>6. CASE c.passthrough
  <2>1. c.parent.err = 0 /\ c.parent.status = 200 /\ c.parent.body = r.body BY <1>1, <1>4, <1>5, <1>6 DEF Mirrors
  <2>2. RS!finish(c, q) = c.parent BY <1>6 DEF RS!finish
  <2> QED BY <1>2, <2>1, <2>2 DEF r, s, PassedOn
<1>7. CASE ~c.passthrough
  <2>1. c.parent.err = 0 /\ c.status = 200 /\ c.body = r.body BY <1>1, <1>4, <1>5, <1>7 DEF Mirrors
  <2>2. s = RS!finish(c, q) BY <1>2, <2>1
  <2>3. PICK tag \in {<<"sha", c.body>>, <<"fnv", c.body>>} :
           LET t == RS!finish(c, q)
           IN  \/ /\ t.status = c.status /\ t.headers = c.parent.headers
                  /\ RS!captureAllowsBody(c.status) => t.body = c.body
               \/ /\ t.status = c.status /\ t.body = c.body
                  /\ t.headers.etag = tag /\ t.headers.modified = c.parent.headers.modified
               \/ t.status = 304 /\ RS!ifNoneMatch(q.noneMatch, tag) /\ RS!etagStatusAllowed(c.status)
    BY <1>1, <1>7, Finished
  <2>4. \/ s.status = 200 /\ s.body = r.body
        \/ s.status = 304 /\ RS!ifNoneMatch(q.noneMatch, tag)
    BY <1>4, <2>1, <2>2, <2>3
  <2>5. tag \in HashTags(r.body) BY <2>1 DEF HashTags
  <2> QED BY <2>4, <2>5 DEF r, s, PassedOn
<1> QED BY <1>3, <1>6, <1>7

BearsOwn(s, tag, changed) ==
  s.headers.modified \in {RS!Unset, changed} /\ s.headers.etag \in {RS!NoTag, tag} \cup HashTags(s.body)

\* A first answer 200 bears the handler's validators, or the tag of its own body.
LEMMA FirstBears ==
  ASSUME NEW B, NEW V, NEW ops, IsSteps(ops, B, V), NEW tag, NEW changed, Giving(ops, tag, changed),
         NEW q, q.method = "GET", q.noneMatch = {},
         NEW s \in {RS!Bare(ops), RS!ShallowETag(ops, q)}, s.status = 200
  PROVE  BearsOwn(s, tag, changed)
<1> DEFINE c == AfterCapture(q.filter.max, ops)
<1>1. Bears(RS!Bare(ops).headers, tag, changed) /\ Bears(c.parent.headers, tag, changed) BY BearsWhatIsGiven
<1>2. CASE s = RS!Bare(ops) BY <1>1, <1>2 DEF Bears, BearsOwn
<1>3. CASE s = RS!ShallowETag(ops, q)
  <2>1. s = IF c.parent.err # 0 THEN c.parent ELSE RS!finish(c, q) BY <1>3, FilterByCapture
  <2>2. c \in HeldCaptures(B, V) BY RunsEnd
  <2> HIDE DEF c
  <2>3. c.passthrough \in BOOLEAN BY <2>2 DEF HeldCaptures, CapturesOf
  <2>4. CASE s = c.parent BY <1>1, <2>4 DEF Bears, BearsOwn
  <2>5. CASE c.passthrough
    <3>1. RS!finish(c, q) = c.parent BY <2>5 DEF RS!finish
    <3> QED BY <2>1, <2>4, <3>1
  <2>6. CASE ~c.passthrough /\ s = RS!finish(c, q)
    <3>1. PICK hash \in {<<"sha", c.body>>, <<"fnv", c.body>>} :
             LET t == RS!finish(c, q)
             IN  \/ /\ t.status = c.status /\ t.headers = c.parent.headers
                    /\ RS!captureAllowsBody(c.status) => t.body = c.body
                 \/ /\ t.status = c.status /\ t.body = c.body
                    /\ t.headers.etag = hash /\ t.headers.modified = c.parent.headers.modified
                 \/ t.status = 304 /\ RS!ifNoneMatch(q.noneMatch, hash) /\ RS!etagStatusAllowed(c.status)
      BY <2>2, <2>6, Finished
    <3>2. CASE s.headers = c.parent.headers BY <1>1, <3>2 DEF Bears, BearsOwn
    <3>3. CASE s.body = c.body /\ s.headers.etag = hash /\ s.headers.modified = c.parent.headers.modified
      <4>1. hash \in HashTags(s.body) BY <3>1, <3>3 DEF HashTags
      <4> QED BY <1>1, <3>3, <4>1 DEF Bears, BearsOwn
    <3>4. s.status # 304 OBVIOUS
    <3> QED BY <2>6, <3>1, <3>2, <3>3, <3>4
  <2> QED BY <2>1, <2>3, <2>4, <2>5, <2>6
<1> QED BY <1>2, <1>3

\* What only sets headers and the status 304 is answered with that.
LEMMA NotModifiedIsTold ==
  ASSUME NEW B, NEW V, NEW v, IsSteps(v, B, V), OnlySets(v),
         NEW last, IsStep(last, B, V), last.op = "status", last.value = 304, NEW q, q.method = "GET"
  PROVE  RS!Bare(v \o <<last>>).status = 304 /\ RS!ShallowETag(v \o <<last>>, q).status = 304
<1> DEFINE one == <<last>>
           ops == v \o one
           c == AfterCapture(q.filter.max, ops)
           r == RS!Bare(ops)
           s == RS!ShallowETag(ops, q)
<1>0. Common \subseteq V BY StepsAreSteps
<1>1. Len(one) = 1 /\ one[1] = last OBVIOUS
<1>2. IsSteps(one, B, V)
  <2>1. one \in Seq({last}) /\ \A op \in {last} : IsStep(op, B, V) OBVIOUS
  <2> HIDE DEF one
  <2> QED BY <1>0, <2>1 DEF IsSteps
<1> HIDE DEF one
<1>3. IsSteps(ops, B, V) BY <1>2, StepsJoin
<1>4. RS!Bare(one).status = 304 /\ RS!Bare(one).err = 0 /\ ~RS!Bare(one).committed
  <2>1. PICK run \in [0 .. Len(one) -> ResponsesOf(B, V)] : BareRun(run, one) /\ RS!Bare(one) = run[Len(one)]
    BY <1>2, BareRuns DEF RunsBare
  <2>2. run[0] = RS!Fresh /\ RS!Bare(one) = run[1] /\ run[1] = Doing(run[0], last)
    <3>1. 1 \in 1 .. Len(one) /\ 1 - 1 = 0 BY <1>1
    <3> QED BY <1>1, <2>1, <3>1 DEF BareRun
  <2>3. RS!Fresh \in ResponsesOf(B, V) /\ RS!Fresh.err = 0 /\ ~RS!Fresh.committed
    <3>1. RS!Fresh \in ResponsesOf(B, V) BY <1>0, FreshResponse
    <3> QED BY <3>1 DEF RS!Fresh
  <2>4. Effect(RS!Fresh, last, B, V) BY <1>0, <2>3, StepOfResponse
  <2>5. RS!Bare(one) = [RS!Fresh EXCEPT !.status = 304] BY <2>2, <2>3, <2>4 DEF Effect, Doing
  <2> QED BY <2>3, <2>5 DEF ResponsesOf
<1>5. Alike(r, RS!Bare(one)) BY <1>2, HeadersAside
<1>6. Ordered(ops)
  <2> HIDE DEF c, r, s
  <2>1. Len(ops) = Len(v) + 1 /\ Len(v) \in Nat
    <3>1. Len(ops) = Len(v) + Len(one) BY <1>2, StepsJoin
    <3>2. Len(v) \in Nat BY StepsAreSteps
    <3> HIDE DEF ops
    <3> QED BY <1>1, <3>1, <3>2
  <2>2. \A i \in 1 .. Len(v) : ops[i].op = "set" BY <1>2, StepsJoin DEF OnlySets
  <2> HIDE DEF ops
  <2>3. \A i, j \in 1 .. Len(ops) : i < j => i \in 1 .. Len(v) BY <2>1
  <2> QED BY <2>2, <2>3 DEF Ordered, Sends
<1> HIDE DEF ops
<1>7. Mirrors(r, c) /\ c \in HeldCaptures(B, V) BY <1>3, <1>6, CaptureMirrors, RunsEnd
<1>8. s = IF c.parent.err # 0 THEN c.parent ELSE RS!finish(c, q) BY FilterByCapture
<1>9. c.passthrough \in BOOLEAN BY <1>7 DEF HeldCaptures, CapturesOf
<1> HIDE DEF c, r, s
<1>10. r.status = 304 /\ r.err = 0 /\ ~r.committed BY <1>4, <1>5 DEF Alike
<1>11. c.parent.err = 0 /\ ~c.passthrough /\ c.status = 304
  <2>1. 304 \in 100 .. 999 OBVIOUS
  <2> QED BY <1>7, <1>9, <1>10, <2>1 DEF Mirrors
<1>12. s = RS!finish(c, q) BY <1>8, <1>11
<1>13. RS!finish(c, q).status \in {c.status, 304}
  <2>1. PICK tag \in {<<"sha", c.body>>, <<"fnv", c.body>>} :
           LET t == RS!finish(c, q)
           IN  \/ /\ t.status = c.status /\ t.headers = c.parent.headers
                  /\ RS!captureAllowsBody(c.status) => t.body = c.body
               \/ /\ t.status = c.status /\ t.body = c.body
                  /\ t.headers.etag = tag /\ t.headers.modified = c.parent.headers.modified
               \/ t.status = 304 /\ RS!ifNoneMatch(q.noneMatch, tag) /\ RS!etagStatusAllowed(c.status)
    BY <1>7, <1>11, Finished
  <2> QED BY <2>1
<1> QED BY <1>10, <1>11, <1>12, <1>13 DEF r, s, ops, one

\* The steps of a result: no validators are set, the body comes in parts.
PlainStep(op) ==
  /\ op.op \in StepKinds
  /\ op.op = "set" => op.name \in {"noStore", "length", "location"}
  /\ op.op = "write" => \E A : op.value \in Seq(A)
ArePlain(ops) == \E S : ops \in Seq(S) /\ \A op \in S : PlainStep(op)
Silent(ops) == \A i \in 1 .. Len(ops) : ops[i].op \notin Sends
Loud(ops) == \A i \in 1 .. Len(ops) : ops[i].op \in Sends \cup {"fail"}

\* Of steps of one kind after steps of another.
LEMMA PlainJoin ==
  ASSUME NEW u, ArePlain(u), NEW v, ArePlain(v)
  PROVE  /\ ArePlain(u \o v) /\ Len(u \o v) = Len(u) + Len(v) /\ Len(u) \in Nat /\ Len(v) \in Nat
         /\ \A i \in 1 .. Len(u) : (u \o v)[i] = u[i]
         /\ \A i \in 1 .. Len(v) : (u \o v)[Len(u) + i] = v[i]
<1>1. PICK S : u \in Seq(S) /\ \A op \in S : PlainStep(op) BY DEF ArePlain
<1>2. PICK T : v \in Seq(T) /\ \A op \in T : PlainStep(op) BY DEF ArePlain
<1> DEFINE A == S \cup T
<1>3. /\ \A op \in A : PlainStep(op)
      /\ \A s \in Seq(S) : s \in Seq(A)
      /\ \A s \in Seq(T) : s \in Seq(A)
  BY <1>1, <1>2
<1> HIDE DEF A
<1>4. u \in Seq(A) /\ v \in Seq(A) BY <1>1, <1>2, <1>3
<1>5. u \o v \in Seq(A) BY <1>4
<1>6. ArePlain(u \o v) BY <1>3, <1>5 DEF ArePlain
<1>7. /\ Len(u \o v) = Len(u) + Len(v) /\ Len(u) \in Nat /\ Len(v) \in Nat
      /\ \A i \in 1 .. Len(u) : (u \o v)[i] = u[i]
      /\ \A i \in 1 .. Len(v) : (u \o v)[Len(u) + i] = v[i]
  BY <1>4
<1> QED BY <1>6, <1>7

\* Of one step.
LEMMA PlainOne ==
  ASSUME NEW op, PlainStep(op)
  PROVE  /\ ArePlain(<<op>>)
         /\ op.op \notin Sends => Silent(<<op>>)
         /\ op.op \in Sends \cup {"fail"} => Loud(<<op>>)
<1> DEFINE one == <<op>>
<1>1. one \in Seq({op}) /\ \A o \in {op} : PlainStep(o) OBVIOUS
<1>2. \A i \in 1 .. Len(one) : one[i] = op OBVIOUS
<1> HIDE DEF one
<1>3. ArePlain(one) BY <1>1 DEF ArePlain
<1>4. /\ op.op \notin Sends => Silent(one)
      /\ op.op \in Sends \cup {"fail"} => Loud(one)
  BY <1>2 DEF Silent, Loud
<1> QED BY <1>3, <1>4 DEF one

\* Two lists that send nothing make one; what sends comes last.
LEMMA SilentJoin ==
  ASSUME NEW u, ArePlain(u), NEW v, ArePlain(v)
  PROVE  /\ Silent(u) /\ Silent(v) => Silent(u \o v)
         /\ Ordered(u) /\ Loud(v) => Ordered(u \o v)
<1> DEFINE w == u \o v
           n == Len(u)
           m == Len(v)
<1>1. /\ Len(w) = n + m /\ n \in Nat /\ m \in Nat
      /\ \A i \in 1 .. n : w[i] = u[i]
      /\ \A i \in 1 .. m : w[n + i] = v[i]
  BY PlainJoin
<1> HIDE DEF w
<1>2. ASSUME NEW i \in 1 .. Len(w) PROVE i \in 1 .. n \/ (i - n \in 1 .. m /\ w[i] = v[i - n])
  <2> HIDE DEF n, m
  <2>1. CASE i <= n BY <1>1, <2>1
  <2>2. CASE i > n
    <3>1. i - n \in 1 .. m /\ n + (i - n) = i BY <1>1, <2>2
    <3> QED BY <1>1, <3>1
  <2> QED BY <1>1, <2>1, <2>2
<1>3. ASSUME Silent(u), Silent(v) PROVE Silent(w)
  <2>1. ASSUME NEW i \in 1 .. n PROVE w[i].op \notin Sends BY <1>1, <1>3 DEF Silent
  <2> HIDE DEF n
  <2>2. ASSUME NEW i \in 1 .. Len(w), i - n \in 1 .. m, w[i] = v[i - n] PROVE w[i].op \notin Sends
    BY <1>3, <2>2 DEF Silent
  <2> HIDE DEF m
  <2> QED BY <1>2, <2>1, <2>2 DEF Silent
<1>4. ASSUME Ordered(u), Loud(v) PROVE Ordered(w)
  <2> SUFFICES ASSUME NEW i \in 1 .. Len(w), NEW j \in 1 .. Len(w), i < j, w[i].op \in Sends
               PROVE  w[j].op \in Sends \cup {"fail"}
    BY DEF Ordered
  <2>1. CASE j \in 1 .. n
    <3>1. i \in 1 .. n BY <1>1, <2>1
    <3>2. w[i] = u[i] /\ w[j] = u[j] BY <1>1, <2>1, <3>1
    <3> QED BY <1>4, <2>1, <3>1, <3>2 DEF Ordered
  <2>2. CASE j \notin 1 .. n
    <3> HIDE DEF n
    <3>1. j - n \in 1 .. m /\ w[j] = v[j - n] BY <1>2, <2>2
    <3> QED BY <1>4, <3>1 DEF Loud
  <2> QED BY <2>1, <2>2
<1> QED BY <1>3, <1>4 DEF w

\* The headers of an answer, in some order.
LEMMA EntityHeaders ==
  ASSUME NEW headers, IsHeaders(headers)
  PROVE  ArePlain(RS!applyEntityHeaders(headers)) /\ Silent(RS!applyEntityHeaders(headers))
<1> DEFINE names == DOMAIN headers
           S == {RS!Header(n, headers[n]) : n \in names}
           Many == RS!Cardinality(S)
<1>1. names \subseteq {"noStore", "length", "location"} BY DEF IsHeaders
<1>2. IsFiniteSet(S)
  <2> DEFINE H(n) == RS!Header(n, headers[n])
             T == (({} \cup {H("noStore")}) \cup {H("length")}) \cup {H("location")}
  <2>1. IsFiniteSet({} \cup {H("noStore")}) BY FS_EmptySet, FS_AddElement
  <2>2. IsFiniteSet(({} \cup {H("noStore")}) \cup {H("length")}) BY <2>1, FS_AddElement
  <2>3. IsFiniteSet(T) BY <2>2, FS_AddElement
  <2>4. S \subseteq T BY <1>1
  <2> HIDE DEF S, T
  <2> QED BY <2>3, <2>4, FS_Subset
<1>3. \A op \in S : PlainStep(op) /\ op.op = "set"
  <2> SUFFICES ASSUME NEW n \in names PROVE PlainStep(RS!Header(n, headers[n])) /\ RS!Header(n, headers[n]).op = "set"
    OBVIOUS
  <2> DEFINE op == RS!Header(n, headers[n])
  <2>1. op.op = "set" /\ op.name = n BY DEF RS!Header, RS!Op
  <2> HIDE DEF op
  <2>2. PlainStep(op) BY <1>1, <2>1 DEF PlainStep, StepKinds
  <2> QED BY <2>1, <2>2 DEF op
<1> HIDE DEF S
<1>4. Many = Cardinality(S) BY Zenon DEF RS!Cardinality, Cardinality
<1>5. Many \in Nat /\ \E f \in [1 .. Many -> S] : RS!IsInjective(f)
  <2>1. Many \in Nat /\ ExistsBijection(1 .. Many, S) BY <1>2, <1>4, FS_CardinalityType
  <2> HIDE DEF Many
  <2> QED BY <2>1 DEF ExistsBijection, Bijection, Injection, IsInjective, RS!IsInjective
<1>6. RS!applyEntityHeaders(headers) \in [1 .. Many -> S]
  <2>1. RS!applyEntityHeaders(headers) = CHOOSE f \in [1 .. Many -> S] : RS!IsInjective(f)
    BY DEF RS!applyEntityHeaders, RS!SetToSeq, S
  <2> HIDE DEF Many
  <2> QED BY <1>5, <2>1
<1> DEFINE ops == RS!applyEntityHeaders(headers)
<1> HIDE DEF ops, Many
<1>7. ops \in Seq(S) /\ Len(ops) = Many /\ \A i \in 1 .. Many : ops[i] \in S BY <1>5, <1>6 DEF ops
<1>8. ArePlain(ops) BY <1>3, <1>7 DEF ArePlain
<1>9. Silent(ops) BY <1>3, <1>7 DEF Silent, Sends
<1> QED BY <1>8, <1>9 DEF ops

\* The kinds of steps.
LEMMA StepsByKind ==
  /\ \A x : PlainStep(RS!Status(x)) /\ RS!Status(x).op = "status" /\ RS!Status(x).value = x
  /\ \A x : PlainStep(RS!Fail(x)) /\ RS!Fail(x).op = "fail"
  /\ \A A : \A x \in Seq(A) : PlainStep(RS!Body(x)) /\ RS!Body(x).op = "write"
  /\ \A n \in {"noStore", "length", "location"} : \A x : PlainStep(RS!Header(n, x))
  /\ \A n, x : RS!Header(n, x).op = "set" /\ RS!Header(n, x).name = n /\ RS!Header(n, x).value = x
<1>1. ASSUME NEW x PROVE PlainStep(RS!Status(x)) /\ RS!Status(x).op = "status" /\ RS!Status(x).value = x
  BY DEF PlainStep, StepKinds, RS!Status, RS!Op
<1>2. ASSUME NEW x PROVE PlainStep(RS!Fail(x)) /\ RS!Fail(x).op = "fail"
  BY DEF PlainStep, StepKinds, RS!Fail, RS!Op
<1>3. ASSUME NEW A, NEW x \in Seq(A) PROVE PlainStep(RS!Body(x)) /\ RS!Body(x).op = "write"
  BY DEF PlainStep, StepKinds, RS!Body, RS!Op
<1>4. ASSUME NEW n \in {"noStore", "length", "location"}, NEW x PROVE PlainStep(RS!Header(n, x))
  BY DEF PlainStep, StepKinds, RS!Header, RS!Op
<1>5. ASSUME NEW n, NEW x
      PROVE  RS!Header(n, x).op = "set" /\ RS!Header(n, x).name = n /\ RS!Header(n, x).value = x
  BY DEF RS!Header, RS!Op
<1> QED BY <1>1, <1>2, <1>3, <1>4, <1>5

\* No steps at all; a list that sends nothing is in order.
LEMMA NoSteps == ArePlain(<<>>) /\ Silent(<<>>) /\ Loud(<<>>)
<1> DEFINE S == {RS!Status(0)}
<1>1. <<>> \in Seq(S) /\ \A op \in S : PlainStep(op) BY StepsByKind
<1> HIDE DEF S
<1>2. Len(<<>>) = 0 OBVIOUS
<1> DEFINE none == <<>>
<1> HIDE DEF none
<1>4. ArePlain(none) BY <1>1 DEF ArePlain, none
<1>5. Silent(none) /\ Loud(none)
  <2>1. 1 .. Len(none) = {} BY <1>2 DEF none
  <2> QED BY <2>1 DEF Silent, Loud
<1> QED BY <1>4, <1>5 DEF none
\* Steps that neither set a status nor write a body come in order.
LEMMA SilentIsOrdered ==
  ASSUME NEW ops, Silent(ops)
  PROVE  Ordered(ops)
BY DEF Silent, Ordered

\* The headers and the status of an answer.
LEMMA Begun ==
  ASSUME NEW u, ArePlain(u), Silent(u), NEW code
  PROVE  ArePlain(u \o <<RS!Status(code)>>) /\ Silent(u \o <<RS!Status(code)>>) /\ Ordered(u \o <<RS!Status(code)>>)
<1> DEFINE one == <<RS!Status(code)>>
<1>1. ArePlain(one) /\ Silent(one)
  <2>1. PlainStep(RS!Status(code)) /\ RS!Status(code).op \notin Sends BY StepsByKind DEF Sends
  <2> QED BY <2>1, PlainOne
<1> HIDE DEF one
<1>2. ArePlain(u \o one) /\ Silent(u \o one) BY <1>1, PlainJoin, SilentJoin
<1>3. Ordered(u \o one) BY <1>2, SilentIsOrdered
<1> QED BY <1>2, <1>3 DEF one

\* One step that sends or fails, after steps in order.
LEMMA EndedBy ==
  ASSUME NEW u, ArePlain(u), Ordered(u), NEW op, PlainStep(op), op.op \in Sends \cup {"fail"}
  PROVE  ArePlain(u \o <<op>>) /\ Ordered(u \o <<op>>)
<1> DEFINE one == <<op>>
<1>1. ArePlain(one) /\ Loud(one) BY PlainOne
<1> HIDE DEF one
<1>2. ArePlain(u \o one) /\ Ordered(u \o one) BY <1>1, PlainJoin, SilentJoin
<1> QED BY <1>2 DEF one

\* What each kind of result writes: its headers, its status, its body.
LEMMA EntitySteps ==
  ASSUME NEW given, IsHeaders(given.headers), IsList(given.body), NEW q, NEW ops \in RS!EntityWrite(given, q)
  PROVE  ArePlain(ops) /\ Ordered(ops)
<1> DEFINE status == RS!normalizeEntityStatus(given.status, 200)
           hasBody == given.body # <<>> /\ RS!entityStatusAllowsBody(status)
           begun == RS!applyEntityHeaders(given.headers) \o <<RS!Status(status)>>
           written == RS!Write(<<"bytes", "string", "reader", "form", "json">>,
                        [value |-> "object", declared |-> given.media, accept |-> q.accept, status |-> status, size |-> 1])
<1>1. ArePlain(begun) /\ Ordered(begun) BY EntityHeaders, Begun
<1>2. PlainStep(RS!Body(given.body)) /\ RS!Body(given.body).op = "write" BY StepsByKind DEF IsList
<1>3. \A x : PlainStep(RS!Fail(x)) /\ RS!Fail(x).op = "fail" BY StepsByKind
<1>4. ArePlain(begun \o <<RS!Body(given.body)>>) /\ Ordered(begun \o <<RS!Body(given.body)>>)
  <2> HIDE DEF begun
  <2> QED BY <1>1, <1>2, EndedBy DEF Sends
<1>5. ASSUME NEW x PROVE ArePlain(begun \o <<RS!Fail(x)>>) /\ Ordered(begun \o <<RS!Fail(x)>>)
  <2> HIDE DEF begun
  <2> QED BY <1>1, <1>3, EndedBy DEF Sends
<1>6. ArePlain(<<RS!Fail(406)>>) /\ Ordered(<<RS!Fail(406)>>)
  <2>1. RS!Fail(406).op \notin Sends BY <1>3 DEF Sends
  <2> QED BY <1>3, <2>1, PlainOne, SilentIsOrdered
<1>7. RS!EntityWrite(given, q) =
        CASE ~hasBody                      -> {begun}
          [] hasBody /\ given.media = <<>> ->
               IF RS!ensureEntityAccepted(q) THEN {begun \o <<RS!Body(given.body)>>} ELSE {<<RS!Fail(406)>>}
          [] hasBody /\ given.media # <<>> ->
               {begun \o (IF w.status = status THEN <<RS!Body(given.body)>> ELSE <<RS!Fail(w.status)>>) : w \in written}
  BY DEF RS!EntityWrite
<1> HIDE DEF written, hasBody, begun, status
<1>8. CASE ~hasBody BY <1>1, <1>7, <1>8
<1>9. CASE hasBody /\ given.media = <<>>
  <2>1. ops \in {begun \o <<RS!Body(given.body)>>, <<RS!Fail(406)>>} BY <1>7, <1>9
  <2> QED BY <1>4, <1>6, <2>1
<1>10. CASE hasBody /\ given.media # <<>>
  <2>1. ops \in {begun \o (IF w.status = status THEN <<RS!Body(given.body)>> ELSE <<RS!Fail(w.status)>>) : w \in written}
    BY <1>7, <1>10
  <2>2. PICK w \in written : ops = begun \o (IF w.status = status THEN <<RS!Body(given.body)>> ELSE <<RS!Fail(w.status)>>)
    BY <2>1
  <2>3. ops = begun \o <<RS!Body(given.body)>> \/ ops = begun \o <<RS!Fail(w.status)>> BY <2>2
  <2> QED BY <1>4, <1>5, <2>3
<1> QED BY <1>8, <1>9, <1>10

\* A download is written by plain steps, its status before its body.
LEMMA DownloadSteps ==
  ASSUME NEW given, IsHeaders(given.headers), IsList(given.body), NEW q
  PROVE  ArePlain(RS!DownloadWrite(given, q)) /\ Ordered(RS!DownloadWrite(given, q))
<1> DEFINE status == RS!normalizeEntityStatus(given.status, 200)
           sized == IF given.length # RS!Unset /\ RS!entityStatusAllowsBody(status)
                    THEN <<RS!Header("length", given.length)>> ELSE <<>>
           begun == (sized \o RS!applyEntityHeaders(given.headers)) \o <<RS!Status(status)>>
           parted == [i \in DOMAIN given.body |-> RS!Body(<<given.body[i]>>)]
           ended == IF given.broken THEN <<RS!Fail(500)>> ELSE <<>>
<1>1. ArePlain(sized) /\ Silent(sized)
  <2>1. PlainStep(RS!Header("length", given.length)) /\ RS!Header("length", given.length).op \notin Sends
    BY StepsByKind DEF Sends
  <2>2. ArePlain(<<RS!Header("length", given.length)>>) /\ Silent(<<RS!Header("length", given.length)>>)
    BY <2>1, PlainOne
  <2> QED BY <2>2, NoSteps
<1>2. ArePlain(begun) /\ Ordered(begun)
  <2> HIDE DEF sized, status
  <2> DEFINE h == RS!applyEntityHeaders(given.headers)
  <2>1. ArePlain(h) /\ Silent(h) BY EntityHeaders
  <2>2. ArePlain(sized \o h) /\ Silent(sized \o h)
    <3> HIDE DEF h
    <3> QED BY <1>1, <2>1, PlainJoin, SilentJoin
  <2> QED BY <2>2, Begun
<1>3. ArePlain(parted) /\ Loud(parted)
  <2> DEFINE S == {RS!Body(<<given.body[i]>>) : i \in 1 .. Len(given.body)}
  <2>1. \A op \in S : PlainStep(op) /\ op.op = "write"
    <3> SUFFICES ASSUME NEW i \in 1 .. Len(given.body)
                 PROVE  PlainStep(RS!Body(<<given.body[i]>>)) /\ RS!Body(<<given.body[i]>>).op = "write"
      OBVIOUS
    <3> DEFINE x == given.body[i]
    <3>1. <<x>> \in Seq({x}) OBVIOUS
    <3> HIDE DEF x
    <3> QED BY <3>1, StepsByKind DEF x
  <2>2. DOMAIN given.body = 1 .. Len(given.body) /\ Len(given.body) \in Nat BY DEF IsList
  <2>3. parted \in Seq(S) BY <2>2
  <2> HIDE DEF S, parted
  <2>4. \A i \in 1 .. Len(parted) : parted[i] \in S BY <2>3
  <2> QED BY <2>1, <2>3, <2>4 DEF ArePlain, Loud, Sends
<1>4. ArePlain(ended) /\ Loud(ended)
  <2>1. PlainStep(RS!Fail(500)) /\ RS!Fail(500).op = "fail" BY StepsByKind
  <2>2. ArePlain(<<RS!Fail(500)>>) /\ Loud(<<RS!Fail(500)>>) BY <2>1, PlainOne
  <2> QED BY <2>2, NoSteps
<1>5. RS!DownloadWrite(given, q) =
        IF ~RS!entityStatusAllowsBody(status) \/ q.method = "HEAD" THEN begun ELSE (begun \o parted) \o ended
  BY DEF RS!DownloadWrite
<1> HIDE DEF begun, parted, ended, status
<1>6. ArePlain(begun \o parted) /\ Ordered(begun \o parted) BY <1>2, <1>3, PlainJoin, SilentJoin
<1>7. ArePlain((begun \o parted) \o ended) /\ Ordered((begun \o parted) \o ended)
  BY <1>4, <1>6, PlainJoin, SilentJoin
<1> QED BY <1>2, <1>5, <1>7

\* So is a redirect, which has no body at all.
LEMMA RedirectSteps ==
  ASSUME NEW given, IsHeaders(given.headers)
  PROVE  ArePlain(RS!RedirectWrite(given)) /\ Ordered(RS!RedirectWrite(given))
<1> DEFINE h == RS!applyEntityHeaders(given.headers)
           at == RS!Header("location", given.location)
           status == RS!Status(RS!normalizeEntityStatus(given.status, 302))
<1>1. PlainStep(RS!Fail(500)) /\ RS!Fail(500).op = "fail" BY StepsByKind
<1>2. ArePlain(<<RS!Fail(500)>>) /\ Ordered(<<RS!Fail(500)>>)
  <2>1. RS!Fail(500).op \notin Sends BY <1>1 DEF Sends
  <2> QED BY <1>1, <2>1, PlainOne, SilentIsOrdered
<1>3. PlainStep(at) /\ at.op \notin Sends /\ PlainStep(status) /\ status.op \notin Sends BY StepsByKind DEF Sends
<1>4. ArePlain(h) /\ Silent(h) BY EntityHeaders
<1>5. RS!RedirectWrite(given) = IF given.location = "" THEN <<RS!Fail(500)>> ELSE h \o <<at, status>>
  BY DEF RS!RedirectWrite
<1> HIDE DEF h, at, status
<1>6. ArePlain(<<at, status>>) /\ Silent(<<at, status>>)
  <2> DEFINE two == <<at, status>>
  <2>1. two \in Seq({at, status}) OBVIOUS
  <2>2. \A i \in 1 .. Len(two) : two[i] \in {at, status} OBVIOUS
  <2> HIDE DEF two
  <2>3. ArePlain(two) /\ Silent(two) BY <1>3, <2>1, <2>2 DEF ArePlain, Silent
  <2> QED BY <2>3 DEF two
<1>7. ArePlain(h \o <<at, status>>) /\ Ordered(h \o <<at, status>>)
  <2> DEFINE two == <<at, status>>
  <2> HIDE DEF two
  <2>1. ArePlain(two) /\ Silent(two) BY <1>6 DEF two
  <2>2. ArePlain(h \o two) /\ Silent(h \o two) BY <1>4, <2>1, PlainJoin, SilentJoin
  <2>3. Ordered(h \o two) BY <2>2, SilentIsOrdered
  <2> QED BY <2>2, <2>3 DEF two
<1> QED BY <1>2, <1>5, <1>7

\* So is a problem document.
LEMMA ProblemSteps ==
  ASSUME NEW error, NEW q
  PROVE  ArePlain(RS!ProblemWrite(error, q)) /\ Ordered(RS!ProblemWrite(error, q))
<1> DEFINE status == RS!Status(RS!classifyError(error))
           body == RS!Body(<<"problem">>)
<1>1. PlainStep(RS!Fail(406)) /\ RS!Fail(406).op = "fail" BY StepsByKind
<1>2. ArePlain(<<RS!Fail(406)>>) /\ Ordered(<<RS!Fail(406)>>)
  <2>1. RS!Fail(406).op \notin Sends BY <1>1 DEF Sends
  <2> QED BY <1>1, <2>1, PlainOne, SilentIsOrdered
<1>3. PlainStep(status) /\ status.op = "status" BY StepsByKind
<1>4. PlainStep(body) /\ body.op = "write"
  <2>1. <<"problem">> \in Seq({"problem"}) OBVIOUS
  <2> QED BY <2>1, StepsByKind
<1>5. RS!ProblemWrite(error, q) = IF RS!Problem \notin q.accept THEN <<RS!Fail(406)>> ELSE <<status, body>>
  BY DEF RS!ProblemWrite
<1> HIDE DEF status, body
<1>6. ArePlain(<<status, body>>) /\ Ordered(<<status, body>>)
  <2> DEFINE two == <<status, body>>
  <2>1. two \in Seq({status, body}) OBVIOUS
  <2>2. Len(two) = 2 /\ two[1] = status /\ two[2] = body OBVIOUS
  <2> HIDE DEF two
  <2>3. ArePlain(two) BY <1>3, <1>4, <2>1 DEF ArePlain
  <2>4. Ordered(two) BY <1>3, <1>4, <2>2 DEF Ordered, Sends
  <2> QED BY <2>3, <2>4 DEF two
<1> QED BY <1>2, <1>5, <1>6

\* What a result writes: plain steps, in order unless a handler's own are not.
LEMMA ResultSteps ==
  ASSUME NEW given, IsResult(given), NEW q, NEW ops \in RS!ResultWrite(given, q)
  PROVE  ArePlain(ops) /\ ((given.kind = "direct" => Orderly(given.ops)) => Ordered(ops))
<1>1. CASE given.kind = "entity"
  <2>1. ops \in RS!EntityWrite(given, q) BY <1>1 DEF RS!ResultWrite
  <2>2. IsHeaders(given.headers) /\ IsList(given.body) BY <1>1 DEF IsResult
  <2> QED BY <2>1, <2>2, EntitySteps
<1>2. CASE given.kind = "download"
  <2>1. ops = RS!DownloadWrite(given, q) BY <1>2 DEF RS!ResultWrite
  <2>2. IsHeaders(given.headers) /\ IsList(given.body) BY <1>2 DEF IsResult
  <2> QED BY <2>1, <2>2, DownloadSteps
<1>3. CASE given.kind = "redirect"
  <2>1. ops = RS!RedirectWrite(given) BY <1>3 DEF RS!ResultWrite
  <2>2. IsHeaders(given.headers) BY <1>3 DEF IsResult
  <2> QED BY <2>1, <2>2, RedirectSteps
<1>4. CASE given.kind = "error"
  <2>1. ops = RS!ProblemWrite(given.error, q) BY <1>4 DEF RS!ResultWrite
  <2> QED BY <2>1, ProblemSteps
<1>5. CASE given.kind = "direct"
  <2>1. ops = given.ops BY <1>5 DEF RS!ResultWrite
  <2>2. IsRow(ops) /\ \A i \in DOMAIN ops : IsOp(ops[i]) BY <1>5, <2>1 DEF IsResult
  <2>3. DOMAIN ops = 1 .. Len(ops) /\ Len(ops) \in Nat BY <2>2 DEF IsRow
  <2> DEFINE S == {ops[i] : i \in 1 .. Len(ops)}
  <2>4. ops \in Seq(S) BY <2>2, <2>3 DEF IsRow
  <2>5. ASSUME NEW op, IsOp(op) PROVE PlainStep(op) BY <2>5 DEF IsOp, PlainStep, StepKinds, IsList
  <2>6. \A op \in S : PlainStep(op) BY <2>2, <2>3, <2>5
  <2>7. ArePlain(ops)
    <3> HIDE DEF S
    <3> QED BY <2>4, <2>6 DEF ArePlain
  <2>8. Orderly(ops) => Ordered(ops) BY <2>3 DEF Orderly, Ordered, Sends
  <2> QED BY <1>5, <2>1, <2>7, <2>8
<1> QED BY <1>1, <1>2, <1>3, <1>4, <1>5 DEF IsResult

\* It depends on what is asked for by what is accepted and by the method.
LEMMA ResultDepends ==
  ASSUME NEW given, IsResult(given), NEW q, NEW r, q.accept = r.accept, q.method = r.method
  PROVE  RS!ResultWrite(given, q) = RS!ResultWrite(given, r)
<1>1. RS!EntityWrite(given, q) = RS!EntityWrite(given, r) BY DEF RS!EntityWrite, RS!ensureEntityAccepted
<1>2. RS!DownloadWrite(given, q) = RS!DownloadWrite(given, r) BY DEF RS!DownloadWrite
<1>3. RS!ProblemWrite(given.error, q) = RS!ProblemWrite(given.error, r) BY DEF RS!ProblemWrite
<1> QED BY <1>1, <1>2, <1>3 DEF RS!ResultWrite, IsResult

\* Something is written.
LEMMA ResultSome ==
  ASSUME NEW given, IsResult(given), NEW q
  PROVE  RS!ResultWrite(given, q) # {}
<1>1. ASSUME NEW x, NEW y PROVE RS!Write(x, y) # {}
  <2> DEFINE candidates == RS!candidateMediaTypes(x, "write", y.value, y.declared)
             acceptable == RS!NegotiateContentType(y.accept, candidates)
  <2>1. CASE acceptable = {} BY <2>1 DEF RS!Write
  <2>2. CASE acceptable # {}
    <3> DEFINE As(media) ==
                 LET converter == RS!converterFor(x, "write", y.value, media)
                 IN  IF converter = "none" THEN RS!Written(415)
                     ELSE [status |-> RS!normalizeStatus(y.status, 200), type |-> media,
                           body |-> [codec |-> RS!Codec(converter), value |-> y.value, size |-> y.size]]
    <3>1. PICK m : m \in acceptable BY <2>2
    <3>2. RS!Write(x, y) = IF acceptable = {} THEN {RS!Written(406)} ELSE {As(media) : media \in acceptable}
      BY DEF RS!Write
    <3> HIDE DEF acceptable, As
    <3>3. As(m) \in {As(media) : media \in acceptable} BY <3>1
    <3> QED BY <2>2, <3>2, <3>3
  <2> QED BY <2>1, <2>2
<1>2. RS!EntityWrite(given, q) # {}
  <2> DEFINE status == RS!normalizeEntityStatus(given.status, 200)
             hasBody == given.body # <<>> /\ RS!entityStatusAllowsBody(status)
             begun == RS!applyEntityHeaders(given.headers) \o <<RS!Status(status)>>
             written == RS!Write(<<"bytes", "string", "reader", "form", "json">>,
                          [value |-> "object", declared |-> given.media, accept |-> q.accept, status |-> status, size |-> 1])
  <2>1. written # {} BY <1>1
  <2>2. RS!EntityWrite(given, q) =
          CASE ~hasBody                      -> {begun}
            [] hasBody /\ given.media = <<>> ->
                 IF RS!ensureEntityAccepted(q) THEN {begun \o <<RS!Body(given.body)>>} ELSE {<<RS!Fail(406)>>}
            [] hasBody /\ given.media # <<>> ->
                 {begun \o (IF w.status = status THEN <<RS!Body(given.body)>> ELSE <<RS!Fail(w.status)>>) : w \in written}
    BY DEF RS!EntityWrite
  <2> HIDE DEF written, hasBody, begun, status
  <2> QED BY <2>1, <2>2
<1> QED BY <1>2 DEF RS!ResultWrite, IsResult

\* Plain steps are steps; whatever else a response may hold, W.
LEMMA PlainSteps ==
  ASSUME NEW ops, ArePlain(ops), NEW W
  PROVE  \E B, V : IsSteps(ops, B, V) /\ W \subseteq V
<1>1. PICK S : ops \in Seq(S) /\ \A op \in S : PlainStep(op) BY DEF ArePlain
<1> DEFINE V == (Common \cup W) \cup {op.value : op \in S}
           B == UNION {{op.value[i] : i \in DOMAIN op.value} : op \in S}
<1>2. Common \subseteq V /\ W \subseteq V /\ \A op \in S : op.value \in V OBVIOUS
<1>3. ASSUME NEW op \in S PROVE IsStep(op, B, V)
  <2>1. op.op = "write" => op.value \in Seq(B)
    <3> SUFFICES ASSUME op.op = "write" PROVE op.value \in Seq(B) OBVIOUS
    <3>1. PICK A : op.value \in Seq(A) BY <1>1 DEF PlainStep
    <3>2. \A i \in 1 .. Len(op.value) : op.value[i] \in B BY <3>1
    <3> HIDE DEF B
    <3> QED BY <3>1, <3>2
  <2>2. op.op = "set" => op.name \in HeaderNames BY <1>1 DEF PlainStep, HeaderNames
  <2> HIDE DEF B, V
  <2> QED BY <1>1, <1>2, <2>1, <2>2 DEF IsStep, PlainStep
<1> HIDE DEF B, V
<1>4. IsSteps(ops, B, V) BY <1>1, <1>2, <1>3 DEF IsSteps
<1> QED BY <1>2, <1>4

\* The validators that a handler sets before it answers.
Validators(check) ==
  LET modified == RS!truncateHTTPTime(check.modified)
  IN  (IF check.tag = RS!NoTag THEN <<>> ELSE <<RS!Header("etag", check.tag)>>)
      \o (IF modified = RS!Unset THEN <<>> ELSE <<RS!Header("modified", modified)>>)
KeptTags(check) == {check.tag, RS!truncateHTTPTime(check.modified)}

\* They are headers, and those of the handler.
LEMMA ValidatorSteps ==
  ASSUME NEW check, NEW B, NEW V, Common \cup KeptTags(check) \subseteq V
  PROVE  /\ IsSteps(Validators(check), B, V) /\ OnlySets(Validators(check))
         /\ Giving(Validators(check), check.tag, RS!truncateHTTPTime(check.modified))
<1> DEFINE modified == RS!truncateHTTPTime(check.modified)
           e == RS!Header("etag", check.tag)
           m == RS!Header("modified", modified)
           S == {e, m}
           a == IF check.tag = RS!NoTag THEN <<>> ELSE <<e>>
           b == IF modified = RS!Unset THEN <<>> ELSE <<m>>
           v == a \o b
<1>1. Validators(check) = v BY DEF Validators
<1>2. /\ e.op = "set" /\ e.name = "etag" /\ e.value = check.tag
      /\ m.op = "set" /\ m.name = "modified" /\ m.value = modified
  BY StepsByKind
<1>3. \A op \in S : IsStep(op, B, V) /\ op.op = "set" /\ Gives(op, check.tag, modified)
  <2> HIDE DEF e, m
  <2> QED BY <1>2 DEF IsStep, StepKinds, HeaderNames, Gives, KeptTags
<1>4. a \in Seq(S) /\ b \in Seq(S)
  <2> HIDE DEF e, m, modified
  <2>1. <<>> \in Seq(S) /\ <<e>> \in Seq(S) /\ <<m>> \in Seq(S) OBVIOUS
  <2> HIDE DEF S
  <2>2. a \in {<<>>, <<e>>} /\ b \in {<<>>, <<m>>} OBVIOUS
  <2> QED BY <2>1, <2>2
<1> HIDE DEF a, b, S
<1>5. v \in Seq(S) BY <1>4
<1> HIDE DEF v
<1>6. \A i \in 1 .. Len(v) : v[i] \in S BY <1>5
<1>7. IsSteps(v, B, V) BY <1>3, <1>5 DEF IsSteps
<1>8. Giving(v, check.tag, modified) BY <1>3, <1>6 DEF Giving
<1>9. OnlySets(v) BY <1>3, <1>6 DEF OnlySets
<1> QED BY <1>1, <1>7, <1>8, <1>9

\* Before plain steps they are all the validators that are set, and keep the order.
LEMMA ValidatorsFirst ==
  ASSUME NEW check, NEW B, NEW V, Common \cup KeptTags(check) \subseteq V,
         NEW ops, ArePlain(ops), IsSteps(ops, B, V)
  PROVE  /\ IsSteps(Validators(check) \o ops, B, V)
         /\ Giving(Validators(check) \o ops, check.tag, RS!truncateHTTPTime(check.modified))
         /\ Ordered(ops) => Ordered(Validators(check) \o ops)
<1> DEFINE v == Validators(check)
           all == v \o ops
           n == Len(v)
           m == Len(ops)
           tag == check.tag
           changed == RS!truncateHTTPTime(check.modified)
<1>1. IsSteps(v, B, V) /\ OnlySets(v) /\ Giving(v, tag, changed) BY ValidatorSteps
<1>2. \A i \in 1 .. m : PlainStep(ops[i]) BY DEF ArePlain
<1> HIDE DEF v, tag, changed
<1>3. /\ IsSteps(all, B, V) /\ Len(all) = n + m /\ n \in Nat /\ m \in Nat
      /\ \A i \in 1 .. n : all[i] = v[i]
      /\ \A i \in 1 .. m : all[n + i] = ops[i]
  BY <1>1, StepsJoin, StepsAreSteps
<1> HIDE DEF all
<1>4. ASSUME NEW i \in 1 .. Len(all) PROVE i \in 1 .. n \/ (i - n \in 1 .. m /\ all[i] = ops[i - n])
  <2> HIDE DEF n, m
  <2>1. CASE i <= n BY <1>3, <2>1
  <2>2. CASE i > n
    <3>1. i - n \in 1 .. m /\ n + (i - n) = i BY <1>3, <2>2
    <3> QED BY <1>3, <3>1
  <2> QED BY <1>3, <2>1, <2>2
<1>5. Giving(all, tag, changed)
  <2> SUFFICES ASSUME NEW i \in 1 .. Len(all) PROVE Gives(all[i], tag, changed) BY DEF Giving
  <2>1. CASE i \in 1 .. n BY <1>1, <1>3, <2>1 DEF Giving
  <2>2. CASE i - n \in 1 .. m /\ all[i] = ops[i - n]
    <3>1. PlainStep(all[i]) BY <1>2, <2>2
    <3> QED BY <3>1 DEF PlainStep, Gives
  <2> QED BY <1>4, <2>1, <2>2
<1>6. ASSUME Ordered(ops) PROVE Ordered(all)
  <2> SUFFICES ASSUME NEW i \in 1 .. Len(all), NEW j \in 1 .. Len(all), i < j, all[i].op \in Sends
               PROVE  all[j].op \in Sends \cup {"fail"}
    BY DEF Ordered
  <2>1. i \notin 1 .. n BY <1>1, <1>3 DEF Sends, OnlySets
  <2> HIDE DEF n, m
  <2>2. i - n \in 1 .. m /\ all[i] = ops[i - n] BY <1>4, <2>1
  <2>3. j \notin 1 .. n BY <1>3, <2>1
  <2>4. j - n \in 1 .. m /\ all[j] = ops[j - n] BY <1>4, <2>3
  <2>5. i - n < j - n BY <1>3
  <2> QED BY <1>6, <2>2, <2>4, <2>5 DEF Ordered, m
<1> QED BY <1>3, <1>5, <1>6 DEF all, tag, changed, v

ToldAs(ops, q) == IF q.filter.on THEN RS!ShallowETag(ops, q) ELSE RS!Bare(ops)
Same(q) ==
  /\ Validators(q.check) # <<>>
  /\ RS!notModified(q, q.check.tag, RS!truncateHTTPTime(q.check.modified))
Unchanged == <<RS!Header("length", RS!Unset), RS!Status(304)>>

\* How a GET is answered: that nothing changed, or with the result.
LEMMA Responds ==
  ASSUME NEW q, q.method = "GET"
  PROVE  /\ Same(q) => RS!Respond(q) = {ToldAs(Validators(q.check) \o Unchanged, q)}
         /\ ~Same(q) => RS!Respond(q) = {ToldAs(Validators(q.check) \o ops, q) : ops \in RS!ResultWrite(q.result, q)}
<1> DEFINE v == Validators(q.check)
           checked == RS!CheckNotModified(q, q.check)
           all == IF checked.same THEN {checked.ops} ELSE {checked.ops \o ops : ops \in RS!ResultWrite(q.result, q)}
<1>1. RS!conditionalMethodAllowed(q.method) BY DEF RS!conditionalMethodAllowed
<1>2. v \o <<>> = v
  <2> DEFINE V == Common \cup KeptTags(q.check)
  <2>1. IsSteps(v, {}, V) BY ValidatorSteps
  <2> HIDE DEF v, V
  <2>2. PICK S : v \in Seq(S) BY <2>1 DEF IsSteps
  <2> QED BY <2>2
<1>3. checked = [same |-> Same(q), ops |-> v \o (IF Same(q) THEN Unchanged ELSE <<>>)]
  BY <1>1 DEF RS!CheckNotModified, Validators, Same, Unchanged
<1>4. RS!Respond(q) = {ToldAs(ops, q) : ops \in all} BY <1>1 DEF RS!Respond, ToldAs
<1> HIDE DEF checked, v
<1>5. CASE Same(q)
  <2>1. all = {v \o Unchanged} BY <1>3, <1>5
  <2> HIDE DEF all
  <2>2. RS!Respond(q) = {ToldAs(v \o Unchanged, q)} BY <1>4, <2>1
  <2> QED BY <1>5, <2>2 DEF v
<1>6. CASE ~Same(q)
  <2>1. checked.ops = v \o <<>> /\ ~checked.same BY <1>3, <1>6
  <2>2. all = {v \o ops : ops \in RS!ResultWrite(q.result, q)} BY <1>2, <2>1
  <2> HIDE DEF all
  <2>3. RS!Respond(q) = {ToldAs(v \o ops, q) : ops \in RS!ResultWrite(q.result, q)} BY <1>4, <2>2
  <2> QED BY <1>6, <2>3 DEF v
<1> QED BY <1>5, <1>6

\* Who knows nothing yet is not told that nothing changed.
LEMMA NothingKnown ==
  ASSUME NEW q, q.noneMatch = {}, q.since = RS!Unset
  PROVE  ~Same(q)
BY DEF Same, RS!notModified, RS!conditionalModifiedSince

\* What is asked of a handler, and what is asked again.
LEMMA AskedOfHandler ==
  ASSUME NEW q, AsksHandler(q)
  PROVE  /\ q.method = "GET" /\ IsResult(q.result) /\ ~Same(q)
         /\ RS!Respond(q) = {ToldAs(Validators(q.check) \o ops, q) : ops \in RS!ResultWrite(q.result, q)}
BY NothingKnown, Responds DEF AsksHandler

Again(r, q, first) ==
  /\ r.method = "GET" /\ r.check = q.check /\ r.result = q.result /\ r.accept = q.accept /\ r.filter = q.filter
  /\ r.noneMatch = {first.headers.etag} \ {RS!NoTag} /\ r.since = first.headers.modified
\* The repeated request is the first one, with the first answer's validators.
LEMMA AskedAgain ==
  ASSUME NEW q, AsksHandler(q), NEW first
  PROVE  Again(Conditional(q, first), q, first)
BY DEF Again, Conditional, AsksHandler, ResponseFields

\* Without the filter a client gets what one writing of the result amounts to.
LEMMA AskedPlainly ==
  ASSUME NEW q, AsksHandler(q)
  PROVE  RS!Respond([q EXCEPT !.filter.on = FALSE])
           = {RS!Bare(Validators(q.check) \o ops) : ops \in RS!ResultWrite(q.result, q)}
<1> DEFINE r == [q EXCEPT !.filter.on = FALSE]
<1>1. /\ r.method = "GET" /\ r.check = q.check /\ r.result = q.result /\ r.accept = q.accept
      /\ r.noneMatch = {} /\ r.since = RS!Unset
  BY DEF AsksHandler, ResponseFields
<1>2. r.filter = [q.filter EXCEPT !.on = FALSE] BY DEF AsksHandler, ResponseFields
<1>3. r.filter.on = FALSE BY <1>2 DEF AsksHandler
<1> HIDE DEF r
<1>4. ~Same(r) BY <1>1, NothingKnown
<1>5. RS!Respond(r) = {ToldAs(Validators(r.check) \o ops, r) : ops \in RS!ResultWrite(r.result, r)} BY <1>1, <1>4, Responds
<1>6. RS!ResultWrite(q.result, r) = RS!ResultWrite(q.result, q)
  <2>1. IsResult(q.result) /\ q.method = "GET" BY DEF AsksHandler
  <2> QED BY <1>1, <2>1, ResultDepends
<1>7. \A ops : ToldAs(ops, r) = RS!Bare(ops) BY <1>3 DEF ToldAs
<1>8. RS!Respond(r) = {RS!Bare(Validators(q.check) \o ops) : ops \in RS!ResultWrite(q.result, q)}
  BY <1>1, <1>5, <1>6, <1>7
<1> QED BY <1>8 DEF r

\* A first answer 200 bears the handler's validators, or the tag of its own body.
LEMMA FirstAnswer ==
  ASSUME NEW q, AsksHandler(q), NEW first \in RS!Respond(q), first.status = 200
  PROVE  BearsOwn(first, q.check.tag, RS!truncateHTTPTime(q.check.modified))
<1> DEFINE v == Validators(q.check)
           changed == RS!truncateHTTPTime(q.check.modified)
           W == KeptTags(q.check)
<1>1. PICK ops \in RS!ResultWrite(q.result, q) : first = ToldAs(v \o ops, q) BY AskedOfHandler
<1>2. ArePlain(ops) BY AskedOfHandler, ResultSteps
<1> HIDE DEF v, W, changed
<1>3. PICK B, V : IsSteps(ops, B, V) /\ W \subseteq V BY <1>2, PlainSteps
<1>4. Common \cup W \subseteq V BY <1>3, StepsAreSteps
<1>5. IsSteps(v \o ops, B, V) /\ Giving(v \o ops, q.check.tag, changed)
  BY <1>2, <1>3, <1>4, ValidatorsFirst DEF v, W, changed
<1>6. q.method = "GET" /\ q.noneMatch = {} BY DEF AsksHandler
<1>7. first \in {RS!Bare(v \o ops), RS!ShallowETag(v \o ops, q)} BY <1>1 DEF ToldAs
<1> DEFINE all == v \o ops
<1> HIDE DEF all
<1>8. IsSteps(all, B, V) /\ Giving(all, q.check.tag, changed) /\ first \in {RS!Bare(all), RS!ShallowETag(all, q)}
  BY <1>5, <1>7 DEF all
<1>9. BearsOwn(first, q.check.tag, changed) BY <1>6, <1>8, FirstBears
<1> QED BY <1>9 DEF changed

InOrder(given) == given.kind = "direct" => Orderly(given.ops)
AllGood(plain) == \A r \in plain : r.err = 0 /\ r.status = 200

\* Answers 200 with one result, whatever validators come with it, have one body.
LEMMA SameBody ==
  ASSUME NEW before, AsksHandler(before), NEW after, AsksHandler(after),
         before.accept = after.accept, before.result = after.result,
         InOrder(after.result), NEW plain, plain = RS!Respond([after EXCEPT !.filter.on = FALSE]), AllGood(plain),
         NEW first \in RS!Respond(before), first.status = 200
  PROVE  \E p \in plain : p.status = 200 /\ p.body = first.body
<1> DEFINE v == Validators(before.check)
           u == Validators(after.check)
           W == KeptTags(before.check) \cup KeptTags(after.check)
<1>1. PICK ops \in RS!ResultWrite(before.result, before) : first = ToldAs(v \o ops, before) BY AskedOfHandler
<1>2. before.method = "GET" /\ before.noneMatch = {} /\ after.method = "GET" /\ IsResult(after.result)
  BY DEF AsksHandler
<1>3. ops \in RS!ResultWrite(after.result, after) BY <1>1, <1>2, ResultDepends
<1>4. ArePlain(ops) /\ Ordered(ops) BY <1>2, <1>3, ResultSteps DEF InOrder
<1>5. RS!Bare(u \o ops) \in plain BY <1>3, AskedPlainly
<1> HIDE DEF v, u, W
<1>6. PICK B, V : IsSteps(ops, B, V) /\ W \subseteq V BY <1>4, PlainSteps
<1>7. Common \cup KeptTags(before.check) \subseteq V /\ Common \cup KeptTags(after.check) \subseteq V
  BY <1>6, StepsAreSteps DEF W
<1>8. IsSteps(v, B, V) /\ OnlySets(v) /\ IsSteps(u, B, V) /\ OnlySets(u)
  BY <1>7, ValidatorSteps DEF v, u
<1>9. Alike(RS!Bare(v \o ops), RS!Bare(ops)) BY <1>6, <1>8, HeadersAside
<1>10. Alike(RS!Bare(u \o ops), RS!Bare(ops)) BY <1>6, <1>8, HeadersAside
<1> DEFINE all == v \o ops
           p == RS!Bare(u \o ops)
<1> HIDE DEF p
<1>11. p.err = 0 /\ p.status = 200 /\ p \in plain BY <1>5 DEF p, AllGood
<1>12. RS!Bare(all).err = 0 /\ RS!Bare(all).status = 200 /\ RS!Bare(all).body = p.body
  BY <1>9, <1>10, <1>11 DEF Alike, p
<1>13. IsSteps(all, B, V) /\ Ordered(all) BY <1>4, <1>6, <1>7, ValidatorsFirst DEF v
<1> HIDE DEF all
<1>14. first.body = p.body
  <2>1. CASE first = RS!Bare(all) BY <1>12, <2>1
  <2>2. CASE first = RS!ShallowETag(all, before)
    <3>1. PassedOn(RS!Bare(all), first, before) BY <1>2, <1>12, <1>13, <2>2, FilterPasses
    <3> QED BY <1>12, <3>1 DEF PassedOn
  <2>3. first \in {RS!Bare(all), RS!ShallowETag(all, before)} BY <1>1 DEF ToldAs, all
  <2> QED BY <2>1, <2>2, <2>3
<1> QED BY <1>11, <1>14

\* A tag of a handler is no filter's, and neither is any.
LEMMA TagsApart ==
  ASSUME NEW q, AsksHandler(q), NEW body
  PROVE  /\ q.check.tag # RS!NoTag => q.check.tag # RS!AnyTag
         /\ \A hash \in HashTags(body) : hash # RS!AnyTag /\ hash # RS!NoTag
         /\ q.check.tag # RS!NoTag => q.check.tag \notin HashTags(body)
         /\ \A other : \A hash \in HashTags(body) : hash \in HashTags(other) => body = other
<1>1. RS!AnyTag[1] = "*" BY DEF RS!AnyTag
<1>2. \A hash \in HashTags(body) : hash[1] \in {"sha", "fnv"} /\ hash[2] = body BY DEF HashTags
<1>3. q.check.tag # RS!NoTag => q.check.tag[1] \notin {"*", "sha", "fnv"} BY DEF AsksHandler
<1>4. \A other : \A hash \in HashTags(other) : hash[2] = other BY DEF HashTags
<1>5. ASSUME NEW hash \in HashTags(body) PROVE hash # RS!NoTag
  <2>1. hash \in {<<"sha", body>>, <<"fnv", body>>} BY DEF HashTags
  <2>2. Len(hash) = 2 BY <2>1
  <2>3. Len(RS!NoTag) = 0 BY DEF RS!NoTag
  <2> QED BY <2>2, <2>3
<1>6. ASSUME NEW hash \in HashTags(body) PROVE hash # RS!AnyTag
  <2>1. hash[1] # "*" BY <1>2
  <2> QED BY <1>1, <2>1
<1> HIDE DEF HashTags
<1>7. q.check.tag # RS!NoTag => q.check.tag # RS!AnyTag BY <1>1, <1>3
<1>8. q.check.tag # RS!NoTag => q.check.tag \notin HashTags(body) BY <1>2, <1>3
<1>9. \A other : \A hash \in HashTags(body) : hash \in HashTags(other) => body = other BY <1>2, <1>4
<1> QED BY <1>5, <1>6, <1>7, <1>8, <1>9

\* Times that are known keep their order by the second.
LEMMA Seconds ==
  ASSUME NEW s \in Nat \cup {RS!Unset}, NEW t \in Nat \cup {RS!Unset}
  PROVE  /\ RS!truncateHTTPTime(s) = RS!Unset <=> s = RS!Unset
         /\ s # RS!Unset /\ t # RS!Unset /\ s <= t => RS!truncateHTTPTime(s) <= RS!truncateHTTPTime(t)
         /\ RS!truncateHTTPTime(s) \in Nat \cup {RS!Unset}
BY DEF RS!truncateHTTPTime, RS!Unset

\* What a client has in the end: what it got, where nothing changed, or what it gets.
Shown(first, second) ==
  IF second.status = 304 THEN [status |-> first.status, body |-> first.body]
  ELSE [status |-> second.status, body |-> second.body]

\* Two steps more are one more and one more.
LEMMA TwoMore ==
  ASSUME NEW S, NEW u \in Seq(S), NEW a, NEW b
  PROVE  u \o <<a, b>> = (u \o <<a>>) \o <<b>>
<1> DEFINE T == S \cup {a, b}
           w == u \o <<a>>
           n == Len(u)
<1>1. u \in Seq(T) /\ <<a>> \in Seq(T) /\ <<b>> \in Seq(T) /\ <<a, b>> \in Seq(T) /\ n \in Nat OBVIOUS
<1> HIDE DEF T
<1>2. u \o <<a, b>> \in Seq(T) /\ w \in Seq(T) BY <1>1
<1>3. w \o <<b>> \in Seq(T) BY <1>1, <1>2
<1>4. /\ Len(u \o <<a, b>>) = n + 2 /\ Len(w) = n + 1 /\ Len(w \o <<b>>) = (n + 1) + 1
  BY <1>1, <1>2
<1>5. ASSUME NEW i \in 1 .. n + 2 PROVE (u \o <<a, b>>)[i] = (w \o <<b>>)[i]
  <2>1. CASE i <= n
    <3>1. i \in 1 .. n BY <1>1, <2>1
    <3>2. w[i] = u[i] BY <1>1, <3>1
    <3>3. (w \o <<b>>)[i] = w[i] BY <1>1, <1>2, <1>4, <3>1
    <3>4. (u \o <<a, b>>)[i] = u[i] BY <1>1, <3>1
    <3> QED BY <3>2, <3>3, <3>4
  <2>2. CASE i = n + 1
    <3>1. w[i] = a BY <1>1, <2>2
    <3>2. (w \o <<b>>)[i] = w[i] BY <1>1, <1>2, <1>4, <2>2
    <3>3. (u \o <<a, b>>)[i] = a BY <1>1, <2>2
    <3> QED BY <3>1, <3>2, <3>3
  <2>3. CASE i = n + 2
    <3>1. (w \o <<b>>)[i] = b BY <1>1, <1>2, <1>4, <2>3
    <3>2. (u \o <<a, b>>)[i] = b BY <1>1, <2>3
    <3> QED BY <3>1, <3>2
  <2> QED BY <1>1, <2>1, <2>2, <2>3
<1> DEFINE x == u \o <<a, b>>
           y == w \o <<b>>
<1> HIDE DEF x, y, n
<1>6. x \in Seq(T) /\ y \in Seq(T) /\ Len(x) = n + 2 /\ Len(y) = n + 2 /\ \A i \in 1 .. n + 2 : x[i] = y[i]
  <2>1. x \in Seq(T) /\ y \in Seq(T) BY <1>2, <1>3 DEF x, y
  <2>2. Len(x) = n + 2 /\ Len(y) = n + 2
    <3>1. Len(x) = n + 2 /\ Len(y) = (n + 1) + 1 BY <1>4 DEF x, y
    <3> QED BY <1>1, <3>1
  <2>3. \A i \in 1 .. n + 2 : x[i] = y[i] BY <1>5 DEF x, y
  <2> QED BY <2>1, <2>2, <2>3
<1>7. x = y BY <1>6
<1> QED BY <1>7 DEF x, y

\* What was told not to have changed has not.
LEMMA TellsTheSame ==
  ASSUME NEW before, NEW after, AsksTwice(before, after),
         NEW first \in RS!Respond(before), first.status = 200,
         before.result # after.result
           /\ RS!truncateHTTPTime(before.check.modified) = RS!truncateHTTPTime(after.check.modified)
             => first.headers.etag # RS!NoTag,
         Same(Conditional(after, first))
  PROVE  before.result = after.result
<1> DEFINE q == Conditional(after, first)
           s == RS!truncateHTTPTime(before.check.modified)
           t == RS!truncateHTTPTime(after.check.modified)
           etag == first.headers.etag
<1>1. AsksHandler(before) /\ AsksHandler(after) BY DEF AsksTwice
<1>2. q.check = after.check /\ q.noneMatch = {etag} \ {RS!NoTag} /\ q.since = first.headers.modified
  <2>1. Again(q, after, first) BY <1>1, AskedAgain
  <2> HIDE DEF q
  <2> QED BY <2>1 DEF Again
<1>3. first.headers.modified \in {RS!Unset, s} /\ etag \in {RS!NoTag, before.check.tag} \cup HashTags(first.body)
  BY <1>1, FirstAnswer DEF BearsOwn
<1> HIDE DEF q, s, t, etag
<1>4. RS!notModified(q, after.check.tag, t) BY <1>2 DEF Same, q, t
<1>5. CASE etag # RS!NoTag
  <2>1. q.noneMatch = {etag} BY <1>2, <1>5
  <2>2. RS!ifNoneMatch({etag}, after.check.tag) BY <1>4, <2>1 DEF RS!notModified
  <2>3. after.check.tag # RS!NoTag /\ etag \in {RS!AnyTag, after.check.tag} BY <2>2 DEF RS!ifNoneMatch
  <2>4. etag # RS!AnyTag BY <1>1, <1>3, <1>5, TagsApart
  <2>5. etag = after.check.tag BY <2>3, <2>4
  <2>6. etag \notin HashTags(first.body) BY <1>1, <2>3, <2>5, TagsApart
  <2>7. etag = before.check.tag BY <1>3, <1>5, <2>6
  <2> QED BY <1>5, <2>5, <2>7 DEF AsksTwice
<1>6. CASE etag = RS!NoTag
  <2>1. q.noneMatch = {} BY <1>2, <1>6
  <2>2. RS!conditionalModifiedSince(q.since, t) BY <1>4, <2>1 DEF RS!notModified
  <2>3. q.since # RS!Unset /\ t # RS!Unset /\ t <= q.since BY <2>2 DEF RS!conditionalModifiedSince
  <2>4. s # RS!Unset /\ t <= s BY <1>2, <1>3, <2>3
  <2>5. /\ before.check.modified \in Nat \cup {RS!Unset} /\ after.check.modified \in Nat \cup {RS!Unset}
    BY <1>1 DEF AsksHandler
  <2>6. before.check.modified # RS!Unset /\ after.check.modified # RS!Unset
    BY <2>3, <2>4, <2>5, Seconds DEF s, t
  <2>7. before.check.modified <= after.check.modified BY <2>6 DEF AsksTwice
  <2>8. s <= t BY <2>5, <2>6, <2>7, Seconds DEF s, t
  <2>9. s \in Nat \cup {RS!Unset} /\ t \in Nat \cup {RS!Unset} BY <2>5, Seconds DEF s, t
  <2>10. s = t BY <2>3, <2>4, <2>8, <2>9
  <2> QED BY <1>6, <2>10 DEF s, t, etag
<1> QED BY <1>5, <1>6

\* A conditional request is answered as the handler alone would answer.
LEMMA ConditionalHolds ==
  ASSUME NEW before, NEW after, AsksTwice(before, after),
         NEW first \in RS!Respond(before), first.status = 200,
         NEW second \in RS!Respond(Conditional(after, first)),
         NEW plain, plain = RS!Respond([after EXCEPT !.filter.on = FALSE]),
         AllGood(plain), InOrder(after.result),
         before.result # after.result
           /\ RS!truncateHTTPTime(before.check.modified) = RS!truncateHTTPTime(after.check.modified)
             => first.headers.etag # RS!NoTag
  PROVE  \E p \in plain : Shown(first, second) = [status |-> p.status, body |-> p.body]
<1> DEFINE q == Conditional(after, first)
           u == Validators(after.check)
           W == KeptTags(after.check) \cup {304, RS!Unset}
<1>1. AsksHandler(before) /\ AsksHandler(after) /\ before.accept = after.accept BY DEF AsksTwice
<1>2. /\ q.method = "GET" /\ q.check = after.check /\ q.result = after.result /\ q.accept = after.accept
      /\ q.filter = after.filter
      /\ q.noneMatch = {first.headers.etag} \ {RS!NoTag}
  <2>1. Again(q, after, first) BY <1>1, AskedAgain
  <2> HIDE DEF q
  <2> QED BY <2>1 DEF Again
<1>3. IsResult(after.result) /\ after.method = "GET" BY <1>1 DEF AsksHandler
<1>4. plain = {RS!Bare(u \o ops) : ops \in RS!ResultWrite(after.result, after)} BY <1>1, AskedPlainly
<1>5. RS!ResultWrite(after.result, q) = RS!ResultWrite(after.result, after) BY <1>2, <1>3, ResultDepends
<1>6. CASE Same(q)
  <2>1. before.result = after.result
    <3> HIDE DEF u, W
    <3> QED BY <1>6, TellsTheSame
  <2>2. \E p \in plain : p.status = 200 /\ p.body = first.body
    <3> HIDE DEF u, W, q
    <3> QED BY <1>1, <2>1, SameBody
  <2>3. second = ToldAs(u \o Unchanged, q)
    <3>1. RS!Respond(q) = {ToldAs(Validators(q.check) \o Unchanged, q)} BY <1>2, <1>6, Responds
    <3> QED BY <1>2, <3>1
  <2>4. second.status = 304
    <3> DEFINE size == RS!Header("length", RS!Unset)
               last == RS!Status(304)
               one == <<size>>
               v == u \o one
               V == Common \cup W
    <3>1. IsSteps(u, {}, V) /\ OnlySets(u)
      <4>1. Common \cup KeptTags(after.check) \subseteq V OBVIOUS
      <4> HIDE DEF V
      <4> QED BY <4>1, ValidatorSteps
    <3>2. /\ size.op = "set" /\ size.name = "length" /\ size.value = RS!Unset
          /\ last.op = "status" /\ last.value = 304
      BY StepsByKind
    <3>3. IsStep(size, {}, V) /\ IsStep(last, {}, V)
      <4> HIDE DEF size, last
      <4> QED BY <3>2 DEF IsStep, StepKinds, HeaderNames
    <3>4. Common \subseteq V OBVIOUS
    <3> HIDE DEF size, last, u, V
    <3>5. one \in Seq({size}) /\ \A i \in 1 .. Len(one) : one[i] = size OBVIOUS
    <3>6. Unchanged = <<size, last>> BY DEF Unchanged, size, last
    <3>7. u \o <<size, last>> = (u \o <<size>>) \o <<last>>
      <4>1. PICK S : u \in Seq(S) BY <3>1 DEF IsSteps
      <4> QED BY <4>1, TwoMore
    <3> HIDE DEF one
    <3>8. IsSteps(one, {}, V)
      <4>1. \A op \in {size} : IsStep(op, {}, V) BY <3>3
      <4> QED BY <3>4, <3>5, <4>1 DEF IsSteps
    <3>9. IsSteps(v, {}, V) /\ OnlySets(v)
      <4>0. Len(u) \in Nat /\ Len(one) \in Nat BY <3>1, <3>8, StepsAreSteps
      <4>1. /\ IsSteps(v, {}, V) /\ Len(v) = Len(u) + Len(one)
            /\ \A i \in 1 .. Len(u) : v[i] = u[i]
            /\ \A i \in 1 .. Len(one) : v[Len(u) + i] = one[i]
        BY <3>1, <3>8, StepsJoin
      <4> HIDE DEF v
      <4>2. ASSUME NEW i \in 1 .. Len(v) PROVE v[i].op = "set"
        <5>1. CASE i <= Len(u) BY <3>1, <4>0, <4>1, <5>1 DEF OnlySets
        <5>2. CASE i > Len(u)
          <6>1. i - Len(u) \in 1 .. Len(one) /\ Len(u) + (i - Len(u)) = i BY <4>0, <4>1, <5>2
          <6>2. v[i] = one[i - Len(u)] BY <4>1, <6>1
          <6> QED BY <3>2, <3>5, <6>1, <6>2
        <5> QED BY <4>0, <4>1, <5>1, <5>2
      <4> QED BY <4>1, <4>2 DEF OnlySets
    <3>10. u \o Unchanged = v \o <<last>> BY <3>6, <3>7 DEF one
    <3> HIDE DEF v, q
    <3>11. RS!Bare(v \o <<last>>).status = 304 /\ RS!ShallowETag(v \o <<last>>, q).status = 304
      BY <1>2, <3>2, <3>3, <3>9, NotModifiedIsTold
    <3> QED BY <2>3, <3>10, <3>11 DEF ToldAs
  <2> HIDE DEF u, W, q
  <2> QED BY <2>2, <2>4 DEF Shown
<1>7. CASE ~Same(q)
  <2>1. PICK ops \in RS!ResultWrite(after.result, after) : second = ToldAs(u \o ops, q)
    <3>1. RS!Respond(q) = {ToldAs(Validators(q.check) \o ops, q) : ops \in RS!ResultWrite(q.result, q)}
      BY <1>2, <1>7, Responds
    <3> QED BY <1>2, <1>5, <3>1
  <2> DEFINE all == u \o ops
             p == RS!Bare(all)
  <2>2. p \in plain /\ p.err = 0 /\ p.status = 200 BY <1>4 DEF AllGood
  <2>3. ArePlain(ops) /\ Ordered(ops) BY <1>3, ResultSteps DEF InOrder
  <2> HIDE DEF W
  <2>4. PICK B, V : IsSteps(ops, B, V) /\ W \subseteq V BY <2>3, PlainSteps
  <2>5. Common \cup KeptTags(after.check) \subseteq V BY <2>4, StepsAreSteps DEF W
  <2>6. IsSteps(all, B, V) /\ Ordered(all) BY <2>3, <2>4, <2>5, ValidatorsFirst
  <2> HIDE DEF q, u, all
  <2>7. CASE second = p
    <3> HIDE DEF p
    <3> QED BY <2>2, <2>7 DEF Shown
  <2>8. CASE second = RS!ShallowETag(all, q)
    <3>1. PassedOn(p, second, q) BY <1>2, <2>2, <2>6, <2>8, FilterPasses
    <3> HIDE DEF p
    <3>2. CASE second.status = 200 /\ second.body = p.body BY <2>2, <3>2 DEF Shown
    <3>3. CASE second.status = 304 /\ \E tag \in HashTags(p.body) : RS!ifNoneMatch(q.noneMatch, tag)
      <4>1. PICK tag \in HashTags(p.body) : RS!ifNoneMatch(q.noneMatch, tag) BY <3>3
      <4> DEFINE etag == first.headers.etag
      <4>2. PICK t \in {etag} \ {RS!NoTag} : t \in {RS!AnyTag, tag} BY <1>2, <4>1 DEF RS!ifNoneMatch
      <4>3. etag \in {RS!NoTag, before.check.tag} \cup HashTags(first.body) BY <1>1, FirstAnswer DEF BearsOwn
      <4> HIDE DEF etag
      <4>4. etag # RS!NoTag /\ etag \in {RS!AnyTag, tag} BY <4>2
      <4>5. etag # RS!AnyTag BY <1>1, <4>3, <4>4, TagsApart
      <4>6. etag = tag BY <4>4, <4>5
      <4>7. before.check.tag # RS!NoTag => before.check.tag \notin HashTags(p.body) BY <1>1, TagsApart
      <4>8. etag \in HashTags(first.body) BY <4>1, <4>3, <4>4, <4>6, <4>7
      <4>9. first.body = p.body BY <1>1, <4>1, <4>6, <4>8, TagsApart
      <4> QED BY <2>2, <3>3, <4>9 DEF Shown
    <3> QED BY <3>1, <3>2, <3>3 DEF PassedOn
  <2>9. second \in {p, RS!ShallowETag(all, q)} BY <2>1 DEF ToldAs, all
  <2> QED BY <2>7, <2>8, <2>9
<1> QED BY <1>6, <1>7

\* A client that asks again with the validators of what it got has in the end
\* what the handler alone would have told it (etag.go: finish; conditional.go:
\* CheckNotModified).
THEOREM ConditionalsAreTransparent == SpecAll => []ConditionalIsTransparent
<1>1. AnswerInv => ConditionalIsTransparent
  <2> SUFFICES ASSUME AnswerInv, Asked("respond") PROVE ConditionalIsTransparent
    BY DEF ConditionalIsTransparent
  <2> DEFINE before == question.before
             after == question.after
             plain == RS!Respond([after EXCEPT !.filter.on = FALSE])
  <2>1. question \in Questions /\ question.kind = "respond" /\ answer = Answered(Reply(question))
    BY DEF AnswerInv, Asked, Asks
  <2>2. answer.value = AskTwice(question) BY <2>1 DEF Answered, Reply
  <2>3. AsksTwice(before, after) BY <2>1, WebAssumption
  <2>4. ASSUME NEW pair \in answer.value
        PROVE  pair.first \in RS!Respond(before) /\ pair.second \in RS!Respond(Conditional(after, pair.first))
    <3>1. PICK first \in RS!Respond(before) :
            pair \in {[first |-> first, second |-> second] : second \in RS!Respond(Conditional(after, first))}
      BY <2>2, <2>4 DEF AskTwice
    <3>2. PICK second \in RS!Respond(Conditional(after, first)) : pair = [first |-> first, second |-> second]
      BY <3>1
    <3> QED BY <3>1, <3>2
  <2> HIDE DEF plain
  <2>5. ASSUME NEW pair \in answer.value,
               \A r \in {pair.first} \cup plain : r.err = 0 /\ r.status = 200,
               InOrder(after.result),
               (before.result # after.result /\ SameSecond) => Tells(pair.first)
        PROVE  \E p \in plain : Shown(pair.first, pair.second) = [status |-> p.status, body |-> p.body]
    <3> DEFINE first == pair.first
               second == pair.second
    <3>1. first \in RS!Respond(before) /\ second \in RS!Respond(Conditional(after, first)) BY <2>4
    <3>2. first.status = 200 /\ AllGood(plain) BY <2>5 DEF AllGood
    <3>3. before.result # after.result
             /\ RS!truncateHTTPTime(before.check.modified) = RS!truncateHTTPTime(after.check.modified)
               => first.headers.etag # RS!NoTag
      BY <2>5 DEF SameSecond, Tells
    <3>4. plain = RS!Respond([after EXCEPT !.filter.on = FALSE]) BY DEF plain
    <3> HIDE DEF first, second, before, after
    <3>5. \E p \in plain : Shown(first, second) = [status |-> p.status, body |-> p.body]
      BY <2>3, <2>5, <3>1, <3>2, <3>3, <3>4, ConditionalHolds
    <3> QED BY <3>5 DEF first, second
  <2>6. ASSUME NEW pair \in answer.value,
               \A r \in {pair.first} \cup plain : r.err = 0 /\ r.status = 200,
               after.result.kind = "direct" => Orderly(after.result.ops),
               (before.result # after.result /\ SameSecond) => Tells(pair.first)
        PROVE  \E p \in plain : (IF pair.second.status = 304 THEN [status |-> pair.first.status, body |-> pair.first.body]
                                 ELSE [status |-> pair.second.status, body |-> pair.second.body])
                                = [status |-> p.status, body |-> p.body]
    <3>1. InOrder(after.result) BY <2>6 DEF InOrder
    <3> HIDE DEF before, after
    <3>2. \E p \in plain : Shown(pair.first, pair.second) = [status |-> p.status, body |-> p.body]
      BY <2>5, <2>6, <3>1
    <3> QED BY <3>2 DEF Shown
  <2> DEFINE Has(pair) == IF pair.second.status = 304 THEN [status |-> pair.first.status, body |-> pair.first.body]
                          ELSE [status |-> pair.second.status, body |-> pair.second.body]
             Good(pair) == \A r \in {pair.first} \cup plain : r.err = 0 /\ r.status = 200
             Known(pair) == (before.result # after.result /\ SameSecond) => Tells(pair.first)
             Gets(pair) == \E p \in plain : Has(pair) = [status |-> p.status, body |-> p.body]
  <2>7. ConditionalIsTransparent
          <=> (Asked("respond") => \A pair \in answer.value :
                 Good(pair) /\ (after.result.kind = "direct" => Orderly(after.result.ops)) /\ after.method = "GET" /\ Known(pair)
                   => Gets(pair))
    BY DEF ConditionalIsTransparent, plain
  <2>8. ASSUME NEW pair \in answer.value, Good(pair), after.result.kind = "direct" => Orderly(after.result.ops), Known(pair)
        PROVE  Gets(pair)
    BY <2>6, <2>8
  <2> HIDE DEF Good, Known, Gets
  <2> QED BY <2>7, <2>8
<1> QED BY <1>1, AnswersAreReplies, PTL
==============================================================================
