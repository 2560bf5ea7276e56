-------------------------- MODULE HookOrderProofs --------------------------
(***************************************************************************)
(* Facts about lists of hooks without repetitions: what taking the first   *)
(* or the last element leaves, what appending one adds, and what the       *)
(* start order of a set of hooks gives.                                    *)
(***************************************************************************)
EXTENDS HookOrder, SequencesExt, SequenceTheorems, FiniteSetTheorems, TLAPS

\* Taking the head: it is not in the tail, and counts as base for the tail.
LEMMA HeadFacts ==
  ASSUME NEW S, NEW D, NEW base, NEW s \in Seq(S), s # <<>>, IsInjective(s)
  PROVE  /\ Head(s) \in S
         /\ Tail(s) \in Seq(S)
         /\ Range(s) = {Head(s)} \cup Range(Tail(s))
         /\ Head(s) \notin Range(Tail(s))
         /\ IsInjective(Tail(s))
         /\ Layered(D, base, s) =>
              /\ D[Head(s)] \subseteq base
              /\ Layered(D, base \cup {Head(s)}, Tail(s))
<1> DEFINE n == Len(s)
           r == Tail(s)
<1>1. /\ n \in Nat \ {0}
      /\ DOMAIN s = 1 .. n
      /\ Head(s) = s[1]
      /\ Head(s) \in S
      /\ r \in Seq(S)
      /\ DOMAIN r = 1 .. (n - 1)
      /\ \A i \in 1 .. (n - 1) : r[i] = s[i + 1]
  BY HeadTailProperties, EmptySeq, LenProperties
<1> HIDE DEF r, n
<1>2. Range(s) = {Head(s)} \cup Range(r)
  <2>1. ASSUME NEW i \in DOMAIN s PROVE s[i] \in {Head(s)} \cup Range(r)
    <3>1. CASE i = 1 BY <1>1, <3>1
    <3>2. CASE i # 1
      <4>1. i - 1 \in 1 .. (n - 1) /\ r[i - 1] = s[i] BY <1>1, <3>2, <2>1
      <4> QED BY <4>1, <1>1 DEF Range
    <3> QED BY <3>1, <3>2
  <2>2. ASSUME NEW i \in DOMAIN r PROVE r[i] \in Range(s)
    <3>1. i + 1 \in 1 .. n /\ r[i] = s[i + 1] BY <1>1, <2>2
    <3> QED BY <3>1, <1>1 DEF Range
  <2>3. Head(s) \in Range(s) BY <1>1 DEF Range
  <2> QED BY <2>1, <2>2, <2>3 DEF Range
<1>3. Head(s) \notin Range(r)
  <2> SUFFICES ASSUME NEW i \in DOMAIN r, r[i] = Head(s) PROVE FALSE BY DEF Range
  <2>1. i + 1 \in 1 .. n /\ s[i + 1] = s[1] /\ 1 \in 1 .. n /\ i \in 1 .. (n - 1)
    BY <1>1
  <2>2. i + 1 \in DOMAIN s /\ 1 \in DOMAIN s BY <2>1, <1>1
  <2>3. i + 1 = 1 BY <2>1, <2>2 DEF IsInjective
  <2> QED BY <2>1, <2>3
<1>4. IsInjective(r)
  <2> SUFFICES ASSUME NEW i \in DOMAIN r, NEW j \in DOMAIN r, r[i] = r[j] PROVE i = j
    BY DEF IsInjective
  <2>1. i + 1 \in 1 .. n /\ j + 1 \in 1 .. n /\ s[i + 1] = s[j + 1] BY <1>1
  <2>2. i + 1 \in DOMAIN s /\ j + 1 \in DOMAIN s BY <2>1, <1>1
  <2>3. i + 1 = j + 1 BY <2>1, <2>2 DEF IsInjective
  <2> QED BY <2>3, <1>1
<1>5. ASSUME Layered(D, base, s)
      PROVE  /\ D[Head(s)] \subseteq base
             /\ Layered(D, base \cup {Head(s)}, r)
  <2>1. D[s[1]] \subseteq base \cup {s[j] : j \in 1 .. (1 - 1)}
    BY <1>5, <1>1 DEF Layered
  <2>2. 1 .. (1 - 1) = {} OBVIOUS
  <2>3. ASSUME NEW i \in DOMAIN r
        PROVE  D[r[i]] \subseteq (base \cup {Head(s)}) \cup {r[j] : j \in 1 .. (i - 1)}
    <3>1. i + 1 \in DOMAIN s /\ r[i] = s[i + 1] BY <1>1, <2>3
    <3>2. D[s[i + 1]] \subseteq base \cup {s[j] : j \in 1 .. ((i + 1) - 1)}
      BY <3>1, <1>5 DEF Layered
    <3>3. ASSUME NEW j \in 1 .. ((i + 1) - 1)
          PROVE  s[j] \in {Head(s)} \cup {r[k] : k \in 1 .. (i - 1)}
      <4>1. CASE j = 1 BY <4>1, <1>1
      <4>2. CASE j # 1
        <5>1. j - 1 \in 1 .. (i - 1) /\ j - 1 \in 1 .. (n - 1) /\ r[j - 1] = s[j]
          BY <1>1, <4>2, <3>3, <2>3
        <5> QED BY <5>1
      <4> QED BY <4>1, <4>2
    <3> QED BY <3>1, <3>2, <3>3
  <2> QED BY <2>1, <2>2, <2>3, <1>1 DEF Layered
<1> QED BY <1>1, <1>2, <1>3, <1>4, <1>5 DEF r

\* Taking the last: it is not in the front, and nothing in the front needs it.
LEMMA LastFacts ==
  ASSUME NEW S, NEW D, NEW base, NEW s \in Seq(S), s # <<>>, IsInjective(s)
  PROVE  /\ Last(s) \in S
         /\ Front(s) \in Seq(S)
         /\ Range(s) = {Last(s)} \cup Range(Front(s))
         /\ Last(s) \notin Range(Front(s))
         /\ IsInjective(Front(s))
         /\ Layered(D, base, s) =>
              /\ Layered(D, base, Front(s))
              /\ D[Last(s)] \subseteq base \cup Range(Front(s))
<1> DEFINE n == Len(s)
           r == Front(s)
<1>1. /\ n \in Nat \ {0}
      /\ DOMAIN s = 1 .. n
      /\ Last(s) = s[n]
      /\ Last(s) \in S
  BY EmptySeq, LenProperties, ElementOfSeq DEF Last
<1>2. /\ r \in Seq(S)
      /\ DOMAIN r = 1 .. (n - 1)
      /\ \A i \in 1 .. (n - 1) : r[i] = s[i]
  BY <1>1 DEF Front
<1> HIDE DEF r, n
<1>3. Range(s) = {Last(s)} \cup Range(r)
  <2>1. ASSUME NEW i \in DOMAIN s PROVE s[i] \in {Last(s)} \cup Range(r)
    <3>1. CASE i = n BY <1>1, <3>1
    <3>2. CASE i # n
      <4>1. i \in 1 .. (n - 1) BY <1>1, <3>2, <2>1
      <4> QED BY <4>1, <1>2 DEF Range
    <3> QED BY <3>1, <3>2
  <2>2. ASSUME NEW i \in DOMAIN r PROVE r[i] \in Range(s)
    BY <1>1, <1>2, <2>2 DEF Range
  <2>3. Last(s) \in Range(s) BY <1>1 DEF Range
  <2> QED BY <2>1, <2>2, <2>3 DEF Range
<1>4. Last(s) \notin Range(r)
  <2> SUFFICES ASSUME NEW i \in DOMAIN r, r[i] = Last(s) PROVE FALSE BY DEF Range
  <2>1. i \in 1 .. n /\ n \in 1 .. n /\ s[i] = s[n] /\ i # n BY <1>1, <1>2
  <2> QED BY <2>1, <1>1 DEF IsInjective
<1>5. IsInjective(r)
  <2> SUFFICES ASSUME NEW i \in DOMAIN r, NEW j \in DOMAIN r, r[i] = r[j] PROVE i = j
    BY DEF IsInjective
  <2>1. i \in 1 .. n /\ j \in 1 .. n /\ s[i] = s[j] BY <1>1, <1>2
  <2> QED BY <2>1, <1>1 DEF IsInjective
<1>6. ASSUME Layered(D, base, s)
      PROVE  /\ Layered(D, base, r)
             /\ D[Last(s)] \subseteq base \cup Range(r)
  <2>1. ASSUME NEW i \in 1 .. n
        PROVE  D[s[i]] \subseteq base \cup {r[j] : j \in 1 .. (i - 1)}
    <3>1. D[s[i]] \subseteq base \cup {s[j] : j \in 1 .. (i - 1)}
      BY <1>6, <1>1 DEF Layered
    <3>2. \A j \in 1 .. (i - 1) : j \in 1 .. (n - 1) /\ s[j] = r[j] BY <1>1, <1>2
    <3> QED BY <3>1, <3>2
  <2>2. Layered(D, base, r)
    <3>1. \A i \in 1 .. (n - 1) : i \in 1 .. n BY <1>1
    <3> QED BY <2>1, <3>1, <1>2 DEF Layered
  <2>3. D[s[n]] \subseteq base \cup {r[j] : j \in 1 .. (n - 1)} BY <2>1, <1>1
  <2>4. {r[j] : j \in 1 .. (n - 1)} \subseteq Range(r) BY <1>2 DEF Range
  <2> QED BY <2>2, <2>3, <2>4, <1>1
<1> QED BY <1>1, <1>2, <1>3, <1>4, <1>5, <1>6 DEF r

\* The two facts used to see that what a head or a last hook needs is in place.
LEMMA HeadNeeds ==
  ASSUME NEW S, NEW D, NEW base, NEW s \in Seq(S), s # <<>>, IsInjective(s),
         Layered(D, base, s)
  PROVE  Head(s) \in Range(s) /\ D[Head(s)] \subseteq base
<1>1. Range(s) = {Head(s)} \cup Range(Tail(s)) BY HeadFacts
<1>2. D[Head(s)] \subseteq base BY HeadFacts
<1> QED BY <1>1, <1>2

\* The last of a layered list finds all it demands before it.
LEMMA LastNeeds ==
  ASSUME NEW S, NEW D, NEW s \in Seq(S), s # <<>>, IsInjective(s), Layered(D, {}, s)
  PROVE  D[Last(s)] \subseteq Range(Front(s))
<1>1. D[Last(s)] \subseteq {} \cup Range(Front(s)) BY LastFacts
<1> QED BY <1>1

\* Appending an element that is not there and whose demands are.
LEMMA AppendFacts ==
  ASSUME NEW S, NEW D, NEW s \in Seq(S), IsInjective(s), NEW x \in S, x \notin Range(s)
  PROVE  /\ Append(s, x) \in Seq(S)
         /\ Range(Append(s, x)) = Range(s) \cup {x}
         /\ IsInjective(Append(s, x))
         /\ Layered(D, {}, s) /\ D[x] \subseteq Range(s) => Layered(D, {}, Append(s, x))
<1> DEFINE n == Len(s)
           r == Append(s, x)
<1>1. /\ n \in Nat
      /\ DOMAIN s = 1 .. n
      /\ r \in Seq(S)
      /\ DOMAIN r = 1 .. (n + 1)
      /\ \A i \in 1 .. n : r[i] = s[i]
      /\ r[n + 1] = x
  BY AppendProperties, LenProperties
<1> HIDE DEF r, n
<1>2. Range(r) = Range(s) \cup {x}
  <2>1. ASSUME NEW i \in DOMAIN r PROVE r[i] \in Range(s) \cup {x}
    <3>1. CASE i = n + 1 BY <1>1, <3>1
    <3>2. CASE i # n + 1
      <4>1. i \in 1 .. n BY <1>1, <3>2, <2>1
      <4> QED BY <4>1, <1>1 DEF Range
    <3> QED BY <3>1, <3>2
  <2>2. ASSUME NEW i \in DOMAIN s PROVE s[i] \in Range(r)
    <3>1. i \in 1 .. (n + 1) /\ r[i] = s[i] BY <1>1
    <3> QED BY <3>1, <1>1 DEF Range
  <2>3. x \in Range(r)
    <3>1. n + 1 \in 1 .. (n + 1) BY <1>1
    <3> QED BY <3>1, <1>1 DEF Range
  <2> QED BY <2>1, <2>2, <2>3 DEF Range
<1>3. IsInjective(r)
  <2> SUFFICES ASSUME NEW i \in DOMAIN r, NEW j \in DOMAIN r, r[i] = r[j] PROVE i = j
    BY DEF IsInjective
  <2>1. \A k \in 1 .. n : s[k] # x BY <1>1 DEF Range
  <2>2. \A k \in 1 .. (n + 1) : k = n + 1 \/ k \in 1 .. n BY <1>1
  <2>3. CASE i = n + 1 BY <2>1, <2>2, <2>3, <1>1
  <2>4. CASE j = n + 1 BY <2>1, <2>2, <2>4, <1>1
  <2>5. CASE i \in 1 .. n /\ j \in 1 .. n BY <2>5, <1>1 DEF IsInjective
  <2> QED BY <2>2, <2>3, <2>4, <2>5, <1>1
<1>4. ASSUME Layered(D, {}, s), D[x] \subseteq Range(s) PROVE Layered(D, {}, r)
  <2> SUFFICES ASSUME NEW i \in 1 .. (n + 1)
               PROVE  D[r[i]] \subseteq {r[j] : j \in 1 .. (i - 1)}
    BY <1>1 DEF Layered
  <2>1. CASE i = n + 1
    <3>1. Range(s) = {r[j] : j \in 1 .. n} BY <1>1 DEF Range
    <3> QED BY <3>1, <2>1, <1>1, <1>4
  <2>2. CASE i # n + 1
    <3>1. i \in 1 .. n BY <2>2, <1>1
    <3>2. D[s[i]] \subseteq {s[j] : j \in 1 .. (i - 1)} BY <3>1, <1>1, <1>4 DEF Layered
    <3>3. \A j \in 1 .. (i - 1) : j \in 1 .. n /\ s[j] = r[j] BY <3>1, <1>1
    <3> QED BY <3>1, <3>2, <3>3, <1>1
  <2> QED BY <2>1, <2>2
<1> QED BY <1>1, <1>2, <1>3, <1>4 DEF r

\* A list whose layers start from nothing holds what its members demand.
LEMMA LayeredClosed ==
  ASSUME NEW D, NEW s, DOMAIN s = 1 .. Len(s), Len(s) \in Nat, Layered(D, {}, s)
  PROVE  \A x \in Range(s) : D[x] \subseteq Range(s)
<1> SUFFICES ASSUME NEW i \in DOMAIN s PROVE D[s[i]] \subseteq Range(s) BY DEF Range
<1>1. D[s[i]] \subseteq {s[j] : j \in 1 .. (i - 1)} BY DEF Layered
<1>2. \A j \in 1 .. (i - 1) : j \in DOMAIN s OBVIOUS
<1> QED BY <1>1, <1>2 DEF Range

\* The empty list has nothing, repeats nothing and demands nothing.
LEMMA EmptyList == Range(<<>>) = {} /\ \A D, base : Layered(D, base, <<>>) /\ IsInjective(<<>>)
BY DEF Range, Layered, IsInjective

\* When exactly the hooks of a layered list are up, every hook that is up finds
\* what it depends on up.
LEMMA UpDependencies ==
  ASSUME NEW H \in SUBSET Hook, NEW deps, NEW s \in Seq(Hook), NEW u,
         Layered([h \in Hook |-> DepsIn(H, deps, h)], {}, s),
         \A g \in Hook : u[g] = IF g \in Range(s) THEN 1 ELSE 0
  PROVE  \A h \in H : u[h] > 0 => \A d \in DepsIn(H, deps, h) : u[d] > 0
<1> SUFFICES ASSUME NEW h \in H, u[h] > 0, NEW d \in DepsIn(H, deps, h) PROVE u[d] > 0
  OBVIOUS
<1>1. h \in Range(s) OBVIOUS
<1>2. DOMAIN s = 1 .. Len(s) /\ Len(s) \in Nat BY LenProperties
<1>3. DepsIn(H, deps, h) \subseteq Range(s) BY <1>1, <1>2, LayeredClosed
<1>4. d \in Range(s) /\ d \in Hook BY <1>3 DEF DepsIn
<1>5. u[d] = 1 BY <1>4
<1> QED BY <1>5

\* What a start order gives: the registered hooks, each once, after the
\* registered hooks it depends on (dependencySortedHooks).
LEMMA StartOrderFacts ==
  ASSUME NEW H \in SUBSET Hook, IsFiniteSet(H), NEW deps, NEW s \in StartOrders(H, deps)
  PROVE  /\ s \in Seq(Hook)
         /\ Range(s) = H
         /\ IsInjective(s)
         /\ Layered([h \in Hook |-> DepsIn(H, deps, h)], {}, s)
<1>2. Cardinality(H) \in Nat BY FS_CardinalityType
<1>3. s \in Seq(Hook) /\ DOMAIN s = 1 .. Cardinality(H)
  BY <1>2, IsASeq DEF StartOrders
<1>4. IsStartOrder(s, H, deps) BY DEF StartOrders
<1>5. ASSUME NEW i \in DOMAIN s
      PROVE  DepsIn(H, deps, s[i]) \subseteq {s[j] : j \in 1 .. (i - 1)}
  BY <1>4 DEF IsStartOrder, IsLeast, ReadyHooks
<1>6. \A i \in DOMAIN s : s[i] \in Hook BY DEF StartOrders
<1> QED BY <1>3, <1>4, <1>5, <1>6 DEF IsStartOrder, Layered

-----------------------------------------------------------------------------
\* Every set of numbers that is not empty has a least one.
LEMMA LeastNumber ==
  ASSUME NEW S \in SUBSET Nat, S # {}
  PROVE  \E m \in S : \A k \in S : m <= k
<1>1. PICK m \in S : \A k \in S : <<k, m>> \notin OpToRel(<, Nat)
  BY WFMin, NatLessThanWellFounded, Zenon
<1>2. \A k \in S : ~ (k < m) BY <1>1, Zenon DEF OpToRel
<1> QED BY <1>2

\* lessHook is a strict order in which any two hooks can be compared.
LEMMA LessHookIsOrder ==
  ASSUME HookAssumption, NEW f \in Hook, NEW g \in Hook, NEW h \in Hook
  PROVE  /\ ~ LessHook(h, h)
         /\ LessHook(f, g) /\ LessHook(g, h) => LessHook(f, h)
         /\ g # h => LessHook(g, h) \/ LessHook(h, g)
         /\ ~ (LessHook(g, h) /\ LessHook(h, g))
<1>1. /\ \A x \in {f, g, h} : /\ Meta[x].priority \in BOOLEAN
                              /\ Meta[x].order \in Int /\ Meta[x].name \in Int
      /\ g # h => Meta[g].name # Meta[h].name
  BY DEF HookAssumption
<1> QED BY <1>1 DEF LessHook

\* Some hook of a set is the first of it: the head of the sorted ready list.
LEMMA LeastExists ==
  ASSUME HookAssumption, NEW S \in SUBSET Hook, S # {}
  PROVE  \E h : IsLeast(h, S)
<1> DEFINE Below(x) == {y \in S : LessHook(y, x)}
           Sizes == {Cardinality(Below(x)) : x \in S}
<1>1. IsFiniteSet(S) BY FS_Subset DEF HookAssumption
<1>2. ASSUME NEW x \in S PROVE IsFiniteSet(Below(x)) /\ Cardinality(Below(x)) \in Nat
  <2>1. Below(x) \in SUBSET S OBVIOUS
  <2> HIDE DEF Below
  <2> QED BY <1>1, <2>1, FS_Subset, FS_CardinalityType
<1>3. PICK x \in S : \A y \in S : Cardinality(Below(x)) <= Cardinality(Below(y))
  <2>1. Sizes \in SUBSET Nat /\ Sizes # {} BY <1>2
  <2>2. PICK m \in Sizes : \A k \in Sizes : m <= k BY <2>1, LeastNumber
  <2> HIDE DEF Below
  <2> QED BY <2>2
<1>4. ASSUME NEW y \in S, LessHook(y, x) PROVE FALSE
  <2>1. Below(y) \in SUBSET Below(x) BY <1>4, LessHookIsOrder
  <2>2. y \in Below(x) /\ y \notin Below(y) BY <1>4, LessHookIsOrder
  <2> HIDE DEF Below
  <2>3. /\ Cardinality(Below(y)) <= Cardinality(Below(x))
        /\ Cardinality(Below(x)) = Cardinality(Below(y)) => Below(x) = Below(y)
    BY <1>2, <2>1, FS_Subset
  <2>4. Cardinality(Below(x)) <= Cardinality(Below(y)) BY <1>3
  <2> QED BY <1>2, <2>2, <2>3, <2>4
<1>5. \A g \in S \ {x} : LessHook(x, g) BY <1>4, LessHookIsOrder
<1> QED BY <1>5 DEF IsLeast

\* No two hooks are both first.
LEMMA LeastIsOne ==
  ASSUME HookAssumption, NEW S \in SUBSET Hook, NEW g, NEW h, IsLeast(g, S), IsLeast(h, S)
  PROVE  g = h
BY LessHookIsOrder DEF IsLeast

\* There is at most one start order of a set of hooks, so that Start and Close,
\* which sort separately, agree.
LEMMA OneStartOrder ==
  ASSUME HookAssumption, NEW H \in SUBSET Hook, NEW deps,
         NEW r \in StartOrders(H, deps), NEW s \in StartOrders(H, deps)
  PROVE  r = s
<1> DEFINE N == Cardinality(H)
           Differ == {i \in 1 .. N : r[i] # s[i]}
<1>1. N \in Nat BY FS_Subset, FS_CardinalityType DEF HookAssumption
<1>2. r \in [1 .. N -> H] /\ s \in [1 .. N -> H] /\ IsStartOrder(r, H, deps) /\ IsStartOrder(s, H, deps)
  BY DEF StartOrders
<1> HIDE DEF N
<1>3. Differ = {}
  <2> SUFFICES ASSUME Differ # {} PROVE FALSE OBVIOUS
  <2>1. Differ \in SUBSET Nat BY <1>1
  <2>2. PICK m \in Differ : \A k \in Differ : m <= k BY <2>1, LeastNumber
  <2>3. m \in 1 .. N /\ r[m] # s[m] OBVIOUS
  <2>4. \A j \in 1 .. (m - 1) : r[j] = s[j] BY <1>1, <2>2, <2>3
  <2>5. {r[j] : j \in 1 .. (m - 1)} = {s[j] : j \in 1 .. (m - 1)} BY <2>4
  <2> DEFINE R == ReadyHooks(H, deps, {s[j] : j \in 1 .. (m - 1)})
  <2>6. R \in SUBSET Hook BY DEF ReadyHooks
  <2>7. IsLeast(r[m], R) /\ IsLeast(s[m], R) BY <1>2, <2>3, <2>5 DEF IsStartOrder
  <2> HIDE DEF R
  <2> QED BY <2>3, <2>6, <2>7, LeastIsOne
<1>4. \A i \in 1 .. N : r[i] = s[i] BY <1>3
<1>5. r = [i \in 1 .. N |-> r[i]] /\ s = [i \in 1 .. N |-> s[i]] BY <1>2
<1> QED BY <1>4, <1>5, Zenon

\* Hooks that each need one another have no start order.
LEMMA CycleHasNoOrder ==
  ASSUME HookAssumption, NEW H \in SUBSET Hook, NEW deps, NEW C \in SUBSET H, C # {},
         \A h \in C : DepsIn(H, deps, h) \cap C # {}
  PROVE  StartOrders(H, deps) = {}
<1> SUFFICES ASSUME NEW s \in StartOrders(H, deps) PROVE FALSE OBVIOUS
<1> DEFINE N == Cardinality(H)
           Where == {i \in 1 .. N : s[i] \in C}
<1>1. N \in Nat BY FS_Subset, FS_CardinalityType DEF HookAssumption
<1>2. s \in [1 .. N -> H] /\ IsStartOrder(s, H, deps) BY DEF StartOrders
<1> HIDE DEF N
<1>3. Where \in SUBSET Nat /\ Where # {} BY <1>1, <1>2 DEF IsStartOrder, Range
<1>4. PICK m \in Where : \A k \in Where : m <= k BY <1>3, LeastNumber
<1>5. m \in 1 .. N /\ s[m] \in C OBVIOUS
<1>6. PICK d \in C : d \in DepsIn(H, deps, s[m]) BY <1>5
<1>7. DepsIn(H, deps, s[m]) \subseteq {s[j] : j \in 1 .. (m - 1)}
  BY <1>2, <1>5 DEF IsStartOrder, IsLeast, ReadyHooks
<1>8. PICK j \in 1 .. (m - 1) : d = s[j] BY <1>6, <1>7
<1>9. j \in Where BY <1>1, <1>5, <1>8
<1> QED BY <1>1, <1>4, <1>5, <1>8, <1>9

\* Hooks whose dependencies have no cycle can be sorted.
LEMMA AcyclicHasOrder ==
  ASSUME HookAssumption, NEW H \in SUBSET Hook, NEW deps, Acyclic(H, deps)
  PROVE  StartOrders(H, deps) # {}
<1> DEFINE N == Cardinality(H)
           Before(s, i) == {s[j] : j \in 1 .. (i - 1)}
           Good(s, n) == /\ s \in [1 .. n -> H] /\ IsInjective(s)
                         /\ \A i \in 1 .. n : IsLeast(s[i], ReadyHooks(H, deps, Before(s, i)))
           Bad == {n \in 0 .. N : \A s : ~ Good(s, n)}
<1>1. IsFiniteSet(H) /\ N \in Nat BY FS_Subset, FS_CardinalityType DEF HookAssumption
<1>2. ASSUME Bad # {} PROVE FALSE
  <2>1. Bad \in SUBSET Nat BY <1>1
  <2>2. PICK m \in Bad : \A k \in Bad : m <= k
    <3> HIDE DEF Bad
    <3> QED BY <1>2, <2>1, LeastNumber
  <2>3. m # 0
    <3>1. Good([i \in 1 .. 0 |-> i], 0) BY DEF IsInjective
    <3> QED BY <3>1
  <2>4. m - 1 \in 0 .. N /\ m - 1 \notin Bad /\ m \in 1 .. N
    <3>1. m \in 0 .. N OBVIOUS
    <3>2. m - 1 \in 0 .. N /\ m \in 1 .. N BY <1>1, <2>3, <3>1
    <3>3. m - 1 \notin Bad
      <4> HIDE DEF Bad
      <4> QED BY <2>2, <3>2
    <3> QED BY <3>2, <3>3
  <2>5. PICK s : Good(s, m - 1) BY <2>4
  <2>6. PICK rest : rest = H \ Before(s, m) OBVIOUS
  <2>7. rest # {}
    <3> SUFFICES ASSUME H \subseteq Before(s, m) PROVE FALSE BY <2>6
    <3>1. s \in Surjection(1 .. (m - 1), H) BY <2>5 DEF Surjection
    <3>2. N <= m - 1 BY <2>4, <3>1, FS_SurjCardinalityBound DEF ExistsSurjection
    <3> QED BY <1>1, <2>4, <3>2
  <2>8. PICK h \in rest : deps[h] \cap rest = {} BY <2>6, <2>7 DEF Acyclic
  <2>9. h \in ReadyHooks(H, deps, Before(s, m)) BY <2>6, <2>8 DEF ReadyHooks, DepsIn
  <2>10. ReadyHooks(H, deps, Before(s, m)) \in SUBSET Hook BY DEF ReadyHooks
  <2>11. PICK x : IsLeast(x, ReadyHooks(H, deps, Before(s, m)))
    <3> HIDE DEF Before
    <3> QED BY <2>9, <2>10, LeastExists
  <2>12. x \in H /\ x \notin Before(s, m) BY <2>11 DEF IsLeast, ReadyHooks
  <2> DEFINE r == [i \in 1 .. m |-> IF i = m THEN x ELSE s[i]]
  <2>13. r \in [1 .. m -> H] /\ r[m] = x /\ \A i \in 1 .. (m - 1) : r[i] = s[i]
    BY <2>4, <2>5, <2>12
  <2>14. IsInjective(r)
    <3>1. \A i \in 1 .. (m - 1) : r[i] # x BY <2>12, <2>13
    <3>2. \A i, j \in 1 .. (m - 1) : r[i] = r[j] => i = j BY <2>5, <2>13 DEF IsInjective
    <3>3. DOMAIN r = 1 .. m BY <2>13
    <3> HIDE DEF r
    <3> QED BY <2>4, <2>13, <3>1, <3>2, <3>3 DEF IsInjective
  <2>15. \A i \in 1 .. m : Before(r, i) = Before(s, i)
    <3> HIDE DEF r
    <3> QED BY <2>4, <2>13
  <2>16. \A i \in 1 .. m : IsLeast(r[i], ReadyHooks(H, deps, Before(r, i)))
    <3> HIDE DEF r, Before
    <3> QED BY <2>4, <2>5, <2>11, <2>13, <2>15
  <2>17. Good(r, m) BY <2>13, <2>14, <2>16
  <2> HIDE DEF r, Good
  <2> QED BY <2>17
<1>3. PICK s : Good(s, N)
  <2> HIDE DEF N, Good
  <2>1. N \in 0 .. N BY <1>1
  <2> QED BY <1>2, <2>1
<1>4. s \in [1 .. N -> H] /\ IsInjective(s) BY <1>3
<1>5. s \in Surjection(1 .. N, H)
  <2>1. s \in Injection(1 .. N, H) BY <1>4 DEF Injection, IsInjective
  <2>2. Cardinality(1 .. N) = N BY <1>1, FS_Interval
  <2> QED BY <1>1, <2>1, <2>2, FS_Injection
<1>6. Range(s) = H BY <1>4, <1>5 DEF Surjection, Range
<1>7. IsStartOrder(s, H, deps) BY <1>3, <1>4, <1>6 DEF IsStartOrder
<1> QED BY <1>4, <1>7 DEF StartOrders
=============================================================================
