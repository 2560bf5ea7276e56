--------------------------- MODULE StartupProofs ---------------------------
(***************************************************************************)
(* Theorems about Startup for any beans, hooks, listeners and goroutines:  *)
(* the lifecycle order a Refresh arrives at, what a Publish calls, which   *)
(* dependency graphs a container refuses, its startup order, what a        *)
(* Refresh builds from declarations, and what a lookup by type finds.      *)
(***************************************************************************)
EXTENDS Startup, HookOrderProofs

-----------------------------------------------------------------------------
\* The sort.  The loop of dependencySortedHooks has emitted the beginning of
\* the start order, counts what each other hook waits for, and has as ready
\* the hooks that wait for nothing.

Results == {"none", "looping", "sorted", "circular"}

SortTypeOK ==
  /\ hooks \in SUBSET Hook
  /\ deps \in [Hook -> SUBSET Hook]
  /\ inDegree \in [Hook -> Int]
  /\ ready \in SUBSET Hook
  /\ sorted \in Seq(Hook)
  /\ result \in Results

EmittedInOrder ==
  /\ Emitted \subseteq hooks
  /\ IsInjective(sorted)
  /\ \A i \in DOMAIN sorted :
       IsLeast(sorted[i], ReadyHooks(hooks, deps, {sorted[j] : j \in 1 .. (i - 1)}))

Counted ==
  /\ ready = ReadyHooks(hooks, deps, Emitted)
  /\ \A h \in hooks \ Emitted :
       inDegree[h] = Cardinality(DepsIn(hooks, deps, h) \ Emitted)

SortInv ==
  /\ SortTypeOK
  /\ EmittedInOrder
  /\ result = "none" => sorted = <<>>
  /\ result # "none" => Counted
  /\ result = "sorted" => Len(sorted) = Cardinality(hooks)
  /\ result = "circular" => Len(sorted) < Cardinality(hooks) /\ ready = {}

\* What is still to come out of the dependencies of a hook is a finite set.
LEMMA FiniteDeps ==
  ASSUME HookAssumption, NEW H \in SUBSET Hook, NEW d, NEW h, NEW S
  PROVE  /\ IsFiniteSet(DepsIn(H, d, h) \ S)
         /\ Cardinality(DepsIn(H, d, h) \ S) \in Nat
         /\ Cardinality(DepsIn(H, d, h) \ S) = 0 <=> DepsIn(H, d, h) \subseteq S
<1>1. DepsIn(H, d, h) \ S \in SUBSET Hook BY DEF DepsIn
<1>2. IsFiniteSet(DepsIn(H, d, h) \ S) BY <1>1, FS_Subset DEF HookAssumption
<1> QED BY <1>2, FS_CardinalityType, FS_EmptySet

\* Counting starts the loop: what nothing is demanded of is ready.
LEMMA CountInv ==
  ASSUME HookAssumption, SortInv, Count
  PROVE  SortInv'
<1> USE DEF SortInv
<1>1. /\ sorted = <<>> /\ sorted' = sorted /\ hooks' = hooks /\ deps' = deps
      /\ result' = "looping"
      /\ \A h \in Hook : inDegree'[h] = Cardinality(DepsIn(hooks, deps, h))
      /\ ready' = {h \in hooks : inDegree'[h] = 0}
  BY DEF Count, SortTypeOK
<1>2. Emitted = {} /\ Emitted' = {} BY <1>1, EmptyList DEF Emitted
<1>3. \A h \in Hook : /\ Cardinality(DepsIn(hooks, deps, h)) \in Nat
                      /\ inDegree'[h] = 0 <=> DepsIn(hooks, deps, h) \subseteq {}
  <2> TAKE h \in Hook
  <2>1. DepsIn(hooks, deps, h) \ {} = DepsIn(hooks, deps, h) OBVIOUS
  <2>2. /\ Cardinality(DepsIn(hooks, deps, h) \ {}) \in Nat
        /\ Cardinality(DepsIn(hooks, deps, h) \ {}) = 0 <=> DepsIn(hooks, deps, h) \subseteq {}
    BY FiniteDeps, Zenon DEF SortTypeOK
  <2> QED BY <1>1, <2>1, <2>2, Zenon
<1>4. SortTypeOK'
  BY <1>1, <1>3 DEF Count, SortTypeOK, Results
<1>5. Counted'
  <2>1. ready' = ReadyHooks(hooks, deps, {}) BY <1>1, <1>3 DEF ReadyHooks, SortTypeOK
  <2>2. \A h \in hooks : DepsIn(hooks, deps, h) \ {} = DepsIn(hooks, deps, h) OBVIOUS
  <2> QED BY <1>1, <1>2, <2>1, <2>2 DEF Counted, SortTypeOK
<1> QED BY <1>1, <1>2, <1>4, <1>5 DEF EmittedInOrder, Emitted

\* A turn of the loop puts out the next hook of the order, and what waited for
\* it alone becomes ready.
LEMMA EmitInv ==
  ASSUME HookAssumption, SortInv, NEW h \in Hook, Emit(h)
  PROVE  SortInv'
<1> USE DEF SortInv
<1> DEFINE freed == Dependents(h) \ (Emitted \cup {h})
           degree == [g \in Hook |-> inDegree[g] - (IF g \in freed THEN 1 ELSE 0)]
           Waits(g) == DepsIn(hooks, deps, g) \ Emitted
<1>1. /\ result = "looping" /\ result' = "looping"
      /\ hooks' = hooks /\ deps' = deps
      /\ IsLeast(h, ready)
      /\ sorted' = Append(sorted, h)
      /\ inDegree' = degree
      /\ ready' = (ready \ {h}) \cup {g \in freed : degree[g] <= 0}
  BY DEF Emit, IsFirst, Due
<1>2. /\ h \in hooks /\ h \notin Emitted /\ DepsIn(hooks, deps, h) \subseteq Emitted
  BY <1>1 DEF Counted, IsLeast, ReadyHooks
<1>3. /\ sorted' \in Seq(Hook) /\ Emitted' = Emitted \cup {h} /\ IsInjective(sorted')
  BY <1>1, <1>2, AppendFacts DEF SortTypeOK, EmittedInOrder, Emitted
<1>4. EmittedInOrder'
  <2> DEFINE n == Len(sorted)
  <2>1. /\ n \in Nat /\ DOMAIN sorted = 1 .. n
        /\ DOMAIN sorted' = 1 .. (n + 1) /\ sorted'[n + 1] = h
        /\ \A i \in 1 .. n : sorted'[i] = sorted[i]
    BY <1>1, AppendProperties, LenProperties DEF SortTypeOK
  <2> HIDE DEF n
  <2>2. ASSUME NEW i \in 1 .. (n + 1)
        PROVE  {sorted'[j] : j \in 1 .. (i - 1)} = {sorted[j] : j \in 1 .. (i - 1)}
    <3>1. \A j \in 1 .. (i - 1) : sorted'[j] = sorted[j] BY <2>1
    <3> QED BY <3>1
  <2>3. {sorted[j] : j \in 1 .. ((n + 1) - 1)} = Emitted
    BY <2>1 DEF Emitted, Range
  <2>4. ASSUME NEW i \in 1 .. (n + 1)
        PROVE  IsLeast(sorted'[i], ReadyHooks(hooks, deps, {sorted'[j] : j \in 1 .. (i - 1)}))
    <3>1. CASE i = n + 1
      <4>1. sorted'[i] = h BY <3>1, <2>1
      <4>2. {sorted'[j] : j \in 1 .. (i - 1)} = Emitted BY <3>1, <2>2, <2>3
      <4> QED BY <4>1, <4>2, <1>1 DEF Counted
    <3>2. CASE i \in 1 .. n
      <4>1. IsLeast(sorted[i], ReadyHooks(hooks, deps, {sorted[j] : j \in 1 .. (i - 1)}))
        BY <3>2, <2>1 DEF EmittedInOrder
      <4> QED BY <4>1, <3>2, <2>1, <2>2
    <3> QED BY <3>1, <3>2, <2>1
  <2> QED BY <1>1, <1>2, <1>3, <2>1, <2>4 DEF EmittedInOrder
<1>5. ASSUME NEW g \in hooks \ (Emitted \cup {h})
      PROVE  /\ degree[g] = Cardinality(Waits(g) \ {h})
             /\ g \in freed <=> h \in Waits(g)
             /\ h \notin Waits(g) => Waits(g) \ {h} = Waits(g)
  <2>1. g \in Hook /\ inDegree[g] = Cardinality(Waits(g)) BY <1>1 DEF Counted, SortTypeOK
  <2>2. g \in freed <=> h \in Waits(g) BY <1>2 DEF Dependents, DepsIn
  <2>3. IsFiniteSet(Waits(g)) /\ Cardinality(Waits(g)) \in Nat BY FiniteDeps DEF SortTypeOK
  <2>4. h \in Waits(g) => Cardinality(Waits(g) \ {h}) = Cardinality(Waits(g)) - 1
    <3> HIDE DEF Waits
    <3> QED BY <2>3, FS_RemoveElement
  <2>5. h \notin Waits(g) => Waits(g) \ {h} = Waits(g) OBVIOUS
  <2>6. degree[g] = inDegree[g] - (IF g \in freed THEN 1 ELSE 0) BY <2>1
  <2>7. degree[g] = Cardinality(Waits(g) \ {h})
    <3> DEFINE w == Waits(g)
               c == Cardinality(w)
               m == Cardinality(w \ {h})
    <3>1. /\ inDegree[g] = c /\ c \in Nat
          /\ h \in w => m = c - 1
          /\ h \notin w => m = c
          /\ degree[g] = inDegree[g] - (IF h \in w THEN 1 ELSE 0)
      BY <2>1, <2>2, <2>3, <2>4, <2>5, <2>6, Zenon
    <3> HIDE DEF w, c, m, degree
    <3>2. degree[g] = m BY <3>1
    <3> QED BY <3>2 DEF m, w
  <2> QED BY <2>2, <2>5, <2>7, Zenon
<1>6. Counted'
  <2>1. \A g : DepsIn(hooks, deps, g) \ (Emitted \cup {h}) = Waits(g) \ {h} OBVIOUS
  <2>2. ASSUME NEW g \in hooks \ (Emitted \cup {h})
        PROVE  /\ degree[g] \in Nat
               /\ degree[g] = 0 <=> DepsIn(hooks, deps, g) \subseteq Emitted \cup {h}
    <3>1. degree[g] = Cardinality(DepsIn(hooks, deps, g) \ (Emitted \cup {h}))
      BY <1>5, <2>1
    <3>2. LET c == Cardinality(DepsIn(hooks, deps, g) \ (Emitted \cup {h}))
          IN  c \in Nat /\ (c = 0 <=> DepsIn(hooks, deps, g) \subseteq Emitted \cup {h})
      BY FiniteDeps, Zenon DEF SortTypeOK
    <3> HIDE DEF degree
    <3> QED BY <3>1, <3>2, Zenon
  <2>3. ready' = ReadyHooks(hooks, deps, Emitted \cup {h})
    <3>1. freed \subseteq hooks \ (Emitted \cup {h}) BY DEF Dependents
    <3>2. ready = {g \in hooks \ Emitted : DepsIn(hooks, deps, g) \subseteq Emitted}
      BY <1>1 DEF Counted, ReadyHooks
    <3>3. ASSUME NEW g \in hooks \ (Emitted \cup {h})
          PROVE  g \in ready' <=> DepsIn(hooks, deps, g) \subseteq Emitted \cup {h}
      <4>1. g \in ready' <=> g \in ready \/ (g \in freed /\ degree[g] = 0)
        <5>1. degree[g] \in Nat BY <2>2
        <5> HIDE DEF degree, freed
        <5> QED BY <1>1, <3>3, <5>1
      <4>2. g \in ready <=> DepsIn(hooks, deps, g) \subseteq Emitted BY <3>2, <3>3
      <4>3. CASE g \in freed BY <4>1, <4>2, <4>3, <2>2
      <4>4. CASE g \notin freed
        <5>1. h \notin DepsIn(hooks, deps, g) BY <4>4, <1>5, <1>2
        <5> QED BY <4>1, <4>2, <4>4, <5>1
      <4> QED BY <4>3, <4>4
    <3>4. ready' \subseteq hooks \ (Emitted \cup {h}) BY <1>1, <3>1, <3>2
    <3> HIDE DEF freed, degree
    <3> QED BY <3>3, <3>4 DEF ReadyHooks
  <2>4. \A g \in hooks \ (Emitted \cup {h}) :
          inDegree'[g] = Cardinality(DepsIn(hooks, deps, g) \ (Emitted \cup {h}))
    BY <1>1, <1>5, <2>1
  <2> QED BY <1>1, <1>3, <2>3, <2>4 DEF Counted
<1>7. SortTypeOK'
  <2>1. inDegree' \in [Hook -> Int] BY <1>1 DEF SortTypeOK
  <2>2. ready' \in SUBSET Hook BY <1>1 DEF SortTypeOK, Dependents
  <2> QED BY <1>1, <1>3, <2>1, <2>2 DEF SortTypeOK, Results
<1> QED BY <1>1, <1>4, <1>6, <1>7

\* The sort's invariant is inductive.
LEMMA SortStep ==
  ASSUME HookAssumption, SortInv, Sort
  PROVE  SortInv'
<1>1. CASE Count BY <1>1, CountInv
<1>2. CASE \E h \in Hook : Emit(h) BY <1>2, EmitInv
<1>3. CASE Circular
  BY <1>3 DEF Circular, SortInv, SortTypeOK, Results, EmittedInOrder, Counted, Emitted
<1>4. CASE Finish
  BY <1>4 DEF Finish, SortInv, SortTypeOK, Results, EmittedInOrder, Counted, Emitted
<1> QED BY <1>1, <1>2, <1>3, <1>4 DEF Sort

\* Whatever the invariant allows, a result is the one order, and an error means
\* that hooks which wait for each other are left.
LEMMA SortIsRight == ASSUME HookAssumption, SortInv PROVE SortedIsTheOrder
<1> USE DEF SortInv
<1> DEFINE n == Len(sorted)
<1>0. /\ hooks \in SUBSET Hook /\ IsFiniteSet(hooks) /\ Cardinality(hooks) \in Nat
      /\ n \in Nat /\ DOMAIN sorted = 1 .. n /\ sorted \in Seq(Hook)
  BY FS_Subset, FS_CardinalityType, LenProperties DEF HookAssumption, SortTypeOK
<1>1. Cardinality(Emitted) = n /\ sorted \in [1 .. n -> Emitted]
  <2>1. sorted \in Bijection(1 .. n, Emitted)
    BY <1>0 DEF Bijection, Injection, Surjection, EmittedInOrder, IsInjective, Emitted, Range
  <2> HIDE DEF n
  <2>2. IsFiniteSet(1 .. n) /\ Cardinality(1 .. n) = n BY <1>0, FS_Interval
  <2>3. ExistsBijection(1 .. n, Emitted) BY <2>1 DEF ExistsBijection
  <2>4. Cardinality(Emitted) = n BY <2>2, <2>3, FS_Bijection
  <2> QED BY <2>1, <2>4 DEF Bijection, Injection
<1>2. ASSUME result = "sorted" PROVE StartOrders(hooks, deps) = {sorted}
  <2>1. Emitted = hooks
    BY <1>0, <1>1, <1>2, FS_Subset DEF EmittedInOrder
  <2>2. sorted \in StartOrders(hooks, deps)
    BY <1>0, <1>1, <1>2, <2>1 DEF StartOrders, IsStartOrder, EmittedInOrder, Emitted
  <2> QED BY <1>0, <2>2, OneStartOrder
<1>3. ASSUME result = "circular"
      PROVE  /\ StartOrders(hooks, deps) = {}
             /\ \E C \in (SUBSET (hooks \ Emitted)) \ {{}} :
                  \A h \in C : DepsIn(hooks, deps, h) \cap C # {}
  <2> DEFINE C == hooks \ Emitted
  <2>1. C # {}
    <3> SUFFICES ASSUME hooks = Emitted PROVE FALSE BY DEF EmittedInOrder
    <3> QED BY <1>0, <1>1, <1>3
  <2>2. \A h \in C : DepsIn(hooks, deps, h) \cap C # {}
    BY <1>3 DEF Counted, ReadyHooks, DepsIn
  <2>3. C \in SUBSET hooks OBVIOUS
  <2>4. StartOrders(hooks, deps) = {} BY <1>0, <2>1, <2>2, <2>3, CycleHasNoOrder
  <2> QED BY <2>1, <2>2, <2>4
<1> QED BY <1>2, <1>3 DEF SortedIsTheOrder

-----------------------------------------------------------------------------
\* What becomes of the declared dependencies on their way to the manager.

\* Reached(d, x) has what d gives x, and is closed under d.
LEMMA ReachedStep ==
  ASSUME NEW d \in [Bean -> SUBSET Bean], NEW x \in Bean
  PROVE  /\ Reached(d, x) \subseteq Bean
         /\ d[x] \subseteq Reached(d, x)
         /\ \A y \in Reached(d, x) : d[y] \subseteq Reached(d, x)
<1>1. ASSUME NEW y \in d[x] PROVE y \in Reached(d, x) BY DEF Reached
<1>2. ASSUME NEW y \in Reached(d, x), NEW z \in d[y] PROVE z \in Reached(d, x)
  <2>1. y \in Bean /\ z \in Bean BY DEF Reached
  <2> SUFFICES ASSUME NEW S \in SUBSET Bean, d[x] \subseteq S, \A b \in S : d[b] \subseteq S
               PROVE  z \in S
    BY <2>1 DEF Reached
  <2>2. y \in S BY DEF Reached
  <2> QED BY <2>2
<1> QED BY <1>1, <1>2 DEF Reached

\* ... and is the least such set.
LEMMA ReachedLeast ==
  ASSUME NEW d, NEW x, NEW S \in SUBSET Bean, d[x] \subseteq S, \A b \in S : d[b] \subseteq S
  PROVE  Reached(d, x) \subseteq S
BY DEF Reached

\* Fewer edges lead nowhere else.
LEMMA ReachedMonotone ==
  ASSUME NEW d, NEW e \in [Bean -> SUBSET Bean], NEW x \in Bean,
         \A b \in Bean : d[b] \subseteq e[b]
  PROVE  Reached(d, x) \subseteq Reached(e, x)
<1>1. /\ Reached(e, x) \in SUBSET Bean /\ e[x] \subseteq Reached(e, x)
      /\ \A b \in Reached(e, x) : e[b] \subseteq Reached(e, x)
  BY ReachedStep
<1> HIDE DEF Bean
<1>2. d[x] \subseteq Reached(e, x) /\ \A b \in Reached(e, x) : d[b] \subseteq Reached(e, x)
  BY <1>1
<1> QED BY <1>1, <1>2, ReachedLeast

Filtered == [h \in Hook |-> IF h \in hooks THEN needs[h] \cap hooks ELSE {}]
Mutually(d, x, y) == x = y \/ (y \in Reached(d, x) /\ x \in Reached(d, y))
Unbound(d) == [x \in Hook |-> {y \in d[x] : ~ Mutually(d, x, y)}]

RuntimeInv ==
  /\ SortInv
  /\ needs \in [Bean -> SUBSET Bean]
  /\ phase \in {"filter", "cycles", "registered", "byHand"}
  /\ phase \in {"filter", "cycles"} => result = "none" /\ sorted = <<>>
  /\ phase = "cycles" => deps = Filtered
  /\ phase = "registered" => deps = Unbound(Filtered)

\* Without the edges inside its components a graph has no cycle: of any hooks, one
\* that leads to the fewest leads to none of the others.
LEMMA UnboundIsAcyclic ==
  ASSUME HookAssumption, NEW H \in SUBSET Hook, NEW d \in [Hook -> SUBSET Hook]
  PROVE  Acyclic(H, Unbound(d))
<1> SUFFICES ASSUME NEW S \in SUBSET H, S # {}
             PROVE  \E h \in S : Unbound(d)[h] \cap S = {}
  BY DEF Acyclic
<1> DEFINE Span(x) == {x} \cup Reached(d, x)
           Sizes == {Cardinality(Span(x)) : x \in S}
<1>1. \A x \in Hook : /\ Reached(d, x) \subseteq Hook /\ d[x] \subseteq Reached(d, x)
                      /\ \A y \in Reached(d, x) : d[y] \subseteq Reached(d, x)
  BY ReachedStep DEF Bean
<1>2. ASSUME NEW x \in Hook
      PROVE  /\ Span(x) \in SUBSET Hook /\ IsFiniteSet(Span(x)) /\ Cardinality(Span(x)) \in Nat
  <2>1. Span(x) \in SUBSET Hook BY <1>1
  <2> HIDE DEF Span
  <2> QED BY <2>1, FS_Subset, FS_CardinalityType DEF HookAssumption
<1>3. PICK h \in S : \A x \in S : Cardinality(Span(h)) <= Cardinality(Span(x))
  <2>1. Sizes \in SUBSET Nat /\ Sizes # {}
    <3> HIDE DEF Span
    <3> QED BY <1>2
  <2>2. PICK m \in Sizes : \A k \in Sizes : m <= k
    <3> HIDE DEF Sizes
    <3> QED BY <2>1, LeastNumber
  <2> HIDE DEF Span
  <2> QED BY <2>2
<1>4. ASSUME NEW y \in Unbound(d)[h] \cap S PROVE FALSE
  <2>1. /\ h \in Hook /\ y \in Hook /\ y \in d[h] /\ y # h
        /\ ~ (y \in Reached(d, h) /\ h \in Reached(d, y))
    BY DEF Unbound, Mutually
  <2>2. y \in Reached(d, h) BY <1>1, <2>1
  <2>3. Reached(d, y) \subseteq Reached(d, h)
    <3>1. Reached(d, h) \in SUBSET Bean BY <1>1, <2>1 DEF Bean
    <3>2. d[y] \subseteq Reached(d, h) /\ \A b \in Reached(d, h) : d[b] \subseteq Reached(d, h)
      BY <1>1, <2>1, <2>2
    <3> QED BY <3>1, <3>2, ReachedLeast
  <2>4. Span(y) \subseteq Span(h) /\ h \in Span(h) /\ h \notin Span(y)
    BY <2>1, <2>2, <2>3
  <2>5. Cardinality(Span(y)) < Cardinality(Span(h))
    <3>1. /\ IsFiniteSet(Span(h)) /\ Cardinality(Span(h)) \in Nat
          /\ Cardinality(Span(y)) \in Nat
      BY <1>2, <2>1
    <3> HIDE DEF Span
    <3>2. /\ Cardinality(Span(y)) <= Cardinality(Span(h))
          /\ Cardinality(Span(h)) = Cardinality(Span(y)) => Span(h) = Span(y)
      BY <2>4, <3>1, FS_Subset
    <3> QED BY <2>4, <3>1, <3>2
  <2>6. /\ Cardinality(Span(h)) <= Cardinality(Span(y))
        /\ Cardinality(Span(h)) \in Nat /\ Cardinality(Span(y)) \in Nat
    BY <1>2, <1>3, <2>1
  <2> HIDE DEF Span
  <2> QED BY <2>5, <2>6
<1> QED BY <1>4

\* What Refresh finds, or a program that registers hooks by hand.
LEMMA RuntimeInitInv == ASSUME HookAssumption, RuntimeInit PROVE RuntimeInv
<1>1. /\ hooks \in SUBSET Hook /\ deps \in [Hook -> SUBSET Hook] /\ Unsorted
      /\ needs \in [Bean -> SUBSET Bean] /\ phase \in {"filter", "byHand"}
  BY DEF RuntimeInit, Init, Bean
<1>2. SortInv
  <2>1. <<>> \in Seq(Hook) /\ DOMAIN <<>> = {} BY EmptySeq
  <2>2. SortTypeOK BY <1>1, <2>1 DEF Unsorted, SortTypeOK, Results
  <2>3. EmittedInOrder
    <3>1. sorted = <<>> BY <1>1 DEF Unsorted
    <3>2. Emitted = {} /\ IsInjective(sorted) BY <3>1, EmptyList DEF Emitted
    <3> QED BY <3>1, <3>2, <2>1 DEF EmittedInOrder
  <2> QED BY <1>1, <2>2, <2>3 DEF SortInv, Unsorted
<1> QED BY <1>1, <1>2 DEF RuntimeInv, Unsorted

\* The invariant of the derivation of hooks is inductive.
LEMMA RuntimeStepInv ==
  ASSUME HookAssumption, RuntimeInv, [RuntimeNext]_runtimeVars
  PROVE  RuntimeInv'
<1> USE DEF RuntimeInv
<1>1. CASE Filter
  <2>1. /\ deps' = Filtered /\ hooks' = hooks /\ needs' = needs /\ phase' = "cycles"
        /\ inDegree' = inDegree /\ ready' = ready /\ sorted' = sorted /\ result' = result
        /\ result = "none" /\ sorted = <<>>
    BY <1>1 DEF Filter, Filtered, sortVars
  <2>2. Filtered \in [Hook -> SUBSET Hook] BY DEF Filtered, SortInv, SortTypeOK
  <2>3. SortInv'
    <3>1. DOMAIN <<>> = {} BY EmptySeq
    <3> QED BY <2>1, <2>2, <3>1 DEF SortInv, SortTypeOK, EmittedInOrder, Emitted
  <2> QED BY <2>1, <2>3 DEF Filtered
<1>2. CASE DropCycles
  <2>1. /\ deps' = Unbound(deps) /\ hooks' = hooks /\ needs' = needs /\ phase' = "registered"
        /\ inDegree' = inDegree /\ ready' = ready /\ sorted' = sorted /\ result' = result
        /\ result = "none" /\ sorted = <<>>
    BY <1>2 DEF DropCycles, Unbound, Mutually, InCycle, sortVars
  <2>2. Unbound(deps) \in [Hook -> SUBSET Hook] BY DEF Unbound, SortInv, SortTypeOK
  <2>3. SortInv'
    <3>1. DOMAIN <<>> = {} BY EmptySeq
    <3> QED BY <2>1, <2>2, <3>1 DEF SortInv, SortTypeOK, EmittedInOrder, Emitted
  <2>4. deps = Filtered BY <1>2 DEF DropCycles
  <2> QED BY <2>1, <2>3, <2>4 DEF Filtered, Unbound
<1>3. CASE SortHooks
  <2>1. /\ Sort /\ needs' = needs /\ phase' = phase /\ phase \in {"registered", "byHand"}
    BY <1>3 DEF SortHooks
  <2>2. hooks' = hooks /\ deps' = deps BY <2>1 DEF Sort, Count, Emit, Circular, Finish
  <2>3. SortInv' BY <2>1, SortStep
  <2> QED BY <2>1, <2>2, <2>3, SMTT(20) DEF Filtered, Unbound
<1>4. CASE UNCHANGED runtimeVars
  BY <1>4 DEF runtimeVars, vars, sortVars, SortInv, SortTypeOK, EmittedInOrder, Counted, Emitted,
     Filtered
<1> QED BY <1>1, <1>2, <1>3, <1>4 DEF RuntimeNext

\* A hook starts after each one it declares and is in no cycle with, and there
\* is always an order.
LEMMA AlwaysStarts == ASSUME HookAssumption, RuntimeInv PROVE AlwaysStartable
<1> USE DEF RuntimeInv
<1>1. hooks \in SUBSET Hook /\ Filtered \in [Hook -> SUBSET Hook]
  BY DEF SortInv, SortTypeOK, Filtered
<1>2. ASSUME phase = "registered", result = "circular" PROVE FALSE
  <2>1. Acyclic(hooks, deps) BY <1>1, <1>2, UnboundIsAcyclic
  <2>2. StartOrders(hooks, deps) # {} BY <1>1, <2>1, AcyclicHasOrder
  <2>3. StartOrders(hooks, deps) = {} BY <1>2, SortIsRight DEF SortedIsTheOrder
  <2> QED BY <2>2, <2>3
<1>3. ASSUME phase = "registered", result = "sorted", NEW x \in hooks,
             NEW y \in needs[x] \cap hooks, x \notin Reached(needs, y)
      PROVE  StartsBefore(y, x)
  <2>1. x \in Hook /\ y \in Hook /\ y \in Filtered[x] BY <1>1 DEF Filtered
  <2>2. ~ Mutually(Filtered, x, y)
    <3>1. \A b \in Bean : Filtered[b] \subseteq needs[b] BY DEF Filtered, Bean
    <3>2. Reached(Filtered, y) \subseteq Reached(needs, y)
      BY <3>1, <2>1, ReachedMonotone DEF Bean
    <3>3. needs[y] \subseteq Reached(needs, y) BY <2>1, ReachedStep DEF Bean
    <3> QED BY <1>3, <3>2, <3>3 DEF Mutually
  <2>3. y \in DepsIn(hooks, deps, x) BY <1>3, <2>1, <2>2 DEF Unbound, DepsIn
  <2>4. StartOrders(hooks, deps) = {sorted} BY <1>3, SortIsRight DEF SortedIsTheOrder
  <2>5. IsStartOrder(sorted, hooks, deps) BY <2>4 DEF StartOrders
  <2>6. PICK i \in DOMAIN sorted : sorted[i] = x BY <2>5 DEF IsStartOrder, Range
  <2>7. DepsIn(hooks, deps, x) \subseteq {sorted[j] : j \in 1 .. (i - 1)}
    BY <2>5, <2>6 DEF IsStartOrder, IsLeast, ReadyHooks
  <2>8. PICK j \in 1 .. (i - 1) : sorted[j] = y BY <2>3, <2>7
  <2>9. DOMAIN sorted = 1 .. Len(sorted) /\ Len(sorted) \in Nat
    BY LenProperties DEF SortInv, SortTypeOK
  <2> QED BY <2>6, <2>8, <2>9 DEF StartsBefore
<1> QED BY <1>2, <1>3 DEF AlwaysStartable

\* In the hooks' part of a behaviour, and where the others leave it.
LEMMA HooksPart ==
  /\ StartupInit => RuntimeInit
  /\ [StartupNext]_startupVars => [RuntimeNext]_runtimeVars
<1>1. StartupInit => RuntimeInit
  BY DEF StartupInit, RuntimeInit, Init
<1>2. [StartupNext]_startupVars => [RuntimeNext]_runtimeVars
  BY DEF StartupNext, Registering, Hooks, Graph, Events, startupVars
<1> QED BY <1>1, <1>2

\* Whatever beans declare to need, in cycles or not, the hooks a Refresh registers
\* can be sorted, into exactly one order, in which each hook stands after all that
\* it declares outside its own cycles; and a manager that is given dependencies by
\* hand sorts them into the one order there is, or finds a cycle there is.
THEOREM HooksRunInOrder == StartupSpec => []HooksRunAsDeclared
<1>0. HookAssumption BY StartupAssumption
<1>1. StartupInit => RuntimeInv BY <1>0, HooksPart, RuntimeInitInv
<1>2. RuntimeInv /\ [StartupNext]_startupVars => RuntimeInv'
  BY <1>0, HooksPart, RuntimeStepInv
<1>3. RuntimeInv => HooksRunAsDeclared
  BY <1>0, SortIsRight, AlwaysStarts DEF HooksRunAsDeclared, RuntimeInv
<1> QED BY <1>1, <1>2, <1>3, PTL DEF StartupSpec

-----------------------------------------------------------------------------
\* The bus.  What a publication has called and what is left of its copy are
\* together the matching subscriptions there were when it began, in order.

Subscription == [handler : Handler, seq : Nat]
Publication == [event : Event, rest : Seq(Subscription), before : SUBSET Subscription,
                called : Seq(Subscription), at : {"loop", "handler", "ok", "error"}]

InOrder(s) == \A i, j \in DOMAIN s : i < j => EB!Before(s[i], s[j])
Lists(s, S) == Range(s) = S /\ InOrder(s)

DueTo(p) == {r \in p.before : EB!Matches(r, p.event)}
Exact(p) ==
  /\ Lists(p.called \o p.rest, DueTo(p))
  /\ p.at = "ok" => p.rest = <<>>
AllExact(s) == \A i \in DOMAIN s : Exact(s[i])

BusInv ==
  /\ handlers \in Seq(Subscription)
  /\ \A i \in DOMAIN handlers : handlers[i].seq = i
  /\ subscribed = Range(handlers)
  /\ stack \in [Thread -> Seq(Publication)]
  /\ \A t \in Thread : AllExact(stack[t])

\* The order of dispatch is a strict order, and tells subscriptions apart.
LEMMA DispatchIsOrder ==
  ASSUME EB!EventBusAssumption,
         NEW r \in Subscription, NEW s \in Subscription, NEW u \in Subscription
  PROVE  /\ ~ EB!Before(r, r)
         /\ EB!Before(r, s) /\ EB!Before(s, u) => EB!Before(r, u)
         /\ ~ (EB!Before(r, s) /\ EB!Before(s, r))
         /\ r.seq # s.seq => EB!Before(r, s) \/ EB!Before(s, r)
<1>1. \A x \in {r, s, u} : /\ Options[x.handler].priority \in BOOLEAN
                           /\ Options[x.handler].order \in Int /\ x.seq \in Nat
  BY DEF EB!EventBusAssumption, Subscription
<1> QED BY <1>1 DEF EB!Before

\* Of some subscriptions one is dispatched last.
LEMMA LastExists ==
  ASSUME EB!EventBusAssumption, NEW S \in SUBSET Subscription, IsFiniteSet(S), S # {},
         \A r, s \in S : r # s => r.seq # s.seq
  PROVE  \E x \in S : \A y \in S \ {x} : EB!Before(y, x)
<1> DEFINE After(x) == {y \in S : EB!Before(x, y)}
           Sizes == {Cardinality(After(x)) : x \in S}
<1>1. ASSUME NEW x \in S PROVE IsFiniteSet(After(x)) /\ Cardinality(After(x)) \in Nat
  BY FS_Subset, FS_CardinalityType
<1>2. PICK x \in S : \A y \in S : Cardinality(After(x)) <= Cardinality(After(y))
  <2>1. Sizes \in SUBSET Nat /\ Sizes # {}
    <3> HIDE DEF After
    <3> QED BY <1>1
  <2>2. PICK m \in Sizes : \A k \in Sizes : m <= k
    <3> HIDE DEF Sizes
    <3> QED BY <2>1, LeastNumber
  <2> HIDE DEF After
  <2> QED BY <2>2
<1>3. ASSUME NEW y \in After(x) PROVE FALSE
  <2>1. y \in S /\ x \in Subscription /\ y \in Subscription /\ EB!Before(x, y) OBVIOUS
  <2>2. After(y) \subseteq After(x) BY <2>1, DispatchIsOrder
  <2>3. y \notin After(y) BY <2>1, DispatchIsOrder
  <2>4. /\ Cardinality(After(y)) <= Cardinality(After(x))
        /\ Cardinality(After(x)) = Cardinality(After(y)) => After(x) = After(y)
    <3>1. IsFiniteSet(After(x)) BY <1>1
    <3> HIDE DEF After
    <3> QED BY <2>2, <3>1, FS_Subset
  <2>5. /\ Cardinality(After(x)) <= Cardinality(After(y))
        /\ Cardinality(After(x)) \in Nat /\ Cardinality(After(y)) \in Nat
    <3> HIDE DEF After
    <3> QED BY <1>1, <1>2, <2>1
  <2>6. Cardinality(After(x)) = Cardinality(After(y))
    <3> HIDE DEF After
    <3> QED BY <2>4, <2>5
  <2> QED BY <1>3, <2>3, <2>4, <2>6
<1>4. ASSUME NEW y \in S \ {x} PROVE EB!Before(y, x)
  <2>1. x \in Subscription /\ y \in Subscription /\ x.seq # y.seq OBVIOUS
  <2>2. ~ EB!Before(x, y) BY <1>3
  <2> QED BY <2>1, <2>2, DispatchIsOrder
<1> QED BY <1>4

\* Any finite set of subscriptions can be listed in the order of dispatch.
LEMMA ListingExists ==
  ASSUME EB!EventBusAssumption, NEW R \in SUBSET Subscription, IsFiniteSet(R),
         \A r, s \in R : r # s => r.seq # s.seq
  PROVE  \E s \in [1 .. Cardinality(R) -> R] : InOrder(s)
<1> DEFINE Good(S) == \E s \in [1 .. Cardinality(S) -> S] : InOrder(s)
           Bad == {n \in Nat : \E S \in SUBSET R : Cardinality(S) = n /\ ~ Good(S)}
<1>1. \A S \in SUBSET R : IsFiniteSet(S) /\ Cardinality(S) \in Nat
  BY FS_Subset, FS_CardinalityType
<1>2. ASSUME Bad # {} PROVE FALSE
  <2>1. PICK m \in Bad : \A k \in Bad : m <= k
    <3>1. Bad \in SUBSET Nat OBVIOUS
    <3> HIDE DEF Bad
    <3> QED BY <1>2, <3>1, LeastNumber
  <2>2. PICK S \in SUBSET R : Cardinality(S) = m /\ ~ Good(S) OBVIOUS
  <2>3. m \in Nat OBVIOUS
  <2> HIDE DEF Bad
  <2>4. S # {}
    <3> SUFFICES ASSUME S = {} PROVE FALSE OBVIOUS
    <3>1. m = 0 BY <2>2, FS_EmptySet
    <3> DEFINE e == [i \in 1 .. 0 |-> i]
    <3>2. e \in [1 .. 0 -> S] /\ InOrder(e) BY DEF InOrder
    <3> QED BY <2>2, <3>1, <3>2
  <2>5. PICK x \in S : \A y \in S \ {x} : EB!Before(y, x)
    BY <1>1, <2>2, <2>4, LastExists
  <2>6. m # 0 BY <1>1, <2>2, <2>4, FS_EmptySet
  <2>7. Cardinality(S \ {x}) = m - 1 BY <1>1, <2>2, <2>5, FS_RemoveElement
  <2>8. Good(S \ {x})
    <3>1. m - 1 \in Nat /\ ~ (m <= m - 1) BY <2>3, <2>6
    <3>2. m - 1 \notin Bad BY <2>1, <3>1
    <3> QED BY <2>2, <2>7, <3>1, <3>2 DEF Bad
  <2>9. PICK s \in [1 .. (m - 1) -> S \ {x}] : InOrder(s) BY <2>7, <2>8
  <2> DEFINE r == [i \in 1 .. m |-> IF i = m THEN x ELSE s[i]]
  <2>10. r \in [1 .. m -> S] BY <2>3, <2>6, <2>9
  <2>11. InOrder(r)
    <3> SUFFICES ASSUME NEW i \in 1 .. m, NEW j \in 1 .. m, i < j
                 PROVE  EB!Before(r[i], r[j])
      BY DEF InOrder
    <3>1. i \in 1 .. (m - 1) /\ i # m /\ r[i] = s[i] BY <2>3
    <3>2. CASE j = m BY <3>1, <3>2, <2>5, <2>9
    <3>3. CASE j # m
      <4>1. j \in 1 .. (m - 1) /\ r[j] = s[j] BY <2>3, <3>3
      <4>2. DOMAIN s = 1 .. (m - 1) BY <2>9
      <4> QED BY <3>1, <4>1, <4>2, <2>9 DEF InOrder
    <3> QED BY <3>2, <3>3
  <2> HIDE DEF r
  <2> QED BY <2>2, <2>10, <2>11
<1> QED BY <1>1, <1>2

\* What is in order repeats nothing.
LEMMA InOrderInjective ==
  ASSUME EB!EventBusAssumption, NEW n \in Nat, NEW S \in SUBSET Subscription,
         NEW s \in [1 .. n -> S], InOrder(s)
  PROVE  IsInjective(s)
<1> SUFFICES ASSUME NEW i \in 1 .. n, NEW j \in 1 .. n, s[i] = s[j], i # j PROVE FALSE
  BY DEF IsInjective
<1>1. i < j \/ j < i OBVIOUS
<1>2. s[i] \in Subscription /\ s[j] \in Subscription OBVIOUS
<1> QED BY <1>1, <1>2, DispatchIsOrder DEF InOrder

\* matchingHandlers returns the matching subscriptions, each once and in order.
LEMMA MatchingIsListing ==
  ASSUME EB!EventBusAssumption, BusInv, NEW e \in Event
  PROVE  /\ EB!matchingHandlers(e) \in Seq(Subscription)
         /\ Lists(EB!matchingHandlers(e), {r \in subscribed : EB!Matches(r, e)})
<1> DEFINE R == {r \in subscribed : EB!Matches(r, e)}
           n == Cardinality(R)
           m == EB!matchingHandlers(e)
<1>1. /\ DOMAIN handlers = 1 .. Len(handlers) /\ Len(handlers) \in Nat
      /\ subscribed = Range(handlers) /\ subscribed \in SUBSET Subscription
      /\ \A i \in DOMAIN handlers : handlers[i].seq = i
  BY LenProperties, ElementOfSeq DEF BusInv, Range
<1>2. IsFiniteSet(subscribed)
  <2>1. handlers \in Surjection(1 .. Len(handlers), subscribed)
    <3>1. handlers \in [1 .. Len(handlers) -> Subscription] BY LenProperties DEF BusInv
    <3>2. handlers \in [1 .. Len(handlers) -> subscribed] BY <1>1, <3>1 DEF Range
    <3> QED BY <1>1, <3>2 DEF Surjection, Range
  <2>2. IsFiniteSet(1 .. Len(handlers)) BY <1>1, FS_Interval
  <2> QED BY <2>1, <2>2, FS_Surjection
<1>3. /\ R \in SUBSET Subscription /\ IsFiniteSet(R) /\ n \in Nat
      /\ \A r, s \in R : r # s => r.seq # s.seq
  <2>1. R \subseteq subscribed OBVIOUS
  <2>2. \A r, s \in subscribed : r # s => r.seq # s.seq BY <1>1 DEF Range
  <2> QED BY <1>1, <1>2, <2>1, <2>2, FS_Subset, FS_CardinalityType
<1>4. R = {r \in EB!ToSet(handlers) : EB!Matches(r, e)}
  BY <1>1 DEF EB!ToSet, Range
<1>5. EB!Cardinality(R) = n BY DEF EB!Cardinality, Cardinality
<1>6. m = CHOOSE s \in [1 .. n -> R] : InOrder(s)
  BY <1>4, <1>5 DEF EB!matchingHandlers, EB!Dispatched, InOrder
<1> HIDE DEF R, m, n
<1>7. m \in [1 .. n -> R] /\ InOrder(m) BY <1>3, <1>6, ListingExists DEF n
<1>8. m \in Seq(Subscription) BY <1>3, <1>7, IsASeq
<1>9. Range(m) = R
  <2>1. m \in Injection(1 .. n, R) BY <1>3, <1>7, InOrderInjective DEF Injection, IsInjective
  <2>2. IsFiniteSet(1 .. n) /\ Cardinality(1 .. n) = n BY <1>3, FS_Interval
  <2>3. m \in Surjection(1 .. n, R) BY <1>3, <2>1, <2>2, FS_Injection DEF n
  <2> QED BY <1>7, <2>3 DEF Surjection, Range
<1> QED BY <1>7, <1>8, <1>9 DEF Lists, m, R

\* A goroutine's stack after its innermost publication has moved, or one begins or ends.
LEMMA StackMoves ==
  ASSUME NEW s \in Seq(Publication), AllExact(s), NEW p \in Publication, Exact(p)
  PROVE  /\ Append(s, p) \in Seq(Publication) /\ AllExact(Append(s, p))
         /\ s # <<>> =>
              /\ EB!Last(s) \in Publication /\ Exact(EB!Last(s))
              /\ EB!Front(s) \in Seq(Publication) /\ AllExact(EB!Front(s))
<1>1. ASSUME NEW q \in Seq(Publication), AllExact(q)
      PROVE  Append(q, p) \in Seq(Publication) /\ AllExact(Append(q, p))
  <2>1. /\ Append(q, p) \in Seq(Publication) /\ Len(q) \in Nat
        /\ DOMAIN q = 1 .. Len(q) /\ DOMAIN Append(q, p) = 1 .. (Len(q) + 1)
        /\ \A i \in 1 .. Len(q) : Append(q, p)[i] = q[i]
        /\ Append(q, p)[Len(q) + 1] = p
    BY AppendProperties, LenProperties
  <2>2. ASSUME NEW i \in 1 .. (Len(q) + 1) PROVE Exact(Append(q, p)[i])
    <3>1. CASE i = Len(q) + 1 BY <2>1, <3>1
    <3>2. CASE i \in 1 .. Len(q) BY <1>1, <2>1, <3>2 DEF AllExact
    <3> QED BY <2>1, <3>1, <3>2
  <2> QED BY <2>1, <2>2 DEF AllExact
<1>2. ASSUME s # <<>>
      PROVE  /\ EB!Last(s) \in Publication /\ Exact(EB!Last(s))
             /\ EB!Front(s) \in Seq(Publication) /\ AllExact(EB!Front(s))
  <2>1. Len(s) \in Nat \ {0} /\ DOMAIN s = 1 .. Len(s) /\ s[Len(s)] \in Publication
    BY <1>2, EmptySeq, LenProperties, ElementOfSeq
  <2>2. /\ EB!Front(s) \in Seq(Publication) /\ DOMAIN EB!Front(s) = 1 .. (Len(s) - 1)
        /\ \A i \in 1 .. (Len(s) - 1) : EB!Front(s)[i] = s[i]
    BY <2>1, SubSeqProperties, LenProperties DEF EB!Front
  <2> QED BY <2>1, <2>2 DEF AllExact, EB!Last
<1> QED BY <1>1, <1>2

\* A step of a goroutine that puts another publication in place of its innermost.
LEMMA TopMoves ==
  ASSUME BusInv, NEW t \in Thread, stack[t] # <<>>, NEW p \in Publication, Exact(p),
         EB!SetTop(t, p), UNCHANGED <<handlers, subscribed>>
  PROVE  BusInv'
<1>1. stack[t] \in Seq(Publication) /\ AllExact(stack[t]) BY DEF BusInv
<1>2. EB!Front(stack[t]) \in Seq(Publication) /\ AllExact(EB!Front(stack[t]))
  BY <1>1, StackMoves
<1> DEFINE q == Append(EB!Front(stack[t]), p)
<1>3. q \in Seq(Publication) /\ AllExact(q) BY <1>2, StackMoves
<1>4. stack' = [stack EXCEPT ![t] = q] BY DEF EB!SetTop
<1> HIDE DEF q
<1> QED BY <1>3, <1>4 DEF BusInv

\* The publication a goroutine is in.
LEMMA TopIs ==
  ASSUME BusInv, NEW t \in Thread, stack[t] # <<>>
  PROVE  EB!Top(t) \in Publication /\ Exact(EB!Top(t))
<1>1. stack[t] \in Seq(Publication) /\ AllExact(stack[t]) BY DEF BusInv
<1>2. PICK p : p = EB!Last(stack[t]) OBVIOUS
<1>3. Len(stack[t]) \in Nat \ {0} /\ DOMAIN stack[t] = 1 .. Len(stack[t])
      /\ stack[t][Len(stack[t])] \in Publication
  BY <1>1, EmptySeq, LenProperties, ElementOfSeq
<1> QED BY <1>1, <1>3 DEF EB!Top, EB!Last, AllExact

\* The bus's invariant is inductive: one step per thing a goroutine does.
LEMMA BusStep ==
  ASSUME EB!EventBusAssumption, BusInv, EB!Next
  PROVE  BusInv'
<1>1. ASSUME NEW t \in Thread, NEW h \in Handler, EB!Subscribe(t, h) PROVE BusInv'
  <2> DEFINE r == [handler |-> h, seq |-> Len(handlers) + 1]
  <2>1. /\ handlers' = Append(handlers, r) /\ subscribed' = subscribed \cup {r}
        /\ stack' = stack
    BY <1>1 DEF EB!Subscribe
  <2>2. /\ handlers \in Seq(Subscription) /\ Len(handlers) \in Nat
        /\ DOMAIN handlers = 1 .. Len(handlers)
    BY LenProperties DEF BusInv
  <2>3. r \in Subscription /\ r.seq = Len(handlers) + 1 BY <2>2 DEF Subscription
  <2> HIDE DEF r
  <2>4. /\ handlers' \in Seq(Subscription) /\ DOMAIN handlers' = 1 .. (Len(handlers) + 1)
        /\ \A i \in 1 .. Len(handlers) : handlers'[i] = handlers[i]
        /\ handlers'[Len(handlers) + 1] = r
    BY <2>1, <2>2, <2>3, AppendProperties, LenProperties
  <2>5. \A i \in DOMAIN handlers' : handlers'[i].seq = i
    BY <2>2, <2>3, <2>4 DEF BusInv
  <2>6. subscribed' = Range(handlers')
    <3>1. Range(handlers') = Range(handlers) \cup {r}
      <4>1. ASSUME NEW i \in 1 .. (Len(handlers) + 1)
            PROVE  handlers'[i] \in Range(handlers) \cup {r}
        BY <2>2, <2>4 DEF Range
      <4>2. ASSUME NEW x \in Range(handlers) \cup {r} PROVE x \in Range(handlers')
        <5>1. CASE x = r BY <2>2, <2>4, <5>1 DEF Range
        <5>2. CASE x \in Range(handlers) BY <2>2, <2>4, <5>2 DEF Range
        <5> QED BY <4>2, <5>1, <5>2
      <4> QED BY <2>4, <4>1, <4>2 DEF Range
    <3> QED BY <2>1, <3>1 DEF BusInv
  <2> QED BY <2>1, <2>4, <2>5, <2>6 DEF BusInv
<1>2. ASSUME NEW t \in Thread, NEW e \in Event, EB!Publish(t, e) PROVE BusInv'
  <2>1. PICK at \in {"loop", "error"} :
          stack' = [stack EXCEPT ![t] = Append(@,
            [event |-> e, rest |-> EB!matchingHandlers(e), before |-> subscribed,
             called |-> <<>>, at |-> at])]
    BY <1>2 DEF EB!Publish
  <2> DEFINE p == [event |-> e, rest |-> EB!matchingHandlers(e), before |-> subscribed,
                   called |-> <<>>, at |-> at]
  <2>2. /\ EB!matchingHandlers(e) \in Seq(Subscription)
        /\ Lists(EB!matchingHandlers(e), {r \in subscribed : EB!Matches(r, e)})
    BY MatchingIsListing
  <2>3. subscribed \in SUBSET Subscription
    BY LenProperties, ElementOfSeq DEF BusInv, Range
  <2>4. <<>> \in Seq(Subscription) /\ <<>> \o EB!matchingHandlers(e) = EB!matchingHandlers(e)
    BY <2>2, ConcatEmptySeq, EmptySeq
  <2>5. /\ p.event = e /\ p.rest = EB!matchingHandlers(e) /\ p.before = subscribed
        /\ p.called = <<>> /\ p.at # "ok"
    OBVIOUS
  <2>6. p \in Publication BY <2>2, <2>3, <2>4 DEF Publication
  <2>7. stack' = [stack EXCEPT ![t] = Append(stack[t], p)] BY <2>1
  <2> HIDE DEF p
  <2>8. Exact(p) BY <2>2, <2>4, <2>5 DEF Exact, DueTo
  <2>9. Append(stack[t], p) \in Seq(Publication) /\ AllExact(Append(stack[t], p))
    BY <2>6, <2>8, StackMoves DEF BusInv
  <2>10. handlers' = handlers /\ subscribed' = subscribed BY <1>2 DEF EB!Publish
  <2> QED BY <2>7, <2>9, <2>10 DEF BusInv
<1>3. ASSUME NEW t \in Thread, EB!CallHandler(t) PROVE BusInv'
  <2> DEFINE p == EB!Top(t)
             q == [p EXCEPT !.rest = Tail(@), !.called = Append(@, Head(p.rest)), !.at = "handler"]
  <2>1. /\ stack[t] # <<>> /\ p.rest # <<>> /\ EB!SetTop(t, q)
        /\ UNCHANGED <<handlers, subscribed>>
    BY <1>3 DEF EB!CallHandler, EB!At
  <2>2. p \in Publication /\ Exact(p) BY <2>1, TopIs
  <2>3. p.rest \in Seq(Subscription) /\ p.called \in Seq(Subscription) BY <2>2 DEF Publication
  <2>4. /\ q.event = p.event /\ q.before = p.before /\ q.at = "handler"
        /\ q.rest = Tail(p.rest) /\ q.called = Append(p.called, Head(p.rest))
    BY <2>2 DEF Publication
  <2>5. /\ Head(p.rest) \in Subscription /\ Tail(p.rest) \in Seq(Subscription)
        /\ Append(p.called, Head(p.rest)) \in Seq(Subscription)
    BY <2>1, <2>3, HeadTailProperties, AppendProperties
  <2>6. q \in Publication BY <2>2, <2>5 DEF Publication
  <2> HIDE DEF p, q
  <2>7. Append(p.called, Head(p.rest)) \o Tail(p.rest) = p.called \o p.rest
    <3>1. PICK c, r : c = p.called /\ r = p.rest OBVIOUS
    <3>2. /\ c \in Seq(Subscription) /\ r \in Seq(Subscription) /\ r # <<>>
          /\ Head(r) \in Subscription /\ Tail(r) \in Seq(Subscription)
          /\ Append(c, Head(r)) \in Seq(Subscription)
      BY <2>1, <2>3, <2>5, <3>1
    <3>3. /\ Len(c) \in Nat /\ Len(r) \in Nat \ {0} /\ Head(r) = r[1]
          /\ Len(Tail(r)) = Len(r) - 1 /\ \A i \in 1 .. (Len(r) - 1) : Tail(r)[i] = r[i + 1]
          /\ Len(Append(c, Head(r))) = Len(c) + 1
          /\ \A i \in 1 .. Len(c) : Append(c, Head(r))[i] = c[i]
          /\ Append(c, Head(r))[Len(c) + 1] = r[1]
      BY <3>2, EmptySeq, LenProperties, HeadTailProperties, AppendProperties
    <3>4. /\ c \o r \in Seq(Subscription) /\ Len(c \o r) = Len(c) + Len(r)
          /\ \A i \in 1 .. (Len(c) + Len(r)) :
               (c \o r)[i] = IF i <= Len(c) THEN c[i] ELSE r[i - Len(c)]
      BY <3>2, ConcatProperties
    <3> DEFINE a == Append(c, Head(r))
               b == Tail(r)
    <3>5. /\ a \o b \in Seq(Subscription) /\ Len(a \o b) = Len(a) + Len(b)
          /\ \A i \in 1 .. (Len(a) + Len(b)) :
               (a \o b)[i] = IF i <= Len(a) THEN a[i] ELSE b[i - Len(a)]
      BY <3>2, ConcatProperties
    <3>6. Len(a \o b) = Len(c \o r) BY <3>3, <3>4, <3>5
    <3>7. ASSUME NEW i \in 1 .. Len(a \o b) PROVE (a \o b)[i] = (c \o r)[i]
      <4>1. /\ Len(a) = Len(c) + 1 /\ Len(b) = Len(r) - 1 /\ Len(c) \in Nat /\ Len(r) \in Nat \ {0}
            /\ \A j \in 1 .. Len(c) : a[j] = c[j]
            /\ a[Len(c) + 1] = r[1]
            /\ \A j \in 1 .. (Len(r) - 1) : b[j] = r[j + 1]
        BY <3>3
      <4> HIDE DEF a, b
      <4>2. i \in 1 .. (Len(c) + Len(r)) BY <3>4, <3>6, <3>7
      <4>3. CASE i <= Len(c) BY <4>1, <4>2, <4>3, <3>4, <3>5
      <4>4. CASE i = Len(c) + 1 BY <4>1, <4>2, <4>4, <3>4, <3>5
      <4>5. CASE i > Len(c) + 1
        <5>1. /\ (a \o b)[i] = b[i - (Len(c) + 1)] /\ i - (Len(c) + 1) \in 1 .. (Len(r) - 1)
              /\ (c \o r)[i] = r[i - Len(c)]
          BY <4>1, <4>2, <4>5, <3>4, <3>5
        <5> QED BY <4>1, <4>2, <5>1, SMTT(20)
      <4> QED BY <4>1, <4>2, <4>3, <4>4, <4>5
    <3>8. a \o b = c \o r BY <3>4, <3>5, <3>6, <3>7, SeqEqual
    <3> QED BY <3>1, <3>8
  <2>8. Exact(q) BY <2>2, <2>4, <2>7 DEF Exact, DueTo
  <2> QED BY <2>1, <2>6, <2>8, TopMoves
<1>4. ASSUME NEW t \in Thread, NEW at \in {"loop", "error", "ok"}, stack[t] # <<>>,
             EB!SetTop(t, [EB!Top(t) EXCEPT !.at = at]), UNCHANGED <<handlers, subscribed>>,
             at = "ok" => EB!Top(t).rest = <<>>
      PROVE  BusInv'
  <2> DEFINE p == EB!Top(t)
             q == [p EXCEPT !.at = at]
  <2>1. p \in Publication /\ Exact(p) BY <1>4, TopIs
  <2>2. /\ q \in Publication /\ q.event = p.event /\ q.before = p.before /\ q.at = at
        /\ q.rest = p.rest /\ q.called = p.called
    BY <2>1 DEF Publication
  <2>3. EB!SetTop(t, q) /\ (at = "ok" => p.rest = <<>>) BY <1>4
  <2> HIDE DEF p, q
  <2>4. Exact(q) BY <2>1, <2>2, <2>3 DEF Exact, DueTo
  <2> QED BY <1>4, <2>2, <2>3, <2>4, TopMoves
<1>5. ASSUME NEW t \in Thread, EB!Cancelled(t) PROVE BusInv'
  BY <1>4, <1>5 DEF EB!Cancelled, EB!At
<1>6. ASSUME NEW t \in Thread, EB!HandlerReturns(t) PROVE BusInv'
  BY <1>4, <1>6 DEF EB!HandlerReturns, EB!At
<1>7. ASSUME NEW t \in Thread, EB!AllCalled(t) PROVE BusInv'
  BY <1>4, <1>7 DEF EB!AllCalled, EB!At
<1>8. ASSUME NEW t \in Thread, EB!Return(t) PROVE BusInv'
  <2>1. /\ stack[t] # <<>> /\ stack' = [stack EXCEPT ![t] = EB!Front(stack[t])]
        /\ handlers' = handlers /\ subscribed' = subscribed
    BY <1>8 DEF EB!Return, EB!At
  <2>2. EB!Front(stack[t]) \in Seq(Publication) /\ AllExact(EB!Front(stack[t]))
    BY <2>1, TopIs, StackMoves DEF BusInv
  <2> QED BY <2>1, <2>2 DEF BusInv
<1> QED BY <1>1, <1>2, <1>3, <1>5, <1>6, <1>7, <1>8 DEF EB!Next

\* What the invariant says of the publications under way.
LEMMA ExactIsDispatch ==
  ASSUME EB!EventBusAssumption, BusInv
  PROVE  DispatchIsExact
<1> SUFFICES ASSUME NEW p \in EB!Publications
    PROVE  LET due == {r \in p.before : EB!Matches(r, p.event)}
           IN  /\ \A i \in DOMAIN p.called :
                    /\ p.called[i] \in p.before
                    /\ \A r \in due : EB!Before(r, p.called[i]) =>
                         \E j \in 1 .. i - 1 : p.called[j] = r
               /\ p.at = "ok" => EB!ToSet(p.called) = due /\ Len(p.called) = EB!Cardinality(due)
  BY Zenon DEF DispatchIsExact, EB!DispatchIsExact
<1>1. PICK t \in Thread : \E k \in DOMAIN stack[t] : p = stack[t][k]
  BY DEF EB!Publications, EB!ToSet
<1> DEFINE due == {r \in p.before : EB!Matches(r, p.event)}
           c == p.called
           w == p.called \o p.rest
<1>2. p \in Publication /\ Exact(p)
  BY <1>1, ElementOfSeq, LenProperties DEF BusInv, AllExact
<1>3. c \in Seq(Subscription) /\ p.rest \in Seq(Subscription) /\ p.before \in SUBSET Subscription
  BY <1>2 DEF Publication
<1>4. /\ w \in Seq(Subscription) /\ Len(w) = Len(c) + Len(p.rest)
      /\ Len(c) \in Nat /\ Len(p.rest) \in Nat
      /\ DOMAIN c = 1 .. Len(c) /\ DOMAIN w = 1 .. Len(w)
      /\ \A i \in 1 .. Len(c) : w[i] = c[i]
  <2>1. PICK a, b : a = c /\ b = p.rest OBVIOUS
  <2>2. /\ a \in Seq(Subscription) /\ b \in Seq(Subscription)
        /\ Len(a) \in Nat /\ Len(b) \in Nat /\ DOMAIN a = 1 .. Len(a)
    BY <1>3, <2>1, LenProperties
  <2>3. /\ a \o b \in Seq(Subscription) /\ Len(a \o b) = Len(a) + Len(b)
        /\ \A i \in 1 .. Len(a) + Len(b) :
             (a \o b)[i] = IF i <= Len(a) THEN a[i] ELSE b[i - Len(a)]
    BY <2>2, ConcatProperties
  <2>4. DOMAIN (a \o b) = 1 .. Len(a \o b) BY <2>3, LenProperties
  <2>5. \A i \in 1 .. Len(a) : (a \o b)[i] = a[i] BY <2>2, <2>3
  <2> QED BY <2>1, <2>2, <2>3, <2>4, <2>5
<1>5. Range(w) = due /\ InOrder(w) /\ (p.at = "ok" => p.rest = <<>>)
  BY <1>2 DEF Exact, Lists, DueTo
<1>6. due \in SUBSET Subscription BY <1>3
<1> HIDE DEF due, w, c
<1>7. ASSUME NEW i \in DOMAIN c
      PROVE  /\ c[i] \in due
             /\ \A r \in due : EB!Before(r, c[i]) => \E j \in 1 .. i - 1 : c[j] = r
  <2>1. i \in DOMAIN w /\ w[i] = c[i] BY <1>4
  <2>2. c[i] \in due BY <1>5, <2>1 DEF Range
  <2>3. ASSUME NEW r \in due, EB!Before(r, c[i]) PROVE \E j \in 1 .. i - 1 : c[j] = r
    <3>1. PICK j \in DOMAIN w : w[j] = r BY <1>5 DEF Range
    <3>2. j # i BY <1>6, <2>1, <2>2, <2>3, <3>1, DispatchIsOrder
    <3>3. ~ (i < j)
      <4> SUFFICES ASSUME i < j PROVE FALSE OBVIOUS
      <4>1. EB!Before(c[i], r) BY <1>5, <2>1, <3>1 DEF InOrder
      <4> QED BY <1>6, <2>2, <2>3, <4>1, DispatchIsOrder
    <3>4. j \in 1 .. i - 1 /\ j \in 1 .. Len(c) BY <1>4, <2>1, <3>1, <3>2, <3>3
    <3> QED BY <1>4, <3>1, <3>4
  <2> QED BY <2>2, <2>3
<1>8. ASSUME p.at = "ok" PROVE EB!ToSet(c) = due /\ Len(c) = EB!Cardinality(due)
  <2>1. w = c BY <1>3, <1>5, <1>8, ConcatEmptySeq DEF w, c
  <2>2. Range(c) = due /\ InOrder(c) BY <1>5, <2>1
  <2>3. EB!ToSet(c) = due BY <2>2 DEF EB!ToSet, Range
  <2>4. c \in [1 .. Len(c) -> Subscription] BY <1>3, LenProperties DEF c
  <2>5. c \in Bijection(1 .. Len(c), due)
    <3>1. IsInjective(c) BY <1>4, <2>2, <2>4, InOrderInjective
    <3>2. c \in [1 .. Len(c) -> due] BY <2>2, <2>4 DEF Range
    <3> QED BY <2>2, <3>1, <3>2, <1>4
        DEF Bijection, Injection, Surjection, IsInjective, Range
  <2>6. IsFiniteSet(1 .. Len(c)) /\ Cardinality(1 .. Len(c)) = Len(c)
    <3>1. PICK n \in Nat : n = Len(c) BY <1>4
    <3>2. IsFiniteSet(1 .. n) /\ Cardinality(1 .. n) = n BY FS_Interval
    <3> QED BY <3>1, <3>2
  <2>7. Cardinality(due) = Len(c)
    <3>1. ExistsBijection(1 .. Len(c), due) BY <2>5 DEF ExistsBijection
    <3> QED BY <2>6, <3>1, FS_Bijection
  <2>8. EB!Cardinality(due) = Cardinality(due) BY DEF EB!Cardinality, Cardinality
  <2> QED BY <2>3, <2>7, <2>8
<1> QED BY <1>1, <1>7, <1>8 DEF due, c

\* A bus nobody has used.
LEMMA BusStart == ASSUME EB!Init PROVE BusInv
<1>1. <<>> \in Seq(Subscription) /\ <<>> \in Seq(Publication) /\ DOMAIN <<>> = {} BY EmptySeq
<1> QED BY <1>1 DEF EB!Init, BusInv, AllExact, Range

\* A Publish calls what was subscribed when it began, in dispatch order, skipping
\* none and calling none that came later, and all of it when it succeeds, for any
\* number of goroutines, listeners and events, nested to any depth.
THEOREM PublishIsExact == StartupSpec => []DispatchIsExact
<1>1. EB!EventBusAssumption BY StartupAssumption
<1>2. StartupInit => BusInv BY BusStart DEF StartupInit
<1>3. BusInv /\ [StartupNext]_startupVars => BusInv'
  <2> SUFFICES ASSUME BusInv, [StartupNext]_startupVars PROVE BusInv' OBVIOUS
  <2>1. CASE EB!Next BY <1>1, <2>1, BusStep
  <2>2. CASE UNCHANGED busVars
    BY <2>2 DEF busVars, BusInv
  <2> QED BY <2>1, <2>2
      DEF StartupNext, Registering, Hooks, Graph, Events, startupVars
<1>4. BusInv => DispatchIsExact BY <1>1, ExactIsDispatch
<1> QED BY <1>2, <1>3, <1>4, PTL DEF StartupSpec

-----------------------------------------------------------------------------
\* The search.  Reach is what its definition by closed sets promises.
ClosedUnder(S) == S \subseteq DG!Bean /\ \A x \in S : DG!Targets(x) \subseteq S

\* Whatever is closed and has what a bean targets has all that it reaches.
LEMMA ReachMeans ==
  /\ DG!Reach \subseteq DG!Bean \X DG!Bean
  /\ \A x, y \in DG!Bean :
       <<x, y>> \in DG!Reach <=> \A S : ClosedUnder(S) /\ DG!Targets(x) \subseteq S => y \in S
<1>1. DG!Reach = {e \in DG!Bean \X DG!Bean : \A S \in SUBSET DG!Bean :
        DG!Targets(e[1]) \subseteq S /\ (\A x \in S : DG!Targets(x) \subseteq S) => e[2] \in S}
  BY DEF DG!Reach
<1>2. ASSUME NEW x \in DG!Bean, NEW y \in DG!Bean
      PROVE  <<x, y>> \in DG!Reach <=> \A S : ClosedUnder(S) /\ DG!Targets(x) \subseteq S => y \in S
  <2>1. <<x, y>> \in DG!Bean \X DG!Bean /\ <<x, y>>[1] = x /\ <<x, y>>[2] = y OBVIOUS
  <2>2. <<x, y>> \in DG!Reach <=> \A S \in SUBSET DG!Bean :
          DG!Targets(x) \subseteq S /\ (\A z \in S : DG!Targets(z) \subseteq S) => y \in S
    BY <1>1, <2>1
  <2>3. \A S : ClosedUnder(S) <=> S \in SUBSET DG!Bean /\ \A z \in S : DG!Targets(z) \subseteq S
    BY DEF ClosedUnder
  <2> QED BY <2>2, <2>3
<1> QED BY <1>1, <1>2

\* An edge leads somewhere, and paths join.
LEMMA PathsJoin ==
  ASSUME NEW x \in DG!Bean, NEW y \in DG!Bean
  PROVE  /\ y \in DG!Targets(x) => <<x, y>> \in DG!Reach
         /\ \A z : <<x, y>> \in DG!Reach /\ <<y, z>> \in DG!Reach => <<x, z>> \in DG!Reach
         /\ \A z : y \in DG!Targets(x) /\ <<y, z>> \in DG!Reach => <<x, z>> \in DG!Reach
         /\ \A S : ClosedUnder(S) /\ x \in S /\ <<x, y>> \in DG!Reach => y \in S
<1>1. y \in DG!Targets(x) => <<x, y>> \in DG!Reach BY ReachMeans
<1>2. ASSUME NEW S, ClosedUnder(S), x \in S, <<x, y>> \in DG!Reach PROVE y \in S
  BY <1>2, ReachMeans DEF ClosedUnder
<1>3. ASSUME NEW z, <<x, y>> \in DG!Reach, <<y, z>> \in DG!Reach PROVE <<x, z>> \in DG!Reach
  <2>1. z \in DG!Bean BY <1>3, ReachMeans
  <2>2. ASSUME NEW S, ClosedUnder(S), DG!Targets(x) \subseteq S PROVE z \in S
    <3>1. y \in S BY <1>3, <2>2, ReachMeans
    <3>2. DG!Targets(y) \subseteq S BY <2>2, <3>1 DEF ClosedUnder
    <3> QED BY <1>3, <2>1, <2>2, <3>2, ReachMeans
  <2> QED BY <2>1, <2>2, ReachMeans
<1> QED BY <1>1, <1>2, <1>3

\* A path begins with an edge.
LEMMA FirstEdge ==
  ASSUME NEW x \in DG!Bean, NEW y \in DG!Bean, <<x, y>> \in DG!Reach
  PROVE  \E z \in DG!Targets(x) : z = y \/ <<z, y>> \in DG!Reach
<1> DEFINE S == {v \in DG!Bean : \E z \in DG!Targets(x) : z = v \/ <<z, v>> \in DG!Reach}
<1>1. \A v \in DG!Bean : DG!Targets(v) \subseteq DG!Bean BY DEF DG!Targets
<1>2. DG!Targets(x) \subseteq S BY <1>1
<1>3. ASSUME NEW v \in S, NEW w \in DG!Targets(v) PROVE w \in S
  <2>1. v \in DG!Bean /\ w \in DG!Bean BY <1>1, <1>3
  <2>2. PICK z \in DG!Targets(x) : z = v \/ <<z, v>> \in DG!Reach OBVIOUS
  <2>3. z \in DG!Bean /\ <<v, w>> \in DG!Reach BY <1>1, <1>3, <2>1, PathsJoin
  <2>4. <<z, w>> \in DG!Reach BY <2>1, <2>2, <2>3, PathsJoin
  <2> QED BY <2>1, <2>4
<1>4. ClosedUnder(S) BY <1>3 DEF ClosedUnder
<1> HIDE DEF S
<1>5. y \in S BY <1>2, <1>4, ReachMeans
<1> QED BY <1>5 DEF S

\* What the search has on its stack, and what it has put into components.
Stacked == {onStack[i] : i \in DOMAIN onStack}
Settled == UNION components
Frame == [bean : DG!Bean, left : SUBSET DG!Bean]

SearchTypes ==
  /\ edges \in [DG!Bean \X DG!Bean -> DG!Kind]
  /\ indices \in [DG!Bean -> Int] /\ lowlink \in [DG!Bean -> Int] /\ index \in Nat
  /\ \A x \in DG!Bean : indices[x] = -1 \/ (0 <= indices[x] /\ indices[x] < index)
  /\ onStack \in Seq(DG!Bean) /\ frames \in Seq(Frame)
  /\ components \subseteq SUBSET DG!Bean
\* The stack has the beans visited and not settled, those visited first below.
StackInv ==
  /\ \A i, j \in DOMAIN onStack : i < j => indices[onStack[i]] < indices[onStack[j]]
  /\ \A x \in DG!Bean : indices[x] # -1 <=> x \in Stacked \cup Settled
  /\ Stacked \cap Settled = {}
FrameInv ==
  /\ \A i \in DOMAIN frames : frames[i].bean \in Stacked /\ frames[i].left \subseteq DG!Targets(frames[i].bean)
  /\ \A i, j \in DOMAIN frames : i < j => indices[frames[i].bean] < indices[frames[j].bean]
\* Only an open call has targets that are not visited; nothing leads out of
\* the components.
EdgeInv ==
  /\ \A x \in Stacked : \A y \in DG!Targets(x) :
       indices[y] = -1 => \E i \in DOMAIN frames : frames[i].bean = x /\ y \in frames[i].left
  /\ ClosedUnder(Settled)
\* An open call reaches all above it, and everything on the stack an open call
\* not above it.
Down ==
  \A i \in DOMAIN frames : \A y \in Stacked :
    indices[frames[i].bean] < indices[y] => <<frames[i].bean, y>> \in DG!Reach
Up ==
  \A y \in Stacked : \E i \in DOMAIN frames :
    /\ indices[frames[i].bean] <= indices[y]
    /\ frames[i].bean = y \/ <<y, frames[i].bean>> \in DG!Reach
\* The lowlink of an open call is the index of something that it reaches, and
\* no edge followed from what is its own leads lower.
Low ==
  \A i \in DOMAIN frames : \E w \in Stacked :
    /\ indices[w] = lowlink[frames[i].bean] /\ indices[w] <= indices[frames[i].bean]
    /\ w = frames[i].bean \/ <<frames[i].bean, w>> \in DG!Reach
Owns(i, y) ==
  /\ indices[frames[i].bean] <= indices[y]
  /\ i # Len(frames) => indices[y] < indices[frames[i + 1].bean]
Least ==
  \A i \in DOMAIN frames : \A y \in Stacked : Owns(i, y) =>
    \A z \in DG!Targets(y) \cap Stacked :
      (y = frames[i].bean => z \notin frames[i].left) => lowlink[frames[i].bean] <= indices[z]
\* A component is a bean with all that reach it and are reached.
Strong ==
  \A C \in components : \E x \in C : \A y \in DG!Bean : y \in C <=> DG!Mutual(x, y)
SearchInv == SearchTypes /\ StackInv /\ FrameInv /\ EdgeInv /\ Down /\ Up /\ Low /\ Least /\ Strong

\* A bean is visited: it is the newest on the stack, and an open call.
LEMMA Visited ==
  ASSUME SearchInv, NEW x \in DG!Bean, indices[x] = -1, NEW caller \in Seq(Frame), Len(caller) = Len(frames),
         \A i \in 1 .. Len(frames) : /\ caller[i].bean = frames[i].bean /\ caller[i].left \subseteq frames[i].left
                                     /\ frames[i].left \subseteq caller[i].left \cup {x},
         Len(frames) # 0 => x \in DG!Targets(frames[Len(frames)].bean),
         DG!Visit(x, caller)
  PROVE  SearchInv'
<1> DEFINE n == Len(frames)
           k == Len(onStack)
<1>1. /\ SearchTypes /\ StackInv /\ FrameInv /\ EdgeInv /\ Down /\ Up /\ Low /\ Least /\ Strong BY DEF SearchInv
<1>2. /\ indices' = [indices EXCEPT ![x] = index] /\ lowlink' = [lowlink EXCEPT ![x] = index]
      /\ index' = index + 1 /\ onStack' = Append(onStack, x)
      /\ frames' = Append(caller, [bean |-> x, left |-> DG!Targets(x)])
      /\ edges' = edges /\ components' = components
  BY DEF DG!Visit
<1>3. /\ n \in Nat /\ DOMAIN frames = 1 .. n /\ k \in Nat /\ DOMAIN onStack = 1 .. k
      /\ \A i \in 1 .. n : frames[i] \in Frame
      /\ \A i \in 1 .. k : onStack[i] \in DG!Bean
  BY <1>1 DEF SearchTypes
<1>4. /\ [bean |-> x, left |-> DG!Targets(x)] \in Frame BY DEF Frame, DG!Targets
<1>5. /\ frames' \in Seq(Frame) /\ DOMAIN frames' = 1 .. n + 1 /\ Len(frames') = n + 1
      /\ \A i \in 1 .. n : frames'[i] = caller[i]
      /\ frames'[n + 1] = [bean |-> x, left |-> DG!Targets(x)]
  BY <1>2, <1>3, <1>4
<1>6. /\ onStack' \in Seq(DG!Bean) /\ DOMAIN onStack' = 1 .. k + 1
      /\ \A i \in 1 .. k : onStack'[i] = onStack[i]
      /\ onStack'[k + 1] = x
  BY <1>1, <1>2, <1>3 DEF SearchTypes
<1>7. Stacked' = Stacked \cup {x} /\ Stacked \subseteq DG!Bean
  <2>1. \A i \in 1 .. k + 1 : i \in 1 .. k \/ i = k + 1 BY <1>3
  <2>2. \A i \in 1 .. k : i \in 1 .. k + 1 BY <1>3
  <2>3. k + 1 \in 1 .. k + 1 BY <1>3
  <2> HIDE DEF k
  <2> QED BY <1>3, <1>6, <2>1, <2>2, <2>3 DEF Stacked
<1>8. /\ indices' \in [DG!Bean -> Int] /\ lowlink' \in [DG!Bean -> Int]
      /\ indices'[x] = index /\ lowlink'[x] = index
      /\ \A y \in DG!Bean \ {x} : indices'[y] = indices[y] /\ lowlink'[y] = lowlink[y]
  BY <1>1, <1>2 DEF SearchTypes
<1>9. /\ x \notin Stacked /\ x \notin Settled /\ Settled' = Settled
      /\ \A y \in Stacked : indices'[y] = indices[y] /\ lowlink'[y] = lowlink[y]
                            /\ 0 <= indices[y] /\ indices[y] < index /\ indices[y] \in Int
  <2>1. x \notin Stacked /\ x \notin Settled /\ Settled' = Settled BY <1>1, <1>2 DEF StackInv, Settled
  <2> QED BY <1>1, <1>7, <1>8, <2>1 DEF SearchTypes, StackInv
<1>10. \A i \in 1 .. n : frames'[i].bean = frames[i].bean /\ frames'[i].left \subseteq frames[i].left
                         /\ frames[i].left \subseteq frames'[i].left \cup {x} /\ frames[i].bean \in Stacked
  BY <1>1, <1>3, <1>5 DEF FrameInv
<1>11. frames'[n + 1].bean = x /\ frames'[n + 1].left = DG!Targets(x) BY <1>5
<1>12. \A i \in 1 .. n + 1 : i \in 1 .. n \/ i = n + 1 BY <1>3
<1>13. /\ \A y : DG!Targets(y)' = DG!Targets(y)
       /\ DG!Reach' = DG!Reach
       /\ \A y, z : DG!Mutual(y, z)' = DG!Mutual(y, z)
       /\ \A S : ClosedUnder(S)' <=> ClosedUnder(S)
  <2>1. \A y : DG!Targets(y)' = DG!Targets(y) BY <1>2 DEF DG!Targets
  <2>2. DG!Reach' = DG!Reach BY <1>2 DEF DG!Reach, DG!Targets
  <2> QED BY <2>1, <2>2 DEF DG!Mutual, ClosedUnder
<1> HIDE DEF n, k
<1>14. SearchTypes'
  <2>1. index' \in Nat BY <1>1, <1>2 DEF SearchTypes
  <2>2. \A y \in DG!Bean : indices'[y] = -1 \/ (0 <= indices'[y] /\ indices'[y] < index')
    BY <1>1, <1>2, <1>8 DEF SearchTypes
  <2>3. edges' \in [DG!Bean \X DG!Bean -> DG!Kind] /\ components' \subseteq SUBSET DG!Bean BY <1>1, <1>2 DEF SearchTypes
  <2> QED BY <1>5, <1>6, <1>8, <2>1, <2>2, <2>3 DEF SearchTypes
<1>15. StackInv'
  <2>1. ASSUME NEW i \in 1 .. k + 1, NEW j \in 1 .. k + 1, i < j PROVE indices'[onStack'[i]] < indices'[onStack'[j]]
    <3>0. i \in 1 .. k BY <1>3, <2>1
    <3>1. i \in 1 .. k /\ onStack'[i] = onStack[i] /\ onStack[i] \in Stacked BY <1>3, <1>6, <3>0 DEF Stacked
    <3>2. CASE j = k + 1 BY <1>6, <1>8, <1>9, <3>1, <3>2
    <3>3. CASE j # k + 1
      <4>1. j \in 1 .. k /\ onStack'[j] = onStack[j] /\ onStack[j] \in Stacked BY <1>3, <1>6, <3>3 DEF Stacked
      <4> QED BY <1>1, <1>3, <1>9, <2>1, <3>1, <4>1 DEF StackInv
    <3> QED BY <3>2, <3>3
  <2>2. \A y \in DG!Bean : indices'[y] # -1 <=> y \in (Stacked \cup {x}) \cup Settled
    <3>1. index # -1 BY <1>1 DEF SearchTypes
    <3> QED BY <1>1, <1>8, <3>1 DEF StackInv
  <2>3. (Stacked \cup {x}) \cap Settled = {} BY <1>1, <1>9 DEF StackInv
  <2> QED BY <1>6, <1>7, <1>9, <2>1, <2>2, <2>3 DEF StackInv
<1>16. FrameInv'
  <2>1. ASSUME NEW i \in 1 .. n + 1
        PROVE  frames'[i].bean \in Stacked' /\ frames'[i].left \subseteq DG!Targets(frames'[i].bean)
    <3>1. CASE i = n + 1 BY <1>7, <1>11, <1>13, <3>1
    <3>2. CASE i \in 1 .. n BY <1>1, <1>3, <1>7, <1>10, <1>13, <3>2 DEF FrameInv
    <3> QED BY <1>12, <3>1, <3>2
  <2>2. ASSUME NEW i \in 1 .. n + 1, NEW j \in 1 .. n + 1, i < j
        PROVE  indices'[frames'[i].bean] < indices'[frames'[j].bean]
    <3>1. i \in 1 .. n /\ (j = n + 1 \/ j \in 1 .. n) BY <1>3, <2>2
    <3>2. CASE j = n + 1 BY <1>8, <1>9, <1>10, <1>11, <3>1, <3>2
    <3>3. CASE j \in 1 .. n
      <4>1. indices[frames[i].bean] < indices[frames[j].bean] BY <1>1, <1>3, <2>2, <3>1, <3>3 DEF FrameInv
      <4> QED BY <1>9, <1>10, <3>1, <3>3, <4>1
    <3> QED BY <3>1, <3>2, <3>3
  <2> QED BY <1>5, <1>13, <2>1, <2>2 DEF FrameInv
<1>17. EdgeInv'
  <2>1. ASSUME NEW y \in Stacked \cup {x}, NEW z \in DG!Targets(y), indices'[z] = -1
        PROVE  \E i \in 1 .. n + 1 : frames'[i].bean = y /\ z \in frames'[i].left
    <3>1. z \in DG!Bean /\ z # x /\ indices[z] = -1
      <4>1. z \in DG!Bean BY DEF DG!Targets
      <4> QED BY <1>1, <1>8, <2>1, <4>1 DEF SearchTypes
    <3>2. CASE y = x
      <4>1. n + 1 \in 1 .. n + 1 BY <1>3
      <4> QED BY <1>11, <3>2, <4>1
    <3>3. CASE y \in Stacked
      <4>1. PICK i \in 1 .. n : frames[i].bean = y /\ z \in frames[i].left BY <1>1, <1>3, <3>1, <3>3 DEF EdgeInv
      <4>2. i \in 1 .. n + 1 BY <1>3
      <4> QED BY <1>10, <3>1, <4>1, <4>2
    <3> QED BY <3>2, <3>3
  <2>2. ClosedUnder(Settled)' BY <1>1, <1>9, <1>13 DEF EdgeInv, ClosedUnder
  <2> QED BY <1>5, <1>7, <1>13, <2>1, <2>2 DEF EdgeInv
<1>18. Down'
  <2> SUFFICES ASSUME NEW i \in 1 .. n + 1, NEW y \in Stacked \cup {x}, indices'[frames'[i].bean] < indices'[y]
               PROVE  <<frames'[i].bean, y>> \in DG!Reach
    BY <1>5, <1>7, <1>13 DEF Down
  <2>1. i \in 1 .. n BY <1>1, <1>8, <1>9, <1>11, <1>12 DEF SearchTypes
  <2>2. CASE y \in Stacked BY <1>1, <1>3, <1>9, <1>10, <2>1, <2>2 DEF Down
  <2>3. CASE y = x
    <3>1. n \in 1 .. n /\ x \in DG!Targets(frames[n].bean) /\ frames[n].bean \in DG!Bean
      BY <1>3, <1>7, <1>10, <2>1 DEF n
    <3>2. <<frames[n].bean, x>> \in DG!Reach BY <3>1, PathsJoin
    <3>3. CASE i = n BY <1>10, <2>1, <2>3, <3>2, <3>3
    <3>4. CASE i # n
      <4>1. indices[frames[i].bean] < indices[frames[n].bean] BY <1>1, <1>3, <2>1, <3>1, <3>4 DEF FrameInv
      <4>2. <<frames[i].bean, frames[n].bean>> \in DG!Reach BY <1>1, <1>3, <1>10, <2>1, <3>1, <4>1 DEF Down
      <4>3. frames[i].bean \in DG!Bean BY <1>7, <1>10, <2>1
      <4> QED BY <1>10, <2>1, <2>3, <3>1, <3>2, <4>2, <4>3, PathsJoin
    <3> QED BY <3>3, <3>4
  <2> QED BY <2>2, <2>3
<1>19. Up'
  <2> SUFFICES ASSUME NEW y \in Stacked \cup {x}
               PROVE  \E i \in 1 .. n + 1 : /\ indices'[frames'[i].bean] <= indices'[y]
                                            /\ frames'[i].bean = y \/ <<y, frames'[i].bean>> \in DG!Reach
    BY <1>5, <1>7, <1>13 DEF Up
  <2>1. CASE y = x
    <3>1. n + 1 \in 1 .. n + 1 /\ index <= index BY <1>1, <1>3 DEF SearchTypes
    <3> QED BY <1>8, <1>11, <2>1, <3>1
  <2>2. CASE y \in Stacked
    <3>1. PICK i \in 1 .. n : /\ indices[frames[i].bean] <= indices[y]
                              /\ frames[i].bean = y \/ <<y, frames[i].bean>> \in DG!Reach
      BY <1>1, <1>3, <2>2 DEF Up
    <3>2. i \in 1 .. n + 1 BY <1>3
    <3> QED BY <1>9, <1>10, <2>2, <3>1, <3>2
  <2> QED BY <2>1, <2>2
<1>20. Low'
  <2> SUFFICES ASSUME NEW i \in 1 .. n + 1
               PROVE  \E w \in Stacked \cup {x} :
                        /\ indices'[w] = lowlink'[frames'[i].bean] /\ indices'[w] <= indices'[frames'[i].bean]
                        /\ w = frames'[i].bean \/ <<frames'[i].bean, w>> \in DG!Reach
    BY <1>5, <1>7, <1>13 DEF Low
  <2>1. CASE i = n + 1
    <3>1. index <= index BY <1>1 DEF SearchTypes
    <3> QED BY <1>8, <1>11, <2>1, <3>1
  <2>2. CASE i \in 1 .. n
    <3>1. PICK w \in Stacked :
            /\ indices[w] = lowlink[frames[i].bean] /\ indices[w] <= indices[frames[i].bean]
            /\ w = frames[i].bean \/ <<frames[i].bean, w>> \in DG!Reach
      BY <1>1, <1>3, <2>2 DEF Low
    <3> QED BY <1>9, <1>10, <2>2, <3>1
  <2> QED BY <1>12, <2>1, <2>2
<1>21. Least'
  <2> SUFFICES ASSUME NEW i \in 1 .. n + 1, NEW y \in Stacked \cup {x}, Owns(i, y)',
                      NEW z \in DG!Targets(y) \cap (Stacked \cup {x}),
                      y = frames'[i].bean => z \notin frames'[i].left
               PROVE  lowlink'[frames'[i].bean] <= indices'[z]
    BY <1>5, <1>7, <1>13 DEF Least
  <2>1. /\ indices'[frames'[i].bean] <= indices'[y]
        /\ i # n + 1 => indices'[y] < indices'[frames'[i + 1].bean]
    BY <1>5 DEF Owns
  <2>2. CASE i = n + 1
    <3>1. y = x BY <1>8, <1>9, <1>11, <2>1, <2>2, <1>1 DEF SearchTypes
    <3> QED BY <1>11, <2>2, <3>1
  <2>3. CASE i \in 1 .. n
    <3>1. i + 1 \in 1 .. n + 1 /\ i # n + 1 BY <1>3, <2>3
    <3>2. y \in Stacked
      <4>1. frames'[i + 1].bean \in Stacked \cup {x} BY <1>7, <1>10, <1>11, <1>12, <3>1
      <4>2. indices'[frames'[i + 1].bean] <= index /\ index \in Int /\ indices'[y] \in Int
        BY <1>1, <1>8, <1>9, <4>1, SMTT(20) DEF SearchTypes
      <4>3. indices'[y] < index
        <5>1. indices'[frames'[i + 1].bean] \in Int BY <1>7, <1>8, <4>1
        <5> QED BY <2>1, <3>1, <4>2, <5>1
      <4> QED BY <1>8, <4>2, <4>3
    <3>3. frames[i].bean \in Stacked /\ frames'[i].bean = frames[i].bean BY <1>10, <2>3
    <3>4. Owns(i, y)
      <4>1. indices[frames[i].bean] <= indices[y] BY <1>9, <2>1, <3>2, <3>3
      <4>2. ASSUME i # n PROVE indices[y] < indices[frames[i + 1].bean]
        <5>1. i + 1 \in 1 .. n BY <1>3, <2>3, <4>2
        <5> QED BY <1>9, <1>10, <2>1, <3>1, <3>2, <5>1
      <4> QED BY <4>1, <4>2 DEF Owns, n
    <3>5. CASE z = x
      <4>1. PICK w \in Stacked : indices[w] = lowlink[frames[i].bean] BY <1>1, <1>3, <2>3 DEF Low
      <4> QED BY <1>8, <1>9, <3>3, <3>5, <4>1, <1>1 DEF SearchTypes
    <3>6. CASE z \in Stacked
      <4>1. y = frames[i].bean => z \notin frames[i].left BY <1>9, <1>10, <2>3, <3>6
      <4>2. lowlink[frames[i].bean] <= indices[z] BY <1>1, <1>3, <2>3, <3>2, <3>4, <3>6, <4>1 DEF Least
      <4> QED BY <1>9, <3>3, <3>6, <4>2
    <3> QED BY <3>5, <3>6
  <2> QED BY <1>12, <2>2, <2>3
<1>22. Strong' BY <1>1, <1>2, <1>13 DEF Strong
<1> QED BY <1>14, <1>15, <1>16, <1>17, <1>18, <1>19, <1>20, <1>21, <1>22 DEF SearchInv

\* The innermost call, and what one turn of its loop makes of it.
LEMMA Innermost ==
  ASSUME frames \in Seq(Frame), frames # <<>>
  PROVE  /\ Len(frames) \in Nat \ {0} /\ DG!Last(frames) = frames[Len(frames)] /\ frames[Len(frames)] \in Frame
         /\ DG!Front(frames) \in Seq(Frame) /\ Len(DG!Front(frames)) = Len(frames) - 1
         /\ \A i \in 1 .. Len(frames) - 1 : DG!Front(frames)[i] = frames[i]
         /\ \A y : LET caller == Append(DG!Front(frames), [DG!Last(frames) EXCEPT !.left = @ \ {y}])
                   IN  /\ caller \in Seq(Frame) /\ Len(caller) = Len(frames)
                       /\ \A i \in 1 .. Len(frames) - 1 : caller[i] = frames[i]
                       /\ caller[Len(frames)].bean = frames[Len(frames)].bean
                       /\ caller[Len(frames)].left = frames[Len(frames)].left \ {y}
<1> DEFINE n == Len(frames)
           front == DG!Front(frames)
<1>1. n \in Nat \ {0} BY EmptySeq
<1>2. DG!Last(frames) = frames[n] /\ frames[n] \in Frame BY <1>1 DEF DG!Last
<1>3. /\ front \in Seq(Frame) /\ Len(front) = n - 1
      /\ \A i \in 1 .. n - 1 : front[i] = frames[i]
  <2>1. front = [i \in 1 .. n - 1 |-> frames[i]] BY <1>1 DEF DG!Front
  <2>2. \A i \in 1 .. n - 1 : frames[i] \in Frame BY <1>1
  <2> QED BY <1>1, <2>1, <2>2
<1> HIDE DEF front, n
<1>4. ASSUME NEW y
      PROVE  LET caller == Append(front, [DG!Last(frames) EXCEPT !.left = @ \ {y}])
             IN  /\ caller \in Seq(Frame) /\ Len(caller) = n
                 /\ \A i \in 1 .. n - 1 : caller[i] = frames[i]
                 /\ caller[n].bean = frames[n].bean /\ caller[n].left = frames[n].left \ {y}
  <2> DEFINE f == [DG!Last(frames) EXCEPT !.left = @ \ {y}]
             caller == Append(front, f)
  <2>1. f \in Frame /\ f.bean = frames[n].bean /\ f.left = frames[n].left \ {y} BY <1>2 DEF Frame
  <2> HIDE DEF f
  <2>2. /\ caller \in Seq(Frame) /\ Len(caller) = n /\ caller[n] = f
        /\ \A i \in 1 .. n - 1 : caller[i] = front[i]
    BY <1>1, <1>3, <2>1
  <2> QED BY <1>3, <2>1, <2>2 DEF f
<1>5. /\ n \in Nat \ {0} /\ DG!Last(frames) = frames[n] /\ frames[n] \in Frame
      /\ front \in Seq(Frame) /\ Len(front) = n - 1
      /\ \A i \in 1 .. n - 1 : front[i] = frames[i]
  BY <1>1, <1>2, <1>3
<1> QED BY ONLY <1>4, <1>5 DEF n, front

\* Of some beans there is a first.
LEMMA FirstBean == ASSUME DG!GraphAssumption, NEW S \in SUBSET DG!Bean, S # {} PROVE DG!Min(S) \in S
<1>1. S \in SUBSET Nat BY DEF DG!Bean, DG!GraphAssumption
<1>2. \E m \in S : \A k \in S : m <= k BY <1>1, LeastNumber
<1> QED BY <1>2 DEF DG!Min

\* A target that was visited before lowers the lowlink if it is on the stack.
LEMMA Followed ==
  ASSUME SearchInv, frames # <<>>, NEW y \in frames[Len(frames)].left, indices[y] # -1,
         frames' = Append(DG!Front(frames), [DG!Last(frames) EXCEPT !.left = @ \ {y}]),
         lowlink' = IF y \in Stacked /\ indices[y] < lowlink[frames[Len(frames)].bean]
                    THEN [lowlink EXCEPT ![frames[Len(frames)].bean] = indices[y]] ELSE lowlink,
         edges' = edges, indices' = indices, onStack' = onStack, index' = index, components' = components
  PROVE  SearchInv'
<1> DEFINE n == Len(frames)
           x == frames[n].bean
<1>1. /\ SearchTypes /\ StackInv /\ FrameInv /\ EdgeInv /\ Down /\ Up /\ Low /\ Least /\ Strong BY DEF SearchInv
<1>2. frames \in Seq(Frame) BY <1>1 DEF SearchTypes
<1>3. /\ n \in Nat \ {0} /\ DOMAIN frames = 1 .. n /\ DOMAIN frames' = 1 .. n
      /\ frames' \in Seq(Frame) /\ Len(frames') = n
      /\ \A i \in 1 .. n - 1 : frames'[i] = frames[i]
      /\ frames'[n].bean = x /\ frames'[n].left = frames[n].left \ {y}
  <2>1. n \in Nat \ {0} BY <1>2, Innermost
  <2> DEFINE caller == Append(DG!Front(frames), [DG!Last(frames) EXCEPT !.left = @ \ {y}])
  <2>2. /\ caller \in Seq(Frame) /\ Len(caller) = n
        /\ \A i \in 1 .. n - 1 : caller[i] = frames[i]
        /\ caller[n].bean = x /\ caller[n].left = frames[n].left \ {y}
    BY <1>2, Innermost
  <2>3. frames' = caller OBVIOUS
  <2> HIDE DEF caller, x
  <2>4. DOMAIN frames = 1 .. n BY <1>2
  <2>5. DOMAIN caller = 1 .. n BY <2>2
  <2> QED BY ONLY <2>1, <2>2, <2>3, <2>4, <2>5
<1>4. /\ n \in 1 .. n
      /\ \A i \in 1 .. n : i = n \/ i \in 1 .. n - 1
      /\ \A i \in 1 .. n - 1 : i \in 1 .. n /\ i < n
  <2>1. n \in Nat \ {0} BY <1>3
  <2> HIDE DEF n
  <2> QED BY ONLY <2>1
<1> HIDE DEF n
<1>5. \A i \in 1 .. n : frames'[i].bean = frames[i].bean /\ frames'[i].left \subseteq frames[i].left
                        /\ frames[i].left \subseteq frames'[i].left \cup {y}
  BY <1>3, <1>4
<1>6. /\ Stacked \subseteq DG!Bean /\ \A i \in 1 .. n : frames[i].bean \in Stacked
      /\ x \in Stacked /\ x \in DG!Bean /\ y \in DG!Targets(x) /\ y \in DG!Bean
  <2>1. Stacked \subseteq DG!Bean BY <1>1 DEF SearchTypes, Stacked
  <2>2. \A i \in 1 .. n : frames[i].bean \in Stacked BY <1>1, <1>3 DEF FrameInv
  <2>3. y \in DG!Targets(x) BY <1>1, <1>3, <1>4 DEF FrameInv, n
  <2> QED BY <1>4, <2>1, <2>2, <2>3 DEF DG!Targets
<1>7. \A z \in DG!Bean : indices[z] \in Int /\ lowlink[z] \in Int BY <1>1 DEF SearchTypes
<1>8. \A i \in 1 .. n - 1 : frames[i].bean # x
  <2> SUFFICES ASSUME NEW i \in 1 .. n - 1 PROVE frames[i].bean # x OBVIOUS
  <2>1. i \in 1 .. n /\ n \in 1 .. n /\ i < n BY <1>4
  <2>2. indices[frames[i].bean] < indices[x] BY <1>1, <1>3, <2>1 DEF FrameInv
  <2> QED BY <1>6, <1>7, <2>2
<1>9. /\ \A z \in DG!Bean \ {x} : lowlink'[z] = lowlink[z]
      /\ lowlink'[x] <= lowlink[x]
      /\ y \in Stacked => lowlink'[x] <= indices[y]
      /\ lowlink'[x] = lowlink[x] \/ (y \in Stacked /\ lowlink'[x] = indices[y])
      /\ lowlink' \in [DG!Bean -> Int]
  <2>1. lowlink \in [DG!Bean -> Int] BY <1>1 DEF SearchTypes
  <2>2. CASE y \in Stacked /\ indices[y] < lowlink[x]
    <3>1. lowlink' = [lowlink EXCEPT ![x] = indices[y]] BY <2>2 DEF n
    <3>2. lowlink'[x] = indices[y] /\ lowlink' \in [DG!Bean -> Int] BY <1>6, <1>7, <2>1, <3>1
    <3>3. \A z \in DG!Bean \ {x} : lowlink'[z] = lowlink[z] BY <2>1, <3>1
    <3>4. indices[y] <= lowlink[x] /\ indices[y] <= indices[y] BY <1>6, <1>7, <2>2
    <3> QED BY <2>2, <3>2, <3>3, <3>4
  <2>3. CASE ~(y \in Stacked /\ indices[y] < lowlink[x])
    <3>1. lowlink' = lowlink BY <2>3 DEF n
    <3>2. lowlink[x] <= lowlink[x] /\ (y \in Stacked => lowlink[x] <= indices[y]) BY <1>6, <1>7, <2>3
    <3> QED BY <2>1, <3>1, <3>2
  <2> QED BY <2>2, <2>3
<1>10. /\ Stacked' = Stacked /\ Settled' = Settled /\ \A z : DG!Targets(z)' = DG!Targets(z)
       /\ DG!Reach' = DG!Reach
       /\ \A v, z : DG!Mutual(v, z)' = DG!Mutual(v, z)
       /\ \A S : ClosedUnder(S)' <=> ClosedUnder(S)
  <2>1. \A z : DG!Targets(z)' = DG!Targets(z) BY DEF DG!Targets
  <2>2. DG!Reach' = DG!Reach BY DEF DG!Reach, DG!Targets
  <2> QED BY <2>1, <2>2 DEF DG!Mutual, ClosedUnder, Stacked, Settled
<1> HIDE DEF x
<1>11. SearchTypes' BY <1>1, <1>3, <1>9 DEF SearchTypes
<1>12. StackInv' BY <1>1, <1>10 DEF StackInv
<1>13. FrameInv'
  <2>1. \A i \in 1 .. n : frames'[i].bean \in Stacked /\ frames'[i].left \subseteq DG!Targets(frames'[i].bean)
    BY <1>1, <1>3, <1>5 DEF FrameInv
  <2>2. ASSUME NEW i \in 1 .. n, NEW j \in 1 .. n, i < j
        PROVE  indices[frames'[i].bean] < indices[frames'[j].bean]
    <3>1. indices[frames[i].bean] < indices[frames[j].bean] BY <1>1, <1>3, <2>2 DEF FrameInv
    <3> QED BY <1>5, <3>1
  <2> QED BY <1>3, <1>10, <2>1, <2>2 DEF FrameInv
<1>14. EdgeInv'
  <2>1. ASSUME NEW v \in Stacked, NEW z \in DG!Targets(v), indices[z] = -1
        PROVE  \E i \in 1 .. n : frames'[i].bean = v /\ z \in frames'[i].left
    <3>1. PICK i \in 1 .. n : frames[i].bean = v /\ z \in frames[i].left BY <1>1, <1>3, <2>1 DEF EdgeInv
    <3> QED BY <1>5, <2>1, <3>1
  <2>2. ClosedUnder(Settled)' BY <1>1, <1>10 DEF EdgeInv, ClosedUnder
  <2> QED BY <1>3, <1>10, <2>1, <2>2 DEF EdgeInv
<1>15. Down' BY <1>1, <1>3, <1>5, <1>10 DEF Down
<1>16. Up'
  <2> SUFFICES ASSUME NEW v \in Stacked
               PROVE  \E i \in 1 .. n : /\ indices[frames'[i].bean] <= indices[v]
                                        /\ frames'[i].bean = v \/ <<v, frames'[i].bean>> \in DG!Reach
    BY <1>3, <1>10 DEF Up
  <2>1. PICK i \in 1 .. n : /\ indices[frames[i].bean] <= indices[v]
                            /\ frames[i].bean = v \/ <<v, frames[i].bean>> \in DG!Reach
    BY <1>1, <1>3 DEF Up
  <2> QED BY <1>5, <2>1
<1>17. Low'
  <2> SUFFICES ASSUME NEW i \in 1 .. n
               PROVE  \E w \in Stacked :
                        /\ indices[w] = lowlink'[frames'[i].bean] /\ indices[w] <= indices[frames'[i].bean]
                        /\ w = frames'[i].bean \/ <<frames'[i].bean, w>> \in DG!Reach
    BY <1>3, <1>10 DEF Low
  <2>0. frames'[i].bean = frames[i].bean BY <1>5
  <2>1. PICK w \in Stacked :
          /\ indices[w] = lowlink[frames[i].bean] /\ indices[w] <= indices[frames[i].bean]
          /\ w = frames[i].bean \/ <<frames[i].bean, w>> \in DG!Reach
    BY <1>1, <1>3 DEF Low
  <2>2. CASE i # n \/ lowlink'[x] = lowlink[x]
    <3>1. lowlink'[frames[i].bean] = lowlink[frames[i].bean] BY <1>4, <1>6, <1>8, <1>9, <2>2 DEF x
    <3> QED BY <2>0, <2>1, <3>1
  <2>3. CASE i = n /\ y \in Stacked /\ lowlink'[x] = indices[y]
    <3>1. <<x, y>> \in DG!Reach BY <1>6, PathsJoin
    <3>2. frames[i].bean = x /\ indices[y] <= indices[x]
      <4>1. frames[i].bean = x BY <2>3 DEF x
      <4>2. indices[y] <= lowlink[x] /\ lowlink[x] = indices[w] /\ indices[w] <= indices[x] BY <1>9, <2>1, <2>3, <4>1
      <4>3. indices[y] \in Int /\ lowlink[x] \in Int /\ indices[x] \in Int BY <1>6, <1>7
      <4> QED BY <4>1, <4>2, <4>3
    <3> QED BY <2>0, <2>3, <3>1, <3>2
  <2> QED BY <1>9, <2>2, <2>3
<1>18. Least'
  <2> SUFFICES ASSUME NEW i \in 1 .. n, NEW v \in Stacked, Owns(i, v)', NEW z \in DG!Targets(v) \cap Stacked,
                      v = frames'[i].bean => z \notin frames'[i].left
               PROVE  lowlink'[frames[i].bean] <= indices[z]
    BY <1>3, <1>5, <1>10 DEF Least
  <2>1. Owns(i, v)
    <3>1. i # n => i + 1 \in 1 .. n BY <1>3
    <3> QED BY <1>3, <1>5, <3>1 DEF Owns, n
  <2>2. /\ frames[i].bean \in DG!Bean /\ z \in DG!Bean
        /\ lowlink'[frames[i].bean] <= lowlink[frames[i].bean]
        /\ lowlink'[frames[i].bean] \in Int /\ lowlink[frames[i].bean] \in Int /\ indices[z] \in Int
    <3>1. frames[i].bean \in DG!Bean /\ z \in DG!Bean BY <1>6
    <3>2. lowlink'[frames[i].bean] \in Int /\ lowlink[frames[i].bean] \in Int /\ indices[z] \in Int
      BY <1>7, <1>9, <3>1
    <3>3. lowlink'[frames[i].bean] <= lowlink[frames[i].bean]
      <4>1. CASE frames[i].bean = x BY <1>9, <4>1
      <4>2. CASE frames[i].bean # x
        <5>1. lowlink'[frames[i].bean] = lowlink[frames[i].bean] BY <1>9, <3>1, <4>2
        <5> QED BY <3>2, <5>1
      <4> QED BY <4>1, <4>2
    <3> QED BY <3>1, <3>2, <3>3
  <2>3. CASE v = frames[i].bean => z \notin frames[i].left
    <3>1. lowlink[frames[i].bean] <= indices[z] BY <1>1, <1>3, <2>1, <2>3 DEF Least
    <3> QED BY <2>2, <3>1
  <2>4. CASE v = frames[i].bean /\ z \in frames[i].left
    <3>1. z \notin frames'[i].left BY <1>5, <2>4
    <3>2. z = y /\ i = n BY <1>3, <1>4, <1>5, <2>4, <3>1
    <3> QED BY <1>9, <3>2 DEF x
  <2> QED BY <2>3, <2>4
<1>19. Strong' BY <1>1, <1>10 DEF Strong
<1> QED BY <1>11, <1>12, <1>13, <1>14, <1>15, <1>16, <1>17, <1>18, <1>19 DEF SearchInv

\* The innermost call has followed all its targets and returns.
LEMMA Returned ==
  ASSUME SearchInv, frames # <<>>, frames' = DG!Front(frames)
  PROVE  LET n == Len(frames)
             x == frames[n].bean
         IN  /\ n \in Nat \ {0} /\ n \in 1 .. n /\ DOMAIN frames = 1 .. n /\ DOMAIN frames' = 1 .. n - 1
             /\ Len(frames') = n - 1 /\ frames' \in Seq(Frame)
             /\ \A i \in 1 .. n - 1 : frames'[i] = frames[i] /\ i \in 1 .. n
             /\ \A i \in 1 .. n : i = n \/ i \in 1 .. n - 1
             /\ Stacked \subseteq DG!Bean /\ x \in Stacked
             /\ \A i \in 1 .. n : frames[i].bean \in Stacked
             /\ \A i \in 1 .. n - 1 : indices[frames[i].bean] < indices[x]
             /\ \A y \in DG!Bean : indices[y] \in Int /\ lowlink[y] \in Int
<1> DEFINE n == Len(frames)
           x == frames[n].bean
<1>1. /\ SearchTypes /\ StackInv /\ FrameInv BY DEF SearchInv
<1>2. frames \in Seq(Frame) BY <1>1 DEF SearchTypes
<1>3. /\ n \in Nat \ {0} /\ DG!Front(frames) \in Seq(Frame) /\ Len(DG!Front(frames)) = n - 1
      /\ \A i \in 1 .. n - 1 : DG!Front(frames)[i] = frames[i]
  BY <1>2, Innermost
<1>4. /\ DOMAIN frames = 1 .. n /\ DOMAIN frames' = 1 .. n - 1 BY <1>2, <1>3
<1>5. /\ n \in 1 .. n
      /\ \A i \in 1 .. n : i = n \/ i \in 1 .. n - 1
      /\ \A i \in 1 .. n - 1 : i \in 1 .. n /\ i < n
  <2>1. n \in Nat \ {0} BY <1>3
  <2> HIDE DEF n
  <2> QED BY ONLY <2>1
<1>6. Stacked \subseteq DG!Bean BY <1>1 DEF SearchTypes, Stacked
<1>7. /\ \A i \in 1 .. n : frames[i].bean \in Stacked
      /\ \A i, j \in 1 .. n : i < j => indices[frames[i].bean] < indices[frames[j].bean]
  BY <1>1, <1>4 DEF FrameInv
<1>8. \A y \in DG!Bean : indices[y] \in Int /\ lowlink[y] \in Int BY <1>1 DEF SearchTypes
<1> HIDE DEF n
<1>9. \A i \in 1 .. n - 1 : indices[frames[i].bean] < indices[x] BY <1>5, <1>7
<1> QED BY <1>3, <1>4, <1>5, <1>6, <1>7, <1>8, <1>9 DEF n

\* A call that reaches something older passes its lowlink to its caller.
LEMMA LeftOpen ==
  ASSUME SearchInv, frames # <<>>, frames[Len(frames)].left = {},
         lowlink[frames[Len(frames)].bean] # indices[frames[Len(frames)].bean],
         frames' = DG!Front(frames),
         lowlink' = IF frames' # <<>> /\ lowlink[frames[Len(frames)].bean] < lowlink[frames[Len(frames) - 1].bean]
                    THEN [lowlink EXCEPT ![frames[Len(frames) - 1].bean] = lowlink[frames[Len(frames)].bean]]
                    ELSE lowlink,
         edges' = edges, indices' = indices, onStack' = onStack, index' = index, components' = components
  PROVE  SearchInv'
<1> DEFINE n == Len(frames)
           x == frames[n].bean
           p == frames[n - 1].bean
<1>1. /\ SearchTypes /\ StackInv /\ FrameInv /\ EdgeInv /\ Down /\ Up /\ Low /\ Least /\ Strong BY DEF SearchInv
<1>2. /\ n \in Nat \ {0} /\ n \in 1 .. n /\ DOMAIN frames = 1 .. n /\ DOMAIN frames' = 1 .. n - 1
      /\ Len(frames') = n - 1 /\ frames' \in Seq(Frame)
      /\ \A i \in 1 .. n - 1 : frames'[i] = frames[i] /\ i \in 1 .. n
      /\ \A i \in 1 .. n : i = n \/ i \in 1 .. n - 1
      /\ Stacked \subseteq DG!Bean /\ x \in Stacked
      /\ \A i \in 1 .. n : frames[i].bean \in Stacked
      /\ \A i \in 1 .. n - 1 : indices[frames[i].bean] < indices[x]
      /\ \A y \in DG!Bean : indices[y] \in Int /\ lowlink[y] \in Int
  BY Returned
<1>3. /\ frames[n].left = {} /\ lowlink[x] # indices[x]
      /\ lowlink' = IF frames' # <<>> /\ lowlink[x] < lowlink[p] THEN [lowlink EXCEPT ![p] = lowlink[x]] ELSE lowlink
  OBVIOUS
<1>n. Len(frames) = n OBVIOUS
<1> HIDE DEF n
<1>4. /\ Stacked' = Stacked /\ Settled' = Settled /\ \A z : DG!Targets(z)' = DG!Targets(z)
      /\ DG!Reach' = DG!Reach
      /\ \A v, z : DG!Mutual(v, z)' = DG!Mutual(v, z)
      /\ \A S : ClosedUnder(S)' <=> ClosedUnder(S)
  <2>1. \A z : DG!Targets(z)' = DG!Targets(z) BY DEF DG!Targets
  <2>2. DG!Reach' = DG!Reach BY DEF DG!Reach, DG!Targets
  <2> QED BY <2>1, <2>2 DEF DG!Mutual, ClosedUnder, Stacked, Settled
<1>5. PICK w \in Stacked : /\ indices[w] = lowlink[x] /\ indices[w] <= indices[x]
                           /\ w = x \/ <<x, w>> \in DG!Reach
  BY <1>1, <1>2 DEF Low
<1>6. w # x /\ <<x, w>> \in DG!Reach /\ indices[w] < indices[x] BY <1>2, <1>3, <1>5
<1>7. PICK g \in 1 .. n - 1 : /\ indices[frames[g].bean] <= indices[w]
                              /\ frames[g].bean = w \/ <<w, frames[g].bean>> \in DG!Reach
  <2>1. PICK g \in 1 .. n : /\ indices[frames[g].bean] <= indices[w]
                            /\ frames[g].bean = w \/ <<w, frames[g].bean>> \in DG!Reach
    BY <1>1, <1>2 DEF Up
  <2>2. g # n BY <1>2, <1>6, <2>1 DEF x
  <2> QED BY <1>2, <2>1, <2>2
<1>8. /\ n - 1 \in 1 .. n - 1 /\ frames' # <<>>
      /\ \A i \in 1 .. n - 1 : i + 1 \in 1 .. n /\ (i # n - 1 => i + 1 \in 1 .. n - 1)
  <2>1. n \in Nat \ {0} /\ g \in 1 .. n - 1 BY <1>2
  <2>2. /\ n - 1 \in 1 .. n - 1 /\ n - 1 # 0
        /\ \A i \in 1 .. n - 1 : i + 1 \in 1 .. n /\ (i # n - 1 => i + 1 \in 1 .. n - 1)
    BY ONLY <2>1
  <2>3. frames' # <<>> BY <1>2, <2>2
  <2> QED BY <2>2, <2>3
<1>9. p \in Stacked /\ p \in DG!Bean /\ x \in DG!Bean /\ <<p, x>> \in DG!Reach /\ indices[p] < indices[x]
  <2>1. p \in Stacked /\ indices[p] < indices[x] BY <1>2, <1>8
  <2>2. <<p, x>> \in DG!Reach BY <1>1, <1>2, <1>8, <2>1 DEF Down
  <2> QED BY <1>2, <2>1, <2>2
<1>10. \A i \in 1 .. n - 1 : i # n - 1 => frames[i].bean # p
  <2> SUFFICES ASSUME NEW i \in 1 .. n - 1, i # n - 1 PROVE frames[i].bean # p OBVIOUS
  <2>1. i < n - 1 BY <1>2
  <2>2. indices[frames[i].bean] < indices[frames[n - 1].bean] BY <1>1, <1>2, <1>8, <2>1 DEF FrameInv
  <2> QED BY <1>2, <1>9, <2>2
<1>11. /\ \A z \in DG!Bean \ {p} : lowlink'[z] = lowlink[z]
       /\ lowlink'[p] <= lowlink[p] /\ lowlink'[p] <= lowlink[x]
       /\ lowlink'[p] = lowlink[p] \/ (lowlink'[p] = lowlink[x] /\ lowlink[x] < lowlink[p])
       /\ lowlink' \in [DG!Bean -> Int]
  <2>1. lowlink \in [DG!Bean -> Int] BY <1>1 DEF SearchTypes
  <2>2. CASE lowlink[x] < lowlink[p]
    <3>1. lowlink' = [lowlink EXCEPT ![p] = lowlink[x]] BY <1>3, <1>8, <2>2
    <3>2. lowlink'[p] = lowlink[x] /\ lowlink' \in [DG!Bean -> Int] BY <1>2, <1>9, <2>1, <3>1
    <3>3. \A z \in DG!Bean \ {p} : lowlink'[z] = lowlink[z] BY <2>1, <3>1
    <3>4. lowlink[x] <= lowlink[x] /\ lowlink[x] <= lowlink[p] BY <1>2, <1>9, <2>2
    <3> QED BY <2>2, <3>2, <3>3, <3>4
  <2>3. CASE ~(lowlink[x] < lowlink[p])
    <3>1. lowlink' = lowlink BY <1>3, <2>3
    <3>2. lowlink[p] <= lowlink[p] /\ lowlink[p] <= lowlink[x] BY <1>2, <1>9, <2>3
    <3> QED BY <2>1, <3>1, <3>2
  <2> QED BY <2>2, <2>3
<1> HIDE DEF x, p
<1>12. SearchTypes' BY <1>1, <1>2, <1>11 DEF SearchTypes
<1>13. StackInv' BY <1>1, <1>4 DEF StackInv
<1>14. FrameInv'
  <2>1. \A i \in 1 .. n - 1 : frames'[i].bean \in Stacked /\ frames'[i].left \subseteq DG!Targets(frames'[i].bean)
    BY <1>1, <1>2 DEF FrameInv
  <2>2. ASSUME NEW i \in 1 .. n - 1, NEW j \in 1 .. n - 1, i < j
        PROVE  indices[frames'[i].bean] < indices[frames'[j].bean]
    <3>1. indices[frames[i].bean] < indices[frames[j].bean] BY <1>1, <1>2, <2>2 DEF FrameInv
    <3> QED BY <1>2, <3>1
  <2> QED BY <1>2, <1>4, <2>1, <2>2 DEF FrameInv
<1>15. EdgeInv'
  <2>1. ASSUME NEW v \in Stacked, NEW z \in DG!Targets(v), indices[z] = -1
        PROVE  \E i \in 1 .. n - 1 : frames'[i].bean = v /\ z \in frames'[i].left
    <3>1. PICK i \in 1 .. n : frames[i].bean = v /\ z \in frames[i].left BY <1>1, <1>2, <2>1 DEF EdgeInv
    <3> QED BY <1>2, <1>3, <3>1
  <2>2. ClosedUnder(Settled)' BY <1>1, <1>4 DEF EdgeInv, ClosedUnder
  <2> QED BY <1>2, <1>4, <2>1, <2>2 DEF EdgeInv
<1>16. Down' BY <1>1, <1>2, <1>4 DEF Down
<1>17. Up'
  <2> SUFFICES ASSUME NEW v \in Stacked
               PROVE  \E i \in 1 .. n - 1 : /\ indices[frames'[i].bean] <= indices[v]
                                            /\ frames'[i].bean = v \/ <<v, frames'[i].bean>> \in DG!Reach
    BY <1>2, <1>4 DEF Up
  <2>1. PICK i \in 1 .. n : /\ indices[frames[i].bean] <= indices[v]
                            /\ frames[i].bean = v \/ <<v, frames[i].bean>> \in DG!Reach
    BY <1>1, <1>2 DEF Up
  <2>2. CASE i \in 1 .. n - 1 BY <1>2, <2>1, <2>2
  <2>3. CASE i = n
    <3>1. indices[x] <= indices[v] /\ (x = v \/ <<v, x>> \in DG!Reach) BY <2>1, <2>3 DEF x
    <3>2. indices[frames[g].bean] <= indices[v]
      <4>1. frames[g].bean \in DG!Bean /\ v \in DG!Bean /\ w \in DG!Bean BY <1>2
      <4> QED BY <1>2, <1>6, <1>7, <1>9, <3>1, <4>1
    <3>3. frames[g].bean \in DG!Bean /\ v \in DG!Bean /\ w \in DG!Bean BY <1>2
    <3>4. <<x, frames[g].bean>> \in DG!Reach BY <1>6, <1>7, <1>9, <3>3, PathsJoin
    <3>5. <<v, frames[g].bean>> \in DG!Reach
      <4>1. CASE x = v BY <3>4, <4>1
      <4>2. CASE <<v, x>> \in DG!Reach BY <1>9, <3>3, <3>4, <4>2, PathsJoin
      <4> QED BY <3>1, <4>1, <4>2
    <3> QED BY <1>2, <3>2, <3>5
  <2> QED BY <1>2, <2>2, <2>3
<1>18. Low'
  <2> SUFFICES ASSUME NEW i \in 1 .. n - 1
               PROVE  \E u \in Stacked :
                        /\ indices[u] = lowlink'[frames'[i].bean] /\ indices[u] <= indices[frames'[i].bean]
                        /\ u = frames'[i].bean \/ <<frames'[i].bean, u>> \in DG!Reach
    BY <1>2, <1>4 DEF Low
  <2>0. frames'[i] = frames[i] BY <1>2
  <2>1. PICK u \in Stacked :
          /\ indices[u] = lowlink[frames[i].bean] /\ indices[u] <= indices[frames[i].bean]
          /\ u = frames[i].bean \/ <<frames[i].bean, u>> \in DG!Reach
    BY <1>1, <1>2 DEF Low
  <2>2. CASE frames[i].bean # p \/ lowlink'[p] = lowlink[p]
    <3>1. frames[i].bean \in DG!Bean BY <1>2
    <3>2. lowlink'[frames[i].bean] = lowlink[frames[i].bean] BY <1>11, <2>2, <3>1
    <3> QED BY <2>0, <2>1, <3>2
  <2>3. CASE frames[i].bean = p /\ lowlink'[p] = lowlink[x] /\ lowlink[x] < lowlink[p]
    <3>1. indices[w] <= indices[p]
      <4>1. indices[w] < lowlink[p] /\ lowlink[p] <= indices[p] BY <1>5, <2>1, <2>3
      <4> QED BY <1>2, <1>9, <4>1
    <3>2. <<p, w>> \in DG!Reach BY <1>6, <1>9, PathsJoin
    <3> QED BY <1>5, <2>0, <2>3, <3>1, <3>2
  <2> QED BY <1>11, <2>2, <2>3
<1>19. Least'
  <2> SUFFICES ASSUME NEW i \in 1 .. n - 1, NEW v \in Stacked, Owns(i, v)', NEW z \in DG!Targets(v) \cap Stacked,
                      v = frames[i].bean => z \notin frames[i].left
               PROVE  lowlink'[frames[i].bean] <= indices[z]
    BY <1>2, <1>4 DEF Least
  <2>1. /\ indices[frames[i].bean] <= indices[v]
        /\ i # n - 1 => indices[v] < indices[frames[i + 1].bean]
    BY <1>2, <1>8 DEF Owns
  <2>2. frames[i].bean \in DG!Bean /\ z \in DG!Bean /\ v \in DG!Bean BY <1>2
  <2>3. CASE Owns(i, v)
    <3>1. lowlink[frames[i].bean] <= indices[z] BY <1>1, <1>2, <2>3 DEF Least
    <3>2. lowlink'[frames[i].bean] <= lowlink[frames[i].bean]
      <4>1. CASE frames[i].bean = p BY <1>11, <4>1
      <4>2. CASE frames[i].bean # p BY <1>2, <1>11, <2>2, <4>2, SMTT(20)
      <4> QED BY <4>1, <4>2
    <3>3. lowlink'[frames[i].bean] \in Int BY <1>11, <2>2
    <3> QED BY <1>2, <2>2, <3>1, <3>2, <3>3
  <2>4. CASE i = n - 1 /\ indices[x] <= indices[v]
    <3>1. Owns(n, v) BY <1>n, <2>4 DEF Owns, x
    <3>2. lowlink[x] <= indices[z] BY <1>1, <1>2, <1>3, <3>1 DEF Least, x
    <3>3. lowlink'[p] <= lowlink[x] /\ lowlink'[p] \in Int BY <1>9, <1>11
    <3>4. frames[i].bean = p BY <2>4 DEF p
    <3> QED BY <1>2, <1>9, <2>2, <3>2, <3>3, <3>4, SMTT(20)
  <2>5. i = n - 1 /\ ~(indices[x] <= indices[v]) => Owns(i, v)
    <3> SUFFICES ASSUME i = n - 1, ~(indices[x] <= indices[v]) PROVE Owns(i, v) OBVIOUS
    <3>1. i + 1 = n BY <1>2
    <3>2. indices[v] < indices[x] BY <1>2, <1>9, <2>2
    <3> QED BY <2>1, <3>1, <3>2 DEF Owns, x
  <2>6. i # n - 1 => Owns(i, v) BY <2>1 DEF Owns
  <2> QED BY <2>3, <2>4, <2>5, <2>6
<1>20. Strong' BY <1>1, <1>4 DEF Strong
<1> QED BY <1>12, <1>13, <1>14, <1>15, <1>16, <1>17, <1>18, <1>19, <1>20 DEF SearchInv

\* What a returning call takes off the stack: its bean and all above it.
TakenOff(x) == {y \in Stacked : indices[x] <= indices[y]}

\* The stack is cut where the bean stands.
LEMMA Cut ==
  ASSUME SearchInv, NEW x \in Stacked, NEW at \in DOMAIN onStack, onStack[at] = x
  PROVE  LET rest == SubSeq(onStack, 1, at - 1)
         IN  /\ {onStack[i] : i \in at .. Len(onStack)} = TakenOff(x)
             /\ rest \in Seq(DG!Bean) /\ Len(rest) \in Nat /\ DOMAIN rest = 1 .. Len(rest)
             /\ \A i \in 1 .. Len(rest) : rest[i] = onStack[i] /\ i \in DOMAIN onStack
             /\ {rest[i] : i \in 1 .. Len(rest)} = Stacked \ TakenOff(x)
<1> DEFINE k == Len(onStack)
           rest == SubSeq(onStack, 1, at - 1)
<1>1. SearchTypes /\ StackInv BY DEF SearchInv
<1>2. /\ onStack \in Seq(DG!Bean) /\ k \in Nat /\ DOMAIN onStack = 1 .. k
      /\ \A i \in 1 .. k : onStack[i] \in DG!Bean /\ indices[onStack[i]] \in Int
  BY <1>1 DEF SearchTypes
<1>3. /\ Stacked = {onStack[i] : i \in 1 .. k}
      /\ \A i, j \in 1 .. k : i < j => indices[onStack[i]] < indices[onStack[j]]
  BY <1>1, <1>2 DEF Stacked, StackInv
<1>4. at \in 1 .. k /\ onStack[at] = x BY <1>2
<1>5. /\ rest \in Seq(DG!Bean) /\ Len(rest) = at - 1
      /\ \A i \in 1 .. at - 1 : rest[i] = onStack[i]
  <2>1. rest = [i \in 1 .. at - 1 |-> onStack[i]] BY <1>2, <1>4
  <2>2. \A i \in 1 .. at - 1 : i \in 1 .. k BY <1>2, <1>4
  <2>3. at - 1 \in Nat BY <1>4
  <2> HIDE DEF rest
  <2> QED BY <1>2, <2>1, <2>2, <2>3
<1> HIDE DEF k, rest
<1>6. /\ at - 1 \in Nat
      /\ \A i \in 1 .. at - 1 : i \in 1 .. k /\ i < at
      /\ \A i \in at .. k : i \in 1 .. k /\ (i = at \/ at < i)
      /\ \A i \in 1 .. k : i \in 1 .. at - 1 \/ i \in at .. k
  BY ONLY <1>2, <1>4
<1>7. \A i \in 1 .. at - 1 : indices[onStack[i]] < indices[x] BY <1>3, <1>4, <1>6
<1>8. ASSUME NEW i \in at .. k PROVE indices[x] <= indices[onStack[i]]
  <2>1. indices[x] \in Int /\ indices[onStack[i]] \in Int BY <1>2, <1>4, <1>6
  <2>2. CASE i = at BY <1>4, <2>1, <2>2
  <2>3. CASE at < i
    <3>1. indices[x] < indices[onStack[i]] BY <1>3, <1>4, <1>6, <2>3
    <3> QED BY <2>1, <3>1
  <2> QED BY <1>6, <2>2, <2>3
<1>9. {onStack[i] : i \in at .. k} = TakenOff(x)
  <2>1. ASSUME NEW i \in at .. k PROVE onStack[i] \in TakenOff(x) BY <1>3, <1>6, <1>8 DEF TakenOff
  <2>2. ASSUME NEW y \in TakenOff(x) PROVE \E i \in at .. k : onStack[i] = y
    <3>1. PICK i \in 1 .. k : onStack[i] = y BY <1>3 DEF TakenOff
    <3>2. i \notin 1 .. at - 1
      <4>1. indices[x] <= indices[onStack[i]] /\ indices[x] \in Int /\ indices[onStack[i]] \in Int
        BY <1>2, <1>4, <3>1 DEF TakenOff
      <4> QED BY <1>7, <4>1
    <3> QED BY <1>6, <3>1, <3>2
  <2> QED BY <2>1, <2>2
<1>10. {rest[i] : i \in 1 .. at - 1} = Stacked \ TakenOff(x)
  <2>1. ASSUME NEW i \in 1 .. at - 1 PROVE rest[i] \in Stacked \ TakenOff(x)
    <3>1. rest[i] = onStack[i] /\ onStack[i] \in Stacked BY <1>3, <1>5, <1>6
    <3>2. indices[onStack[i]] < indices[x] /\ indices[onStack[i]] \in Int /\ indices[x] \in Int
      BY <1>2, <1>4, <1>6, <1>7
    <3> QED BY <3>1, <3>2 DEF TakenOff
  <2>2. ASSUME NEW y \in Stacked \ TakenOff(x) PROVE \E i \in 1 .. at - 1 : rest[i] = y
    <3>1. PICK i \in 1 .. k : onStack[i] = y BY <1>3
    <3>2. i \notin at .. k BY <1>9, <3>1
    <3> QED BY <1>5, <1>6, <3>1, <3>2
  <2> QED BY <2>1, <2>2
<1>11. DOMAIN rest = 1 .. at - 1 BY <1>5
<1>12. \A i \in 1 .. at - 1 : i \in DOMAIN onStack BY <1>2, <1>6
<1> QED BY ONLY <1>5, <1>6, <1>9, <1>10, <1>11, <1>12 DEF rest, k

\* A call that reached nothing older has its bean's component on top of the
\* stack, and nothing leads out of it but into earlier components.
LEMMA Strongly ==
  ASSUME SearchInv, frames # <<>>, frames[Len(frames)].left = {}, frames' = DG!Front(frames),
         NEW x, x = frames[Len(frames)].bean, lowlink[x] = indices[x]
  PROVE  /\ ClosedUnder(Settled \cup TakenOff(x))
         /\ \A y \in DG!Bean : y \in TakenOff(x) <=> DG!Mutual(x, y)
<1> DEFINE n == Len(frames)
<1>1. /\ SearchTypes /\ StackInv /\ FrameInv /\ EdgeInv /\ Down /\ Up /\ Low /\ Least BY DEF SearchInv
<1>2. /\ n \in Nat \ {0} /\ n \in 1 .. n /\ DOMAIN frames = 1 .. n
      /\ \A i \in 1 .. n : i = n \/ i \in 1 .. n - 1
      /\ Stacked \subseteq DG!Bean /\ x \in Stacked
      /\ \A i \in 1 .. n : frames[i].bean \in Stacked
      /\ \A i \in 1 .. n - 1 : indices[frames[i].bean] < indices[x]
      /\ \A y \in DG!Bean : indices[y] \in Int /\ lowlink[y] \in Int
  BY Returned
<1>3. x = frames[n].bean /\ frames[n].left = {} /\ n = Len(frames) OBVIOUS
<1> HIDE DEF n
<1>4. ASSUME NEW i \in 1 .. n, indices[x] <= indices[frames[i].bean] PROVE i = n
  <2>1. indices[x] \in Int /\ indices[frames[i].bean] \in Int BY <1>2
  <2>2. i \notin 1 .. n - 1 BY <1>2, <1>4, <2>1
  <2> QED BY <1>2, <2>2
<1>5. /\ TakenOff(x) \subseteq Stacked /\ x \in TakenOff(x)
      /\ \A y \in TakenOff(x) : y = x \/ indices[x] < indices[y]
  <2>1. indices[x] <= indices[x] BY <1>2
  <2>2. ASSUME NEW y \in TakenOff(x), y # x PROVE indices[x] < indices[y]
    <3>1. y \in Stacked /\ indices[x] <= indices[y] BY DEF TakenOff
    <3>2. PICK i \in DOMAIN onStack, j \in DOMAIN onStack : onStack[i] = x /\ onStack[j] = y
      BY <1>2, <3>1 DEF Stacked
    <3>3. i \in Int /\ j \in Int /\ i # j BY <1>1, <2>2, <3>2 DEF SearchTypes
    <3>4. i < j \/ j < i BY <3>3
    <3>5. indices[x] < indices[y] \/ indices[y] < indices[x] BY <1>1, <3>2, <3>4 DEF StackInv
    <3> QED BY <1>2, <3>1, <3>5
  <2> QED BY <1>2, <2>1, <2>2 DEF TakenOff
<1>6. ASSUME NEW y \in TakenOff(x), NEW z \in DG!Targets(y) PROVE z \in Settled \cup TakenOff(x)
  <2>1. z \in DG!Bean /\ y \in Stacked BY <1>5 DEF DG!Targets
  <2>2. indices[z] # -1
    <3> SUFFICES ASSUME indices[z] = -1 PROVE FALSE OBVIOUS
    <3>1. PICK i \in 1 .. n : frames[i].bean = y /\ z \in frames[i].left BY <1>1, <1>2, <2>1 DEF EdgeInv
    <3>2. i = n BY <1>4, <3>1 DEF TakenOff
    <3> QED BY <1>3, <3>1, <3>2
  <2>3. z \in Stacked \/ z \in Settled BY <1>1, <2>1, <2>2 DEF StackInv
  <2>4. CASE z \in Stacked
    <3>1. Owns(n, y) BY <1>3 DEF Owns, TakenOff
    <3>2. lowlink[x] <= indices[z] BY <1>1, <1>2, <1>3, <2>1, <2>4, <3>1 DEF Least
    <3> QED BY <2>4, <3>2 DEF TakenOff
  <2> QED BY <2>3, <2>4
<1>7. ClosedUnder(Settled) BY <1>1 DEF EdgeInv
<1>8. ClosedUnder(Settled \cup TakenOff(x))
  <2>1. Settled \cup TakenOff(x) \subseteq DG!Bean BY <1>2, <1>5, <1>7 DEF ClosedUnder
  <2>2. ASSUME NEW y \in Settled \cup TakenOff(x) PROVE DG!Targets(y) \subseteq Settled \cup TakenOff(x)
    BY <1>6, <1>7 DEF ClosedUnder
  <2> QED BY <2>1, <2>2 DEF ClosedUnder
<1>9. x \in DG!Bean /\ Stacked \cap Settled = {} BY <1>1, <1>2 DEF StackInv
<1>10. ASSUME NEW y \in TakenOff(x), y # x PROVE <<x, y>> \in DG!Reach /\ <<y, x>> \in DG!Reach
  <2>1. y \in Stacked /\ y \in DG!Bean BY <1>2, <1>5
  <2>2. <<x, y>> \in DG!Reach BY <1>1, <1>2, <1>3, <1>5, <1>10, <2>1 DEF Down
  <2>3. PICK i \in 1 .. n : frames[i].bean = y \/ <<y, frames[i].bean>> \in DG!Reach BY <1>1, <1>2, <2>1 DEF Up
  <2>4. frames[i].bean \in Settled \cup TakenOff(x)
    <3>1. CASE frames[i].bean = y BY <3>1
    <3>2. CASE <<y, frames[i].bean>> \in DG!Reach BY <1>2, <1>8, <2>1, <3>2, PathsJoin
    <3> QED BY <2>3, <3>1, <3>2
  <2>5. frames[i].bean \in TakenOff(x) BY <1>2, <1>9, <2>4
  <2>6. i = n BY <1>4, <2>5 DEF TakenOff
  <2> QED BY <1>3, <1>10, <2>2, <2>3, <2>6
<1>11. ASSUME NEW y \in DG!Bean, <<x, y>> \in DG!Reach, <<y, x>> \in DG!Reach PROVE y \in TakenOff(x)
  <2>1. y \in Settled \cup TakenOff(x) BY <1>5, <1>8, <1>9, <1>11, PathsJoin
  <2>2. y \notin Settled
    <3> SUFFICES ASSUME y \in Settled PROVE FALSE OBVIOUS
    <3>1. x \in Settled BY <1>7, <1>9, <1>11, PathsJoin
    <3> QED BY <1>2, <1>9, <3>1
  <2> QED BY <2>1, <2>2
<1> QED BY <1>5, <1>8, <1>10, <1>11 DEF DG!Mutual

\* A call that reached nothing older closes the component of its bean.
LEMMA LeftClosed ==
  ASSUME SearchInv, frames # <<>>, frames[Len(frames)].left = {}, frames' = DG!Front(frames),
         NEW x, x = frames[Len(frames)].bean, lowlink[x] = indices[x],
         NEW at \in DOMAIN onStack, onStack[at] = x,
         components' = components \cup {{onStack[i] : i \in at .. Len(onStack)}},
         onStack' = SubSeq(onStack, 1, at - 1),
         lowlink' = IF frames' # <<>> /\ lowlink[x] < lowlink[frames[Len(frames) - 1].bean]
                    THEN [lowlink EXCEPT ![frames[Len(frames) - 1].bean] = lowlink[x]]
                    ELSE lowlink,
         edges' = edges, indices' = indices, index' = index
  PROVE  SearchInv'
<1> DEFINE n == Len(frames)
<1>1. /\ SearchTypes /\ StackInv /\ FrameInv /\ EdgeInv /\ Down /\ Up /\ Low /\ Least /\ Strong BY DEF SearchInv
<1>2. /\ n \in Nat \ {0} /\ n \in 1 .. n /\ DOMAIN frames = 1 .. n /\ DOMAIN frames' = 1 .. n - 1
      /\ Len(frames') = n - 1 /\ frames' \in Seq(Frame)
      /\ \A i \in 1 .. n - 1 : frames'[i] = frames[i] /\ i \in 1 .. n
      /\ \A i \in 1 .. n : i = n \/ i \in 1 .. n - 1
      /\ Stacked \subseteq DG!Bean /\ x \in Stacked
      /\ \A i \in 1 .. n : frames[i].bean \in Stacked
      /\ \A i \in 1 .. n - 1 : indices[frames[i].bean] < indices[x]
      /\ \A y \in DG!Bean : indices[y] \in Int /\ lowlink[y] \in Int
  BY Returned
<1>3. /\ x = frames[n].bean /\ frames[n].left = {} /\ n = Len(frames) OBVIOUS
<1>4. \A i \in 1 .. n - 1 : i + 1 \in 1 .. n /\ (i # n - 1 => i + 1 \in 1 .. n - 1)
  <2>1. n \in Nat \ {0} BY <1>2
  <2> HIDE DEF n
  <2> QED BY ONLY <2>1
<1>5. /\ \A z : DG!Targets(z)' = DG!Targets(z)
      /\ DG!Reach' = DG!Reach
      /\ \A v, z : DG!Mutual(v, z)' = DG!Mutual(v, z)
      /\ \A S : ClosedUnder(S)' <=> ClosedUnder(S)
  <2>1. \A z : DG!Targets(z)' = DG!Targets(z) BY DEF DG!Targets
  <2>2. DG!Reach' = DG!Reach BY DEF DG!Reach, DG!Targets
  <2> QED BY <2>1, <2>2 DEF DG!Mutual, ClosedUnder
<1>6. /\ ClosedUnder(Settled \cup TakenOff(x))
      /\ \A y \in DG!Bean : y \in TakenOff(x) <=> DG!Mutual(x, y)
  BY Strongly
<1>7. /\ {onStack[i] : i \in at .. Len(onStack)} = TakenOff(x)
      /\ onStack' \in Seq(DG!Bean) /\ Len(onStack') \in Nat /\ DOMAIN onStack' = 1 .. Len(onStack')
      /\ \A i \in 1 .. Len(onStack') : onStack'[i] = onStack[i] /\ i \in DOMAIN onStack
      /\ {onStack'[i] : i \in 1 .. Len(onStack')} = Stacked \ TakenOff(x)
  <2> DEFINE rest == SubSeq(onStack, 1, at - 1)
  <2>1. /\ {onStack[i] : i \in at .. Len(onStack)} = TakenOff(x)
        /\ rest \in Seq(DG!Bean) /\ Len(rest) \in Nat /\ DOMAIN rest = 1 .. Len(rest)
        /\ \A i \in 1 .. Len(rest) : rest[i] = onStack[i] /\ i \in DOMAIN onStack
        /\ {rest[i] : i \in 1 .. Len(rest)} = Stacked \ TakenOff(x)
    BY <1>2, Cut
  <2>2. onStack' = rest OBVIOUS
  <2> HIDE DEF rest
  <2> QED BY ONLY <2>1, <2>2
<1>8. components' = components \cup {TakenOff(x)} BY <1>7
<1>9. /\ Stacked' = Stacked \ TakenOff(x) BY <1>7 DEF Stacked
<1>10. Settled' = Settled \cup TakenOff(x) BY <1>8 DEF Settled
<1>11. /\ \A y \in Stacked' : y \in Stacked /\ indices[y] < indices[x]
       /\ \A y \in Stacked : indices[y] < indices[x] => y \in Stacked'
  <2>1. ASSUME NEW y \in Stacked
        PROVE  indices[y] < indices[x] <=> ~(indices[x] <= indices[y])
    <3>1. indices[y] \in Int /\ indices[x] \in Int BY <1>2
    <3> QED BY <3>1
  <2> QED BY <1>9, <2>1 DEF TakenOff
<1>12. lowlink' = lowlink
  <2>1. CASE frames' = <<>> BY <2>1
  <2>2. CASE frames' # <<>>
    <3>1. n - 1 \in 1 .. n - 1
      <4>1. n - 1 # 0 BY <1>2, <2>2, EmptySeq
      <4>2. n \in Nat \ {0} BY <1>2
      <4> HIDE DEF n
      <4> QED BY ONLY <4>1, <4>2
    <3> DEFINE p == frames[n - 1].bean
    <3>2. p \in Stacked /\ indices[p] < indices[x] BY <1>2, <3>1
    <3>3. lowlink[p] <= indices[p]
      <4>1. \E w \in Stacked : indices[w] = lowlink[p] /\ indices[w] <= indices[p] BY <1>1, <1>2, <3>1 DEF Low
      <4> QED BY <4>1
    <3>4. p \in DG!Bean /\ x \in DG!Bean BY <1>2, <3>2
    <3>5. ~(lowlink[x] < lowlink[p])
      <4>1. lowlink[p] \in Int /\ indices[p] \in Int /\ indices[x] \in Int BY <1>2, <3>4
      <4> HIDE DEF p
      <4> QED BY <3>2, <3>3, <4>1
    <3> QED BY <3>5
  <2> QED BY <2>1, <2>2
<1>13. \A i \in 1 .. n - 1 : frames[i].bean \in Stacked' BY <1>2, <1>11
<1> HIDE DEF n
<1>14. SearchTypes'
  <2>1. components' \subseteq SUBSET DG!Bean BY <1>1, <1>2, <1>8 DEF SearchTypes, TakenOff
  <2> QED BY <1>1, <1>2, <1>7, <1>12, <2>1 DEF SearchTypes
<1>15. StackInv'
  <2>1. ASSUME NEW i \in 1 .. Len(onStack'), NEW j \in 1 .. Len(onStack'), i < j
        PROVE  indices[onStack'[i]] < indices[onStack'[j]]
    <3>1. i \in DOMAIN onStack /\ j \in DOMAIN onStack /\ onStack'[i] = onStack[i] /\ onStack'[j] = onStack[j]
      BY <1>7
    <3> QED BY <1>1, <2>1, <3>1 DEF StackInv
  <2>2. \A y \in DG!Bean : indices[y] # -1 <=> y \in Stacked' \cup Settled'
    BY <1>1, <1>9, <1>10 DEF StackInv, TakenOff
  <2>3. Stacked' \cap Settled' = {} BY <1>1, <1>9, <1>10 DEF StackInv
  <2>4. \A i, j \in DOMAIN onStack' : i < j => indices'[onStack'[i]] < indices'[onStack'[j]] BY <1>7, <2>1
  <2>5. \A y \in DG!Bean : indices'[y] # -1 <=> y \in Stacked' \cup Settled' BY <2>2
  <2> QED BY <2>3, <2>4, <2>5 DEF StackInv
<1>16. FrameInv'
  <2>1. \A i \in 1 .. n - 1 : frames'[i].bean \in Stacked' /\ frames'[i].left \subseteq DG!Targets(frames'[i].bean)
    BY <1>1, <1>2, <1>13 DEF FrameInv
  <2>2. ASSUME NEW i \in 1 .. n - 1, NEW j \in 1 .. n - 1, i < j
        PROVE  indices[frames'[i].bean] < indices[frames'[j].bean]
    <3>1. indices[frames[i].bean] < indices[frames[j].bean] BY <1>1, <1>2, <2>2 DEF FrameInv
    <3> QED BY <1>2, <3>1
  <2> QED BY <1>2, <1>5, <2>1, <2>2 DEF FrameInv
<1>17. EdgeInv'
  <2>1. ASSUME NEW v \in Stacked', NEW z \in DG!Targets(v), indices[z] = -1
        PROVE  \E i \in 1 .. n - 1 : frames'[i].bean = v /\ z \in frames'[i].left
    <3>1. PICK i \in 1 .. n : frames[i].bean = v /\ z \in frames[i].left BY <1>1, <1>2, <1>11, <2>1 DEF EdgeInv
    <3> QED BY <1>2, <1>3, <3>1
  <2>2. ClosedUnder(Settled)' BY <1>5, <1>6, <1>10 DEF ClosedUnder
  <2> QED BY <1>2, <1>5, <2>1, <2>2 DEF EdgeInv
<1>18. Down' BY <1>1, <1>2, <1>5, <1>11 DEF Down
<1>19. Up'
  <2> SUFFICES ASSUME NEW v \in Stacked'
               PROVE  \E i \in 1 .. n - 1 : /\ indices[frames'[i].bean] <= indices[v]
                                            /\ frames'[i].bean = v \/ <<v, frames'[i].bean>> \in DG!Reach
    BY <1>2, <1>5 DEF Up
  <2>1. PICK i \in 1 .. n : /\ indices[frames[i].bean] <= indices[v]
                            /\ frames[i].bean = v \/ <<v, frames[i].bean>> \in DG!Reach
    BY <1>1, <1>2, <1>11 DEF Up
  <2>2. i # n
    <3>1. indices[v] < indices[x] /\ indices[v] \in Int /\ indices[x] \in Int BY <1>2, <1>11
    <3> QED BY <1>3, <2>1, <3>1
  <2> QED BY <1>2, <2>1, <2>2
<1>20. Low'
  <2> SUFFICES ASSUME NEW i \in 1 .. n - 1
               PROVE  \E u \in Stacked' :
                        /\ indices[u] = lowlink[frames'[i].bean] /\ indices[u] <= indices[frames'[i].bean]
                        /\ u = frames'[i].bean \/ <<frames'[i].bean, u>> \in DG!Reach
    BY <1>2, <1>5, <1>12, ZenonT(40) DEF Low
  <2>1. PICK u \in Stacked :
          /\ indices[u] = lowlink[frames[i].bean] /\ indices[u] <= indices[frames[i].bean]
          /\ u = frames[i].bean \/ <<frames[i].bean, u>> \in DG!Reach
    BY <1>1, <1>2 DEF Low
  <2>2. u \in Stacked'
    <3>1. indices[u] \in Int /\ indices[x] \in Int /\ indices[frames[i].bean] \in Int BY <1>2
    <3>2. indices[u] < indices[x] BY <1>2, <2>1, <3>1
    <3> QED BY <1>11, <3>2
  <2> QED BY <1>2, <2>1, <2>2
<1>21. Least'
  <2> SUFFICES ASSUME NEW i \in 1 .. n - 1, NEW v \in Stacked', Owns(i, v)', NEW z \in DG!Targets(v) \cap Stacked',
                      v = frames[i].bean => z \notin frames[i].left
               PROVE  lowlink[frames[i].bean] <= indices[z]
    BY <1>2, <1>5, <1>12 DEF Least
  <2>1. Owns(i, v)
    <3>1. indices[frames[i].bean] <= indices[v] BY <1>2 DEF Owns
    <3>2. ASSUME i # n - 1 PROVE indices[v] < indices[frames[i + 1].bean] BY <1>2, <1>4, <3>2 DEF Owns
    <3>3. ASSUME i = n - 1 PROVE indices[v] < indices[frames[i + 1].bean]
      <4>1. i + 1 = n BY <1>2, <3>3
      <4> QED BY <1>3, <1>11, <4>1
    <3> QED BY <3>1, <3>2, <3>3 DEF Owns
  <2>2. v \in Stacked /\ z \in Stacked BY <1>11
  <2> QED BY <1>1, <1>2, <2>1, <2>2 DEF Least
<1>22. Strong'
  <2>1. ASSUME NEW C \in components PROVE \E y \in C : \A z \in DG!Bean : z \in C <=> DG!Mutual(y, z)
    BY <1>1 DEF Strong
  <2>2. x \in TakenOff(x) BY <1>2 DEF TakenOff
  <2>3. \E y \in TakenOff(x) : \A z \in DG!Bean : z \in TakenOff(x) <=> DG!Mutual(y, z) BY <1>6, <2>2
  <2>4. \A C \in components' : \E y \in C : \A z \in DG!Bean : z \in C <=> DG!Mutual(y, z)
    <3> SUFFICES ASSUME NEW C \in components' PROVE \E y \in C : \A z \in DG!Bean : z \in C <=> DG!Mutual(y, z)
      OBVIOUS
    <3>1. C \in components \/ C = TakenOff(x) BY <1>8
    <3>2. CASE C \in components BY <2>1, <3>2
    <3>3. CASE C = TakenOff(x)
      <4> QED BY <2>3, <3>3
    <3> QED BY <3>1, <3>2, <3>3
  <2> QED BY <1>5, <2>4 DEF Strong
<1> QED BY <1>14, <1>15, <1>16, <1>17, <1>18, <1>19, <1>20, <1>21, <1>22 DEF SearchInv

\* The search begins with nothing visited.
LEMMA SearchBegins ==
  ASSUME NEW graph \in [DG!Bean \X DG!Bean -> DG!Kind], DG!Begin(graph)
  PROVE  SearchInv
<1>1. /\ edges = graph /\ indices = [x \in DG!Bean |-> -1] /\ lowlink = [x \in DG!Bean |-> -1]
      /\ onStack = <<>> /\ index = 0 /\ frames = <<>> /\ components = {}
  BY DEF DG!Begin
<1>2. DOMAIN onStack = {} /\ DOMAIN frames = {} /\ onStack \in Seq(DG!Bean) /\ frames \in Seq(Frame) BY <1>1
<1>3. Stacked = {} /\ Settled = {} BY <1>1, <1>2 DEF Stacked, Settled
<1>4. SearchTypes BY <1>1, <1>2 DEF SearchTypes
<1>5. StackInv BY <1>1, <1>2, <1>3 DEF StackInv
<1>6. FrameInv /\ EdgeInv BY <1>2, <1>3 DEF FrameInv, EdgeInv, ClosedUnder
<1>7. Down /\ Up /\ Low /\ Least /\ Strong BY <1>1, <1>2, <1>3 DEF Down, Up, Low, Least, Strong
<1> QED BY <1>4, <1>5, <1>6, <1>7 DEF SearchInv

\* What leaves the search alone keeps what is known of it.
LEMMA SearchRests == ASSUME SearchInv, UNCHANGED <<edges, DG!searchVars>> PROVE SearchInv'
<1>1. /\ edges' = edges /\ indices' = indices /\ lowlink' = lowlink /\ onStack' = onStack /\ index' = index
      /\ frames' = frames /\ components' = components
  BY DEF DG!searchVars
<1>2. /\ Stacked' = Stacked /\ Settled' = Settled /\ \A z : DG!Targets(z)' = DG!Targets(z)
  BY <1>1 DEF Stacked, Settled, DG!Targets
<1>3. /\ DG!Reach' = DG!Reach
      /\ \A S : ClosedUnder(S)' <=> ClosedUnder(S)
  BY <1>1, <1>2 DEF DG!Reach, ClosedUnder, DG!Targets
<1>4. \A v, z : DG!Mutual(v, z)' = DG!Mutual(v, z) BY <1>3 DEF DG!Mutual
<1>5. \A i, y : Owns(i, y)' <=> Owns(i, y) BY <1>1 DEF Owns
<1>6. SearchTypes' /\ StackInv' BY <1>1, <1>2 DEF SearchInv, SearchTypes, StackInv
<1>7. FrameInv' /\ EdgeInv' BY <1>1, <1>2, <1>3 DEF SearchInv, FrameInv, EdgeInv
<1>8. Down' /\ Up' /\ Low' BY <1>1, <1>2, <1>3 DEF SearchInv, Down, Up, Low
<1>9. Least' /\ Strong' BY <1>1, <1>2, <1>4, <1>5 DEF SearchInv, Least, Strong
<1> QED BY <1>6, <1>7, <1>8, <1>9 DEF SearchInv

\* Each step of the search.
LEMMA SearchSteps ==
  ASSUME DG!GraphAssumption, SearchInv
  PROVE  /\ DG!Root => SearchInv'
         /\ DG!Follow => SearchInv'
         /\ DG!Leave => SearchInv'
<1> DEFINE n == Len(frames)
<1>1. SearchTypes /\ FrameInv BY DEF SearchInv
<1>2. frames \in Seq(Frame) BY <1>1 DEF SearchTypes
<1>3. ASSUME DG!Root PROVE SearchInv'
  <2> DEFINE S == {x \in DG!Bean : indices[x] = -1}
             x == DG!Min(S)
  <2>1. frames = <<>> /\ S # {} /\ S \in SUBSET DG!Bean /\ DG!Visit(x, <<>>) BY <1>3 DEF DG!Root
  <2>2. x \in S BY <2>1, FirstBean
  <2>3. x \in DG!Bean /\ indices[x] = -1 BY <2>2
  <2> HIDE DEF x
  <2>4. Len(frames) = 0 /\ frames \in Seq(Frame) BY <1>2, <2>1
  <2>5. \A i \in 1 .. Len(frames) : FALSE BY <2>4
  <2>6. DG!Visit(x, frames) BY <2>1
  <2> QED BY <2>3, <2>4, <2>5, <2>6, Visited
<1>4. ASSUME DG!Follow PROVE SearchInv'
  <2> DEFINE f == frames[n]
             y == DG!Min(f.left)
             caller == Append(DG!Front(frames), [DG!Last(frames) EXCEPT !.left = @ \ {y}])
  <2>1. frames # <<>> BY <1>4 DEF DG!Follow
  <2>2. n \in Nat \ {0} /\ DG!Last(frames) = f /\ f \in Frame BY <1>2, <2>1, Innermost
  <2>3. f.left # {} /\ f.left \in SUBSET DG!Bean BY <1>4, <2>2 DEF DG!Follow, Frame
  <2>4. y \in f.left /\ y \in DG!Bean BY <2>3, FirstBean
  <2>5. n \in DOMAIN frames BY <1>2, <2>2
  <2>6. f.left \subseteq DG!Targets(f.bean) BY <1>1, <2>5 DEF FrameInv
  <2>7. /\ caller \in Seq(Frame) /\ Len(caller) = n
        /\ \A i \in 1 .. n - 1 : caller[i] = frames[i]
        /\ caller[n].bean = f.bean /\ caller[n].left = f.left \ {y}
    BY <1>2, <2>1, Innermost
  <2>8. /\ indices[y] = -1 => DG!Visit(y, caller)
        /\ indices[y] # -1 =>
             /\ lowlink' = IF y \in DG!Range(onStack) /\ indices[y] < lowlink[f.bean]
                           THEN [lowlink EXCEPT ![f.bean] = indices[y]] ELSE lowlink
             /\ frames' = caller
             /\ UNCHANGED <<edges, indices, onStack, index, components>>
    BY <1>4, <2>2 DEF DG!Follow
  <2>9. DG!Range(onStack) = Stacked BY DEF DG!Range, Stacked
  <2>10. CASE indices[y] = -1
    <3>1. \A i \in 1 .. n : i = n \/ i \in 1 .. n - 1 BY <2>2
    <3>2. \A i \in 1 .. n : /\ caller[i].bean = frames[i].bean /\ caller[i].left \subseteq frames[i].left
                            /\ frames[i].left \subseteq caller[i].left \cup {y}
      <4> HIDE DEF caller, y, n
      <4> QED BY <2>7, <3>1
    <3>3. y \in DG!Targets(frames[n].bean) BY <2>4, <2>6
    <3> HIDE DEF caller, y
    <3> QED BY <2>4, <2>7, <2>8, <2>10, <3>2, <3>3, Visited
  <2>11. CASE indices[y] # -1
    <3> HIDE DEF y
    <3> QED BY <2>1, <2>4, <2>8, <2>9, <2>11, Followed
  <2> QED BY <2>10, <2>11
<1>5. ASSUME DG!Leave PROVE SearchInv'
  <2> DEFINE x == DG!Last(frames).bean
             at == CHOOSE i \in DOMAIN onStack : onStack[i] = x
  <2>1. frames # <<>> BY <1>5 DEF DG!Leave
  <2>2. /\ n \in Nat \ {0} /\ DG!Last(frames) = frames[n]
        /\ DG!Front(frames) \in Seq(Frame) /\ Len(DG!Front(frames)) = n - 1
        /\ \A i \in 1 .. n - 1 : DG!Front(frames)[i] = frames[i]
    BY <1>2, <2>1, Innermost
  <2>l. x = frames[n].bean BY <2>2
  <2>3. /\ frames[n].left = {} /\ frames' = DG!Front(frames)
        /\ UNCHANGED <<edges, indices, index>>
    BY <1>5, <2>2 DEF DG!Leave
  <2>e. IF lowlink[x] = indices[x]
        THEN /\ components' = components \cup {{onStack[i] : i \in at .. Len(onStack)}}
             /\ onStack' = SubSeq(onStack, 1, at - 1)
        ELSE UNCHANGED <<components, onStack>>
    BY <1>5, Zenon DEF DG!Leave
  <2> HIDE DEF at
  <2>c. /\ lowlink[x] = indices[x] =>
             /\ components' = components \cup {{onStack[i] : i \in at .. Len(onStack)}}
             /\ onStack' = SubSeq(onStack, 1, at - 1)
        /\ lowlink[x] # indices[x] => UNCHANGED <<components, onStack>>
    BY <2>e
  <2>p. lowlink' = IF DG!Front(frames) # <<>> /\ lowlink[x] < lowlink[DG!Last(DG!Front(frames)).bean]
                   THEN [lowlink EXCEPT ![DG!Last(DG!Front(frames)).bean] = lowlink[x]] ELSE lowlink
    BY <1>5, Zenon DEF DG!Leave
  <2>4. DG!Front(frames) # <<>> => DG!Last(DG!Front(frames)) = frames[n - 1]
    <3> SUFFICES ASSUME DG!Front(frames) # <<>> PROVE DG!Last(DG!Front(frames)) = frames[n - 1] OBVIOUS
    <3>1. DG!Last(DG!Front(frames)) = DG!Front(frames)[n - 1] BY <2>2 DEF DG!Last
    <3>2. n - 1 # 0 BY <2>2, EmptySeq
    <3>3. n - 1 \in 1 .. n - 1
      <4> HIDE DEF n
      <4> QED BY ONLY <2>2, <3>2
    <3> QED BY <2>2, <3>1, <3>3
  <2>5. at \in DOMAIN onStack /\ onStack[at] = x
    <3> USE DEF at
    <3>1. n \in DOMAIN frames BY <1>2, <2>2
    <3>2. x \in Stacked BY <1>1, <2>l, <3>1 DEF FrameInv
    <3> HIDE DEF x
    <3> QED BY <2>l, <3>2 DEF Stacked
  <2>6. lowlink' = IF frames' # <<>> /\ lowlink[x] < lowlink[frames[n - 1].bean]
                   THEN [lowlink EXCEPT ![frames[n - 1].bean] = lowlink[x]] ELSE lowlink
    BY <2>3, <2>4, <2>p
  <2> HIDE DEF x
  <2>7. CASE lowlink[x] = indices[x] BY <2>1, <2>3, <2>5, <2>6, <2>7, <2>c, <2>l, LeftClosed
  <2>8. CASE lowlink[x] # indices[x] BY <2>1, <2>3, <2>6, <2>8, <2>c, <2>l, LeftOpen
  <2> QED BY <2>7, <2>8
<1> QED BY <1>3, <1>4, <1>5

\* What the verdict says of the components, once all are known.
VerdictInv ==
  /\ outcome \in {"searching", "ordering", "ordered", "circular"}
  /\ outcome # "searching" => frames = <<>> /\ \A x \in DG!Bean : indices[x] # -1
  /\ outcome = "circular" => \E C \in components : DG!Cyclic(C) /\ ~ DG!Resolvable(C)
  /\ outcome \in {"ordering", "ordered"} => \A C \in components : DG!Cyclic(C) => DG!Resolvable(C)

GraphInv == SearchInv /\ VerdictInv

\* The members of a component are those that one of them reaches both ways.
LEMMA Members ==
  ASSUME Strong, components \subseteq SUBSET DG!Bean, NEW C \in components, NEW v \in C
  PROVE  /\ v \in DG!Bean /\ C \subseteq DG!Bean
         /\ \A w \in DG!Bean : w \in C <=> DG!Mutual(v, w)
<1>1. PICK x \in C : \A y \in DG!Bean : y \in C <=> DG!Mutual(x, y) BY DEF Strong
<1>2. C \subseteq DG!Bean /\ v \in DG!Bean /\ x \in DG!Bean OBVIOUS
<1>3. x = v \/ (<<x, v>> \in DG!Reach /\ <<v, x>> \in DG!Reach) BY <1>1, <1>2 DEF DG!Mutual
<1>4. ASSUME NEW w \in DG!Bean, w \in C PROVE DG!Mutual(v, w)
  <2>1. x = w \/ (<<x, w>> \in DG!Reach /\ <<w, x>> \in DG!Reach) BY <1>1, <1>4 DEF DG!Mutual
  <2>2. CASE x = v \/ x = w BY <1>3, <2>1, <2>2 DEF DG!Mutual
  <2>3. CASE x # v /\ x # w
    <3>1. <<v, w>> \in DG!Reach BY <1>2, <1>3, <2>1, <2>3, PathsJoin
    <3>2. <<w, v>> \in DG!Reach BY <1>2, <1>3, <2>1, <2>3, PathsJoin
    <3> QED BY <3>1, <3>2 DEF DG!Mutual
  <2> QED BY <2>2, <2>3
<1>5. ASSUME NEW w \in DG!Bean, DG!Mutual(v, w) PROVE w \in C
  <2>1. v = w \/ (<<v, w>> \in DG!Reach /\ <<w, v>> \in DG!Reach) BY <1>5 DEF DG!Mutual
  <2>2. CASE v = w BY <2>2
  <2>3. CASE v # w
    <3>1. CASE x = v BY <1>1, <1>5, <3>1
    <3>2. CASE x # v
      <4>1. <<x, w>> \in DG!Reach BY <1>2, <1>3, <2>1, <2>3, <3>2, PathsJoin
      <4>2. <<w, x>> \in DG!Reach BY <1>2, <1>3, <2>1, <2>3, <3>2, PathsJoin
      <4> QED BY <1>1, <4>1, <4>2 DEF DG!Mutual
    <3> QED BY <3>1, <3>2
  <2> QED BY <2>1, <2>2, <2>3
<1> QED BY <1>2, <1>4, <1>5

\* A component with two members is counted as such.
LEMMA TwoMembers ==
  ASSUME DG!GraphAssumption, NEW C \in SUBSET DG!Bean
  PROVE  Cardinality(C) > 1 <=> \E v, w \in C : v # w
<1>1. IsFiniteSet(DG!Bean) BY FS_Interval DEF DG!Bean, DG!GraphAssumption
<1>2. IsFiniteSet(C) /\ Cardinality(C) \in Nat BY <1>1, FS_Subset, FS_CardinalityType
<1>3. ASSUME NEW v \in C, NEW w \in C, v # w PROVE Cardinality(C) > 1
  <2>1. Cardinality({v, w}) = 2
    <3>1. IsFiniteSet({v}) /\ Cardinality({v}) = 1 BY FS_Singleton
    <3>2. Cardinality({v} \cup {w}) = 1 + 1 BY <1>3, <3>1, FS_AddElement
    <3>3. {v} \cup {w} = {v, w} OBVIOUS
    <3> QED BY <3>2, <3>3
  <2>2. Cardinality({v, w}) <= Cardinality(C) BY <1>2, FS_Subset
  <2> QED BY <1>2, <2>1, <2>2
<1>4. ASSUME \A v, w \in C : v = w PROVE ~(Cardinality(C) > 1)
  <2>1. CASE C = {} BY <2>1, FS_EmptySet
  <2>2. CASE C # {}
    <3>1. PICK v \in C : C = {v} BY <1>4, <2>2
    <3>2. Cardinality({v}) = 1 BY FS_Singleton
    <3> QED BY <3>1, <3>2
  <2> QED BY <2>1, <2>2
<1> QED BY <1>3, <1>4

\* Every member of a cyclic component has an edge on a cycle.
LEMMA CycleEdge ==
  ASSUME DG!GraphAssumption, SearchInv, NEW C \in components, DG!Cyclic(C), NEW v \in C
  PROVE  \E w \in DG!Targets(v) : <<v, w>> \in DG!Reach /\ <<w, v>> \in DG!Reach
<1>1. Strong /\ components \subseteq SUBSET DG!Bean BY DEF SearchInv, SearchTypes
<1>2. /\ v \in DG!Bean /\ C \subseteq DG!Bean
      /\ \A w \in DG!Bean : w \in C <=> DG!Mutual(v, w)
  BY <1>1, Members
<1>3. (\E y, z \in C : y # z) \/ \E x \in C : edges[x, x] # "none"
  <2>1. Cardinality(C) > 1 <=> \E y, z \in C : y # z BY <1>2, TwoMembers
  <2>2. DG!Cardinality(C) = Cardinality(C) BY DEF DG!Cardinality, Cardinality
  <2> QED BY <2>1, <2>2 DEF DG!Cyclic
<1>4. CASE \E z \in C : z # v
  <2>1. PICK z \in C : z # v BY <1>4
  <2>2. z \in DG!Bean /\ <<v, z>> \in DG!Reach /\ <<z, v>> \in DG!Reach BY <1>2, <2>1 DEF DG!Mutual
  <2>3. PICK w \in DG!Targets(v) : w = z \/ <<w, z>> \in DG!Reach BY <1>2, <2>2, FirstEdge
  <2>4. w \in DG!Bean /\ <<v, w>> \in DG!Reach
    <3>1. w \in DG!Bean BY DEF DG!Targets
    <3> QED BY <1>2, <3>1, PathsJoin
  <2>5. <<w, v>> \in DG!Reach BY <2>2, <2>3, <2>4, PathsJoin
  <2> QED BY <2>4, <2>5
<1>5. CASE \A z \in C : z = v
  <2>1. edges[v, v] # "none" BY <1>3, <1>5
  <2>2. v \in DG!Targets(v) BY <1>2, <2>1 DEF DG!Targets
  <2> QED BY <1>2, <2>2, PathsJoin
<1> QED BY <1>4, <1>5

\* When the verdict is given, every bean is in a component.
LEMMA AllSettled ==
  ASSUME SearchInv, frames = <<>>, \A x \in DG!Bean : indices[x] # -1
  PROVE  \A x \in DG!Bean : \E C \in components : x \in C
<1>1. StackInv /\ Up BY DEF SearchInv
<1>2. DOMAIN frames = {} OBVIOUS
<1>3. Stacked = {} BY <1>1, <1>2 DEF Up
<1> QED BY <1>1, <1>3 DEF StackInv, Settled

\* The verdict on the components is the verdict on the cycles.
LEMMA VerdictOnCycles ==
  ASSUME DG!GraphAssumption, GraphInv
  PROVE  RefusedIffUnresolvable
<1> DEFINE onCycle == {e \in DG!Reach : e \in DOMAIN edges /\ edges[e] # "none" /\ <<e[2], e[1]>> \in DG!Reach}
           fine(e) == AllowCircular /\ edges[e] = "injection" /\ {e[1], e[2]} \subseteq Injectors \ Prototypes
<1>1. SearchInv /\ VerdictInv BY DEF GraphInv
<1>2. /\ edges \in [DG!Bean \X DG!Bean -> DG!Kind] /\ Strong /\ components \subseteq SUBSET DG!Bean
  BY <1>1 DEF SearchInv, SearchTypes
<1>3. ASSUME NEW v \in DG!Bean, NEW w \in DG!Targets(v), <<v, w>> \in DG!Reach, <<w, v>> \in DG!Reach
      PROVE  /\ <<v, w>> \in onCycle
             /\ w \in DG!Bean /\ (~AllowCircular \/ edges[v, w] # "injection" \/ ~({v, w} \subseteq Injectors \ Prototypes) => ~fine(<<v, w>>))
  <2>1. w \in DG!Bean /\ edges[<<v, w>>] # "none" BY DEF DG!Targets
  <2>2. <<v, w>>[1] = v /\ <<v, w>>[2] = w OBVIOUS
  <2>3. <<v, w>> \in DOMAIN edges BY <1>2, <2>1
  <2> QED BY <1>3, <2>1, <2>2, <2>3
<1>4. ASSUME outcome = "circular" PROVE \E e \in onCycle : ~fine(e)
  <2>1. PICK C \in components : DG!Cyclic(C) /\ ~ DG!Resolvable(C) BY <1>1, <1>4 DEF VerdictInv
  <2>2. \E v \in C : TRUE
    <3>1. PICK x \in C : TRUE BY <1>2 DEF Strong
    <3> QED OBVIOUS
  <2>3. \A v \in C : \E w \in DG!Targets(v) : <<v, w>> \in DG!Reach /\ <<w, v>> \in DG!Reach BY <1>1, <2>1, CycleEdge
  <2>4. C \subseteq DG!Bean BY <1>2
  <2>5. CASE ~AllowCircular
    <3>1. PICK v \in C : TRUE BY <2>2
    <3>2. PICK w \in DG!Targets(v) : <<v, w>> \in DG!Reach /\ <<w, v>> \in DG!Reach BY <2>3
    <3>3. <<v, w>> \in onCycle /\ ~fine(<<v, w>>) BY <1>3, <2>4, <2>5, <3>2
    <3> QED BY <3>3
  <2>6. CASE ~(C \subseteq Injectors \ Prototypes)
    <3>1. PICK v \in C : v \notin Injectors \ Prototypes BY <2>6
    <3>2. PICK w \in DG!Targets(v) : <<v, w>> \in DG!Reach /\ <<w, v>> \in DG!Reach BY <2>3
    <3>3. <<v, w>> \in onCycle /\ ~fine(<<v, w>>) BY <1>3, <2>4, <3>1, <3>2
    <3> QED BY <3>3
  <2>7. CASE \E x, y \in C : edges[x, y] = "fixed"
    <3>1. PICK v \in C, w \in C : edges[v, w] = "fixed" BY <2>7
    <3>2. v \in DG!Bean /\ w \in DG!Targets(v) BY <2>4, <3>1 DEF DG!Targets
    <3>3. <<v, w>> \in DG!Reach BY <2>4, <3>2, PathsJoin
    <3>4. <<w, v>> \in DG!Reach
      <4>1. DG!Mutual(v, w) BY <1>2, <2>4, Members
      <4> QED BY <3>3, <4>1 DEF DG!Mutual
    <3>5. <<v, w>> \in onCycle /\ ~fine(<<v, w>>) BY <1>3, <3>1, <3>2, <3>3, <3>4
    <3> QED BY <3>5
  <2> QED BY <2>1, <2>5, <2>6, <2>7 DEF DG!Resolvable
<1>5. ASSUME outcome \in {"ordering", "ordered"}, NEW e \in onCycle PROVE fine(e)
  <2>1. PICK v \in DG!Bean, w \in DG!Bean : e = <<v, w>> BY <1>2
  <2>2. /\ <<v, w>> \in DG!Reach /\ <<w, v>> \in DG!Reach /\ edges[v, w] # "none" /\ edges[v, w] \in DG!Kind
        /\ e[1] = v /\ e[2] = w
    BY <1>2, <2>1
  <2>3. PICK C \in components : v \in C BY <1>1, <1>5, AllSettled DEF VerdictInv
  <2>4. w \in C
    <3>1. DG!Mutual(v, w) BY <2>2 DEF DG!Mutual
    <3> QED BY <1>2, <2>3, <3>1, Members
  <2>5. DG!Cyclic(C)
    <3>1. CASE v = w BY <2>2, <2>3, <3>1 DEF DG!Cyclic
    <3>2. CASE v # w
      <4>1. C \in SUBSET DG!Bean BY <1>2
      <4>2. Cardinality(C) > 1 BY <2>3, <2>4, <3>2, <4>1, TwoMembers
      <4>3. DG!Cardinality(C) = Cardinality(C) BY DEF DG!Cardinality, Cardinality
      <4> QED BY <4>2, <4>3 DEF DG!Cyclic
    <3> QED BY <3>1, <3>2
  <2>6. DG!Resolvable(C) BY <1>1, <1>5, <2>5 DEF VerdictInv
  <2>7. AllowCircular /\ C \subseteq Injectors \ Prototypes /\ edges[v, w] # "fixed"
    BY <2>3, <2>4, <2>6 DEF DG!Resolvable
  <2>8. edges[v, w] = "injection" BY <2>2, <2>7 DEF DG!Kind
  <2> QED BY <2>1, <2>2, <2>3, <2>4, <2>7, <2>8
<1> QED BY <1>4, <1>5 DEF RefusedIffUnresolvable, DG!RefusedIffUnresolvable

\* Each step of the graph keeps the verdict's ground.
LEMMA VerdictSteps ==
  ASSUME DG!GraphAssumption, GraphInv, DG!Next
  PROVE  GraphInv'
<1>1. SearchInv /\ VerdictInv BY DEF GraphInv
<1>2. CASE DG!Root \/ DG!Follow \/ DG!Leave
  <2>1. SearchInv' BY <1>1, <1>2, SearchSteps
  <2>2. outcome = "searching" /\ outcome' = outcome
    <3>1. CASE DG!Root BY <3>1 DEF DG!Root, DG!Visit
    <3>2. CASE DG!Follow
      <4>1. outcome' = outcome /\ frames # <<>> BY <3>2 DEF DG!Follow, DG!Visit
      <4> QED BY <1>1, <4>1 DEF VerdictInv
    <3>3. CASE DG!Leave
      <4>1. outcome' = outcome /\ frames # <<>> BY <3>3 DEF DG!Leave
      <4> QED BY <1>1, <4>1 DEF VerdictInv
    <3> QED BY <1>2, <3>1, <3>2, <3>3
  <2> QED BY <2>1, <2>2 DEF GraphInv, VerdictInv
<1>3. CASE DG!Validate \/ DG!Emit \/ DG!Finish
  <2>1. UNCHANGED <<edges, DG!searchVars>> BY <1>3 DEF DG!Validate, DG!Emit, DG!Finish
  <2>2. SearchInv' BY <1>1, <2>1, SearchRests
  <2>3. /\ indices' = indices /\ frames' = frames /\ components' = components /\ edges' = edges BY <2>1 DEF DG!searchVars
  <2>4. /\ \A C : DG!Cyclic(C)' <=> DG!Cyclic(C)
        /\ \A C : DG!Resolvable(C)' <=> DG!Resolvable(C)
    BY <2>3 DEF DG!Cyclic, DG!Resolvable
  <2>5. CASE DG!Validate BY <2>3, <2>4, <2>5, <2>2 DEF DG!Validate, DG!SearchDone, VerdictInv, GraphInv
  <2>6. CASE DG!Emit BY <1>1, <2>2, <2>3, <2>4, <2>6 DEF DG!Emit, VerdictInv, GraphInv
  <2>7. CASE DG!Finish BY <1>1, <2>2, <2>3, <2>4, <2>7 DEF DG!Finish, VerdictInv, GraphInv
  <2> QED BY <1>3, <2>5, <2>6, <2>7
<1> QED BY <1>2, <1>3 DEF DG!Next

-----------------------------------------------------------------------------
\* The startup order.  A finite set that values are given to has a member with
\* the least.
LEMMA LeastValue ==
  ASSUME NEW S, IsFiniteSet(S), S # {}, NEW f, \A x \in S : f[x] \in Int
  PROVE  \E x \in S : \A y \in S : f[x] <= f[y]
<1> DEFINE Less(x) == {y \in S : f[y] < f[x]}
           Sizes == {Cardinality(Less(x)) : x \in S}
<1>1. \A x \in S : IsFiniteSet(Less(x)) /\ Cardinality(Less(x)) \in Nat BY FS_Subset, FS_CardinalityType
<1>2. PICK m \in Sizes : \A k \in Sizes : m <= k
  <2>1. Sizes \in SUBSET Nat /\ Sizes # {} BY <1>1
  <2> HIDE DEF Sizes
  <2> QED BY <2>1, LeastNumber
<1>3. PICK x \in S : Cardinality(Less(x)) = m OBVIOUS
<1>4. ASSUME NEW y \in S, ~(f[x] <= f[y]) PROVE FALSE
  <2>1. f[y] < f[x] BY <1>4
  <2>2. Less(y) \subseteq Less(x) /\ y \in Less(x) /\ y \notin Less(y) BY <2>1
  <2>3. Less(y) # Less(x) BY <2>2
  <2>4. Cardinality(Less(y)) < Cardinality(Less(x))
    <3>1. IsFiniteSet(Less(x)) /\ Cardinality(Less(x)) \in Nat /\ Cardinality(Less(y)) \in Nat BY <1>1
    <3> HIDE DEF Less
    <3>2. Less(y) \in SUBSET Less(x) BY <2>2
    <3>3. /\ Cardinality(Less(y)) <= Cardinality(Less(x))
          /\ Cardinality(Less(x)) = Cardinality(Less(y)) => Less(x) = Less(y)
      BY <3>1, <3>2, FS_Subset
    <3> QED BY <2>3, <3>1, <3>3
  <2>5. m <= Cardinality(Less(y)) BY <1>2
  <2>6. m \in Nat /\ Cardinality(Less(y)) \in Nat BY <1>1, <1>3
  <2> QED BY <1>3, <2>4, <2>5, <2>6
<1> QED BY <1>3, <1>4

\* Beans can be listed in the order of their names.
LEMMA NamesListed ==
  ASSUME DG!GraphAssumption, NEW R \in SUBSET DG!Bean
  PROVE  \E s \in [1 .. Cardinality(R) -> R] : \A i, j \in DOMAIN s : i < j => s[i] < s[j]
<1> DEFINE Good(S) == \E s \in [1 .. Cardinality(S) -> S] : \A i, j \in DOMAIN s : i < j => s[i] < s[j]
           Bad == {n \in Nat : \E S \in SUBSET R : Cardinality(S) = n /\ ~ Good(S)}
<1>1. IsFiniteSet(R)
  <2>1. IsFiniteSet(DG!Bean) BY FS_Interval DEF DG!Bean, DG!GraphAssumption
  <2> QED BY <2>1, FS_Subset
<1>2. \A S \in SUBSET R : IsFiniteSet(S) /\ Cardinality(S) \in Nat BY <1>1, FS_Subset, FS_CardinalityType
<1>3. ASSUME Bad # {} PROVE FALSE
  <2>1. PICK m \in Bad : \A k \in Bad : m <= k
    <3>1. Bad \in SUBSET Nat OBVIOUS
    <3> HIDE DEF Bad
    <3> QED BY <1>3, <3>1, LeastNumber
  <2>2. PICK S \in SUBSET R : Cardinality(S) = m /\ ~ Good(S) OBVIOUS
  <2>3. m \in Nat OBVIOUS
  <2> HIDE DEF Bad
  <2>4. S # {}
    <3> SUFFICES ASSUME S = {} PROVE FALSE OBVIOUS
    <3>1. m = 0 BY <2>2, FS_EmptySet
    <3> DEFINE e == [i \in 1 .. 0 |-> i]
    <3>2. e \in [1 .. 0 -> S] /\ \A i, j \in DOMAIN e : i < j => e[i] < e[j] OBVIOUS
    <3> QED BY <2>2, <3>1, <3>2
  <2>5. PICK x \in S : \A y \in S \ {x} : y < x
    <3> DEFINE f == [y \in S |-> 0 - y]
    <3>1. \A y \in S : y \in Int BY DEF DG!Bean, DG!GraphAssumption
    <3>2. \A y \in S : f[y] \in Int BY <3>1
    <3>3. PICK x \in S : \A y \in S : f[x] <= f[y]
      <4> HIDE DEF f
      <4> QED BY <1>2, <2>4, <3>2, LeastValue
    <3>4. ASSUME NEW y \in S \ {x} PROVE y < x
      <4>1. 0 - x <= 0 - y /\ x \in Int /\ y \in Int /\ x # y BY <3>1, <3>3
      <4> QED BY ONLY <4>1
    <3> QED BY <3>4
  <2>6. m # 0 BY <1>2, <2>2, <2>4, FS_EmptySet
  <2>7. Cardinality(S \ {x}) = m - 1 BY <1>2, <2>2, <2>5, FS_RemoveElement
  <2>8. Good(S \ {x})
    <3>1. m - 1 \in Nat /\ ~ (m <= m - 1) BY <2>3, <2>6
    <3>2. m - 1 \notin Bad BY <2>1, <3>1
    <3> QED BY <2>2, <2>7, <3>1, <3>2 DEF Bad
  <2>9. PICK s \in [1 .. (m - 1) -> S \ {x}] : \A i, j \in DOMAIN s : i < j => s[i] < s[j] BY <2>7, <2>8
  <2> DEFINE r == [i \in 1 .. m |-> IF i = m THEN x ELSE s[i]]
  <2>10. r \in [1 .. m -> S] BY <2>3, <2>6, <2>9
  <2>11. ASSUME NEW i \in 1 .. m, NEW j \in 1 .. m, i < j PROVE r[i] < r[j]
    <3>1. i \in 1 .. (m - 1) /\ i # m /\ r[i] = s[i] /\ s[i] \in S \ {x} BY <2>3, <2>9, <2>11
    <3>2. CASE j = m BY <3>1, <3>2, <2>5
    <3>3. CASE j # m
      <4>1. j \in 1 .. (m - 1) /\ r[j] = s[j] BY <2>3, <3>3
      <4>2. DOMAIN s = 1 .. (m - 1) BY <2>9
      <4> QED BY <3>1, <4>1, <4>2, <2>9, <2>11
    <3> QED BY <3>2, <3>3
  <2>12. DOMAIN r = 1 .. m OBVIOUS
  <2> HIDE DEF r
  <2> QED BY <2>2, <2>10, <2>11, <2>12
<1>4. Good(R) BY <1>2, <1>3
<1> QED BY <1>4

\* ByName lists a set of beans, each once.
LEMMA ByNameLists ==
  ASSUME DG!GraphAssumption, NEW S \in SUBSET DG!Bean
  PROVE  /\ DG!ByName(S) \in Seq(DG!Bean) /\ Len(DG!ByName(S)) \in Nat
         /\ \A x : x \in S <=> \E i \in 1 .. Len(DG!ByName(S)) : DG!ByName(S)[i] = x
         /\ \A i, j \in 1 .. Len(DG!ByName(S)) : DG!ByName(S)[i] = DG!ByName(S)[j] => i = j
<1> DEFINE n == Cardinality(S)
           s == DG!ByName(S)
<1>1. IsFiniteSet(S) /\ n \in Nat
  <2>1. IsFiniteSet(DG!Bean) BY FS_Interval DEF DG!Bean, DG!GraphAssumption
  <2> QED BY <2>1, FS_Subset, FS_CardinalityType
<1>2. DG!Cardinality(S) = n BY DEF DG!Cardinality, Cardinality
<1>3. s = CHOOSE r \in [1 .. n -> S] : \A i, j \in DOMAIN r : i < j => r[i] < r[j] BY <1>2 DEF DG!ByName
<1>4. s \in [1 .. n -> S] /\ \A i, j \in DOMAIN s : i < j => s[i] < s[j]
  <2>1. \E r \in [1 .. n -> S] : \A i, j \in DOMAIN r : i < j => r[i] < r[j] BY NamesListed
  <2> HIDE DEF n, s
  <2> QED BY <1>3, <2>1
<1> HIDE DEF n, s
<1>5. \A i \in 1 .. n : s[i] \in Int
  <2>1. DG!Bean \subseteq Int BY DEF DG!Bean, DG!GraphAssumption
  <2> QED BY <1>4, <2>1
<1>6. s \in Seq(DG!Bean) /\ Len(s) = n /\ DOMAIN s = 1 .. n
  <2>1. s \in [1 .. n -> DG!Bean] BY <1>4
  <2> QED BY <1>1, <2>1
<1>7. ASSUME NEW i \in 1 .. n, NEW j \in 1 .. n, s[i] = s[j] PROVE i = j
  <2>1. i \in Int /\ j \in Int /\ (i < j \/ j < i \/ i = j) BY <1>1
  <2>2. i < j => s[i] < s[j] BY <1>4, <1>6
  <2>3. j < i => s[j] < s[i] BY <1>4, <1>6
  <2> QED BY <1>5, <1>7, <2>1, <2>2, <2>3
<1>8. \A x : x \in S <=> \E i \in 1 .. n : s[i] = x
  <2>1. s \in Injection(1 .. n, S) BY <1>4, <1>7 DEF Injection, IsInjective
  <2>2. IsFiniteSet(1 .. n) /\ Cardinality(1 .. n) = n BY <1>1, FS_Interval
  <2>3. s \in Surjection(1 .. n, S) BY <1>1, <2>1, <2>2, FS_Injection DEF n
  <2> QED BY <1>4, <2>3 DEF Surjection
<1> QED BY <1>1, <1>6, <1>7, <1>8 DEF s

\* A component stands before another when it has a bean whose order none of the
\* other's is less than.
LEMMA BeforeMeans ==
  ASSUME DG!GraphAssumption, NEW C \in (SUBSET DG!Bean) \ {{}}, NEW D \in (SUBSET DG!Bean) \ {{}}, DG!Before(C, D)
  PROVE  \E z \in C : \A y \in D : Order[z] <= Order[y]
<1>1. ASSUME NEW S \in (SUBSET DG!Bean) \ {{}}
      PROVE  /\ \E x \in S : Order[x] = DG!ComponentOrder(S)
             /\ \A y \in S : DG!ComponentOrder(S) <= Order[y]
             /\ DG!ComponentOrder(S) \in Int
  <2> DEFINE V == {Order[x] : x \in S}
  <2>1. IsFiniteSet(S)
    <3>1. IsFiniteSet(DG!Bean) BY FS_Interval DEF DG!Bean, DG!GraphAssumption
    <3> QED BY <3>1, FS_Subset
  <2>2. \A x \in S : Order[x] \in Int BY DEF DG!GraphAssumption
  <2>3. \E x \in S : \A y \in S : Order[x] <= Order[y] BY <2>1, <2>2, LeastValue
  <2>4. \E m \in V : \A k \in V : m <= k BY <2>3
  <2>5. DG!ComponentOrder(S) = CHOOSE m \in V : \A k \in V : m <= k BY DEF DG!ComponentOrder, DG!Min
  <2>6. DG!ComponentOrder(S) \in V /\ \A k \in V : DG!ComponentOrder(S) <= k
    <3> HIDE DEF V
    <3> QED BY <2>4, <2>5
  <2> QED BY <2>2, <2>6
<1>2. PICK z \in C : Order[z] = DG!ComponentOrder(C) BY <1>1
<1>3. DG!ComponentOrder(C) <= DG!ComponentOrder(D) BY <1>1 DEF DG!Before
<1>4. ASSUME NEW y \in D PROVE Order[z] <= Order[y]
  <2>1. DG!ComponentOrder(D) <= Order[y] /\ Order[y] \in Int BY <1>1 DEF DG!GraphAssumption
  <2>2. DG!ComponentOrder(C) \in Int /\ DG!ComponentOrder(D) \in Int BY <1>1
  <2> QED BY <1>2, <1>3, <2>1, <2>2
<1> QED BY <1>4

\* Components do not meet, and what one needs each of its beans reaches.
LEMMA Apart ==
  ASSUME Strong, components \subseteq SUBSET DG!Bean, NEW C \in components, NEW D \in components
  PROVE  /\ C # {} /\ C \cap D # {} => C = D
         /\ D \in DG!Needs(C) => D # C /\ \A y \in C : \A w \in D : <<y, w>> \in DG!Reach
<1>1. C # {} BY DEF Strong
<1>2. ASSUME C \cap D # {} PROVE C = D
  <2>1. PICK x \in C : x \in D BY <1>2
  <2>2. C \subseteq DG!Bean /\ \A w \in DG!Bean : w \in C <=> DG!Mutual(x, w) BY Members
  <2>3. D \subseteq DG!Bean /\ \A w \in DG!Bean : w \in D <=> DG!Mutual(x, w) BY <2>1, Members
  <2> QED BY <2>2, <2>3
<1>3. ASSUME D \in DG!Needs(C), NEW y \in C, NEW w \in D PROVE <<y, w>> \in DG!Reach
  <2>1. PICK v \in C : DG!Targets(v) \cap D # {} BY <1>3 DEF DG!Needs
  <2>2. PICK u \in D : u \in DG!Targets(v) BY <2>1
  <2>3. y \in DG!Bean /\ v \in DG!Bean /\ u \in DG!Bean /\ w \in DG!Bean OBVIOUS
  <2>4. DG!Mutual(y, v) /\ DG!Mutual(u, w) BY <2>3, Members
  <2>5. <<v, u>> \in DG!Reach BY <2>2, <2>3, PathsJoin
  <2>6. <<v, w>> \in DG!Reach
    <3>1. CASE u = w BY <2>5, <3>1
    <3>2. CASE <<u, w>> \in DG!Reach BY <2>3, <2>5, <3>2, PathsJoin
    <3> QED BY <2>4, <3>1, <3>2 DEF DG!Mutual
  <2>7. CASE y = v BY <2>6, <2>7
  <2>8. CASE <<y, v>> \in DG!Reach BY <2>3, <2>6, <2>8, PathsJoin
  <2> QED BY <2>4, <2>7, <2>8 DEF DG!Mutual
<1> QED BY <1>1, <1>2, <1>3 DEF DG!Needs

\* As long as a component has not been put out, one can be.
LEMMA SomeReady ==
  ASSUME DG!GraphAssumption, Strong, components \subseteq SUBSET DG!Bean, components \ done # {}
  PROVE  DG!Ready # {}
<1> DEFINE All(C) == C \cup {y \in DG!Bean : \E v \in C : <<v, y>> \in DG!Reach}
           Sizes == {Cardinality(All(C)) : C \in components \ done}
<1>1. ASSUME NEW C \in components PROVE IsFiniteSet(All(C)) /\ Cardinality(All(C)) \in Nat
  <2>1. IsFiniteSet(DG!Bean) BY FS_Interval DEF DG!Bean, DG!GraphAssumption
  <2>2. All(C) \in SUBSET DG!Bean OBVIOUS
  <2> HIDE DEF All
  <2> QED BY <2>1, <2>2, FS_Subset, FS_CardinalityType
<1>2. PICK m \in Sizes : \A k \in Sizes : m <= k
  <2>1. Sizes \in SUBSET Nat
    <3> HIDE DEF All
    <3> QED BY <1>1
  <2>2. Sizes # {}
    <3> HIDE DEF All
    <3> QED OBVIOUS
  <2> HIDE DEF Sizes
  <2> QED BY <2>1, <2>2, LeastNumber
<1>3. PICK C \in components \ done : Cardinality(All(C)) = m
  <2> HIDE DEF All
  <2> QED OBVIOUS
<1>4. ASSUME NEW D \in DG!Needs(C), D \notin done PROVE FALSE
  <2>1. D \in components /\ C \in components BY <1>4 DEF DG!Needs
  <2>2. D # C /\ \A y \in C : \A w \in D : <<y, w>> \in DG!Reach BY <2>1, Apart
  <2>3. PICK x \in C : TRUE
    <3>1. C # {} BY <2>1 DEF Strong
    <3> QED BY <3>1
  <2>4. C \subseteq DG!Bean /\ D \subseteq DG!Bean BY <2>1
  <2>5. All(D) \subseteq All(C)
    <3>1. ASSUME NEW y \in D PROVE y \in All(C) BY <2>2, <2>3, <2>4
    <3>2. ASSUME NEW y \in DG!Bean, NEW v \in D, <<v, y>> \in DG!Reach PROVE y \in All(C)
      <4>1. <<x, y>> \in DG!Reach BY <2>2, <2>3, <2>4, <3>2, PathsJoin
      <4> QED BY <2>3, <4>1
    <3> QED BY <3>1, <3>2
  <2>6. x \notin All(D)
    <3>1. x \notin D
      <4>1. C \cap D = {} BY <2>1, <2>2, Apart
      <4> QED BY <2>3, <4>1
    <3>2. ASSUME NEW v \in D, <<v, x>> \in DG!Reach PROVE FALSE
      <4>1. DG!Mutual(v, x) BY <2>2, <2>3, <3>2 DEF DG!Mutual
      <4>2. x \in D BY <2>1, <2>3, <2>4, <4>1, Members
      <4> QED BY <3>1, <4>2
    <3> QED BY <3>1, <3>2
  <2>7. x \in All(C) BY <2>3
  <2>8. IsFiniteSet(All(C)) /\ Cardinality(All(C)) \in Nat /\ Cardinality(All(D)) \in Nat BY <1>1, <2>1
  <2>9. m <= Cardinality(All(D))
    <3> HIDE DEF All
    <3> QED BY <1>2, <1>4, <2>1
  <2> HIDE DEF All
  <2>10. All(D) \in SUBSET All(C) BY <2>5
  <2>11. /\ Cardinality(All(D)) <= Cardinality(All(C))
         /\ Cardinality(All(C)) = Cardinality(All(D)) => All(C) = All(D)
    BY <2>8, <2>10, FS_Subset
  <2>12. All(C) # All(D) BY <2>6, <2>7
  <2> QED BY <1>3, <2>8, <2>9, <2>11, <2>12
<1>5. C \in DG!Ready BY <1>4 DEF DG!Ready
<1> QED BY <1>5

\* The beans of the components that have been put out.
Out == UNION done

\* The bean at a place of a list may stand before one of a lesser order.
Excused(s, i, y) ==
  Order[y] < Order[s[i]] =>
    \/ <<y, s[i]>> \in DG!Reach
    \/ \E z \in DG!Bean : DG!Mutual(s[i], z) /\ Order[z] <= Order[y]
    \/ \E z \in DG!Bean \ ({s[j] : j \in 1 .. i - 1} \cup {y}) : <<y, z>> \in DG!Reach

\* The components put out need nothing else; the order lists their singletons,
\* once each; and what has not been put out may stand after the last of them.
PutOut ==
  /\ done \subseteq components
  /\ outcome = "searching" => done = {} /\ order = <<>>
  /\ outcome = "ordered" => components \subseteq done
  /\ \A C \in done : DG!Needs(C) \subseteq done
Listed ==
  /\ order \in Seq(DG!Bean)
  /\ \A x : x \in Out \ Prototypes <=> \E i \in 1 .. Len(order) : order[i] = x
  /\ \A i, j \in 1 .. Len(order) : order[i] = order[j] => i = j
Respected ==
  /\ \A i, j \in 1 .. Len(order) :
       <<order[i], order[j]>> \in DG!Reach /\ ~DG!Mutual(order[i], order[j]) => j < i
  /\ \A i \in 1 .. Len(order) : i + 1 \in 1 .. Len(order) => Excused(order, i, order[i + 1])
  /\ order # <<>> => \A C \in components \ done : \A y \in C : Excused(order, Len(order), y)
OrderInv == PutOut /\ Listed /\ Respected

\* What has been put out reaches only what has been.
LEMMA PutOutIsClosed ==
  ASSUME SearchInv, VerdictInv, PutOut, outcome # "searching"
  PROVE  ClosedUnder(Out)
<1>1. Strong /\ components \subseteq SUBSET DG!Bean /\ done \subseteq components BY DEF SearchInv, SearchTypes, PutOut
<1>2. \A x \in DG!Bean : \E C \in components : x \in C BY AllSettled DEF VerdictInv
<1>3. ASSUME NEW D \in done, NEW y \in D, NEW z \in DG!Targets(y) PROVE z \in Out
  <2>1. z \in DG!Bean BY DEF DG!Targets
  <2>2. PICK E \in components : z \in E BY <1>2, <2>1
  <2>3. E = D \/ E \in DG!Needs(D) BY <2>2 DEF DG!Needs
  <2>4. E \in done BY <2>3 DEF PutOut
  <2> QED BY <2>2, <2>4 DEF Out
<1>4. Out \subseteq DG!Bean BY <1>1 DEF Out
<1>5. \A y \in Out : DG!Targets(y) \subseteq Out BY <1>3 DEF Out
<1> QED BY <1>4, <1>5 DEF ClosedUnder

\* The order grows by the singletons of a component.
LEMMA Grown ==
  ASSUME DG!GraphAssumption, Listed, NEW C \in SUBSET DG!Bean, C \cap Out = {},
         order' = order \o DG!ByName(C \ Prototypes), done' = done \cup {C}
  PROVE  /\ Listed'
         /\ Len(order) \in Nat /\ Len(order') \in Nat /\ Len(order) <= Len(order')
         /\ \A i \in 1 .. Len(order) : order'[i] = order[i] /\ i \in 1 .. Len(order') /\ order[i] \in Out
         /\ \A i \in 1 .. Len(order') : i \in 1 .. Len(order) \/ (Len(order) < i /\ order'[i] \in C)
         /\ Len(order') = Len(order) => order' = order
<1> DEFINE s == DG!ByName(C \ Prototypes)
           n == Len(order)
           k == Len(s)
<1>1. /\ s \in Seq(DG!Bean) /\ k \in Nat
      /\ \A x : x \in C \ Prototypes <=> \E i \in 1 .. k : s[i] = x
      /\ \A i, j \in 1 .. k : s[i] = s[j] => i = j
  <2>1. C \ Prototypes \in SUBSET DG!Bean OBVIOUS
  <2> QED BY <2>1, ByNameLists
<1>2. order \in Seq(DG!Bean) /\ n \in Nat BY DEF Listed
<1>3. order' = order \o s OBVIOUS
<1> HIDE DEF s
<1>4. /\ order' \in Seq(DG!Bean) /\ Len(order') = n + k
      /\ \A i \in 1 .. n : order'[i] = order[i]
      /\ \A i \in 1 .. k : order'[n + i] = s[i]
  <2>1. /\ order \o s \in Seq(DG!Bean) /\ Len(order \o s) = n + k
        /\ \A i \in 1 .. n + k : (order \o s)[i] = IF i <= n THEN order[i] ELSE s[i - n]
    BY <1>1, <1>2, ConcatProperties
  <2> HIDE DEF n, k
  <2>2. /\ \A i \in 1 .. n : i \in 1 .. n + k /\ i <= n
        /\ \A i \in 1 .. k : n + i \in 1 .. n + k /\ ~(n + i <= n) /\ (n + i) - n = i
    BY ONLY <1>1, <1>2
  <2> QED BY <1>3, <2>1, <2>2
<1>5. /\ \A x : x \in Out \ Prototypes <=> \E i \in 1 .. n : order[i] = x
      /\ \A i, j \in 1 .. n : order[i] = order[j] => i = j
  BY DEF Listed
<1> HIDE DEF n, k
<1>6. /\ \A i \in 1 .. n : i \in 1 .. n + k
      /\ \A i \in 1 .. k : n + i \in 1 .. n + k /\ n < n + i
      /\ \A i \in 1 .. n + k : i \in 1 .. n \/ (n < i /\ i - n \in 1 .. k /\ i = n + (i - n))
      /\ n <= n + k /\ n + k \in Nat
      /\ n + k = n => k = 0
  BY ONLY <1>1, <1>2
<1>7. ASSUME NEW i \in 1 .. n + k PROVE i \in 1 .. n \/ (n < i /\ i - n \in 1 .. k /\ order'[i] = s[i - n] /\ order'[i] \in C \ Prototypes)
  <2>1. CASE i \in 1 .. n BY <2>1
  <2>2. CASE n < i /\ i - n \in 1 .. k /\ i = n + (i - n)
    <3>1. order'[i] = s[i - n] BY <1>4, <2>2
    <3>2. s[i - n] \in C \ Prototypes BY <1>1, <2>2
    <3> QED BY <2>2, <3>1, <3>2
  <2> QED BY <1>6, <2>1, <2>2
<1>8. Out' = Out \cup C BY DEF Out
<1>9. \A i \in 1 .. n : order'[i] = order[i] /\ order[i] \in Out BY <1>4, <1>5
<1>10. \A x : x \in Out' \ Prototypes <=> \E i \in 1 .. n + k : order'[i] = x
  <2>1. ASSUME NEW x \in Out' \ Prototypes PROVE \E i \in 1 .. n + k : order'[i] = x
    <3>1. CASE x \in Out
      <4>1. PICK i \in 1 .. n : order[i] = x BY <1>5, <2>1, <3>1
      <4> QED BY <1>6, <1>9, <4>1
    <3>2. CASE x \in C
      <4>1. PICK i \in 1 .. k : s[i] = x BY <1>1, <2>1, <3>2
      <4> QED BY <1>4, <1>6, <4>1
    <3> QED BY <1>8, <2>1, <3>1, <3>2
  <2>2. ASSUME NEW i \in 1 .. n + k PROVE order'[i] \in Out' \ Prototypes
    <3>1. CASE i \in 1 .. n
      <4>1. order[i] \in Out \ Prototypes BY <1>5, <3>1
      <4> QED BY <1>8, <1>9, <3>1, <4>1
    <3>2. CASE order'[i] \in C \ Prototypes BY <1>8, <3>2
    <3> QED BY <1>7, <3>1, <3>2
  <2> QED BY <2>1, <2>2
<1>11. ASSUME NEW i \in 1 .. n + k, NEW j \in 1 .. n + k, order'[i] = order'[j] PROVE i = j
  <2>1. CASE i \in 1 .. n /\ j \in 1 .. n BY <1>5, <1>9, <1>11, <2>1
  <2>2. CASE i \in 1 .. n /\ j \notin 1 .. n
    <3>1. order'[i] \in Out /\ order'[j] \in C BY <1>7, <1>9, <2>2
    <3> QED BY <1>11, <3>1
  <2>3. CASE i \notin 1 .. n /\ j \in 1 .. n
    <3>1. order'[j] \in Out /\ order'[i] \in C BY <1>7, <1>9, <2>3
    <3> QED BY <1>11, <3>1
  <2>4. CASE i \notin 1 .. n /\ j \notin 1 .. n
    <3>1. i - n \in 1 .. k /\ j - n \in 1 .. k /\ order'[i] = s[i - n] /\ order'[j] = s[j - n] BY <1>7, <2>4
    <3>2. i - n = j - n BY <1>1, <1>11, <3>1
    <3>3. i \in Int /\ j \in Int /\ n \in Int BY <1>1, <1>2
    <3> QED BY ONLY <3>2, <3>3
  <2> QED BY <2>1, <2>2, <2>3, <2>4
<1>12. Listed' BY <1>4, <1>10, <1>11 DEF Listed
<1>13. ASSUME Len(order') = n PROVE order' = order
  <2>1. k = 0 BY <1>4, <1>6, <1>13
  <2>2. s = <<>> BY <1>1, <2>1, EmptySeq DEF k
  <2> QED BY <1>2, <1>3, <2>2, ConcatEmptySeq
<1>14. \A i \in 1 .. n + k : i \in 1 .. n \/ (n < i /\ order'[i] \in C) BY <1>7
<1> QED BY <1>2, <1>4, <1>6, <1>9, <1>12, <1>13, <1>14 DEF n

\* Putting out a component keeps the order as it should be.
LEMMA PutOutKeeps ==
  ASSUME DG!GraphAssumption, SearchInv, VerdictInv, OrderInv, DG!Emit
  PROVE  OrderInv'
<1> DEFINE n == Len(order)
           k == Len(order')
<1>1. /\ Strong /\ components \subseteq SUBSET DG!Bean /\ PutOut /\ Listed /\ Respected
  BY DEF SearchInv, SearchTypes, OrderInv
<1>2. PICK C \in DG!Ready : /\ \A D \in DG!Ready \ {C} : DG!Before(C, D)
                            /\ order' = order \o DG!ByName(C \ Prototypes)
                            /\ done' = done \cup {C}
  BY DEF DG!Emit
<1>3. /\ outcome = "ordering" /\ outcome' = outcome /\ components' = components /\ edges' = edges
  BY DEF DG!Emit, DG!searchVars
<1>4. /\ \A D : DG!Needs(D)' = DG!Needs(D)
      /\ DG!Reach' = DG!Reach
      /\ \A v, z : DG!Mutual(v, z)' = DG!Mutual(v, z)
  <2>1. \A z : DG!Targets(z)' = DG!Targets(z) BY <1>3 DEF DG!Targets
  <2>2. DG!Reach' = DG!Reach BY <1>3, <2>1 DEF DG!Reach, DG!Targets
  <2>3. \A D : DG!Needs(D)' = DG!Needs(D) BY <1>3, <2>1 DEF DG!Needs
  <2> QED BY <2>2, <2>3 DEF DG!Mutual
<1>5. C \in components /\ C \notin done /\ DG!Needs(C) \subseteq done /\ C \in SUBSET DG!Bean /\ done \subseteq components
  BY <1>1 DEF DG!Ready, PutOut
<1>6. C \cap Out = {}
  <2>1. ASSUME NEW D \in done PROVE C \cap D = {} BY <1>1, <1>5, Apart
  <2> QED BY <2>1 DEF Out
<1>7. ClosedUnder(Out) BY <1>1, <1>3, PutOutIsClosed
<1>8. /\ Listed' /\ n \in Nat /\ k \in Nat /\ n <= k
      /\ \A i \in 1 .. n : order'[i] = order[i] /\ i \in 1 .. k /\ order[i] \in Out
      /\ \A i \in 1 .. k : i \in 1 .. n \/ (n < i /\ order'[i] \in C)
      /\ k = n => order' = order
  BY <1>1, <1>2, <1>5, <1>6, Grown
<1>o. n = Len(order) /\ k = Len(order') OBVIOUS
<1>9. PutOut'
  <2>1. \A D \in done' : DG!Needs(D) \subseteq done' BY <1>1, <1>2, <1>5 DEF PutOut
  <2> QED BY <1>2, <1>3, <1>4, <1>5, <2>1 DEF PutOut
<1>10. \A y, z \in C : <<y, z>> \in DG!Reach \/ y = z
  <2>1. \A y, z \in C : DG!Mutual(y, z) BY <1>1, <1>5, Members
  <2> QED BY <2>1 DEF DG!Mutual
<1> HIDE DEF n, k
<1>11. ASSUME NEW i \in 1 .. k, NEW j \in 1 .. k,
              <<order'[i], order'[j]>> \in DG!Reach, ~DG!Mutual(order'[i], order'[j])
       PROVE  j < i
  <2>1. CASE i \in 1 .. n /\ j \in 1 .. n
    <3>1. <<order[i], order[j]>> \in DG!Reach /\ ~DG!Mutual(order[i], order[j]) BY <1>8, <1>11, <2>1
    <3> QED BY <1>1, <1>o, <2>1, <3>1 DEF Respected
  <2>2. CASE i \in 1 .. n /\ j \notin 1 .. n
    <3>1. order'[i] \in Out /\ order'[j] \in C BY <1>8, <2>2
    <3>2. Out \subseteq DG!Bean BY <1>7 DEF ClosedUnder
    <3>3. order'[j] \in Out BY <1>5, <1>7, <1>11, <3>1, <3>2, PathsJoin
    <3> QED BY <1>6, <3>1, <3>3
  <2>3. CASE i \notin 1 .. n /\ j \in 1 .. n
    <3>1. n < i /\ j <= n BY <1>8, <2>3
    <3> QED BY <1>8, <3>1
  <2>4. CASE i \notin 1 .. n /\ j \notin 1 .. n
    <3>1. order'[i] \in C /\ order'[j] \in C BY <1>8, <2>4
    <3>2. DG!Mutual(order'[i], order'[j]) BY <1>1, <1>5, <3>1, Members
    <3> QED BY <1>11, <3>2
  <2> QED BY <2>1, <2>2, <2>3, <2>4
<1>12. ASSUME NEW i \in 1 .. n, NEW y, Excused(order, i, y) PROVE Excused(order', i, y)
  <2>1. \A j \in 1 .. i - 1 : j \in 1 .. n BY <1>8
  <2>2. {order'[j] : j \in 1 .. i - 1} = {order[j] : j \in 1 .. i - 1} BY <1>8, <2>1
  <2>3. order'[i] = order[i] BY <1>8
  <2> QED BY <1>4, <1>12, <2>2, <2>3 DEF Excused
<1>13. ASSUME NEW i \in 1 .. k, i + 1 \in 1 .. k PROVE Excused(order', i, order'[i + 1])
  <2>1. CASE i + 1 \in 1 .. n
    <3>1. i \in 1 .. n BY <1>8, <2>1
    <3>2. Excused(order, i, order[i + 1]) BY <1>1, <1>o, <2>1, <3>1 DEF Respected
    <3>3. order'[i + 1] = order[i + 1] BY <1>8, <2>1
    <3> QED BY <1>12, <3>1, <3>2, <3>3
  <2>2. CASE i \in 1 .. n /\ i + 1 \notin 1 .. n
    <3>1. i = n /\ order'[i + 1] \in C BY <1>8, <1>13, <2>2
    <3>2. order # <<>>
      <4>1. n # 0 BY <1>8, <2>2, <3>1
      <4> QED BY <1>o, <4>1
    <3>3. \A y \in C : Excused(order, i, y) BY <1>1, <1>5, <1>o, <3>1, <3>2 DEF Respected
    <3> QED BY <1>12, <2>2, <3>1, <3>3
  <2>3. CASE i \notin 1 .. n /\ i + 1 \notin 1 .. n
    <3>1. order'[i] \in C /\ order'[i + 1] \in C BY <1>8, <1>13, <2>3
    <3>2. order'[i + 1] # order'[i]
      <4>1. i + 1 # i BY <1>8
      <4> QED BY <1>8, <1>13, <1>o, <4>1 DEF Listed
    <3>3. <<order'[i + 1], order'[i]>> \in DG!Reach BY <1>10, <3>1, <3>2
    <3> QED BY <3>3 DEF Excused
  <2>4. i \in 1 .. n \/ i + 1 \notin 1 .. n BY <1>8
  <2> QED BY <2>1, <2>2, <2>3, <2>4
<1>14. ASSUME order' # <<>>, NEW D \in components \ done', NEW y \in D PROVE Excused(order', k, y)
  <2>1. D \in components /\ D # C /\ D \notin done /\ D \in SUBSET DG!Bean /\ y \in DG!Bean BY <1>1, <1>2
  <2>2. k \in 1 .. k
    <3>1. k # 0
      <4>1. order' \in Seq(DG!Bean) BY <1>8 DEF Listed
      <4> QED BY <1>14, <1>o, <4>1, EmptySeq
    <3> QED BY <1>8, <3>1
  <2>3. CASE k = n
    <3>1. order # <<>> /\ k \in 1 .. n BY <1>8, <1>14, <2>2, <2>3
    <3>2. Excused(order, k, y) BY <1>1, <1>o, <2>1, <2>3, <3>1 DEF Respected
    <3> QED BY <1>12, <3>1, <3>2
  <2>4. CASE k # n
    <3> DEFINE x == order'[k]
    <3>1. x \in C
      <4>1. k \notin 1 .. n BY <1>8, <2>4
      <4> QED BY <1>8, <2>2, <4>1
    <3>2. CASE D \in DG!Ready
      <4>1. DG!Before(C, D) BY <1>2, <2>1, <3>2
      <4>2. C # {} /\ D # {} BY <1>1, <1>5, <2>1 DEF Strong
      <4>3. PICK z \in C : \A v \in D : Order[z] <= Order[v] BY <1>5, <2>1, <4>1, <4>2, BeforeMeans
      <4>4. DG!Mutual(x, z) /\ z \in DG!Bean BY <1>1, <1>5, <3>1, Members
      <4> QED BY <4>3, <4>4 DEF Excused
    <3>3. CASE D \notin DG!Ready
      <4>1. PICK E \in DG!Needs(D) : E \notin done BY <2>1, <3>3 DEF DG!Ready
      <4>2. E \in components BY <4>1 DEF DG!Needs
      <4>3. E # D /\ \A w \in E : <<y, w>> \in DG!Reach BY <1>1, <2>1, <4>1, <4>2, Apart
      <4>4. CASE E = C
        <5>1. <<y, x>> \in DG!Reach BY <3>1, <4>3, <4>4
        <5> QED BY <5>1 DEF Excused
      <4>5. CASE E # C
        <5>1. E # {} /\ E \subseteq DG!Bean BY <1>1, <4>2 DEF Strong
        <5>d. E \cap D = {} BY <1>1, <2>1, <4>2, <4>3, Apart
        <5>2. PICK w \in E : TRUE BY <5>1
        <5>3. w \notin Out'
          <6>1. ASSUME NEW F \in done', w \in F PROVE FALSE
            <7>1. F \in components /\ F # E BY <1>2, <1>5, <4>1, <4>5
            <7>2. E \cap F = {} BY <1>1, <4>2, <7>1, Apart
            <7> QED BY <5>2, <6>1, <7>2
          <6> QED BY <6>1 DEF Out
        <5>4. \A j \in 1 .. k : order'[j] \in Out' BY <1>8, <1>o DEF Listed
        <5>5. \A j \in 1 .. k - 1 : j \in 1 .. k BY <1>8
        <5>6. w \in DG!Bean \ ({order'[j] : j \in 1 .. k - 1} \cup {y}) BY <5>1, <5>d, <5>2, <5>3, <5>4, <5>5
        <5>7. <<y, w>> \in DG!Reach BY <4>3, <5>2
        <5> QED BY <5>6, <5>7 DEF Excused
      <4> QED BY <4>4, <4>5
    <3> QED BY <3>2, <3>3
  <2> QED BY <2>3, <2>4
<1>15. Respected'
  <2>1. \A z, i, y : Excused(z, i, y)' <=> Excused(z, i, y) BY <1>4 DEF Excused
  <2> QED BY <1>3, <1>4, <1>11, <1>13, <1>14, <2>1 DEF Respected, k
<1> QED BY <1>8, <1>9, <1>15 DEF OrderInv

\* With nothing put out there is nothing to say of the order, and what leaves
\* the order, the components and the edges alone keeps what is known of it.
LEMMA OrderRests ==
  /\ done = {} /\ order = <<>> /\ outcome # "ordered" => OrderInv
  /\ done' = {} /\ order' = <<>> /\ outcome' # "ordered" => OrderInv'
  /\ OrderInv /\ UNCHANGED <<edges, components, done, order>> /\ outcome' = outcome => OrderInv'
<1>1. ASSUME done = {}, order = <<>>, outcome # "ordered" PROVE OrderInv
  <2>1. Out = {} /\ order \in Seq(DG!Bean) /\ Len(order) = 0 BY <1>1 DEF Out
  <2>2. \A i \in 1 .. Len(order) : FALSE BY <2>1
  <2> QED BY <1>1, <2>1, <2>2 DEF OrderInv, PutOut, Listed, Respected
<1>2. ASSUME done' = {}, order' = <<>>, outcome' # "ordered" PROVE OrderInv'
  <2>1. Out' = {} /\ order' \in Seq(DG!Bean) /\ Len(order') = 0 BY <1>2 DEF Out
  <2>2. \A i \in 1 .. Len(order') : FALSE BY <2>1
  <2> QED BY <1>2, <2>1, <2>2 DEF OrderInv, PutOut, Listed, Respected
<1>3. ASSUME OrderInv, UNCHANGED <<edges, components, done, order>>, outcome' = outcome PROVE OrderInv'
  <2>1. \A z : DG!Targets(z)' = DG!Targets(z) BY <1>3 DEF DG!Targets
  <2>2. DG!Reach' = DG!Reach BY <1>3, <2>1 DEF DG!Reach, DG!Targets
  <2>3. \A D : DG!Needs(D)' = DG!Needs(D) BY <1>3, <2>1 DEF DG!Needs
  <2>4. \A v, z : DG!Mutual(v, z)' = DG!Mutual(v, z) BY <2>2 DEF DG!Mutual
  <2>5. \A s, i, y : Excused(s, i, y)' <=> Excused(s, i, y) BY <2>2, <2>4 DEF Excused
  <2>6. Out' = Out BY <1>3 DEF Out
  <2>7. PutOut' BY <1>3, <2>3 DEF OrderInv, PutOut
  <2>8. Listed' BY <1>3, <2>6 DEF OrderInv, Listed
  <2>9. Respected' BY <1>3, <2>2, <2>4, <2>5 DEF OrderInv, Respected
  <2> QED BY <2>7, <2>8, <2>9 DEF OrderInv
<1> QED BY <1>1, <1>2, <1>3

\* Each step of the graph keeps the order as it should be.
LEMMA OrderSteps ==
  ASSUME DG!GraphAssumption, GraphInv, OrderInv, DG!Next
  PROVE  OrderInv'
<1>1. SearchInv /\ VerdictInv BY DEF GraphInv
<1>2. CASE DG!Root \/ DG!Follow \/ DG!Leave \/ DG!Validate
  <2>1. outcome = "searching" /\ outcome' # "ordered" /\ done' = done /\ order' = order
    <3>1. CASE DG!Root BY <3>1 DEF DG!Root, DG!Visit
    <3>2. CASE DG!Follow
      <4>1. outcome' = outcome /\ done' = done /\ order' = order /\ frames # <<>> BY <3>2 DEF DG!Follow, DG!Visit
      <4> QED BY <1>1, <4>1 DEF VerdictInv
    <3>3. CASE DG!Leave
      <4>1. outcome' = outcome /\ done' = done /\ order' = order /\ frames # <<>> BY <3>3 DEF DG!Leave
      <4> QED BY <1>1, <4>1 DEF VerdictInv
    <3>4. CASE DG!Validate BY <3>4 DEF DG!Validate, DG!SearchDone
    <3> QED BY <1>2, <3>1, <3>2, <3>3, <3>4
  <2>2. done = {} /\ order = <<>> BY <2>1 DEF OrderInv, PutOut
  <2> QED BY <2>1, <2>2, OrderRests
<1>3. CASE DG!Emit BY <1>1, <1>3, PutOutKeeps
<1>4. CASE DG!Finish
  <2>1. /\ edges' = edges /\ components' = components /\ done' = done /\ order' = order
        /\ DG!Ready = {} /\ outcome = "ordering" /\ outcome' = "ordered"
    BY <1>4 DEF DG!Finish, DG!searchVars
  <2>2. components \subseteq done
    <3>1. Strong /\ components \subseteq SUBSET DG!Bean BY <1>1 DEF SearchInv, SearchTypes
    <3>2. components \ done = {} BY <2>1, <3>1, SomeReady
    <3> QED BY <3>2
  <2>3. \A z : DG!Targets(z)' = DG!Targets(z) BY <2>1 DEF DG!Targets
  <2>4. DG!Reach' = DG!Reach BY <2>1, <2>3 DEF DG!Reach, DG!Targets
  <2>5. \A D : DG!Needs(D)' = DG!Needs(D) BY <2>1, <2>3 DEF DG!Needs
  <2>6. \A v, z : DG!Mutual(v, z)' = DG!Mutual(v, z) BY <2>4 DEF DG!Mutual
  <2>7. \A s, i, y : Excused(s, i, y)' <=> Excused(s, i, y) BY <2>4, <2>6 DEF Excused
  <2>8. Out' = Out BY <2>1 DEF Out
  <2>9. PutOut' BY <2>1, <2>2, <2>5 DEF OrderInv, PutOut
  <2>10. Listed' BY <2>1, <2>8 DEF OrderInv, Listed
  <2>11. Respected' BY <2>1, <2>4, <2>6, <2>7 DEF OrderInv, Respected
  <2> QED BY <2>9, <2>10, <2>11 DEF OrderInv
<1> QED BY <1>2, <1>3, <1>4 DEF DG!Next

\* What has been put out in the end is all, in an order that respects needs.
LEMMA OrderIsRight ==
  ASSUME GraphInv, OrderInv
  PROVE  OrderRespectsNeeds
<1> DEFINE n == Len(order)
<1> SUFFICES ASSUME outcome = "ordered"
             PROVE  /\ DG!Range(order) = DG!Bean \ Prototypes
                    /\ DG!IsInjective(order)
                    /\ \A i, j \in DOMAIN order :
                         <<order[i], order[j]>> \in DG!Reach /\ ~ DG!Mutual(order[i], order[j]) => j < i
                    /\ \A i \in 1 .. n - 1 :
                         Order[order[i + 1]] < Order[order[i]] =>
                           \/ <<order[i + 1], order[i]>> \in DG!Reach
                           \/ \E z \in DG!Bean : DG!Mutual(order[i], z) /\ Order[z] <= Order[order[i + 1]]
                           \/ \E z \in DG!Bean \ (DG!Range(SubSeq(order, 1, i - 1)) \cup {order[i + 1]}) :
                                <<order[i + 1], z>> \in DG!Reach
  BY DEF OrderRespectsNeeds, DG!OrderRespectsNeeds
<1>1. SearchInv /\ VerdictInv /\ PutOut /\ Listed /\ Respected BY DEF GraphInv, OrderInv
<1>2. n \in Nat /\ DOMAIN order = 1 .. n /\ order \in Seq(DG!Bean) BY <1>1 DEF Listed
<1>3. Out = DG!Bean
  <2>1. done = components /\ components \subseteq SUBSET DG!Bean BY <1>1 DEF PutOut, SearchInv, SearchTypes
  <2>2. \A x \in DG!Bean : \E C \in components : x \in C BY <1>1, AllSettled DEF VerdictInv
  <2> QED BY <2>1, <2>2 DEF Out
<1>4. DG!Range(order) = DG!Bean \ Prototypes BY <1>1, <1>2, <1>3 DEF DG!Range, Listed
<1>5. DG!IsInjective(order) BY <1>1, <1>2 DEF DG!IsInjective, Listed
<1>6. ASSUME NEW i \in DOMAIN order, NEW j \in DOMAIN order,
             <<order[i], order[j]>> \in DG!Reach, ~ DG!Mutual(order[i], order[j])
      PROVE  j < i
  BY <1>1, <1>2, <1>6 DEF Respected
<1>o. n = Len(order) OBVIOUS
<1> HIDE DEF n
<1>7. ASSUME NEW i \in 1 .. n - 1
      PROVE  Order[order[i + 1]] < Order[order[i]] =>
               \/ <<order[i + 1], order[i]>> \in DG!Reach
               \/ \E z \in DG!Bean : DG!Mutual(order[i], z) /\ Order[z] <= Order[order[i + 1]]
               \/ \E z \in DG!Bean \ (DG!Range(SubSeq(order, 1, i - 1)) \cup {order[i + 1]}) :
                    <<order[i + 1], z>> \in DG!Reach
  <2>1. i \in 1 .. n /\ i + 1 \in 1 .. n /\ i - 1 \in Nat /\ i - 1 <= n BY <1>2
  <2>2. Excused(order, i, order[i + 1]) BY <1>1, <1>o, <2>1 DEF Respected
  <2>3. DG!Range(SubSeq(order, 1, i - 1)) = {order[j] : j \in 1 .. i - 1}
    <3> DEFINE r == SubSeq(order, 1, i - 1)
    <3>1. r = [j \in 1 .. i - 1 |-> order[j]] BY <1>2, <1>o, <2>1
    <3>2. DG!Range(r) = {r[j] : j \in DOMAIN r} BY DEF DG!Range
    <3> HIDE DEF r
    <3>3. DG!Range(r) = {order[j] : j \in 1 .. i - 1} BY <3>1, <3>2
    <3> QED BY <3>3 DEF r
  <2> QED BY <2>2, <2>3 DEF Excused
<1> QED BY <1>4, <1>5, <1>6, <1>7

\* What is known of the graph holds when the program starts.
LEMMA GraphBegins == StartupInit => GraphInv /\ OrderInv
<1> SUFFICES ASSUME StartupInit PROVE GraphInv /\ OrderInv OBVIOUS
<1>1. [e \in DG!Bean \X DG!Bean |-> "none"] \in [DG!Bean \X DG!Bean -> DG!Kind] BY DEF DG!Kind
<1>2. PICK graph \in [DG!Bean \X DG!Bean -> DG!Kind] : DG!Begin(graph)
  <2>1. CASE part = "graph" BY <2>1 DEF StartupInit, DG!Init
  <2>2. CASE part # "graph" BY <1>1, <2>2 DEF StartupInit
  <2> QED BY <2>1, <2>2
<1>3. outcome = "searching" /\ done = {} /\ order = <<>> BY <1>2 DEF DG!Begin
<1>4. VerdictInv BY <1>3 DEF VerdictInv
<1> QED BY <1>2, <1>3, <1>4, SearchBegins, OrderRests DEF GraphInv

\* Every step of the program keeps what is known of the graph.
LEMMA GraphMoves ==
  ASSUME DG!GraphAssumption, GraphInv, OrderInv, [StartupNext]_startupVars
  PROVE  GraphInv' /\ OrderInv'
<1>1. ASSUME UNCHANGED graphVars PROVE GraphInv' /\ OrderInv'
  <2>1. UNCHANGED <<edges, DG!searchVars>> /\ outcome' = outcome BY <1>1 DEF graphVars, DG!searchVars
  <2>2. SearchInv' BY <2>1, SearchRests DEF GraphInv
  <2>3. /\ indices' = indices /\ frames' = frames /\ components' = components /\ edges' = edges
        /\ done' = done /\ order' = order
    BY <1>1 DEF graphVars
  <2>4. /\ \A C : DG!Cyclic(C)' <=> DG!Cyclic(C)
        /\ \A C : DG!Resolvable(C)' <=> DG!Resolvable(C)
    BY <2>3 DEF DG!Cyclic, DG!Resolvable
  <2>5. GraphInv' BY <2>1, <2>2, <2>3, <2>4 DEF GraphInv, VerdictInv
  <2> QED BY <2>1, <2>3, <2>5, OrderRests
<1>2. CASE Graph BY <1>2, VerdictSteps, OrderSteps DEF Graph
<1>3. CASE Registering \/ Hooks \/ Events \/ UNCHANGED startupVars
  <2>1. UNCHANGED graphVars BY <1>3 DEF Registering, Hooks, Events, startupVars
  <2> QED BY <1>1, <2>1
<1> QED BY <1>2, <1>3 DEF StartupNext

\* A container is refused exactly when some cycle has an edge or a bean that an
\* early singleton cannot stand in for (dependency_graph.go: dependencyComponents,
\* validateDependencyGraph, canResolveCircularComponent), whatever the graph.
THEOREM RefusalIsExact == StartupSpec => []RefusedIffUnresolvable
<1>1. DG!GraphAssumption BY StartupAssumption
<1>2. StartupInit => GraphInv /\ OrderInv BY GraphBegins
<1>3. GraphInv /\ OrderInv /\ [StartupNext]_startupVars => GraphInv' /\ OrderInv' BY <1>1, GraphMoves
<1>4. GraphInv => RefusedIffUnresolvable BY <1>1, VerdictOnCycles
<1> QED BY <1>2, <1>3, <1>4, PTL DEF StartupSpec

\* The startup order lists every singleton once and after all that it needs, its
\* own cycle excepted, and Definition.Order decides where needs leave a choice
\* (dependency_graph.go: computeStartupOrder, sortComponents), whatever the graph.
THEOREM OrderIsSound == StartupSpec => []OrderRespectsNeeds
<1>1. DG!GraphAssumption BY StartupAssumption
<1>2. StartupInit => GraphInv /\ OrderInv BY GraphBegins
<1>3. GraphInv /\ OrderInv /\ [StartupNext]_startupVars => GraphInv' /\ OrderInv' BY <1>1, GraphMoves
<1>4. GraphInv /\ OrderInv => OrderRespectsNeeds BY OrderIsRight
<1> QED BY <1>2, <1>3, <1>4, PTL DEF StartupSpec

-----------------------------------------------------------------------------
\* Registration and lookup.  Names, configurations and the places in a list are
\* sorted by an order that decides between any two.
Decides(B, S) ==
  /\ \A x \in S : <<x, x>> \notin B
  /\ \A x, y, z \in S : <<x, y>> \in B /\ <<y, z>> \in B => <<x, z>> \in B
  /\ \A x, y \in S : x # y => <<x, y>> \in B \/ <<y, x>> \in B
Sorts(s, S, B) ==
  /\ s \in [1 .. Cardinality(S) -> S]
  /\ \A i, j \in DOMAIN s : i < j => <<s[i], s[j]>> \in B
Listing(s, S) ==
  /\ s \in Seq(S) /\ DOMAIN s = 1 .. Len(s) /\ Len(s) \in Nat
  /\ \A i, j \in DOMAIN s : s[i] = s[j] => i = j
  /\ \A x : x \in S <=> \E i \in DOMAIN s : s[i] = x

\* A finite set has a last in such an order.
LEMMA OneIsLast ==
  ASSUME NEW S, NEW B, IsFiniteSet(S), S # {}, Decides(B, S)
  PROVE  \E x \in S : \A y \in S \ {x} : <<y, x>> \in B
<1> DEFINE After(x) == {y \in S : <<x, y>> \in B}
           Sizes == {Cardinality(After(x)) : x \in S}
<1>1. \A x \in S : IsFiniteSet(After(x)) /\ Cardinality(After(x)) \in Nat BY FS_Subset, FS_CardinalityType
<1>2. PICK m \in Sizes : \A k \in Sizes : m <= k
  <2>1. Sizes \in SUBSET Nat /\ Sizes # {}
    <3> HIDE DEF After
    <3> QED BY <1>1
  <2> HIDE DEF Sizes
  <2> QED BY <2>1, LeastNumber
<1>3. PICK x \in S : Cardinality(After(x)) = m OBVIOUS
<1>4. ASSUME NEW y \in S, <<x, y>> \in B PROVE FALSE
  <2>1. After(y) \subseteq After(x) /\ y \in After(x) /\ y \notin After(y) BY <1>4 DEF Decides
  <2>2. After(y) # After(x) BY <2>1
  <2>3. Cardinality(After(y)) < Cardinality(After(x))
    <3>1. IsFiniteSet(After(x)) /\ Cardinality(After(x)) \in Nat /\ Cardinality(After(y)) \in Nat BY <1>1
    <3> HIDE DEF After
    <3>2. After(y) \in SUBSET After(x) BY <2>1
    <3>3. /\ Cardinality(After(y)) <= Cardinality(After(x))
          /\ Cardinality(After(x)) = Cardinality(After(y)) => After(x) = After(y)
      BY <3>1, <3>2, FS_Subset
    <3> QED BY <2>2, <3>1, <3>3
  <2>4. m <= Cardinality(After(y))
    <3> HIDE DEF After
    <3> QED BY <1>2
  <2>5. m \in Nat /\ Cardinality(After(y)) \in Nat BY <1>1, <1>3
  <2> QED BY <1>3, <2>3, <2>4, <2>5
<1> QED BY <1>3, <1>4 DEF Decides

\* A finite set can be listed in such an order.
LEMMA SortingExists ==
  ASSUME NEW T, NEW B, IsFiniteSet(T), Decides(B, T)
  PROVE  \E s : Sorts(s, T, B)
<1> DEFINE Good(S) == \E s : Sorts(s, S, B)
           Bad == {n \in Nat : \E S \in SUBSET T : Cardinality(S) = n /\ ~ Good(S)}
<1>1. \A S \in SUBSET T : IsFiniteSet(S) /\ Cardinality(S) \in Nat BY FS_Subset, FS_CardinalityType
<1>2. ASSUME Bad # {} PROVE FALSE
  <2>1. PICK m \in Bad : \A k \in Bad : m <= k
    <3>1. Bad \in SUBSET Nat OBVIOUS
    <3> HIDE DEF Bad
    <3> QED BY <1>2, <3>1, LeastNumber
  <2>2. PICK S \in SUBSET T : Cardinality(S) = m /\ ~ Good(S) OBVIOUS
  <2>3. m \in Nat OBVIOUS
  <2> HIDE DEF Bad
  <2>4. S # {}
    <3> SUFFICES ASSUME S = {} PROVE FALSE OBVIOUS
    <3>1. m = 0 BY <2>2, FS_EmptySet
    <3> DEFINE e == [i \in 1 .. 0 |-> i]
    <3>2. e \in [1 .. 0 -> S] /\ \A i, j \in DOMAIN e : i < j => <<e[i], e[j]>> \in B OBVIOUS
    <3> QED BY <2>2, <3>1, <3>2 DEF Sorts
  <2>5. PICK x \in S : \A y \in S \ {x} : <<y, x>> \in B
    <3>1. IsFiniteSet(S) /\ S \subseteq T BY <1>1
    <3>2. Decides(B, S) BY <3>1 DEF Decides
    <3> HIDE DEF Good
    <3> QED BY <2>4, <3>1, <3>2, OneIsLast
  <2>6. m # 0 BY <1>1, <2>2, <2>4, FS_EmptySet
  <2>7. Cardinality(S \ {x}) = m - 1 BY <1>1, <2>2, <2>5, FS_RemoveElement
  <2>8. Good(S \ {x})
    <3>1. m - 1 \in Nat /\ ~ (m <= m - 1) BY <2>3, <2>6
    <3>2. m - 1 \notin Bad BY <2>1, <3>1
    <3> QED BY <2>2, <2>7, <3>1, <3>2 DEF Bad
  <2>9. PICK s \in [1 .. (m - 1) -> S \ {x}] : \A i, j \in DOMAIN s : i < j => <<s[i], s[j]>> \in B
    BY <2>7, <2>8 DEF Sorts
  <2> DEFINE r == [i \in 1 .. m |-> IF i = m THEN x ELSE s[i]]
  <2>10. r \in [1 .. m -> S] BY <2>3, <2>6, <2>9
  <2>11. ASSUME NEW i \in 1 .. m, NEW j \in 1 .. m, i < j PROVE <<r[i], r[j]>> \in B
    <3>1. i \in 1 .. (m - 1) /\ i # m /\ r[i] = s[i] /\ s[i] \in S \ {x} BY <2>3, <2>9, <2>11
    <3>2. CASE j = m BY <3>1, <3>2, <2>5
    <3>3. CASE j # m
      <4>1. j \in 1 .. (m - 1) /\ r[j] = s[j] BY <2>3, <3>3
      <4>2. DOMAIN s = 1 .. (m - 1) BY <2>9
      <4> QED BY <3>1, <4>1, <4>2, <2>9, <2>11
    <3> QED BY <3>2, <3>3
  <2>12. DOMAIN r = 1 .. m OBVIOUS
  <2> HIDE DEF r
  <2> QED BY <2>2, <2>10, <2>11, <2>12 DEF Sorts
<1>3. Good(T) BY <1>1, <1>2
<1> QED BY <1>3

\* What is listed in such an order is listed once, and all of it.
LEMMA SortingLists ==
  ASSUME NEW T, NEW B, IsFiniteSet(T), Decides(B, T), NEW s, Sorts(s, T, B)
  PROVE  Listing(s, T)
<1> DEFINE n == Cardinality(T)
<1>1. n \in Nat BY FS_CardinalityType
<1>2. s \in Seq(T) /\ Len(s) = n /\ DOMAIN s = 1 .. n /\ s \in [1 .. n -> T] BY <1>1 DEF Sorts
<1>3. ASSUME NEW i \in 1 .. n, NEW j \in 1 .. n, s[i] = s[j] PROVE i = j
  <2>1. i < j \/ j < i \/ i = j BY <1>1
  <2> QED BY <1>2, <1>3, <2>1 DEF Sorts, Decides
<1>4. \A x : x \in T <=> \E i \in 1 .. n : s[i] = x
  <2>1. s \in Injection(1 .. n, T) BY <1>2, <1>3 DEF Injection, IsInjective
  <2>2. IsFiniteSet(1 .. n) /\ Cardinality(1 .. n) = n BY <1>1, FS_Interval
  <2>3. s \in Surjection(1 .. n, T) BY <1>1, <2>1, <2>2, FS_Injection DEF n
  <2> QED BY <2>3 DEF Surjection
<1> QED BY <1>1, <1>2, <1>3, <1>4 DEF Listing

Names == {d.name : d \in Definitions}
Known(definitions) ==
  /\ DOMAIN definitions \subseteq Names
  /\ \A n \in DOMAIN definitions : definitions[n] \in RG!Definition
Matching(definitions, t) == {n \in DOMAIN definitions : RG!typeAssignable(definitions[n].type, t)}

\* There are finitely many names, each with a rank of its own.
LEMMA NamesRanked ==
  ASSUME RG!RegistrationAssumption
  PROVE  /\ IsFiniteSet(Names)
         /\ \A x, y \in Names : Rank[x] \in Nat \ {0} /\ (Rank[x] = Rank[y] => x = y)
         /\ \A x \in Names : x \notin RG!Refusals /\ x # RG!Absent
<1>1. IsFiniteSet(Names)
  <2>1. IsFiniteSet(Definitions) BY DEF RG!RegistrationAssumption, RG!IsFiniteSet, IsFiniteSet
  <2> DEFINE f == [d \in Definitions |-> d.name]
  <2>2. f \in Surjection(Definitions, Names) BY DEF Surjection, Names
  <2> HIDE DEF f
  <2> QED BY <2>1, <2>2, FS_Surjection
<1>2. \A x, y \in Names : Rank[x] \in Nat \ {0} /\ (Rank[x] = Rank[y] => x = y)
  <2>1. RG!Ranked(Definitions) BY DEF RG!RegistrationAssumption
  <2> QED BY <2>1 DEF RG!Ranked, Names
<1>3. \A x \in Names : x \notin RG!Refusals /\ x # RG!Absent
  <2>1. \A d \in Definitions : d.name \notin {RG!Absent} \cup RG!Refusals BY DEF RG!RegistrationAssumption
  <2> QED BY <2>1 DEF Names
<1> QED BY <1>1, <1>2, <1>3

\* matchingDefinitionNames lists the names of a type in their order.
LEMMA MatchingIsListed ==
  ASSUME RG!RegistrationAssumption, NEW definitions, Known(definitions), NEW t
  PROVE  /\ Listing(RG!matchingNames(definitions, t), Matching(definitions, t))
         /\ IsFiniteSet(Matching(definitions, t))
         /\ \A i, j \in DOMAIN RG!matchingNames(definitions, t) :
              i < j => Rank[RG!matchingNames(definitions, t)[i]] < Rank[RG!matchingNames(definitions, t)[j]]
<1> DEFINE S == Matching(definitions, t)
           m == RG!matchingNames(definitions, t)
           B == {p \in S \X S : Rank[p[1]] < Rank[p[2]]}
<1>1. IsFiniteSet(S) /\ S \subseteq Names BY NamesRanked, FS_Subset DEF Known, Matching
<1>2. RG!Cardinality(S) = Cardinality(S) BY DEF RG!Cardinality, Cardinality
<1>3. m = CHOOSE s \in [1 .. Cardinality(S) -> S] : \A i, j \in DOMAIN s : i < j => Rank[s[i]] < Rank[s[j]]
  BY <1>2, Zenon DEF RG!matchingNames, Matching
<1>4. \A x, y \in S : Rank[x] \in Int /\ (Rank[x] = Rank[y] => x = y) BY <1>1, NamesRanked
<1> HIDE DEF S, m
<1>5. Decides(B, S) BY <1>4 DEF Decides
<1>6. \A s \in [1 .. Cardinality(S) -> S] :
        (\A i, j \in DOMAIN s : i < j => Rank[s[i]] < Rank[s[j]]) <=> (\A i, j \in DOMAIN s : i < j => <<s[i], s[j]>> \in B)
  OBVIOUS
<1> HIDE DEF B
<1>7. m \in [1 .. Cardinality(S) -> S] /\ \A i, j \in DOMAIN m : i < j => Rank[m[i]] < Rank[m[j]]
  <2>1. \E s : Sorts(s, S, B) BY <1>1, <1>5, SortingExists
  <2>2. \E s \in [1 .. Cardinality(S) -> S] : \A i, j \in DOMAIN s : i < j => Rank[s[i]] < Rank[s[j]]
    BY <2>1, <1>6 DEF Sorts
  <2> QED BY <1>3, <2>2, Zenon
<1>8. Listing(m, S)
  <2>1. Sorts(m, S, B) BY <1>6, <1>7 DEF Sorts
  <2> QED BY <1>1, <1>5, <2>1, SortingLists
<1> QED BY <1>1, <1>7, <1>8 DEF m, S

\* Where a list that repeats nothing has something.
LEMMA AtPlace ==
  ASSUME NEW S, NEW s, Listing(s, S), NEW x \in S
  PROVE  RG!At(s, x) \in DOMAIN s /\ s[RG!At(s, x)] = x
<1>1. \E i \in DOMAIN s : s[i] = x BY DEF Listing
<1> QED BY <1>1 DEF RG!At

\* What is kept of a list is listed as it stands there.
LEMMA KeptIsListed ==
  ASSUME NEW S, IsFiniteSet(S), NEW s, Listing(s, S), NEW names
  PROVE  /\ Listing(RG!Kept(s, names), S \cap names)
         /\ \A i, j \in DOMAIN RG!Kept(s, names) :
              i < j => RG!At(s, RG!Kept(s, names)[i]) < RG!At(s, RG!Kept(s, names)[j])
<1> DEFINE T == S \cap names
           k == RG!Kept(s, names)
           B == {p \in T \X T : RG!At(s, p[1]) < RG!At(s, p[2])}
<1>1. IsFiniteSet(T) BY FS_Subset
<1>2. RG!ToSet(s) \cap names = T BY DEF RG!ToSet, Listing
<1>3. RG!Cardinality(T) = Cardinality(T) BY DEF RG!Cardinality, Cardinality
<1>4. k = CHOOSE t \in [1 .. Cardinality(T) -> T] : \A i, j \in DOMAIN t : i < j => RG!At(s, t[i]) < RG!At(s, t[j])
  BY <1>2, <1>3, Zenon DEF RG!Kept
<1>5. \A x, y \in T : RG!At(s, x) \in Int /\ (RG!At(s, x) = RG!At(s, y) => x = y)
  <2>1. \A x \in T : RG!At(s, x) \in DOMAIN s /\ s[RG!At(s, x)] = x BY AtPlace
  <2>2. DOMAIN s \subseteq Int BY DEF Listing
  <2> QED BY <2>1, <2>2
<1> HIDE DEF T, k
<1>6. Decides(B, T) BY <1>5 DEF Decides
<1>7. \A t \in [1 .. Cardinality(T) -> T] :
        (\A i, j \in DOMAIN t : i < j => RG!At(s, t[i]) < RG!At(s, t[j])) <=> (\A i, j \in DOMAIN t : i < j => <<t[i], t[j]>> \in B)
  OBVIOUS
<1> HIDE DEF B
<1>8. k \in [1 .. Cardinality(T) -> T] /\ \A i, j \in DOMAIN k : i < j => RG!At(s, k[i]) < RG!At(s, k[j])
  <2>1. \E t : Sorts(t, T, B) BY <1>1, <1>6, SortingExists
  <2>2. \E t \in [1 .. Cardinality(T) -> T] : \A i, j \in DOMAIN t : i < j => RG!At(s, t[i]) < RG!At(s, t[j])
    BY <2>1, <1>7 DEF Sorts
  <2> QED BY <1>4, <2>2, Zenon
<1>9. Listing(k, T)
  <2>1. Sorts(k, T, B) BY <1>7, <1>8 DEF Sorts
  <2> QED BY <1>1, <1>6, <2>1, SortingLists
<1> QED BY <1>8, <1>9 DEF k, T

\* What a lookup must answer, as SelectionIsTheBest states it.
RightOne(q, answer) ==
  IF RG!Best(q) = {} THEN answer \notin DOMAIN runtime.definitions ELSE {answer} = RG!Best(q)
Started(n) ==
  IF n \in RG!ToSet(runtime.order) THEN RG!At(runtime.order, n) ELSE Len(runtime.order) + Rank[n]
RightAll(q, answer) ==
  /\ RG!ToSet(answer) = Matching(runtime.definitions, q.type)
  /\ RG!IsInjective(answer)
  /\ \A i, j \in DOMAIN answer : i < j => Started(answer[i]) < Started(answer[j])
Right(q, answer) == IF ~q.all THEN RightOne(q, answer) ELSE RightAll(q, answer)

\* A lookup by qualifier.
LEMMA QualifierIsRight ==
  ASSUME RG!RegistrationAssumption, Known(runtime.definitions), NEW q, q.qualifier # "none"
  PROVE  RightOne(q, RG!selectQualifier(q))
<1> DEFINE defs == runtime.definitions
<1>1. RG!Best(q) = {q.qualifier} \cap {n \in DOMAIN defs : RG!Fits(n, q)} BY DEF RG!Best
<1>2. \A x \in DOMAIN defs : x \notin RG!Refusals /\ x # RG!Absent BY NamesRanked DEF Known
<1>3. CASE q.qualifier = RG!Absent
  <2>1. RG!selectQualifier(q) \in RG!Refusals BY <1>3 DEF RG!selectQualifier, RG!Refusals
  <2>2. RG!Best(q) = {} BY <1>1, <1>2, <1>3
  <2> QED BY <1>2, <2>1, <2>2 DEF RightOne
<1>4. CASE q.qualifier # RG!Absent /\ q.qualifier \notin DOMAIN defs
  <2>1. RG!selectQualifier(q) \in RG!Refusals BY <1>4 DEF RG!selectQualifier, RG!Refusals
  <2>2. RG!Best(q) = {} BY <1>1, <1>4
  <2> QED BY <1>2, <2>1, <2>2 DEF RightOne
<1>5. CASE q.qualifier # RG!Absent /\ q.qualifier \in DOMAIN defs
  <2>1. CASE RG!Fits(q.qualifier, q)
    <3>1. RG!selectQualifier(q) = q.qualifier BY <1>5, <2>1 DEF RG!selectQualifier, RG!Fits
    <3>2. RG!Best(q) = {q.qualifier} BY <1>1, <1>5, <2>1
    <3> QED BY <3>1, <3>2 DEF RightOne
  <2>2. CASE ~RG!Fits(q.qualifier, q)
    <3>1. RG!selectQualifier(q) \in RG!Refusals BY <1>5, <2>2 DEF RG!selectQualifier, RG!Fits, RG!Refusals
    <3>2. RG!Best(q) = {} BY <1>1, <2>2
    <3> QED BY <1>2, <3>1, <3>2 DEF RightOne
  <2> QED BY <2>1, <2>2
<1> QED BY <1>3, <1>4, <1>5

\* The only member of a set, or what is said when there is none or are several.
LEMMA OnlyMeans ==
  ASSUME NEW S, IsFiniteSet(S), NEW other
  PROVE  \/ \E x \in S : S = {x} /\ RG!Only(S, other) = x
         \/ (\A x : S # {x}) /\ RG!Only(S, other) = other
<1>1. RG!Cardinality(S) = Cardinality(S) BY DEF RG!Cardinality, Cardinality
<1>2. Cardinality(S) = 1 <=> \E x : S = {x} BY FS_Singleton
<1>3. CASE Cardinality(S) = 1
  <2>1. PICK x : S = {x} BY <1>2, <1>3
  <2>2. RG!Only(S, other) = CHOOSE n \in S : TRUE BY <1>1, <1>3 DEF RG!Only
  <2> QED BY <2>1, <2>2
<1>4. CASE Cardinality(S) # 1
  <2>1. RG!Only(S, other) = other BY <1>1, <1>4 DEF RG!Only
  <2> QED BY <1>2, <1>4, <2>1
<1> QED BY <1>3, <1>4

\* A lookup by type takes the bean that beats all others, or none.
LEMMA SelectionIsRight ==
  ASSUME RG!RegistrationAssumption, Known(runtime.definitions), NEW q, q.qualifier = "none"
  PROVE  RightOne(q, RG!selectByType(Matching(runtime.definitions, q.type)))
<1> DEFINE defs == runtime.definitions
           S == Matching(defs, q.type)
           Primary == {n \in S : defs[n].primary}
           Beaten(n) == \A other \in S \ {n} : RG!Beats(n, other)
<1>1. /\ RG!Best(q) = {n \in S : Beaten(n)}
      /\ S \subseteq DOMAIN defs
  <2>1. S = {n \in DOMAIN defs : RG!Fits(n, q)} BY DEF RG!Fits, Matching
  <2>2. S \subseteq DOMAIN defs BY <2>1
  <2> HIDE DEF S
  <2> QED BY <2>1, <2>2 DEF RG!Best
<1>2. \A x \in DOMAIN defs : x \notin RG!Refusals BY NamesRanked DEF Known
<1>3. IsFiniteSet(S) BY MatchingIsListed
<1>4. \A n \in S : defs[n].primary \in BOOLEAN /\ defs[n].priority \in Int
  BY <1>1 DEF Known, RG!Definition
<1>5. \A a, b \in S : RG!Beats(a, b) <=>
        ~defs[b].primary /\ (defs[a].primary \/ (defs[a].priority # 0 /\ (defs[b].priority = 0 \/ defs[a].priority < defs[b].priority)))
  BY DEF RG!Beats
<1>6. {RG!NotFound, RG!Conflict} \subseteq RG!Refusals BY DEF RG!Refusals
<1>7. RG!Cardinality(S) = Cardinality(S) BY DEF RG!Cardinality, Cardinality
<1>8. CASE S = {}
  <2>1. RG!Cardinality(S) = 0 BY <1>7, <1>8, FS_EmptySet
  <2>2. RG!selectByType(S) = RG!NotFound
    <3> HIDE DEF S
    <3> QED BY <1>8, <2>1 DEF RG!selectByType
  <2> QED BY <1>1, <1>2, <1>6, <1>8, <2>2 DEF RightOne
<1>9. CASE S # {} /\ Cardinality(S) = 1
  <2>1. RG!selectByType(S) = RG!Only(S, RG!Conflict) BY <1>7, <1>9 DEF RG!selectByType
  <2>2. PICK x : S = {x} BY <1>3, <1>9, FS_Singleton
  <2>3. RG!selectByType(S) = x BY <1>3, <2>1, <2>2, OnlyMeans
  <2>4. RG!Best(q) = {x} BY <1>1, <2>2
  <2> QED BY <2>3, <2>4 DEF RightOne
<1>10. CASE S # {} /\ Cardinality(S) # 1
  <2>1. RG!selectByType(S) = RG!selectPreferred(S) BY <1>7, <1>10 DEF RG!selectByType
  <2>2. \A x : S # {x} BY <1>3, <1>10, FS_Singleton
  <2> HIDE DEF S
  <2>3. CASE Primary = {}
    <3> DEFINE least == {n \in {k \in S : defs[k].priority # 0} :
                           \A m \in {k \in S : defs[k].priority # 0} : defs[n].priority <= defs[m].priority}
    <3>1. RG!selectPreferred(S) = RG!Only(least, RG!Conflict)
      BY <2>3 DEF RG!selectPreferred, RG!selectPriority
    <3>2. IsFiniteSet(least)
      <4>1. least \subseteq S OBVIOUS
      <4> HIDE DEF least
      <4> QED BY <1>3, <4>1, FS_Subset
    <3>3. \A n \in S : Beaten(n) => least = {n}
      <4> SUFFICES ASSUME NEW n \in S, Beaten(n) PROVE least = {n} OBVIOUS
      <4>1. PICK other \in S : other # n BY <2>2
      <4>2. defs[n].priority # 0 BY <1>5, <2>3, <4>1
      <4>3. \A m \in S \ {n} : defs[m].priority = 0 \/ defs[n].priority < defs[m].priority BY <1>5, <2>3
      <4> QED BY <1>4, <4>2, <4>3
    <3>4. \A n : least = {n} => n \in S /\ Beaten(n)
      <4> SUFFICES ASSUME NEW n, least = {n} PROVE n \in S /\ Beaten(n) OBVIOUS
      <4>1. n \in least OBVIOUS
      <4>2. n \in S /\ defs[n].priority # 0 BY <4>1
      <4>3. ASSUME NEW m \in S \ {n}, defs[m].priority # 0 PROVE defs[n].priority < defs[m].priority
        <5>1. defs[n].priority <= defs[m].priority BY <4>1, <4>3
        <5>2. ASSUME defs[n].priority = defs[m].priority PROVE m \in least BY <4>1, <4>3, <5>2
        <5>3. m \notin least BY <4>3
        <5> QED BY <1>4, <4>2, <5>1, <5>2, <5>3
      <4> QED BY <1>5, <2>3, <4>2, <4>3
    <3> HIDE DEF least
    <3>5. CASE \E x \in least : least = {x} /\ RG!Only(least, RG!Conflict) = x
      <4>1. PICK x \in least : least = {x} /\ RG!Only(least, RG!Conflict) = x BY <3>5
      <4>2. RG!Best(q) = {x}
        <5>1. x \in S /\ Beaten(x) BY <3>4, <4>1
        <5>2. \A n \in S : Beaten(n) => n = x BY <3>3, <4>1
        <5> HIDE DEF Beaten
        <5> QED BY <1>1, <5>1, <5>2
      <4> QED BY <2>1, <3>1, <4>1, <4>2 DEF RightOne, S
    <3>6. CASE (\A x : least # {x}) /\ RG!Only(least, RG!Conflict) = RG!Conflict
      <4>1. RG!Best(q) = {}
        <5> HIDE DEF Beaten
        <5> QED BY <1>1, <3>3, <3>6
      <4> QED BY <1>2, <1>6, <2>1, <3>1, <3>6, <4>1 DEF RightOne, S
    <3> QED BY <3>2, <3>5, <3>6, OnlyMeans
  <2>4. CASE Primary # {}
    <3>1. RG!selectPreferred(S) = RG!Only(Primary, RG!Conflict) BY <2>4 DEF RG!selectPreferred
    <3>2. IsFiniteSet(Primary) BY <1>3, FS_Subset
    <3>3. \A n \in S : Beaten(n) => Primary = {n} BY <1>4, <1>5, <2>4
    <3>4. \A n : Primary = {n} => n \in S /\ Beaten(n) BY <1>4, <1>5
    <3> HIDE DEF Primary, Beaten
    <3>5. CASE \E x \in Primary : Primary = {x} /\ RG!Only(Primary, RG!Conflict) = x
      <4>1. PICK x \in Primary : Primary = {x} /\ RG!Only(Primary, RG!Conflict) = x BY <3>5
      <4>2. RG!Best(q) = {x} BY <1>1, <3>3, <3>4, <4>1
      <4> QED BY <2>1, <3>1, <4>1, <4>2 DEF RightOne, S
    <3>6. CASE (\A x : Primary # {x}) /\ RG!Only(Primary, RG!Conflict) = RG!Conflict
      <4>1. RG!Best(q) = {} BY <1>1, <3>3, <3>6
      <4> QED BY <1>2, <1>6, <2>1, <3>1, <3>6, <4>1 DEF RightOne, S
    <3> QED BY <3>2, <3>5, <3>6, OnlyMeans
  <2> QED BY <2>3, <2>4
<1> QED BY <1>8, <1>9, <1>10

\* A lookup of all finds each, the singletons as they started and then the
\* rest by name.
Built(b) == b # RG!Unbuilt /\ Known(b.definitions) /\ b.order \in RG!StartupOrders(b.definitions)

\* A startup order lists the singletons.
LEMMA OrderIsListed ==
  ASSUME RG!RegistrationAssumption, NEW b, Built(b)
  PROVE  /\ Listing(b.order, {n \in DOMAIN b.definitions : ~b.definitions[n].prototype})
         /\ IsFiniteSet({n \in DOMAIN b.definitions : ~b.definitions[n].prototype})
<1> DEFINE S == {n \in DOMAIN b.definitions : ~b.definitions[n].prototype}
           s == b.order
           k == Cardinality(S)
<1>1. IsFiniteSet(S) /\ k \in Nat BY NamesRanked, FS_Subset, FS_CardinalityType DEF Built, Known
<1>2. RG!Cardinality(S) = k BY DEF RG!Cardinality, Cardinality
<1>3. s \in [1 .. k -> S] /\ RG!IsInjective(s)
  BY <1>2 DEF Built, RG!StartupOrders
<1> HIDE DEF S, s
<1>4. \A i, j \in 1 .. k : s[i] = s[j] => i = j BY <1>3 DEF RG!IsInjective
<1>5. s \in Seq(S) /\ DOMAIN s = 1 .. k /\ Len(s) = k BY <1>1, <1>3
<1>6. \A x : x \in S <=> \E i \in 1 .. k : s[i] = x
  <2>1. s \in Injection(1 .. k, S) BY <1>3, <1>4 DEF Injection, IsInjective
  <2>2. IsFiniteSet(1 .. k) /\ Cardinality(1 .. k) = k BY <1>1, FS_Interval
  <2>3. s \in Surjection(1 .. k, S) BY <1>1, <2>1, <2>2, FS_Injection
  <2> QED BY <2>3 DEF Surjection
<1>7. Listing(s, S) BY <1>1, <1>4, <1>5, <1>6 DEF Listing
<1> QED BY <1>1, <1>7 DEF S, s

\* Two lists of different things, one after the other.
LEMMA ListedInTurn ==
  ASSUME NEW S, NEW T, S \cap T = {}, NEW s, Listing(s, S), NEW t, Listing(t, T)
  PROVE  /\ Listing(s \o t, S \cup T)
         /\ \A i \in DOMAIN s : (s \o t)[i] = s[i]
         /\ \A i \in DOMAIN t : (s \o t)[Len(s) + i] = t[i]
         /\ DOMAIN (s \o t) = 1 .. (Len(s) + Len(t))
<1> DEFINE c == s \o t
           m == Len(s)
           n == Len(t)
<1>1. /\ s \in Seq(S \cup T) /\ t \in Seq(S \cup T) /\ m \in Nat /\ n \in Nat
      /\ DOMAIN s = 1 .. m /\ DOMAIN t = 1 .. n
  BY DEF Listing
<1>2. /\ c \in Seq(S \cup T) /\ Len(c) = m + n
      /\ \A i \in 1 .. m : c[i] = s[i]
      /\ \A i \in 1 .. n : c[m + i] = t[i]
  <2>1. \A i \in 1 .. n : m + i \in 1 .. (m + n) /\ ~(m + i <= m) /\ (m + i) - m = i BY <1>1
  <2>2. \A i \in 1 .. m : i \in 1 .. (m + n) BY <1>1
  <2> QED BY <1>1, <2>1, <2>2, ConcatProperties
<1>3. DOMAIN c = 1 .. (m + n) BY <1>1, <1>2, LenProperties
<1>4. \A i \in 1 .. m : c[i] \in S /\ c[i] = s[i]
  BY <1>1, <1>2 DEF Listing
<1>5. \A i \in 1 .. (m + n) : i \in 1 .. m \/ (i - m \in 1 .. n /\ c[i] = t[i - m] /\ c[i] \in T)
  <2> SUFFICES ASSUME NEW i \in 1 .. (m + n), i \notin 1 .. m
               PROVE  i - m \in 1 .. n /\ c[i] = t[i - m] /\ c[i] \in T
    OBVIOUS
  <2> HIDE DEF c, m, n
  <2>1. i - m \in 1 .. n /\ m + (i - m) = i BY <1>1
  <2>2. c[m + (i - m)] = t[i - m] BY <1>2, <2>1
  <2>3. t[i - m] \in T BY <1>1, <2>1 DEF Listing
  <2> QED BY <2>1, <2>2, <2>3
<1>6. ASSUME NEW i \in 1 .. (m + n), NEW j \in 1 .. (m + n), c[i] = c[j] PROVE i = j
  <2>1. CASE i \in 1 .. m /\ j \in 1 .. m BY <1>1, <1>4, <1>6, <2>1 DEF Listing
  <2>2. CASE i \notin 1 .. m /\ j \notin 1 .. m
    <3>1. i - m = j - m BY <1>1, <1>5, <1>6, <2>2 DEF Listing
    <3> HIDE DEF m, n, c
    <3> QED BY <1>1, <3>1
  <2>3. CASE (i \in 1 .. m) # (j \in 1 .. m) BY <1>4, <1>5, <1>6, <2>3
  <2> QED BY <2>1, <2>2, <2>3
<1>7. \A x : x \in S \cup T <=> \E i \in 1 .. (m + n) : c[i] = x
  <2>1. ASSUME NEW x \in S PROVE \E i \in 1 .. (m + n) : c[i] = x
    <3>1. PICK i \in 1 .. m : s[i] = x BY <1>1 DEF Listing
    <3> HIDE DEF c, m, n
    <3>2. i \in 1 .. (m + n) BY <1>1
    <3> QED BY <1>2, <3>1, <3>2
  <2>2. ASSUME NEW x \in T PROVE \E i \in 1 .. (m + n) : c[i] = x
    <3>1. PICK i \in 1 .. n : t[i] = x BY <1>1 DEF Listing
    <3> HIDE DEF c, m, n
    <3>2. m + i \in 1 .. (m + n) BY <1>1
    <3> QED BY <1>2, <3>1, <3>2
  <2> QED BY <1>4, <1>5, <2>1, <2>2
<1>8. Listing(c, S \cup T)
  <2> HIDE DEF c, m, n
  <2>1. Len(c) \in Nat BY <1>1, <1>2
  <2> QED BY <1>2, <1>3, <1>6, <1>7, <2>1 DEF Listing
<1> QED BY <1>1, <1>2, <1>3, <1>8

\* A lookup of all of a type finds each once, in the order they started.
LEMMA AllIsRight ==
  ASSUME RG!RegistrationAssumption, Built(runtime), NEW q
  PROVE  RightAll(q, RG!matchingNamesInStartupOrder(RG!matchingNames(runtime.definitions, q.type)))
<1> DEFINE defs == runtime.definitions
           S == Matching(defs, q.type)
           Singles == {n \in DOMAIN defs : ~defs[n].prototype}
           order_ == runtime.order
           names == RG!matchingNames(defs, q.type)
           a == RG!Kept(order_, S)
           b == RG!Kept(names, S \ Singles)
           answer_ == a \o b
<1>1. /\ Listing(names, S) /\ IsFiniteSet(S)
      /\ \A i, j \in DOMAIN names : i < j => Rank[names[i]] < Rank[names[j]]
  BY MatchingIsListed DEF Built
<1>2. Listing(order_, Singles) /\ IsFiniteSet(Singles) BY OrderIsListed
<1>3. S \subseteq DOMAIN defs /\ DOMAIN defs \subseteq Names BY DEF Matching, Built, Known
<1> HIDE DEF S, Singles, order_, names
<1>4. RG!ToSet(names) = S /\ RG!ToSet(order_) = Singles BY <1>1, <1>2 DEF RG!ToSet, Listing
<1>5. RG!matchingNamesInStartupOrder(names) = answer_
  BY <1>4 DEF RG!matchingNamesInStartupOrder, order_
<1>6. /\ Listing(a, Singles \cap S)
      /\ \A i, j \in DOMAIN a : i < j => RG!At(order_, a[i]) < RG!At(order_, a[j])
  BY <1>2, KeptIsListed
<1>7. /\ Listing(b, S \cap (S \ Singles))
      /\ \A i, j \in DOMAIN b : i < j => RG!At(names, b[i]) < RG!At(names, b[j])
  BY <1>1, KeptIsListed
<1> HIDE DEF a, b
<1>8. /\ Listing(answer_, S)
      /\ \A i \in DOMAIN a : answer_[i] = a[i]
      /\ \A i \in DOMAIN b : answer_[Len(a) + i] = b[i]
      /\ DOMAIN answer_ = 1 .. (Len(a) + Len(b))
  <2> DEFINE A == Singles \cap S
             B == S \cap (S \ Singles)
  <2>1. A \cap B = {} /\ A \cup B = S OBVIOUS
  <2>2. Listing(a, A) /\ Listing(b, B) BY <1>6, <1>7
  <2> HIDE DEF answer_, A, B
  <2>3. Listing(a \o b, A \cup B) BY <2>1, <2>2, ListedInTurn
  <2>4. \A i \in DOMAIN a : (a \o b)[i] = a[i] BY <2>1, <2>2, ListedInTurn
  <2>5. \A i \in DOMAIN b : (a \o b)[Len(a) + i] = b[i] BY ONLY <2>1, <2>2, ListedInTurn
  <2>6. DOMAIN (a \o b) = 1 .. (Len(a) + Len(b)) BY <2>1, <2>2, ListedInTurn
  <2> QED BY <2>1, <2>3, <2>4, <2>5, <2>6 DEF answer_
<1> HIDE DEF answer_
<1>9. /\ DOMAIN a = 1 .. Len(a) /\ Len(a) \in Nat /\ DOMAIN b = 1 .. Len(b) /\ Len(b) \in Nat
      /\ \A i \in DOMAIN a : a[i] \in Singles /\ a[i] \in S
      /\ \A i \in DOMAIN b : b[i] \notin Singles /\ b[i] \in S
  BY <1>6, <1>7 DEF Listing
<1>10. \A x \in Singles : Started(x) = RG!At(order_, x) /\ RG!At(order_, x) \in 1 .. Len(order_)
  <2>1. \A x \in Singles : RG!At(order_, x) \in DOMAIN order_ BY <1>2, AtPlace
  <2>2. DOMAIN order_ = 1 .. Len(order_) BY <1>2 DEF Listing
  <2> QED BY <1>4, <2>1, <2>2 DEF Started, order_
<1>11. \A x \in S \ Singles : Started(x) = Len(order_) + Rank[x] /\ Rank[x] \in Nat \ {0}
  BY <1>3, <1>4, NamesRanked DEF Started, order_
<1>12. Len(order_) \in Nat BY <1>2 DEF Listing
<1>13. \A i, j \in DOMAIN b : i < j => Rank[b[i]] < Rank[b[j]]
  <2> SUFFICES ASSUME NEW i \in DOMAIN b, NEW j \in DOMAIN b, i < j PROVE Rank[b[i]] < Rank[b[j]] OBVIOUS
  <2>1. b[i] \in S /\ b[j] \in S BY <1>9
  <2>2. /\ RG!At(names, b[i]) \in DOMAIN names /\ names[RG!At(names, b[i])] = b[i]
        /\ RG!At(names, b[j]) \in DOMAIN names /\ names[RG!At(names, b[j])] = b[j]
    BY <1>1, <2>1, AtPlace
  <2>3. RG!At(names, b[i]) < RG!At(names, b[j]) BY <1>7
  <2> QED BY <1>1, <2>2, <2>3
<1>14. ASSUME NEW i \in DOMAIN answer_, NEW j \in DOMAIN answer_, i < j
       PROVE  Started(answer_[i]) < Started(answer_[j])
  <2>1. \A k \in DOMAIN answer_ : k \in DOMAIN a \/ (k - Len(a) \in DOMAIN b /\ answer_[k] = b[k - Len(a)])
    <3> SUFFICES ASSUME NEW k \in 1 .. (Len(a) + Len(b)), k \notin 1 .. Len(a)
                 PROVE  k - Len(a) \in 1 .. Len(b) /\ answer_[k] = b[k - Len(a)]
      BY <1>8, <1>9
    <3>1. k - Len(a) \in 1 .. Len(b) /\ Len(a) + (k - Len(a)) = k BY <1>9
    <3>2. answer_[Len(a) + (k - Len(a))] = b[k - Len(a)] BY <1>8, <1>9, <3>1
    <3> QED BY <3>1, <3>2
  <2>2. i \in Int /\ j \in Int BY <1>8, <1>9
  <2>3. CASE i \in DOMAIN a /\ j \in DOMAIN a
    <3>1. answer_[i] = a[i] /\ answer_[j] = a[j] BY <1>8, <2>3
    <3>2. RG!At(order_, a[i]) < RG!At(order_, a[j]) BY <1>6, <1>14, <2>3
    <3> QED BY <1>9, <1>10, <2>3, <3>1, <3>2
  <2>4. CASE i \in DOMAIN a /\ j \notin DOMAIN a
    <3>1. answer_[i] = a[i] /\ a[i] \in Singles BY <1>8, <1>9, <2>4
    <3>2. answer_[j] \in S \ Singles BY <1>9, <2>1, <2>4
    <3>3. Started(answer_[i]) \in 1 .. Len(order_) BY <1>10, <3>1
    <3>4. Started(answer_[j]) = Len(order_) + Rank[answer_[j]] /\ Rank[answer_[j]] \in Nat \ {0} BY <1>11, <3>2
    <3> QED BY ONLY <1>12, <3>3, <3>4
  <2>5. CASE i \notin DOMAIN a /\ j \in DOMAIN a
    <3> QED BY <1>8, <1>9, <1>14, <2>2, <2>5
  <2>6. CASE i \notin DOMAIN a /\ j \notin DOMAIN a
    <3>1. /\ i - Len(a) \in DOMAIN b /\ answer_[i] = b[i - Len(a)]
          /\ j - Len(a) \in DOMAIN b /\ answer_[j] = b[j - Len(a)]
      BY <2>1, <2>6
    <3>2. i - Len(a) < j - Len(a) BY <1>9, <1>14, <2>2
    <3>3. Rank[answer_[i]] < Rank[answer_[j]] BY <1>13, <3>1, <3>2
    <3>4. answer_[i] \in S \ Singles /\ answer_[j] \in S \ Singles BY <1>9, <3>1
    <3> QED BY <1>11, <1>12, <3>3, <3>4
  <2> QED BY <2>3, <2>4, <2>5, <2>6
<1>15. RG!ToSet(answer_) = S BY <1>8 DEF RG!ToSet, Listing
<1>16. RG!IsInjective(answer_) BY <1>8 DEF RG!IsInjective, Listing
<1> QED BY <1>5, <1>14, <1>15, <1>16 DEF RightAll, S, names

-----------------------------------------------------------------------------
\* Registration.  What a definition needs without saying how is required.
LEMMA Required ==
  \A n \in STRING : /\ [name |-> n, kind |-> "factory", optional |-> FALSE] \in RG!Descriptor
                    /\ [name |-> n, kind |-> "depends-on", optional |-> FALSE] \in RG!Descriptor
BY DEF RG!Descriptor, RG!Kinds

\* A definition keeps its name when the ways it names what it needs are brought
\* together,
LEMMA NormalizedIs ==
  ASSUME NEW d \in RG!Definition
  PROVE  /\ RG!normalized(d) \in RG!Definition
         /\ RG!normalized(d).name = d.name
<1> DEFINE manual == {[name |-> n, kind |-> "depends-on", optional |-> FALSE] : n \in d.dependsOn}
           known == RG!appendDependencyDescriptor(d.descriptors \cup manual)
           inferred == {[name |-> n, kind |-> "factory", optional |-> FALSE] : n \in d.dependencies \ RG!NamesOf(known)}
           depends == {e.name : e \in {e \in known : e.kind = "depends-on"}}
           needed == RG!NamesOf(known \cup inferred)
<1>1. RG!normalized(d) = [d EXCEPT !.descriptors = known \cup inferred, !.dependsOn = depends, !.dependencies = needed]
  BY Zenon DEF RG!normalized
<1>2. d.descriptors \subseteq RG!Descriptor /\ d.dependsOn \subseteq STRING /\ d.dependencies \subseteq STRING
  BY DEF RG!Definition
<1>3. manual \subseteq RG!Descriptor BY <1>2, Required
<1> HIDE DEF manual
<1>4. known \subseteq RG!Descriptor
  <2> DEFINE all == d.descriptors \cup manual
  <2>1. all \subseteq RG!Descriptor BY <1>2, <1>3
  <2> HIDE DEF all
  <2>2. known = {[e EXCEPT !.optional = \A f \in all : f.name = e.name /\ f.kind = e.kind => f.optional] : e \in all}
    BY Zenon DEF RG!appendDependencyDescriptor, all
  <2> HIDE DEF known
  <2>3. ASSUME NEW e \in all, NEW b \in BOOLEAN PROVE [e EXCEPT !.optional = b] \in RG!Descriptor
    BY <2>1 DEF RG!Descriptor
  <2>4. \A e \in all : (\A f \in all : f.name = e.name /\ f.kind = e.kind => f.optional) \in BOOLEAN OBVIOUS
  <2> QED BY <2>2, <2>3, <2>4
<1> HIDE DEF known
<1>5. inferred \subseteq RG!Descriptor BY <1>2, Required
<1> HIDE DEF inferred
<1>6. depends \subseteq STRING BY <1>4 DEF RG!Descriptor
<1>7. needed \subseteq STRING BY <1>4, <1>5 DEF RG!Descriptor, RG!NamesOf
<1> HIDE DEF depends, needed
<1>8. known \cup inferred \in SUBSET RG!Descriptor BY <1>4, <1>5
<1> QED BY <1>1, <1>6, <1>7, <1>8 DEF RG!Definition

\* and doing so again changes nothing.
LEMMA NormalizedTwice ==
  ASSUME NEW d \in RG!Definition, \A e \in d.descriptors : e.kind = "depends-on" => ~e.optional
  PROVE  RG!normalized(RG!normalized(d)) = RG!normalized(d)
<1> DEFINE manual == {[name |-> n, kind |-> "depends-on", optional |-> FALSE] : n \in d.dependsOn}
           all == d.descriptors \cup manual
           known == RG!appendDependencyDescriptor(all)
           inferred == {[name |-> n, kind |-> "factory", optional |-> FALSE] : n \in d.dependencies \ RG!NamesOf(known)}
           depends == {e.name : e \in {e \in known : e.kind = "depends-on"}}
           needed == RG!NamesOf(known \cup inferred)
           d2 == RG!normalized(d)
           both == known \cup inferred
           manual2 == {[name |-> n, kind |-> "depends-on", optional |-> FALSE] : n \in d2.dependsOn}
           known2 == RG!appendDependencyDescriptor(d2.descriptors \cup manual2)
           inferred2 == {[name |-> n, kind |-> "factory", optional |-> FALSE] : n \in d2.dependencies \ RG!NamesOf(known2)}
           depends2 == {e.name : e \in {e \in known2 : e.kind = "depends-on"}}
           needed2 == RG!NamesOf(known2 \cup inferred2)
<1>1. d2 = [d EXCEPT !.descriptors = both, !.dependsOn = depends, !.dependencies = needed]
  BY Zenon DEF RG!normalized
<1>2. RG!normalized(d2) = [d2 EXCEPT !.descriptors = known2 \cup inferred2, !.dependsOn = depends2, !.dependencies = needed2]
  BY Zenon DEF RG!normalized
<1>3. d2 \in RG!Definition BY NormalizedIs
<1>4. d2.descriptors = both /\ d2.dependsOn = depends /\ d2.dependencies = needed
  <2> HIDE DEF both, depends, needed, d2
  <2> QED BY <1>1 DEF RG!Definition
<1>5. d.descriptors \subseteq RG!Descriptor /\ d.dependsOn \subseteq STRING /\ d.dependencies \subseteq STRING
  BY DEF RG!Definition
<1>6. all \subseteq RG!Descriptor
  <2>1. manual \subseteq RG!Descriptor BY <1>5, Required
  <2> QED BY <1>5, <2>1
<1>7. known = {[e EXCEPT !.optional = \A f \in all : f.name = e.name /\ f.kind = e.kind => f.optional] : e \in all}
  BY Zenon DEF RG!appendDependencyDescriptor
<1>8. \A e \in all : e.kind = "depends-on" => e.optional = FALSE
  <2>1. \A e \in manual : e.optional = FALSE OBVIOUS
  <2>2. \A e \in d.descriptors : e.optional \in BOOLEAN BY <1>5 DEF RG!Descriptor
  <2> QED BY <2>1, <2>2
<1> HIDE DEF all, d2
\* Of one name and kind there is one, and what is depended on is not optional.
<1>9. \A e \in known : e \in RG!Descriptor /\ (e.kind = "depends-on" => e.optional = FALSE)
  <2> SUFFICES ASSUME NEW f \in all, NEW e, e = [f EXCEPT !.optional = \A g \in all : g.name = f.name /\ g.kind = f.kind => g.optional]
               PROVE  e \in RG!Descriptor /\ (e.kind = "depends-on" => e.optional = FALSE)
    BY <1>7
  <2> DEFINE b == \A g \in all : g.name = f.name /\ g.kind = f.kind => g.optional
  <2>1. b \in BOOLEAN OBVIOUS
  <2>2. f.kind = "depends-on" => ~b BY <1>8
  <2> HIDE DEF b
  <2>3. e = [f EXCEPT !.optional = b] BY DEF b
  <2>4. f \in RG!Descriptor BY <1>6
  <2>5. e.kind = f.kind /\ e.optional = b /\ e \in RG!Descriptor BY <2>1, <2>3, <2>4 DEF RG!Descriptor
  <2> QED BY <2>1, <2>2, <2>5
<1>10. \A e, f \in known : e.name = f.name /\ e.kind = f.kind => e = f
  <2> SUFFICES ASSUME NEW e0 \in all, NEW f0 \in all,
                      NEW e, e = [e0 EXCEPT !.optional = \A g \in all : g.name = e0.name /\ g.kind = e0.kind => g.optional],
                      NEW f, f = [f0 EXCEPT !.optional = \A g \in all : g.name = f0.name /\ g.kind = f0.kind => g.optional],
                      e.name = f.name, e.kind = f.kind
               PROVE  e = f
    BY <1>7
  <2> DEFINE b(x) == \A g \in all : g.name = x.name /\ g.kind = x.kind => g.optional
  <2>1. e = [e0 EXCEPT !.optional = b(e0)] /\ f = [f0 EXCEPT !.optional = b(f0)] OBVIOUS
  <2>2. e0 \in RG!Descriptor /\ f0 \in RG!Descriptor BY <1>6
  <2>3. e0.name = f0.name /\ e0.kind = f0.kind
    <3> HIDE DEF b
    <3> QED BY <2>1, <2>2 DEF RG!Descriptor
  <2>4. b(e0) = b(f0) BY <2>3
  <2> HIDE DEF b
  <2> QED BY <2>1, <2>2, <2>3, <2>4 DEF RG!Descriptor
<1> HIDE DEF known
<1>11. \A e \in inferred : /\ e.kind = "factory" /\ e.optional = FALSE /\ e.name \notin RG!NamesOf(known)
                           /\ e \in RG!Descriptor
  <2>1. inferred \subseteq RG!Descriptor BY <1>5, Required
  <2>2. \A e \in inferred : e.kind = "factory" /\ e.optional = FALSE /\ e.name \notin RG!NamesOf(known) OBVIOUS
  <2> QED BY <2>1, <2>2
<1>12. \A e, f \in both : e.name = f.name /\ e.kind = f.kind => e = f
  <2>1. \A e, f \in inferred : e.name = f.name => e = f
    <3>1. \A e \in inferred : e = [name |-> e.name, kind |-> "factory", optional |-> FALSE] OBVIOUS
    <3> HIDE DEF inferred
    <3> QED BY <3>1
  <2>2. \A e \in known : e.name \in RG!NamesOf(known) BY DEF RG!NamesOf
  <2> HIDE DEF inferred
  <2> QED BY <1>10, <1>11, <2>1, <2>2
<1> HIDE DEF inferred
<1>13. both \subseteq RG!Descriptor BY <1>9, <1>11
\* So nothing is added the second time,
<1>14. manual2 \subseteq known
  <2> SUFFICES ASSUME NEW e \in known, e.kind = "depends-on"
               PROVE  [name |-> e.name, kind |-> "depends-on", optional |-> FALSE] \in known
    BY <1>4
  <2>1. e \in RG!Descriptor /\ e.optional = FALSE BY <1>9
  <2>2. e = [name |-> e.name, kind |-> "depends-on", optional |-> FALSE] BY <2>1 DEF RG!Descriptor
  <2> QED BY <2>2
<1>15. d2.descriptors \cup manual2 = both BY <1>4, <1>14
<1> HIDE DEF both
<1>16. known2 = both
  <2>1. known2 = {[e EXCEPT !.optional = \A f \in both : f.name = e.name /\ f.kind = e.kind => f.optional] : e \in both}
    BY <1>15, Zenon DEF RG!appendDependencyDescriptor
  <2>2. ASSUME NEW e \in both
        PROVE  [e EXCEPT !.optional = \A f \in both : f.name = e.name /\ f.kind = e.kind => f.optional] = e
    <3> DEFINE b == \A f \in both : f.name = e.name /\ f.kind = e.kind => f.optional
    <3>1. b = e.optional
      <4>1. e.optional \in BOOLEAN BY <1>13 DEF RG!Descriptor
      <4>2. b <=> e.optional BY <1>12
      <4> QED BY <4>1, <4>2
    <3> HIDE DEF b
    <3>2. [e EXCEPT !.optional = b] = e BY <1>13, <3>1 DEF RG!Descriptor
    <3> QED BY <3>2 DEF b
  <2> DEFINE merged(e) == [e EXCEPT !.optional = \A f \in both : f.name = e.name /\ f.kind = e.kind => f.optional]
  <2>3. known2 = {merged(e) : e \in both} BY <2>1
  <2>4. \A e \in both : merged(e) = e BY <2>2
  <2> HIDE DEF known2, merged
  <2> QED BY <2>3, <2>4
<1> HIDE DEF known2
<1>17. inferred2 = {} BY <1>4, <1>16 DEF RG!NamesOf, both
<1> HIDE DEF inferred2
\* and what is depended on and needed is what it was.
<1>18. needed2 = needed BY <1>16, <1>17 DEF both
<1>19. depends2 = depends
  <2>1. \A e \in both : e.kind = "depends-on" <=> e \in known /\ e.kind = "depends-on" BY <1>11 DEF both
  <2> QED BY <1>16, <2>1 DEF both
<1> HIDE DEF depends2, needed2
<1>20. RG!normalized(d2) = [d2 EXCEPT !.descriptors = d2.descriptors, !.dependsOn = d2.dependsOn, !.dependencies = d2.dependencies]
  BY <1>2, <1>4, <1>16, <1>17, <1>18, <1>19
<1>21. [d2 EXCEPT !.descriptors = d2.descriptors, !.dependsOn = d2.dependsOn, !.dependencies = d2.dependencies] = d2
  BY <1>3 DEF RG!Definition
<1> QED BY <1>20, <1>21 DEF d2

\* Registering further definitions keeps those that were there.
LEMMA WithIs ==
  ASSUME RG!RegistrationAssumption, NEW definitions, NEW added \in SUBSET Definitions
  PROVE  /\ DOMAIN RG!With(definitions, added) = DOMAIN definitions \cup {d.name : d \in added}
         /\ \A n \in DOMAIN definitions : RG!With(definitions, added)[n] = definitions[n]
         /\ \A n \in {d.name : d \in added} \ DOMAIN definitions :
              \E d \in added : d.name = n /\ RG!With(definitions, added)[n] = RG!normalized(d)
         /\ Known(definitions) => Known(RG!With(definitions, added))
<1> DEFINE w == RG!With(definitions, added)
           named == {d.name : d \in added}
<1>1. w = [n \in DOMAIN definitions \cup named |->
             IF n \in DOMAIN definitions THEN definitions[n] ELSE RG!normalized(CHOOSE d \in added : d.name = n)]
  BY DEF RG!With
<1>2. \A n \in named : \E d \in added : d.name = n OBVIOUS
<1>3. named \subseteq Names BY DEF Names
<1> HIDE DEF w, named
<1>4. DOMAIN w = DOMAIN definitions \cup named BY <1>1
<1>5. \A n \in DOMAIN definitions : w[n] = definitions[n] BY <1>1
<1>6. ASSUME NEW n \in named \ DOMAIN definitions PROVE \E d \in added : d.name = n /\ w[n] = RG!normalized(d)
  <2> DEFINE d == CHOOSE d \in added : d.name = n
  <2>1. d \in added /\ d.name = n BY <1>2
  <2>2. w[n] = RG!normalized(d) BY <1>1
  <2> HIDE DEF d
  <2> QED BY <2>1, <2>2
<1>7. ASSUME Known(definitions) PROVE Known(w)
  <2>1. ASSUME NEW n \in DOMAIN w PROVE w[n] \in RG!Definition
    <3>1. CASE n \in DOMAIN definitions BY <1>5, <1>7, <3>1 DEF Known
    <3>2. CASE n \notin DOMAIN definitions
      <4>1. PICK d \in added : w[n] = RG!normalized(d) BY <1>4, <1>6, <3>2
      <4>2. d \in RG!Definition BY DEF RG!RegistrationAssumption
      <4> QED BY <4>1, <4>2, NormalizedIs
    <3> QED BY <3>1, <3>2
  <2> QED BY <1>3, <1>4, <1>7, <2>1 DEF Known
<1> QED BY <1>4, <1>5, <1>6, <1>7 DEF w, named

\* A copy of a registry knows what the registry knew.
LEMMA CopyIsKnown ==
  ASSUME NEW definitions, Known(definitions)
  PROVE  Known([n \in DOMAIN definitions |-> RG!normalized(definitions[n])])
BY NormalizedIs DEF Known

\* Any two configurations of different names have an order.
LEMMA ConfigurationsOrdered ==
  ASSUME RG!RegistrationAssumption, NEW a \in Configurations, NEW b \in Configurations, NEW c \in Configurations
  PROVE  /\ ~ RG!lessConfiguration(a, a)
         /\ RG!lessConfiguration(a, b) /\ RG!lessConfiguration(b, c) => RG!lessConfiguration(a, c)
         /\ a.name # b.name => RG!lessConfiguration(a, b) \/ RG!lessConfiguration(b, a)
<1>1. \A x \in {a, b, c} : x.priority \in BOOLEAN /\ x.order \in Int /\ Rank[x.name] \in Int
  <2>1. RG!Ranked(Configurations) BY DEF RG!RegistrationAssumption
  <2> QED BY <2>1 DEF RG!RegistrationAssumption, RG!Ranked
<1>2. Rank[a.name] = Rank[b.name] => a.name = b.name BY DEF RG!RegistrationAssumption, RG!Ranked
<1> QED BY <1>1, <1>2 DEF RG!lessConfiguration

\* Configurations of different names can be sorted.
NamedApart(cs) == \A c, d \in cs : c.name = d.name => c = d
LEMMA ConfigurationsSorted ==
  ASSUME RG!RegistrationAssumption, NEW cs \in SUBSET Configurations, NamedApart(cs)
  PROVE  Listing(RG!sortConfigurations(cs), cs)
<1> DEFINE s == RG!sortConfigurations(cs)
           B == {p \in cs \X cs : RG!lessConfiguration(p[1], p[2])}
<1>1. IsFiniteSet(cs)
  <2>1. IsFiniteSet(Configurations) BY DEF RG!RegistrationAssumption, RG!IsFiniteSet, IsFiniteSet
  <2> QED BY <2>1, FS_Subset
<1>2. RG!Cardinality(cs) = Cardinality(cs) BY DEF RG!Cardinality, Cardinality
<1>3. s = CHOOSE s_1 \in [1 .. Cardinality(cs) -> cs] : \A i, j \in DOMAIN s_1 : i < j => RG!lessConfiguration(s_1[i], s_1[j])
  BY <1>2, Zenon DEF RG!sortConfigurations
<1> HIDE DEF s
<1>4. Decides(B, cs)
  <2>1. \A x \in cs : <<x, x>> \notin B BY ConfigurationsOrdered
  <2>2. \A x, y, z \in cs : <<x, y>> \in B /\ <<y, z>> \in B => <<x, z>> \in B BY ConfigurationsOrdered
  <2>3. \A x, y \in cs : x # y => <<x, y>> \in B \/ <<y, x>> \in B BY ConfigurationsOrdered DEF NamedApart
  <2> QED BY <2>1, <2>2, <2>3 DEF Decides
<1>5. \A t \in [1 .. Cardinality(cs) -> cs] :
        (\A i, j \in DOMAIN t : i < j => RG!lessConfiguration(t[i], t[j])) <=> (\A i, j \in DOMAIN t : i < j => <<t[i], t[j]>> \in B)
  OBVIOUS
<1> HIDE DEF B
<1>6. s \in [1 .. Cardinality(cs) -> cs] /\ \A i, j \in DOMAIN s : i < j => RG!lessConfiguration(s[i], s[j])
  <2>1. \E t : Sorts(t, cs, B) BY <1>1, <1>4, SortingExists
  <2>2. \E t \in [1 .. Cardinality(cs) -> cs] : \A i, j \in DOMAIN t : i < j => RG!lessConfiguration(t[i], t[j])
    BY <2>1, <1>5 DEF Sorts
  <2> QED BY <1>3, <2>2, Zenon
<1>7. Listing(s, cs)
  <2>1. Sorts(s, cs, B) BY <1>5, <1>6 DEF Sorts
  <2> QED BY <1>1, <1>4, <2>1, SortingLists
<1> QED BY <1>7 DEF s

\* The first of a list is gone from its rest.
LEMMA HeadIsGone ==
  ASSUME NEW s, NEW S, Listing(s, S), s # <<>>
  PROVE  Head(s) \in S /\ Listing(Tail(s), S \ {Head(s)})
<1> DEFINE t == Tail(s)
           n == Len(s)
<1>1. s \in Seq(S) /\ DOMAIN s = 1 .. n /\ n \in Nat \ {0} BY EmptySeq, LenProperties DEF Listing
<1>2. Head(s) = s[1] /\ Head(s) \in S BY <1>1 DEF Listing
<1>3. t \in Seq(S) /\ Len(t) = n - 1 /\ DOMAIN t = 1 .. (n - 1) /\ \A i \in 1 .. (n - 1) : t[i] = s[i + 1]
  BY <1>1, HeadTailProperties
<1> HIDE DEF t, n
<1>4. \A i \in 1 .. (n - 1) : i + 1 \in 1 .. n /\ i + 1 # 1 BY <1>1
<1>5. \A i, j \in 1 .. n : s[i] = s[j] => i = j BY <1>1 DEF Listing
<1>6. ASSUME NEW i \in 1 .. (n - 1), NEW j \in 1 .. (n - 1), t[i] = t[j] PROVE i = j
  <2>1. i + 1 = j + 1 BY <1>3, <1>4, <1>5, <1>6
  <2> QED BY <2>1, <1>1
<1>7. ASSUME NEW x \in S \ {Head(s)} PROVE \E i \in 1 .. (n - 1) : t[i] = x
  <2>1. PICK k \in 1 .. n : s[k] = x BY <1>1 DEF Listing
  <2>2. k # 1 BY <1>2, <2>1
  <2>3. k - 1 \in 1 .. (n - 1) /\ (k - 1) + 1 = k BY <1>1, <2>2
  <2>4. t[k - 1] = s[(k - 1) + 1] BY <1>3, <2>3
  <2> QED BY <2>1, <2>3, <2>4
<1>8. ASSUME NEW i \in 1 .. (n - 1) PROVE t[i] \in S \ {Head(s)}
  <2>1. i + 1 \in 1 .. n /\ i + 1 # 1 /\ t[i] = s[i + 1] BY <1>3, <1>4
  <2>2. s[i + 1] \in S BY <1>1, <2>1 DEF Listing
  <2>3. 1 \in 1 .. n BY <1>1
  <2>4. s[i + 1] # s[1] BY <1>5, <2>1, <2>3
  <2> QED BY <1>2, <2>1, <2>2, <2>4
<1>9. t \in Seq(S \ {Head(s)}) /\ Len(t) \in Nat /\ DOMAIN t = 1 .. Len(t)
  <2>1. n - 1 \in Nat BY <1>1
  <2>2. t \in [1 .. (n - 1) -> S \ {Head(s)}]
    <3>1. t \in [1 .. (n - 1) -> S] BY <1>3, <2>1, LenProperties
    <3> QED BY <1>8, <3>1
  <2> QED BY <1>3, <2>1, <2>2, IsASeq
<1>10. \A x : x \in S \ {Head(s)} <=> \E i \in 1 .. (n - 1) : t[i] = x BY <1>7, <1>8
<1>11. Listing(t, S \ {Head(s)}) BY <1>3, <1>6, <1>9, <1>10 DEF Listing
<1> QED BY <1>2, <1>11 DEF t

\* What the variables hold.
AttemptOK ==
  /\ attempt.phase \in {"environment", "register", "initialize", "failed"}
  /\ {"phase", "registry", "err"} \subseteq DOMAIN attempt
  /\ RG!Applying => "todo" \in DOMAIN attempt /\ \E S \in SUBSET configurations : Listing(attempt.todo, S)
  /\ Known(attempt.registry)
  /\ attempt.phase = "initialize" => Built(attempt.built)
  /\ runtime = RG!Unbuilt
RegType ==
  /\ configurations \in SUBSET Configurations /\ NamedApart(configurations)
  /\ accepted \in SUBSET Definitions /\ late \in SUBSET Definitions
  /\ Known(registry)
  /\ attempt = RG!None \/ AttemptOK
  /\ runtime = RG!Unbuilt \/ Built(runtime)

LEMMA NoAttempt == RG!None.phase = "none"
BY DEF RG!None

\* While there is an attempt, its phase tells.
LEMMA Underway ==
  ASSUME RegType, attempt.phase # "none"
  PROVE  attempt # RG!None /\ AttemptOK
BY NoAttempt DEF RegType

\* What an attempt that fails becomes.
LEMMA FailKeeps ==
  ASSUME RegType, AttemptOK, NEW reason, RG!Fail(reason), UNCHANGED <<configurations, runtime>>
  PROVE  AttemptOK' /\ attempt'.phase = "failed" /\ attempt'.err = reason /\ attempt'.registry = attempt.registry
<1>1. attempt' = [attempt EXCEPT !.phase = "failed", !.err = reason] BY DEF RG!Fail
<1>2. {"phase", "registry", "err"} \subseteq DOMAIN attempt BY DEF AttemptOK
<1>3. /\ attempt'.phase = "failed" /\ attempt'.err = reason /\ attempt'.registry = attempt.registry
      /\ DOMAIN attempt' = DOMAIN attempt
  BY <1>1, <1>2
<1>4. ~ RG!Applying' BY <1>3 DEF RG!Applying
<1>5. Known(attempt'.registry) BY <1>3 DEF AttemptOK
<1>6. runtime' = RG!Unbuilt BY DEF AttemptOK
<1> QED BY <1>2, <1>3, <1>4, <1>5, <1>6 DEF AttemptOK

\* A configuration that is still to be applied is one that was registered.
LEMMA NextToApply ==
  ASSUME RG!RegistrationAssumption, RegType, AttemptOK, RG!Applying, attempt.todo # <<>>
  PROVE  /\ Head(attempt.todo) \in configurations
         /\ RG!ToSet(Head(attempt.todo).definitions) \in SUBSET Definitions
         /\ \A S : Listing(attempt.todo, S) =>
              Head(attempt.todo) \in S /\ Listing(Tail(attempt.todo), S \ {Head(attempt.todo)})
<1>1. PICK S \in SUBSET configurations : Listing(attempt.todo, S) BY DEF AttemptOK
<1>2. Head(attempt.todo) \in configurations BY <1>1, HeadIsGone
<1>3. Head(attempt.todo).definitions \in Seq(Definitions) BY <1>2 DEF RegType, RG!RegistrationAssumption
<1>4. RG!ToSet(Head(attempt.todo).definitions) \in SUBSET Definitions BY <1>3 DEF RG!ToSet
<1>5. \A T : Listing(attempt.todo, T) =>
        Head(attempt.todo) \in T /\ Listing(Tail(attempt.todo), T \ {Head(attempt.todo)})
  BY HeadIsGone
<1> QED BY <1>2, <1>4, <1>5

\* What a configuration registers when its condition admits it.
Own == IF RG!Holds(Head(attempt.todo)) THEN Head(attempt.todo).definitions ELSE <<>>

LEMMA RegisterIs ==
  ASSUME RG!Register
  PROVE  /\ attempt.phase = "register" /\ attempt.todo # <<>>
         /\ \/ RG!Clashes(Own) /\ RG!Fail("clash")
            \/ ~RG!Clashes(Own) /\ attempt' = [attempt EXCEPT !.registry = RG!With(@, RG!ToSet(Own)), !.todo = Tail(@)]
         /\ kept' \in {kept, "attempt"}
         /\ UNCHANGED <<RG!declared, environment, attempts, runtime, late, RG!lookups>>
BY Zenon DEF RG!Register, Own

LEMMA OwnIs ==
  ASSUME RG!RegistrationAssumption, RegType, AttemptOK, RG!Applying, attempt.todo # <<>>
  PROVE  RG!ToSet(Own) \in SUBSET Definitions
<1>1. RG!ToSet(<<>>) = {} BY EmptySeq DEF RG!ToSet
<1> QED BY <1>1, NextToApply DEF Own

\* Sorting the configurations lists them.
LEMMA ToApply ==
  ASSUME RG!RegistrationAssumption, RegType
  PROVE  Listing(RG!sortConfigurations(configurations), configurations)
BY ConfigurationsSorted DEF RegType

\* What container.New is given and what it makes.
LEMMA NewIs ==
  ASSUME RG!New
  PROVE  /\ attempt.phase = "register" /\ attempt.todo = <<>>
         /\ LET definitions == [n \in DOMAIN attempt.registry |-> RG!normalized(attempt.registry[n])]
            IN  \/ RG!Missing(definitions) /\ RG!Fail("missing")
                \/ /\ ~RG!Missing(definitions)
                   /\ \E o \in RG!StartupOrders(definitions) :
                        attempt' = [phase |-> "initialize", registry |-> attempt.registry, err |-> "none",
                                    built |-> [definitions |-> definitions, order |-> o]]
         /\ UNCHANGED <<RG!declared, environment, attempts, kept, runtime, late, RG!lookups>>
BY Zenon DEF RG!New

LEMMA TypeSteps ==
  ASSUME RG!RegistrationAssumption, RegType, RG!Next
  PROVE  RegType'
<1> DEFINE Same == UNCHANGED <<configurations, accepted, late, registry, runtime>>
<1>1. ASSUME NEW d \in Definitions, RG!RegisterDefinition(d) PROVE RegType'
  <2>1. Known(registry') /\ accepted' \in SUBSET Definitions
    <3>1. registry' = RG!With(registry, {d}) /\ accepted' = accepted \cup {d} BY <1>1 DEF RG!RegisterDefinition
    <3> QED BY <3>1, WithIs DEF RegType
  <2>2. UNCHANGED <<configurations, attempt, runtime, late>> BY <1>1 DEF RG!RegisterDefinition
  <2>3. attempt = RG!None BY <1>1 DEF RG!RegisterDefinition, RG!Refreshing
  <2> QED BY <2>1, <2>2, <2>3 DEF RegType, Built, RG!StartupOrders
<1>2. ASSUME NEW c \in Configurations, RG!RegisterConfiguration(c) PROVE RegType'
  <2>1. /\ configurations' = configurations \cup {c} /\ \A other \in configurations : other.name # c.name
        /\ UNCHANGED <<registry, accepted, attempt, runtime, late>> /\ attempt = RG!None
    BY <1>2 DEF RG!RegisterConfiguration, RG!Refreshing
  <2>2. configurations' \in SUBSET Configurations /\ NamedApart(configurations') BY <2>1 DEF RegType, NamedApart
  <2> QED BY <2>1, <2>2 DEF RegType, Built, RG!StartupOrders
<1>3. ASSUME RG!beginRefresh PROVE RegType'
  <2>1. /\ attempt' = [phase |-> "environment", registry |-> RG!cloneRegistry(registry),
                       todo |-> RG!sortConfigurations(configurations), err |-> "none"]
        /\ late' = {} /\ UNCHANGED <<configurations, registry, accepted, runtime>> /\ runtime = RG!Unbuilt
    BY <1>3 DEF RG!beginRefresh, RG!Refreshed, RG!declared
  <2>2. Known(RG!cloneRegistry(registry)) BY CopyIsKnown DEF RegType, RG!cloneRegistry
  <2>3. AttemptOK' BY <2>1, <2>2, ToApply DEF AttemptOK
  <2> QED BY <2>1, <2>3 DEF RegType
<1>4. ASSUME RG!ConfigureEnvironment PROVE RegType'
  <2>1. attempt.phase = "environment" /\ attempt.todo # <<>> /\ Same
    BY <1>4 DEF RG!ConfigureEnvironment, RG!declared
  <2>2. AttemptOK /\ RG!Applying BY <2>1, Underway DEF RG!Applying
  <2>3. CASE RG!Fail("source") BY <2>1, <2>2, <2>3, FailKeeps DEF RegType
  <2>4. CASE attempt' = [attempt EXCEPT !.todo = Tail(@)]
    <3>1. /\ attempt'.phase = "environment" /\ attempt'.registry = attempt.registry
          /\ attempt'.todo = Tail(attempt.todo) /\ DOMAIN attempt' = DOMAIN attempt
      BY <2>1, <2>2, <2>4 DEF AttemptOK
    <3>2. \E S \in SUBSET configurations : Listing(Tail(attempt.todo), S)
      <4>1. PICK S \in SUBSET configurations : Listing(attempt.todo, S) BY <2>2 DEF AttemptOK
      <4>2. Listing(Tail(attempt.todo), S \ {Head(attempt.todo)}) BY <2>1, <2>2, <4>1, NextToApply
      <4> QED BY <4>2
    <3>3. AttemptOK' BY <2>1, <2>2, <3>1, <3>2 DEF AttemptOK
    <3> QED BY <2>1, <3>3 DEF RegType
  <2>5. RG!Fail("source") \/ attempt' = [attempt EXCEPT !.todo = Tail(@)] BY <1>4 DEF RG!ConfigureEnvironment
  <2> QED BY <2>3, <2>4, <2>5
<1>5. ASSUME RG!EndOfEnvironment PROVE RegType'
  <2>1. /\ attempt.phase = "environment" /\ Same
        /\ attempt' = [attempt EXCEPT !.phase = "register", !.todo = RG!sortConfigurations(configurations)]
    BY <1>5 DEF RG!EndOfEnvironment, RG!declared
  <2>2. AttemptOK /\ RG!Applying BY <2>1, Underway DEF RG!Applying
  <2>3. /\ attempt'.phase = "register" /\ attempt'.registry = attempt.registry
        /\ attempt'.todo = RG!sortConfigurations(configurations) /\ DOMAIN attempt' = DOMAIN attempt
    BY <2>1, <2>2 DEF AttemptOK
  <2>4. AttemptOK' BY <2>1, <2>2, <2>3, ToApply DEF AttemptOK
  <2> QED BY <2>1, <2>4 DEF RegType
<1>6. ASSUME RG!Register PROVE RegType'
  <2>1. attempt.phase = "register" /\ attempt.todo # <<>> /\ Same BY <1>6, RegisterIs DEF RG!declared
  <2>2. AttemptOK /\ RG!Applying BY <2>1, Underway DEF RG!Applying
  <2>3. CASE RG!Fail("clash") BY <2>1, <2>2, <2>3, FailKeeps DEF RegType
  <2>4. CASE attempt' = [attempt EXCEPT !.registry = RG!With(@, RG!ToSet(Own)), !.todo = Tail(@)]
    <3>1. /\ attempt'.phase = "register" /\ attempt'.registry = RG!With(attempt.registry, RG!ToSet(Own))
          /\ attempt'.todo = Tail(attempt.todo) /\ DOMAIN attempt' = DOMAIN attempt
      BY <2>1, <2>2, <2>4 DEF AttemptOK
    <3>2. \E S \in SUBSET configurations : Listing(Tail(attempt.todo), S)
      <4>1. PICK S \in SUBSET configurations : Listing(attempt.todo, S) BY <2>2 DEF AttemptOK
      <4>2. Listing(Tail(attempt.todo), S \ {Head(attempt.todo)}) BY <2>1, <2>2, <4>1, NextToApply
      <4> QED BY <4>2
    <3>3. Known(attempt'.registry)
      <4>1. RG!ToSet(Own) \in SUBSET Definitions BY <2>1, <2>2, OwnIs
      <4>2. Known(attempt.registry) BY <2>2 DEF AttemptOK
      <4>3. Known(RG!With(attempt.registry, RG!ToSet(Own))) BY <4>1, <4>2, WithIs
      <4> QED BY <3>1, <4>3
    <3>4. AttemptOK' BY <2>1, <2>2, <3>1, <3>2, <3>3 DEF AttemptOK
    <3> QED BY <2>1, <3>4 DEF RegType
  <2>5. RG!Fail("clash") \/ attempt' = [attempt EXCEPT !.registry = RG!With(@, RG!ToSet(Own)), !.todo = Tail(@)]
    BY <1>6, RegisterIs
  <2> QED BY <2>3, <2>4, <2>5
<1>7. ASSUME RG!Fault PROVE RegType'
  <2>1. attempt.phase \in {"environment", "register", "initialize"} /\ Same /\ RG!Fail("fault")
    BY <1>7 DEF RG!Fault, RG!declared, RG!Applying
  <2>2. AttemptOK BY <2>1, Underway
  <2> QED BY <2>1, <2>2, FailKeeps DEF RegType
<1>8. ASSUME RG!New PROVE RegType'
  <2> DEFINE definitions == [n \in DOMAIN attempt.registry |-> RG!normalized(attempt.registry[n])]
  <2>1. attempt.phase = "register" /\ Same BY <1>8, NewIs DEF RG!declared
  <2>2. AttemptOK BY <2>1, Underway
  <2>3. CASE RG!Fail("missing") BY <2>1, <2>2, <2>3, FailKeeps DEF RegType
  <2>4. CASE \E o \in RG!StartupOrders(definitions) :
               attempt' = [phase |-> "initialize", registry |-> attempt.registry, err |-> "none",
                           built |-> [definitions |-> definitions, order |-> o]]
    <3>1. PICK o \in RG!StartupOrders(definitions) :
            attempt' = [phase |-> "initialize", registry |-> attempt.registry, err |-> "none",
                        built |-> [definitions |-> definitions, order |-> o]]
      BY <2>4
    <3>2. Known(attempt.registry) /\ Known(definitions) BY <2>2, CopyIsKnown DEF AttemptOK
    <3> DEFINE b == [definitions |-> definitions, order |-> o]
    <3> HIDE DEF definitions
    <3>3. b.definitions = definitions /\ b.order = o /\ b # RG!Unbuilt
      <4>1. "order" \in DOMAIN b /\ "order" \notin DOMAIN RG!Unbuilt BY DEF RG!Unbuilt, RG!None
      <4> QED BY <4>1
    <3>4. attempt'.phase = "initialize" /\ attempt'.registry = attempt.registry /\ attempt'.built = b
          /\ {"phase", "registry", "err"} \subseteq DOMAIN attempt'
      BY <3>1
    <3> HIDE DEF b
    <3>5. Built(attempt'.built) BY <3>2, <3>3, <3>4 DEF Built
    <3>6. Built(attempt.built)' BY <3>5 DEF Built, RG!StartupOrders
    <3>7. AttemptOK' BY <2>1, <2>2, <3>2, <3>4, <3>6 DEF AttemptOK, RG!Applying
    <3> QED BY <2>1, <3>7 DEF RegType
  <2>5. RG!Fail("missing") \/ \E o \in RG!StartupOrders(definitions) :
               attempt' = [phase |-> "initialize", registry |-> attempt.registry, err |-> "none",
                           built |-> [definitions |-> definitions, order |-> o]]
    BY <1>8, NewIs, Zenon
  <2> QED BY <2>3, <2>4, <2>5
<1>9. ASSUME RG!finishRefresh PROVE RegType'
  <2>1. /\ attempt.phase \in {"initialize", "failed"} /\ attempt' = RG!None
        /\ UNCHANGED <<configurations, accepted, late>>
        /\ \/ UNCHANGED <<registry, runtime>>
           \/ attempt.phase = "initialize" /\ registry' = attempt.registry /\ runtime' = attempt.built
    BY <1>9 DEF RG!finishRefresh
  <2>2. AttemptOK BY <2>1, Underway
  <2>3. Known(registry') BY <2>1, <2>2 DEF RegType, AttemptOK
  <2>4. runtime' = RG!Unbuilt \/ Built(runtime') BY <2>1, <2>2 DEF AttemptOK
  <2>5. (runtime = RG!Unbuilt \/ Built(runtime))' BY <2>4 DEF Built, RG!StartupOrders
  <2> QED BY <2>1, <2>3, <2>5 DEF RegType
<1>10. ASSUME NEW d \in Definitions, RG!LateRegister(d) PROVE RegType'
  <2>1. UNCHANGED <<configurations, accepted, runtime>> BY <1>10 DEF RG!LateRegister
  <2>2. CASE kept = "attempt" /\ attempt # RG!None
    <3>1. /\ attempt' = [attempt EXCEPT !.registry = RG!With(@, {d})]
          /\ late' \in SUBSET Definitions /\ registry' = registry
      BY <1>10, <2>2 DEF RG!LateRegister, RegType
    <3>2. AttemptOK BY <2>2 DEF RegType
    <3>3. /\ attempt'.phase = attempt.phase /\ attempt'.registry = RG!With(attempt.registry, {d})
          /\ DOMAIN attempt' = DOMAIN attempt /\ attempt'.todo = attempt.todo /\ attempt'.built = attempt.built
      BY <3>1, <3>2 DEF AttemptOK
    <3>4. Known(attempt'.registry)
      <4>1. {d} \in SUBSET Definitions /\ Known(attempt.registry) BY <3>2 DEF AttemptOK
      <4>2. Known(RG!With(attempt.registry, {d})) BY <4>1, WithIs
      <4> QED BY <3>3, <4>2
    <3>5. attempt.phase = "initialize" => Built(attempt.built)'
      BY <3>2, <3>3 DEF AttemptOK, Built, RG!StartupOrders
    <3>6. AttemptOK' BY <2>1, <3>2, <3>3, <3>4, <3>5 DEF AttemptOK, RG!Applying
    <3> QED BY <2>1, <3>1, <3>6 DEF RegType
  <2>3. CASE kept = "attempt" /\ attempt = RG!None
    <3>1. attempt' = attempt \/ FALSE
      BY <1>10, <2>3 DEF RG!LateRegister, RG!None
    <3> QED BY <1>10, <2>1, <2>3, <3>1 DEF RegType, RG!LateRegister
  <2>4. CASE kept = "context"
    <3>1. registry' = RG!With(registry, {d}) /\ UNCHANGED <<attempt, late>> BY <1>10, <2>4 DEF RG!LateRegister
    <3>2. Known(registry') BY <3>1, WithIs DEF RegType
    <3>3. AttemptOK => AttemptOK' BY <2>1, <3>1 DEF AttemptOK, Built, RG!StartupOrders, RG!Applying
    <3>4. (runtime = RG!Unbuilt \/ Built(runtime))' BY <2>1 DEF RegType, Built, RG!StartupOrders
    <3> QED BY <2>1, <3>1, <3>2, <3>3, <3>4 DEF RegType
  <2> QED BY <1>10, <2>2, <2>3, <2>4 DEF RG!LateRegister
<1>11. ASSUME NEW r \in Readers, RG!Ask(r) \/ RG!scanMatchingNames(r) \/ RG!cacheTypeIndex(r) PROVE RegType'
  <2>1. Same /\ attempt' = attempt
    BY <1>11 DEF RG!Ask, RG!scanMatchingNames, RG!cacheTypeIndex, RG!Rest, RG!declared
  <2>2. AttemptOK => AttemptOK' BY <2>1 DEF AttemptOK, Built, RG!StartupOrders, RG!Applying
  <2>3. (runtime = RG!Unbuilt \/ Built(runtime))' BY <2>1 DEF RegType, Built, RG!StartupOrders
  <2> QED BY <2>1, <2>2, <2>3 DEF RegType
<1> QED BY <1>1, <1>2, <1>3, <1>4, <1>5, <1>6, <1>7, <1>8, <1>9, <1>10, <1>11 DEF RG!Next

-----------------------------------------------------------------------------
\* Lookup.  The index holds for a type the names that match it, and so does a
\* reader that has scanned the definitions and not stored what it found.
ReaderOK(r) ==
  /\ reader[r].at \in {"idle", "scan", "cache", "done"}
  /\ runtime = RG!Unbuilt => reader[r].at = "idle"
  /\ reader[r].at \in {"scan", "cache"} =>
       reader[r].question \in Questions /\ (reader[r].question.all \/ reader[r].question.qualifier = "none")
  /\ reader[r].at = "cache" => reader[r].names = RG!matchingNames(runtime.definitions, reader[r].question.type)
  /\ reader[r].at = "done" => Right(reader[r].question, reader[r].answer)
IndexOK == \A t \in DOMAIN typeIndex : typeIndex[t] = RG!matchingNames(runtime.definitions, t)
LookupInv ==
  /\ IndexOK
  /\ DOMAIN reader = Readers
  /\ \A r \in Readers : ReaderOK(r)

LEMMA AnswerIsRight ==
  ASSUME RG!RegistrationAssumption, Built(runtime), NEW q \in Questions, q.all \/ q.qualifier = "none",
         NEW names, names = RG!matchingNames(runtime.definitions, q.type)
  PROVE  /\ RG!Answer(q, names).at = "done" /\ RG!Answer(q, names).question = q
         /\ Right(q, RG!Answer(q, names).answer)
<1> DEFINE a == RG!Answer(q, names)
<1>1. /\ a.at = "done" /\ a.question = q
      /\ a.answer = IF q.all THEN RG!matchingNamesInStartupOrder(names) ELSE RG!selectByType(RG!ToSet(names))
  BY DEF RG!Answer
<1>2. q.all \in BOOLEAN BY DEF RG!RegistrationAssumption
<1>3. CASE q.all BY <1>1, <1>3, AllIsRight DEF Right
<1>4. CASE ~q.all
  <2>1. RG!ToSet(names) = Matching(runtime.definitions, q.type)
    BY MatchingIsListed DEF RG!ToSet, Listing, Built
  <2>2. RightOne(q, RG!selectByType(Matching(runtime.definitions, q.type)))
    BY <1>4, SelectionIsRight DEF Built
  <2> QED BY <1>1, <1>4, <2>1, <2>2 DEF Right
<1> QED BY <1>1, <1>2, <1>3, <1>4

\* What holds of a lookup holds while the container stays.
LEMMA LookupRests ==
  ASSUME NEW r, ReaderOK(r), reader'[r] = reader[r], runtime' = runtime
  PROVE  ReaderOK(r)'
BY DEF ReaderOK, Right, RightOne, RightAll, RG!Best, RG!Fits, RG!Beats, Matching, Started

\* A step of one reader.
LEMMA ReaderMoves ==
  ASSUME LookupInv, runtime' = runtime, runtime # RG!Unbuilt, NEW r \in Readers, NEW to, reader' = [reader EXCEPT ![r] = to],
         to.at \in {"scan", "cache", "done"},
         to.at \in {"scan", "cache"} => to.question \in Questions /\ (to.question.all \/ to.question.qualifier = "none"),
         to.at = "cache" => to.names = RG!matchingNames(runtime.definitions, to.question.type),
         to.at = "done" => Right(to.question, to.answer)
  PROVE  DOMAIN reader' = Readers /\ \A x \in Readers : ReaderOK(x)'
<1>1. DOMAIN reader' = Readers /\ reader'[r] = to /\ \A x \in Readers \ {r} : reader'[x] = reader[x]
  BY DEF LookupInv
<1>2. ReaderOK(r)'
  <2>1. to.at = "done" => Right(reader[r].question, reader[r].answer)'
    BY <1>1 DEF Right, RightOne, RightAll, RG!Best, RG!Fits, RG!Beats, Matching, Started
  <2> QED BY <1>1, <2>1 DEF ReaderOK
<1>3. \A x \in Readers \ {r} : ReaderOK(x)' BY <1>1, LookupRests DEF LookupInv
<1> QED BY <1>1, <1>2, <1>3

LEMMA LookupSteps ==
  ASSUME RG!RegistrationAssumption, RegType, LookupInv, RG!Next
  PROVE  LookupInv'
<1>1. ASSUME UNCHANGED <<typeIndex, reader, runtime>> PROVE LookupInv'
  <2>1. IndexOK' BY <1>1 DEF LookupInv, IndexOK
  <2>2. \A r \in Readers : ReaderOK(r)' BY <1>1, LookupRests DEF LookupInv
  <2> QED BY <1>1, <2>1, <2>2 DEF LookupInv
<1>2. ASSUME NEW d \in Definitions, RG!RegisterDefinition(d) \/ RG!LateRegister(d) PROVE LookupInv'
  BY <1>1, <1>2 DEF RG!RegisterDefinition, RG!LateRegister, RG!lookups
<1>3. ASSUME NEW c \in Configurations, RG!RegisterConfiguration(c) PROVE LookupInv'
  BY <1>1, <1>3 DEF RG!RegisterConfiguration, RG!lookups
<1>4. CASE RG!beginRefresh BY <1>1, <1>4 DEF RG!beginRefresh, RG!lookups
<1>5. CASE RG!ConfigureEnvironment BY <1>1, <1>5 DEF RG!ConfigureEnvironment, RG!lookups
<1>6. CASE RG!EndOfEnvironment BY <1>1, <1>6 DEF RG!EndOfEnvironment, RG!lookups
<1>7. CASE RG!Register BY <1>1, <1>7, RegisterIs DEF RG!lookups
<1>8. CASE RG!Fault BY <1>1, <1>8 DEF RG!Fault, RG!lookups
<1>9. CASE RG!New BY <1>1, <1>9, NewIs DEF RG!lookups
<1>10. CASE RG!finishRefresh
  <2>1. CASE UNCHANGED <<runtime, typeIndex>> BY <1>1, <1>10, <2>1 DEF RG!finishRefresh
  <2>2. CASE attempt.phase = "initialize" /\ runtime' = attempt.built /\ typeIndex' = RG!rebuildTypeIndex(attempt.built.definitions)
    <3>1. reader' = reader BY <1>10 DEF RG!finishRefresh
    <3>2. AttemptOK BY <2>2, Underway
    <3>3. \A r \in Readers : reader[r].at = "idle" BY <3>2 DEF AttemptOK, LookupInv, ReaderOK
    <3>4. \A r \in Readers : ReaderOK(r)' BY <3>1, <3>3 DEF ReaderOK
    <3>5. IndexOK' BY <2>2 DEF IndexOK, RG!rebuildTypeIndex
    <3> QED BY <3>1, <3>4, <3>5 DEF LookupInv
  <2> QED BY <1>10, <2>1, <2>2 DEF RG!finishRefresh
<1>11. ASSUME NEW r \in Readers, RG!Ask(r) PROVE LookupInv'
  <2>1. runtime # RG!Unbuilt /\ UNCHANGED <<typeIndex, runtime>> BY <1>11 DEF RG!Ask, RG!Refreshed, RG!Rest
  <2>2. Built(runtime) BY <2>1 DEF RegType
  <2>3. PICK q \in Questions :
          reader' = [reader EXCEPT ![r] =
            CASE ~q.all /\ q.qualifier # "none" -> [at |-> "done", question |-> q, answer |-> RG!selectQualifier(q)]
              [] (q.all \/ q.qualifier = "none") /\ q.type \in DOMAIN typeIndex -> RG!Answer(q, typeIndex[q.type])
              [] OTHER -> [at |-> "scan", question |-> q]]
    BY <1>11 DEF RG!Ask
  <2>4. q.all \in BOOLEAN BY DEF RG!RegistrationAssumption
  <2>5. CASE ~q.all /\ q.qualifier # "none"
    <3> DEFINE to == [at |-> "done", question |-> q, answer |-> RG!selectQualifier(q)]
    <3>1. reader' = [reader EXCEPT ![r] = to] BY <2>3, <2>5
    <3>2. Right(q, RG!selectQualifier(q)) BY <2>2, <2>5, QualifierIsRight DEF Right, Built
    <3>3. to.at = "done" /\ Right(to.question, to.answer) BY <3>2
    <3> HIDE DEF to
    <3>4. DOMAIN reader' = Readers /\ \A x \in Readers : ReaderOK(x)' BY <2>1, <3>1, <3>3, ReaderMoves
    <3> QED BY <2>1, <3>4 DEF LookupInv, IndexOK
  <2>6. CASE (q.all \/ q.qualifier = "none") /\ q.type \in DOMAIN typeIndex
    <3> DEFINE to == RG!Answer(q, typeIndex[q.type])
    <3>1. reader' = [reader EXCEPT ![r] = to] BY <2>3, <2>4, <2>6
    <3>2. typeIndex[q.type] = RG!matchingNames(runtime.definitions, q.type) BY <2>6 DEF LookupInv, IndexOK
    <3>3. to.at = "done" /\ Right(to.question, to.answer) BY <2>2, <2>6, <3>2, AnswerIsRight
    <3> HIDE DEF to
    <3>4. DOMAIN reader' = Readers /\ \A x \in Readers : ReaderOK(x)' BY <2>1, <3>1, <3>3, ReaderMoves
    <3> QED BY <2>1, <3>4 DEF LookupInv, IndexOK
  <2>7. CASE (q.all \/ q.qualifier = "none") /\ q.type \notin DOMAIN typeIndex
    <3> DEFINE to == [at |-> "scan", question |-> q]
    <3>1. reader' = [reader EXCEPT ![r] = to] BY <2>3, <2>4, <2>7
    <3>2. to.at = "scan" /\ to.question \in Questions /\ (to.question.all \/ to.question.qualifier = "none") BY <2>7
    <3> HIDE DEF to
    <3>4. DOMAIN reader' = Readers /\ \A x \in Readers : ReaderOK(x)' BY <2>1, <3>1, <3>2, ReaderMoves
    <3> QED BY <2>1, <3>4 DEF LookupInv, IndexOK
  <2> QED BY <2>4, <2>5, <2>6, <2>7
<1>12. ASSUME NEW r \in Readers, RG!scanMatchingNames(r) PROVE LookupInv'
  <2> DEFINE q == reader[r].question
             to == [at |-> "cache", question |-> q, names |-> RG!matchingNames(runtime.definitions, q.type)]
  <2>1. reader[r].at = "scan" /\ UNCHANGED <<typeIndex, runtime>> BY <1>12 DEF RG!scanMatchingNames, RG!Rest
  <2>2. runtime # RG!Unbuilt /\ q \in Questions /\ (q.all \/ q.qualifier = "none") BY <2>1 DEF LookupInv, ReaderOK
  <2>3. reader' = [reader EXCEPT ![r] = to] BY <1>12 DEF RG!scanMatchingNames, LookupInv
  <2>4. to.at = "cache" /\ to.question = q /\ to.names = RG!matchingNames(runtime.definitions, to.question.type) OBVIOUS
  <2> HIDE DEF to, q
  <2>5. DOMAIN reader' = Readers /\ \A x \in Readers : ReaderOK(x)' BY <2>1, <2>2, <2>3, <2>4, ReaderMoves
  <2> QED BY <2>1, <2>5 DEF LookupInv, IndexOK
<1>13. ASSUME NEW r \in Readers, RG!cacheTypeIndex(r) PROVE LookupInv'
  <2> DEFINE q == reader[r].question
             names == IF q.type \in DOMAIN typeIndex THEN typeIndex[q.type] ELSE reader[r].names
             to == RG!Answer(q, names)
  <2>1. /\ reader[r].at = "cache" /\ runtime' = runtime
        /\ typeIndex' = [t \in DOMAIN typeIndex \cup {q.type} |-> IF t = q.type THEN names ELSE typeIndex[t]]
        /\ reader' = [reader EXCEPT ![r] = to]
    BY <1>13 DEF RG!cacheTypeIndex, RG!Rest
  <2>2. runtime # RG!Unbuilt /\ q \in Questions /\ (q.all \/ q.qualifier = "none") BY <2>1 DEF LookupInv, ReaderOK
  <2>3. names = RG!matchingNames(runtime.definitions, q.type) BY <2>1 DEF LookupInv, ReaderOK, IndexOK
  <2>4. Built(runtime) BY <2>2 DEF RegType
  <2> HIDE DEF names, q
  <2>5. to.at = "done" /\ to.question = q /\ Right(to.question, to.answer) BY <2>2, <2>3, <2>4, AnswerIsRight
  <2> HIDE DEF to
  <2>6. DOMAIN reader' = Readers /\ \A x \in Readers : ReaderOK(x)' BY <2>1, <2>2, <2>5, ReaderMoves
  <2>7. IndexOK' BY <2>1, <2>3 DEF LookupInv, IndexOK
  <2> QED BY <2>6, <2>7 DEF LookupInv
<1> QED BY <1>2, <1>3, <1>4, <1>5, <1>6, <1>7, <1>8, <1>9, <1>10, <1>11, <1>12, <1>13 DEF RG!Next

LEMMA LookupIsBest == ASSUME LookupInv PROVE SelectionIsTheBest
<1> SUFFICES ASSUME NEW r \in Readers, reader[r].at = "done"
             PROVE  LET q == reader[r].question
                        answer == reader[r].answer
                    IN  IF ~q.all THEN IF RG!Best(q) = {} THEN answer \notin DOMAIN runtime.definitions ELSE {answer} = RG!Best(q)
                        ELSE /\ RG!ToSet(answer) = {n \in DOMAIN runtime.definitions : RG!Fits(n, q)}
                             /\ RG!IsInjective(answer)
                             /\ \A i, j \in DOMAIN answer : i < j => Started(answer[i]) < Started(answer[j])
  BY DEF SelectionIsTheBest, RG!SelectionIsTheBest, Started
<1>1. Right(reader[r].question, reader[r].answer) BY DEF LookupInv, ReaderOK
<1>2. Matching(runtime.definitions, reader[r].question.type) = {n \in DOMAIN runtime.definitions : RG!Fits(n, reader[r].question)}
  BY DEF Matching, RG!Fits
<1> QED BY <1>1, <1>2 DEF Right, RightOne, RightAll

-----------------------------------------------------------------------------
\* What is built.  A registry stands for a set of definitions when it has their
\* names and, under each, what its definition says.
Represents(definitions, D) ==
  /\ DOMAIN definitions = {d.name : d \in D}
  /\ \A d \in D : RG!normalized(definitions[d.name]) = RG!normalized(d)

LEMMA TwiceIsOnce ==
  ASSUME RG!RegistrationAssumption, NEW d \in Definitions
  PROVE  RG!normalized(RG!normalized(d)) = RG!normalized(d)
BY NormalizedTwice DEF RG!RegistrationAssumption

\* One that gets further definitions, of names that are new, stands for them too.
LEMMA MoreRepresented ==
  ASSUME RG!RegistrationAssumption, NEW definitions, NEW D \in SUBSET Definitions, Represents(definitions, D),
         NEW added \in SUBSET Definitions, \A d \in added : d.name \notin DOMAIN definitions, NamedApart(added)
  PROVE  Represents(RG!With(definitions, added), D \cup added)
<1> DEFINE w == RG!With(definitions, added)
<1>1. /\ DOMAIN w = DOMAIN definitions \cup {d.name : d \in added}
      /\ \A n \in DOMAIN definitions : w[n] = definitions[n]
  BY WithIs
<1>2. ASSUME NEW n \in {d.name : d \in added} \ DOMAIN definitions
      PROVE  \E d \in added : d.name = n /\ w[n] = RG!normalized(d)
  <2> DEFINE d == CHOOSE d \in added : d.name = n
  <2>1. d \in added /\ d.name = n OBVIOUS
  <2>2. w[n] = RG!normalized(d) BY DEF RG!With
  <2> HIDE DEF d, w
  <2> QED BY <2>1, <2>2
<1> HIDE DEF w
<1>3. DOMAIN w = {d.name : d \in D \cup added} BY <1>1 DEF Represents
<1>4. ASSUME NEW d \in D PROVE RG!normalized(w[d.name]) = RG!normalized(d)
  <2>1. d.name \in DOMAIN definitions BY DEF Represents
  <2> QED BY <1>1, <2>1 DEF Represents
<1>5. ASSUME NEW d \in added PROVE RG!normalized(w[d.name]) = RG!normalized(d)
  <2>1. PICK e \in added : e.name = d.name /\ w[d.name] = RG!normalized(e) BY <1>2
  <2>2. e = d BY <2>1 DEF NamedApart
  <2> QED BY <2>1, <2>2, TwiceIsOnce
<1> QED BY <1>3, <1>4, <1>5 DEF Represents, w

\* A copy stands for the same.
LEMMA CopyRepresents ==
  ASSUME RG!RegistrationAssumption, NEW definitions, NEW D \in SUBSET Definitions, Represents(definitions, D)
  PROVE  /\ Represents([n \in DOMAIN definitions |-> RG!normalized(definitions[n])], D)
         /\ \A d \in D : [n \in DOMAIN definitions |-> RG!normalized(definitions[n])][d.name] = RG!normalized(d)
<1> DEFINE w == [n \in DOMAIN definitions |-> RG!normalized(definitions[n])]
<1>1. DOMAIN w = DOMAIN definitions OBVIOUS
<1>2. \A d \in D : w[d.name] = RG!normalized(d) BY DEF Represents
<1>3. \A d \in D : RG!normalized(w[d.name]) = RG!normalized(d) BY <1>2, TwiceIsOnce
<1> HIDE DEF w
<1> QED BY <1>1, <1>2, <1>3 DEF Represents, w

\* The configurations that were applied, and what they and the callers declared.
Handled == configurations \ RG!ToSet(attempt.todo)
DeclaredBy(cs) == accepted \cup late \cup UNION {RG!ToSet(c.definitions) : c \in RG!Holding \cap cs}

LEMMA DeclaredType ==
  ASSUME RG!RegistrationAssumption, RegType, NEW cs
  PROVE  DeclaredBy(cs) \in SUBSET Definitions
<1>1. ASSUME NEW c \in RG!Holding PROVE RG!ToSet(c.definitions) \subseteq Definitions
  <2>1. c.definitions \in Seq(Definitions) BY DEF RG!Holding, RegType, RG!RegistrationAssumption
  <2> QED BY <2>1 DEF RG!ToSet
<1> QED BY <1>1 DEF DeclaredBy, RegType

\* The next configuration joins those that were applied.
LEMMA OneMoreHandled ==
  ASSUME RG!RegistrationAssumption, RegType, AttemptOK, RG!Applying, attempt.todo # <<>>,
         configurations' = configurations, attempt'.todo = Tail(attempt.todo)
  PROVE  Handled' = Handled \cup {Head(attempt.todo)} /\ Head(attempt.todo) \in configurations \ Handled
<1>1. PICK S \in SUBSET configurations : Listing(attempt.todo, S) BY DEF AttemptOK
<1>2. Head(attempt.todo) \in S /\ Listing(Tail(attempt.todo), S \ {Head(attempt.todo)}) BY <1>1, NextToApply
<1>3. RG!ToSet(attempt.todo) = S BY <1>1 DEF RG!ToSet, Listing
<1>4. RG!ToSet(Tail(attempt.todo)) = S \ {Head(attempt.todo)} BY <1>2 DEF RG!ToSet, Listing
<1>5. Handled' = configurations \ RG!ToSet(Tail(attempt.todo)) BY DEF Handled, RG!ToSet
<1> QED BY <1>2, <1>3, <1>4, <1>5 DEF Handled

\* Names that two declare.
LEMMA TwoAtLeast ==
  ASSUME NEW S, IsFiniteSet(S), NEW a \in S, NEW b \in S, a # b
  PROVE  Cardinality(S) > 1
<1>1. IsFiniteSet(S \ {a}) /\ Cardinality(S \ {a}) = Cardinality(S) - 1 BY FS_RemoveElement
<1>2. b \in S \ {a} OBVIOUS
<1>3. Cardinality(S \ {a}) # 0 BY <1>1, <1>2, FS_EmptySet
<1>4. Cardinality(S) \in Nat /\ Cardinality(S \ {a}) \in Nat BY <1>1, FS_CardinalityType
<1> QED BY <1>1, <1>3, <1>4

\* The places where configurations that hold declare a name.
Places(name) == UNION {{<<c, i>> : i \in {i \in DOMAIN c.definitions : c.definitions[i].name = name}} : c \in RG!Holding}

LEMMA PlacesFinite == ASSUME RG!RegistrationAssumption, RegType, NEW name PROVE IsFiniteSet(Places(name))
<1> DEFINE at(c) == {i \in DOMAIN c.definitions : c.definitions[i].name = name}
           of(c) == {<<c, i>> : i \in at(c)}
<1>1. IsFiniteSet(RG!Holding)
  <2>1. IsFiniteSet(Configurations) BY DEF RG!RegistrationAssumption, RG!IsFiniteSet, IsFiniteSet
  <2>2. RG!Holding \subseteq Configurations BY DEF RG!Holding, RegType
  <2> QED BY <2>1, <2>2, FS_Subset
<1>2. ASSUME NEW c \in RG!Holding PROVE IsFiniteSet(of(c))
  <2>1. c.definitions \in Seq(Definitions) BY DEF RG!Holding, RegType, RG!RegistrationAssumption
  <2>2. DOMAIN c.definitions = 1 .. Len(c.definitions) /\ Len(c.definitions) \in Nat BY <2>1, LenProperties
  <2>3. IsFiniteSet(1 .. Len(c.definitions)) BY <2>2, FS_Interval
  <2>4. IsFiniteSet(at(c))
    <3>1. at(c) \subseteq 1 .. Len(c.definitions) BY <2>2
    <3> HIDE DEF at
    <3> QED BY <2>3, <3>1, FS_Subset
  <2> HIDE DEF at
  <2> DEFINE f == [i \in at(c) |-> <<c, i>>]
  <2>5. f \in Surjection(at(c), of(c)) BY DEF Surjection
  <2> HIDE DEF f, of
  <2> QED BY <2>4, <2>5, FS_Surjection
<1> DEFINE All == {of(c) : c \in RG!Holding}
<1>3. IsFiniteSet(All)
  <2> DEFINE f == [c \in RG!Holding |-> of(c)]
  <2> HIDE DEF of
  <2>1. f \in Surjection(RG!Holding, All) BY DEF Surjection
  <2> HIDE DEF f, All
  <2> QED BY <1>1, <2>1, FS_Surjection
<1>4. \A T \in All : IsFiniteSet(T)
  <2> HIDE DEF of
  <2> QED BY <1>2
<1>5. Places(name) = UNION All BY DEF Places
<1> HIDE DEF All
<1> QED BY <1>3, <1>4, <1>5, FS_UNION

LEMMA ClashIsTwoDeclare ==
  ASSUME RG!RegistrationAssumption, RegType, attempt.phase = "register", attempt.todo # <<>>,
         Represents(attempt.registry, DeclaredBy(Handled)), RG!Clashes(Own)
  PROVE  \E d \in RG!Declared : RG!Declarers(d.name) > 1
<1> DEFINE c == Head(attempt.todo)
<1>1. AttemptOK /\ RG!Applying BY Underway DEF RG!Applying
<1>2. c \in configurations /\ c \notin Handled
  <2>1. PICK S \in SUBSET configurations : Listing(attempt.todo, S) BY <1>1 DEF AttemptOK
  <2>2. c \in S BY <1>1, <2>1, NextToApply
  <2>3. RG!ToSet(attempt.todo) = S BY <2>1 DEF RG!ToSet, Listing
  <2> QED BY <2>2, <2>3 DEF Handled
<1>3. PICK i \in DOMAIN Own : Own[i].name \in DOMAIN attempt.registry \cup {Own[j].name : j \in 1 .. i - 1}
  BY DEF RG!Clashes
<1>4. c \in RG!Holding /\ Own = c.definitions
  <2>1. RG!Holds(c)
    <3>1. DOMAIN (<<>>) = {} BY EmptySeq
    <3> QED BY <1>3, <3>1 DEF Own
  <2> QED BY <1>2, <2>1 DEF Own, RG!Holding
<1> HIDE DEF c
<1>5. c.definitions \in Seq(Definitions) BY <1>2 DEF RegType, RG!RegistrationAssumption
<1>6. DOMAIN c.definitions = 1 .. Len(c.definitions) /\ Len(c.definitions) \in Nat BY <1>5, LenProperties
<1> DEFINE d == c.definitions[i]
           n == d.name
           P == Places(n)
           A == accepted \cap RG!NameIs(n)
           L == late \cap RG!NameIs(n)
<1>7. i \in DOMAIN c.definitions BY <1>3, <1>4
<1>8. d \in RG!Declared BY <1>4, <1>7 DEF RG!Declared, RG!ToSet
<1>9. RG!Declarers(n) = Cardinality(P) + Cardinality(A) + Cardinality(L)
  BY DEF RG!Declarers, Places, RG!Cardinality, Cardinality
<1> HIDE DEF d
<1>10. <<c, i>> \in P BY <1>4, <1>7 DEF Places, d
<1>11. IsFiniteSet(P) /\ IsFiniteSet(A) /\ IsFiniteSet(L)
  <2>1. IsFiniteSet(Definitions) BY DEF RG!RegistrationAssumption, RG!IsFiniteSet, IsFiniteSet
  <2>2. A \subseteq Definitions /\ L \subseteq Definitions BY DEF RegType
  <2>3. IsFiniteSet(P) BY PlacesFinite
  <2> HIDE DEF A, L, P
  <2> QED BY <2>1, <2>2, <2>3, FS_Subset
<1>12. Cardinality(P) \in Nat /\ Cardinality(A) \in Nat /\ Cardinality(L) \in Nat
  <2> HIDE DEF A, L, P
  <2> QED BY <1>11, FS_CardinalityType
<1>13. Cardinality(P) # 0
  <2> HIDE DEF P
  <2> QED BY <1>10, <1>11, FS_EmptySet
<1>14. Cardinality(P) > 1 \/ A # {} \/ L # {}
  <2>1. CASE \E j \in 1 .. i - 1 : c.definitions[i].name = c.definitions[j].name
    <3>1. PICK j \in 1 .. i - 1 : c.definitions[i].name = c.definitions[j].name BY <2>1
    <3>2. j \in DOMAIN c.definitions /\ j # i BY <1>6, <1>7
    <3>3. <<c, j>> \in P BY <1>4, <3>1, <3>2 DEF Places, d
    <3>4. <<c, i>> # <<c, j>> BY <3>2
    <3> HIDE DEF P
    <3> QED BY <1>10, <1>11, <3>3, <3>4, TwoAtLeast
  <2>2. CASE n \in DOMAIN attempt.registry
    <3>1. PICK e \in DeclaredBy(Handled) : e.name = n BY <2>2 DEF Represents
    <3>2. e \in Definitions BY DeclaredType
    <3>3. CASE e \in accepted BY <3>1, <3>2, <3>3 DEF RG!NameIs
    <3>4. CASE e \in late BY <3>1, <3>2, <3>4 DEF RG!NameIs
    <3>5. CASE \E x \in RG!Holding \cap Handled : e \in RG!ToSet(x.definitions)
      <4>1. PICK x \in RG!Holding \cap Handled : e \in RG!ToSet(x.definitions) BY <3>5
      <4>2. PICK k \in DOMAIN x.definitions : e = x.definitions[k] BY <4>1 DEF RG!ToSet
      <4>3. <<x, k>> \in P BY <3>1, <4>1, <4>2 DEF Places
      <4>4. <<x, k>> # <<c, i>> BY <1>2, <4>1
      <4> HIDE DEF P
      <4> QED BY <1>10, <1>11, <4>3, <4>4, TwoAtLeast
    <3> QED BY <3>1, <3>3, <3>4, <3>5 DEF DeclaredBy
  <2> QED BY <1>3, <1>4, <2>1, <2>2 DEF d
<1>15. (A # {} => Cardinality(A) # 0) /\ (L # {} => Cardinality(L) # 0)
  <2> HIDE DEF A, L
  <2> QED BY <1>11, FS_EmptySet
<1>16. RG!Declarers(n) > 1
  <2> HIDE DEF P, A, L, n
  <2> QED BY <1>9, <1>12, <1>13, <1>14, <1>15
<1> QED BY <1>8, <1>16

\* Refresh.  What an attempt has built, and why one failed.
BuiltRight ==
  attempt.phase = "initialize" =>
    /\ DOMAIN attempt.built.definitions = {d.name : d \in RG!Declared}
    /\ \A d \in RG!Declared : attempt.built.definitions[d.name] = RG!normalized(d)
TwoDeclare == \E d \in RG!Declared : RG!Declarers(d.name) > 1
NoOneDeclares ==
  \E d \in RG!Declared : \E e \in RG!normalized(d).descriptors :
    ~e.optional /\ \A other \in RG!Declared : other.name # e.name
AddedTwice == attempts > 1 \/ \E c, d \in configurations : c # d /\ c.source = d.source /\ c.source # RG!Absent
FailedRight ==
  attempt.phase = "failed" =>
    /\ attempt.err \in {"clash", "missing", "source", "fault"}
    /\ attempt.err = "clash" => TwoDeclare
    /\ attempt.err = "missing" => NoOneDeclares
    /\ attempt.err = "source" => AddedTwice

\* The registry of the context stands for what callers declared, that of an
\* attempt also for the configurations it has applied; the sources of a first
\* attempt are those of the configurations it has come to.
RefreshInv ==
  /\ runtime = RG!Unbuilt => Represents(registry, accepted)
  /\ attempt.phase = "environment" => late = {} /\ Represents(attempt.registry, accepted)
  /\ attempt.phase = "register" => Represents(attempt.registry, DeclaredBy(Handled))
  /\ attempts \in Nat /\ RG!Absent \notin environment.sources
  /\ attempts = 0 => attempt.phase = "none" /\ environment.sources = {}
  /\ attempts = 1 /\ attempt.phase = "environment" => environment.sources \subseteq {c.source : c \in Handled}
  /\ kept = "attempt" => attempt.phase \in {"register", "initialize", "failed"}
  /\ kept = "context" => runtime # RG!Unbuilt
  /\ BuiltRight /\ FailedRight

LEMMA RefreshIsRight == ASSUME RefreshInv PROVE DeclaredIsBuilt
BY DEF RefreshInv, BuiltRight, FailedRight, TwoDeclare, NoOneDeclares, AddedTwice, DeclaredIsBuilt, RG!DeclaredIsBuilt

\* What was declared stays.
LEMMA DeclaredStays ==
  ASSUME UNCHANGED <<configurations, environment, accepted, late, attempts>>
  PROVE  /\ RG!Declared' = RG!Declared /\ RG!Holding' = RG!Holding
         /\ TwoDeclare' = TwoDeclare /\ NoOneDeclares' = NoOneDeclares /\ AddedTwice' = AddedTwice
<1>1. RG!Holding' = RG!Holding BY DEF RG!Holding, RG!Holds
<1>2. RG!Declared' = RG!Declared BY <1>1 DEF RG!Declared, RG!ToSet
<1>3. NoOneDeclares' = NoOneDeclares BY <1>2 DEF NoOneDeclares
<1>4. AddedTwice' = AddedTwice BY DEF AddedTwice
<1>5. ASSUME NEW n PROVE RG!Declarers(n)' = RG!Declarers(n)
  BY <1>1 DEF RG!Declarers
<1>6. TwoDeclare' = TwoDeclare BY <1>2, <1>5 DEF TwoDeclare
<1> QED BY <1>1, <1>2, <1>3, <1>4, <1>6

LEMMA RightStays ==
  ASSUME BuiltRight, FailedRight, UNCHANGED <<configurations, environment, accepted, late, attempts>>,
         attempt'.phase = attempt.phase, attempt'.err = attempt.err, attempt'.built = attempt.built
  PROVE  BuiltRight' /\ FailedRight'
<1>1. BuiltRight' BY DeclaredStays DEF BuiltRight
<1>2. FailedRight' BY DeclaredStays DEF FailedRight
<1> QED BY <1>1, <1>2

\* A failure for a reason that is right.
LEMMA FailsRightly ==
  ASSUME RegType, RefreshInv, AttemptOK, NEW reason, RG!Fail(reason), attempts # 0,
         UNCHANGED <<configurations, environment, accepted, late, attempts, registry, runtime>>,
         reason \in {"clash", "missing", "source", "fault"}, reason = "clash" => TwoDeclare,
         reason = "missing" => NoOneDeclares, reason = "source" => AddedTwice,
         kept' = "attempt" => kept = "attempt" \/ attempt.phase = "register",
         kept' = "context" => kept = "context"
  PROVE  RefreshInv'
<1>1. attempt'.phase = "failed" /\ attempt'.err = reason BY FailKeeps
<1>2. FailedRight' BY <1>1, DeclaredStays DEF FailedRight
<1>3. BuiltRight' BY <1>1 DEF BuiltRight
<1>4. (runtime = RG!Unbuilt => Represents(registry, accepted))' BY DEF RefreshInv, Represents
<1> QED BY <1>1, <1>2, <1>3, <1>4 DEF RefreshInv

\* The next configuration is one that was not applied.
LEMMA NextIsNew ==
  ASSUME RG!RegistrationAssumption, RegType, AttemptOK, RG!Applying, attempt.todo # <<>>
  PROVE  Head(attempt.todo) \in configurations \ Handled
<1>1. PICK S \in SUBSET configurations : Listing(attempt.todo, S) BY DEF AttemptOK
<1>2. Head(attempt.todo) \in S BY <1>1, NextToApply
<1>3. RG!ToSet(attempt.todo) = S BY <1>1 DEF RG!ToSet, Listing
<1> QED BY <1>2, <1>3 DEF Handled

\* What it declares is new when it does not clash, and joins what was declared.
LEMMA OwnIsNew ==
  ASSUME RG!RegistrationAssumption, RegType, attempt.phase = "register", attempt.todo # <<>>, ~RG!Clashes(Own)
  PROVE  /\ \A d \in RG!ToSet(Own) : d.name \notin DOMAIN attempt.registry
         /\ NamedApart(RG!ToSet(Own))
<1>1. AttemptOK /\ RG!Applying BY Underway DEF RG!Applying
<1>2. DOMAIN Own \subseteq Nat \ {0}
  <2>1. Head(attempt.todo).definitions \in Seq(Definitions) BY <1>1, NextToApply DEF RegType, RG!RegistrationAssumption
  <2>2. CASE RG!Holds(Head(attempt.todo))
    <3>1. DOMAIN Own = 1 .. Len(Head(attempt.todo).definitions) /\ Len(Head(attempt.todo).definitions) \in Nat
      BY <2>1, <2>2, LenProperties DEF Own
    <3> QED BY <3>1
  <2>3. CASE ~RG!Holds(Head(attempt.todo))
    <3>1. DOMAIN (<<>>) = {} BY EmptySeq
    <3> QED BY <2>3, <3>1 DEF Own
  <2> QED BY <2>2, <2>3
<1>3. \A i \in DOMAIN Own : /\ Own[i].name \notin DOMAIN attempt.registry
                            /\ \A j \in 1 .. i - 1 : Own[i].name # Own[j].name
  BY DEF RG!Clashes
<1>4. \A i, j \in DOMAIN Own : Own[i].name = Own[j].name => i = j
  <2> SUFFICES ASSUME NEW i \in DOMAIN Own, NEW j \in DOMAIN Own, Own[i].name = Own[j].name PROVE i = j
    OBVIOUS
  <2>1. i \in Nat \ {0} /\ j \in Nat \ {0} BY <1>2
  <2>2. i \notin 1 .. j - 1 /\ j \notin 1 .. i - 1 BY <1>3
  <2> QED BY <2>1, <2>2
<1> QED BY <1>3, <1>4 DEF RG!ToSet, NamedApart

LEMMA OwnIsDeclared ==
  ASSUME RG!RegistrationAssumption, RegType, attempt.phase = "register", attempt.todo # <<>>,
         UNCHANGED <<configurations, environment, accepted, late>>, attempt'.todo = Tail(attempt.todo)
  PROVE  DeclaredBy(Handled)' = DeclaredBy(Handled) \cup RG!ToSet(Own)
<1> DEFINE c == Head(attempt.todo)
<1>1. AttemptOK /\ RG!Applying BY Underway DEF RG!Applying
<1>2. Handled' = Handled \cup {c} /\ c \in configurations BY <1>1, OneMoreHandled
<1>3. RG!Holding' = RG!Holding BY DEF RG!Holding, RG!Holds
<1>4. DeclaredBy(Handled)' = accepted \cup late \cup UNION {RG!ToSet(x.definitions) : x \in RG!Holding \cap (Handled \cup {c})}
  BY <1>2, <1>3 DEF DeclaredBy, RG!ToSet
<1>5. CASE RG!Holds(c) BY <1>2, <1>4, <1>5 DEF DeclaredBy, RG!Holding, Own
<1>6. CASE ~RG!Holds(c)
  <2>1. RG!ToSet(<<>>) = {} BY EmptySeq DEF RG!ToSet
  <2> QED BY <1>4, <1>6, <2>1 DEF DeclaredBy, RG!Holding, Own
<1> QED BY <1>5, <1>6

\* After the last everything is declared.
LEMMA AllHandled ==
  ASSUME attempt.todo = <<>>
  PROVE  DeclaredBy(Handled) = RG!Declared
<1>1. RG!ToSet(<<>>) = {} BY EmptySeq DEF RG!ToSet
<1>2. Handled = configurations BY <1>1 DEF Handled
<1>3. RG!Holding \cap Handled = RG!Holding BY <1>2 DEF RG!Holding
<1> QED BY <1>3 DEF DeclaredBy, RG!Declared

\* Lookups change nothing of this.
LEMMA RefreshRests ==
  ASSUME RefreshInv, UNCHANGED <<registry, configurations, environment, attempt, attempts, kept, runtime, accepted, late>>
  PROVE  RefreshInv'
<1>1. BuiltRight' /\ FailedRight' BY RightStays DEF RefreshInv
<1>2. DeclaredBy(Handled)' = DeclaredBy(Handled)
  <2>1. Handled' = Handled BY DEF Handled, RG!ToSet
  <2>2. RG!Holding' = RG!Holding BY DEF RG!Holding, RG!Holds
  <2> QED BY <2>1, <2>2 DEF DeclaredBy, RG!ToSet
<1>3. Handled' = Handled BY DEF Handled, RG!ToSet
<1>4. (attempt.phase = "register" => Represents(attempt.registry, DeclaredBy(Handled)))'
  BY <1>2 DEF RefreshInv, Represents
<1>5. (runtime = RG!Unbuilt => Represents(registry, accepted))' BY DEF RefreshInv, Represents
<1>6. (attempt.phase = "environment" => late = {} /\ Represents(attempt.registry, accepted))'
  BY DEF RefreshInv, Represents
<1> QED BY <1>1, <1>3, <1>4, <1>5, <1>6 DEF RefreshInv

\* Each step keeps to what was declared.
LEMMA RefreshSteps ==
  ASSUME RG!RegistrationAssumption, RegType, RefreshInv, RG!Next
  PROVE  RefreshInv'
<1>1. ASSUME NEW d \in Definitions, RG!RegisterDefinition(d) PROVE RefreshInv'
  <2>1. /\ registry' = RG!With(registry, {d}) /\ accepted' = accepted \cup {d} /\ d.name \notin DOMAIN registry
        /\ attempt = RG!None /\ runtime = RG!Unbuilt
        /\ UNCHANGED <<configurations, environment, attempt, attempts, kept, runtime, late>>
    BY <1>1 DEF RG!RegisterDefinition, RG!Refreshing, RG!Refreshed
  <2>2. attempt.phase = "none" BY <2>1, NoAttempt
  <2>3. Represents(registry', accepted')
    <3>1. Represents(registry, accepted) BY <2>1 DEF RefreshInv
    <3>2. accepted \in SUBSET Definitions BY DEF RegType
    <3>3. {d} \in SUBSET Definitions /\ NamedApart({d}) BY DEF NamedApart
    <3>4. \A e \in {d} : e.name \notin DOMAIN registry BY <2>1
    <3>5. Represents(RG!With(registry, {d}), accepted \cup {d}) BY <3>1, <3>2, <3>3, <3>4, MoreRepresented
    <3> QED BY <2>1, <3>5
  <2>4. (runtime = RG!Unbuilt => Represents(registry, accepted))' BY <2>3 DEF Represents
  <2>5. BuiltRight' /\ FailedRight' BY <2>1, <2>2 DEF BuiltRight, FailedRight
  <2> QED BY <2>1, <2>2, <2>4, <2>5 DEF RefreshInv
<1>2. ASSUME NEW c \in Configurations, RG!RegisterConfiguration(c) PROVE RefreshInv'
  <2>1. /\ attempt = RG!None
        /\ UNCHANGED <<registry, accepted, environment, attempt, attempts, kept, runtime, late>>
    BY <1>2 DEF RG!RegisterConfiguration, RG!Refreshing
  <2>2. attempt.phase = "none" BY <2>1, NoAttempt
  <2>3. (runtime = RG!Unbuilt => Represents(registry, accepted))' BY <2>1 DEF RefreshInv, Represents
  <2>4. BuiltRight' /\ FailedRight' BY <2>1, <2>2 DEF BuiltRight, FailedRight
  <2> QED BY <2>1, <2>2, <2>3, <2>4 DEF RefreshInv
<1>3. CASE RG!beginRefresh
  <2>1. /\ attempt' = [phase |-> "environment", registry |-> RG!cloneRegistry(registry),
                       todo |-> RG!sortConfigurations(configurations), err |-> "none"]
        /\ attempts' = attempts + 1 /\ late' = {} /\ attempt = RG!None /\ runtime = RG!Unbuilt
        /\ UNCHANGED <<configurations, registry, accepted, environment, kept, runtime>>
    BY <1>3 DEF RG!beginRefresh, RG!Refreshing, RG!Refreshed, RG!declared
  <2>2. attempt.phase = "none" BY <2>1, NoAttempt
  <2>3. Represents(RG!cloneRegistry(registry), accepted)
    <3>1. Represents(registry, accepted) /\ accepted \in SUBSET Definitions BY <2>1 DEF RefreshInv, RegType
    <3> QED BY <3>1, CopyRepresents DEF RG!cloneRegistry
  <2>4. attempt'.phase = "environment" /\ attempt'.registry = RG!cloneRegistry(registry) BY <2>1
  <2>5. Represents(attempt'.registry, accepted') BY <2>1, <2>3, <2>4
  <2>6. Represents(attempt.registry, accepted)' BY <2>5 DEF Represents
  <2>7. (runtime = RG!Unbuilt => Represents(registry, accepted))' BY <2>1 DEF RefreshInv, Represents
  <2>8. BuiltRight' /\ FailedRight' BY <2>4 DEF BuiltRight, FailedRight
  <2>9. attempts' \in Nat /\ attempts' # 0 BY <2>1 DEF RefreshInv
  <2>10. attempts' = 1 => environment'.sources = {} BY <2>1 DEF RefreshInv
  <2>11. kept' # "attempt" /\ kept' # "context" BY <2>1, <2>2 DEF RefreshInv
  <2> QED BY <2>1, <2>4, <2>6, <2>7, <2>8, <2>9, <2>10, <2>11 DEF RefreshInv
<1>4. CASE RG!ConfigureEnvironment
  <2> DEFINE c == Head(attempt.todo)
  <2>1. /\ attempt.phase = "environment" /\ attempt.todo # <<>>
        /\ UNCHANGED <<configurations, registry, accepted, attempts, kept, runtime, late>>
        /\ \/ c.source \in environment.sources /\ RG!Fail("source") /\ environment' = environment
           \/ /\ environment' = [sources |-> environment.sources \cup ({c.source} \ {RG!Absent}),
                                 profiles |-> environment.profiles \cup ({c.profile} \ {RG!Absent})]
              /\ attempt' = [attempt EXCEPT !.todo = Tail(@)]
    BY <1>4 DEF RG!ConfigureEnvironment, RG!declared
  <2>2. AttemptOK /\ RG!Applying BY <2>1, Underway DEF RG!Applying
  <2>3. c \in configurations \ Handled BY <2>1, <2>2, NextIsNew
  <2>4. attempts \in Nat \ {0} BY <2>1 DEF RefreshInv
  <2>5. CASE c.source \in environment.sources /\ RG!Fail("source") /\ environment' = environment
    <3>1. AddedTwice
      <4>1. CASE attempts > 1 BY <4>1 DEF AddedTwice
      <4>2. CASE attempts = 1
        <5>1. PICK x \in Handled : x.source = c.source BY <2>1, <2>5, <4>2 DEF RefreshInv
        <5>2. c.source # RG!Absent BY <2>5 DEF RefreshInv
        <5>3. x \in configurations /\ x # c BY <2>3 DEF Handled
        <5> QED BY <2>3, <5>1, <5>2, <5>3 DEF AddedTwice
      <4> QED BY <2>4, <4>1, <4>2
    <3> QED BY <2>1, <2>2, <2>4, <2>5, <3>1, FailsRightly
  <2>6. CASE /\ environment' = [sources |-> environment.sources \cup ({c.source} \ {RG!Absent}),
                                profiles |-> environment.profiles \cup ({c.profile} \ {RG!Absent})]
             /\ attempt' = [attempt EXCEPT !.todo = Tail(@)]
    <3>1. /\ attempt'.phase = "environment" /\ attempt'.registry = attempt.registry
          /\ attempt'.todo = Tail(attempt.todo)
      BY <2>1, <2>2, <2>6 DEF AttemptOK
    <3>2. Handled' = Handled \cup {c} BY <2>1, <2>2, <3>1, OneMoreHandled
    <3>3. environment'.sources = environment.sources \cup ({c.source} \ {RG!Absent}) BY <2>6
    <3>4. Represents(attempt.registry, accepted)' BY <2>1, <3>1 DEF RefreshInv, Represents
    <3>5. (runtime = RG!Unbuilt => Represents(registry, accepted))' BY <2>1 DEF RefreshInv, Represents
    <3>6. attempts = 1 => environment'.sources \subseteq {x.source : x \in Handled'}
      <4> HIDE DEF c
      <4>1. attempts = 1 => environment.sources \subseteq {x.source : x \in Handled} BY <2>1 DEF RefreshInv
      <4> QED BY <3>2, <3>3, <4>1
    <3>7. BuiltRight' /\ FailedRight' BY <3>1 DEF BuiltRight, FailedRight
    <3>8. RG!Absent \notin environment'.sources BY <3>3 DEF RefreshInv
    <3> QED BY <2>1, <2>4, <3>1, <3>4, <3>5, <3>6, <3>7, <3>8 DEF RefreshInv
  <2> QED BY <2>1, <2>5, <2>6
<1>5. CASE RG!EndOfEnvironment
  <2>1. /\ attempt.phase = "environment"
        /\ attempt' = [attempt EXCEPT !.phase = "register", !.todo = RG!sortConfigurations(configurations)]
        /\ UNCHANGED <<configurations, registry, accepted, environment, attempts, kept, runtime, late>>
    BY <1>5 DEF RG!EndOfEnvironment, RG!declared
  <2>2. AttemptOK BY <2>1, Underway
  <2>3. /\ attempt'.phase = "register" /\ attempt'.registry = attempt.registry
        /\ attempt'.todo = RG!sortConfigurations(configurations)
    BY <2>1, <2>2 DEF AttemptOK
  <2>4. Listing(attempt'.todo, configurations) BY <2>3, ToApply
  <2>5. DeclaredBy(Handled)' = accepted
    <3>1. Handled' = {} BY <2>1, <2>4 DEF Handled, Listing, RG!ToSet
    <3>2. late' = {} BY <2>1 DEF RefreshInv
    <3> QED BY <2>1, <3>1, <3>2 DEF DeclaredBy
  <2>6. Represents(attempt.registry, DeclaredBy(Handled))'
    <3>1. Represents(attempt'.registry, accepted) BY <2>1, <2>3 DEF RefreshInv
    <3> QED BY <2>5, <3>1 DEF Represents
  <2>7. (runtime = RG!Unbuilt => Represents(registry, accepted))' BY <2>1 DEF RefreshInv, Represents
  <2>8. BuiltRight' /\ FailedRight' BY <2>3 DEF BuiltRight, FailedRight
  <2>9. attempts # 0 BY <2>1 DEF RefreshInv
  <2> QED BY <2>1, <2>3, <2>6, <2>7, <2>8, <2>9 DEF RefreshInv
<1>6. CASE RG!Register
  <2>1. /\ attempt.phase = "register" /\ attempt.todo # <<>> /\ kept' \in {kept, "attempt"}
        /\ UNCHANGED <<configurations, registry, accepted, environment, attempts, runtime, late>>
    BY <1>6, RegisterIs DEF RG!declared
  <2>2. AttemptOK BY <2>1, Underway
  <2>3. attempts # 0 BY <2>1 DEF RefreshInv
  <2>4. Represents(attempt.registry, DeclaredBy(Handled)) BY <2>1 DEF RefreshInv
  <2>5. CASE RG!Clashes(Own) /\ RG!Fail("clash")
    <3>1. TwoDeclare BY <2>1, <2>4, <2>5, ClashIsTwoDeclare DEF TwoDeclare
    <3> QED BY <2>1, <2>2, <2>3, <2>5, <3>1, FailsRightly
  <2>6. CASE ~RG!Clashes(Own) /\ attempt' = [attempt EXCEPT !.registry = RG!With(@, RG!ToSet(Own)), !.todo = Tail(@)]
    <3>1. /\ attempt'.phase = "register" /\ attempt'.registry = RG!With(attempt.registry, RG!ToSet(Own))
          /\ attempt'.todo = Tail(attempt.todo)
      BY <2>1, <2>2, <2>6 DEF AttemptOK
    <3>2. DeclaredBy(Handled)' = DeclaredBy(Handled) \cup RG!ToSet(Own) BY <2>1, <3>1, OwnIsDeclared
    <3>3. /\ \A d \in RG!ToSet(Own) : d.name \notin DOMAIN attempt.registry
          /\ NamedApart(RG!ToSet(Own))
      BY <2>1, <2>6, OwnIsNew
    <3>4. RG!ToSet(Own) \in SUBSET Definitions BY <2>1, <2>2, OwnIs DEF RG!Applying
    <3>5. DeclaredBy(Handled) \in SUBSET Definitions BY DeclaredType
    <3>6. Represents(attempt'.registry, DeclaredBy(Handled) \cup RG!ToSet(Own))
      BY <2>4, <3>1, <3>3, <3>4, <3>5, MoreRepresented
    <3>7. Represents(attempt.registry, DeclaredBy(Handled))' BY <3>2, <3>6 DEF Represents
    <3>8. (runtime = RG!Unbuilt => Represents(registry, accepted))' BY <2>1 DEF RefreshInv, Represents
    <3>9. BuiltRight' /\ FailedRight' BY <3>1 DEF BuiltRight, FailedRight
    <3> QED BY <2>1, <2>3, <3>1, <3>7, <3>8, <3>9 DEF RefreshInv
  <2> QED BY <1>6, <2>5, <2>6, RegisterIs
<1>7. CASE RG!Fault
  <2>1. /\ attempt.phase \in {"environment", "register", "initialize"} /\ RG!Fail("fault")
        /\ UNCHANGED <<configurations, registry, accepted, environment, attempts, kept, runtime, late>>
    BY <1>7 DEF RG!Fault, RG!declared, RG!Applying
  <2>2. AttemptOK /\ attempts # 0 BY <2>1, Underway DEF RefreshInv
  <2> QED BY <2>1, <2>2, FailsRightly
<1>8. CASE RG!New
  <2> DEFINE definitions == [n \in DOMAIN attempt.registry |-> RG!normalized(attempt.registry[n])]
  <2>1. /\ attempt.phase = "register" /\ attempt.todo = <<>>
        /\ UNCHANGED <<configurations, registry, accepted, environment, attempts, kept, runtime, late>>
    BY <1>8, NewIs DEF RG!declared
  <2>2. AttemptOK /\ attempts # 0 BY <2>1, Underway DEF RefreshInv
  <2>3. (RG!Missing(definitions) /\ RG!Fail("missing")) \/ \E o \in RG!StartupOrders(definitions) :
               attempt' = [phase |-> "initialize", registry |-> attempt.registry, err |-> "none",
                           built |-> [definitions |-> definitions, order |-> o]]
    BY <1>8, NewIs, Zenon
  <2>4. Represents(definitions, RG!Declared) /\ \A d \in RG!Declared : definitions[d.name] = RG!normalized(d)
    <3>1. DeclaredBy(Handled) = RG!Declared BY <2>1, AllHandled
    <3>2. Represents(attempt.registry, RG!Declared) BY <2>1, <3>1 DEF RefreshInv
    <3>3. RG!Declared \in SUBSET Definitions BY <3>1, DeclaredType
    <3> QED BY <3>2, <3>3, CopyRepresents
  <2> HIDE DEF definitions
  <2>5. DOMAIN definitions = {d.name : d \in RG!Declared} BY <2>4 DEF Represents
  <2>6. CASE RG!Missing(definitions) /\ RG!Fail("missing")
    <3>1. PICK n \in DOMAIN definitions : \E e \in definitions[n].descriptors : ~e.optional /\ e.name \notin DOMAIN definitions
      BY <2>6 DEF RG!Missing
    <3>2. PICK d \in RG!Declared : d.name = n BY <2>5
    <3>3. definitions[n] = RG!normalized(d) BY <2>4, <3>2
    <3>4. NoOneDeclares BY <2>5, <3>1, <3>2, <3>3 DEF NoOneDeclares
    <3> QED BY <2>1, <2>2, <2>6, <3>4, FailsRightly
  <2>7. CASE \E o \in RG!StartupOrders(definitions) :
               attempt' = [phase |-> "initialize", registry |-> attempt.registry, err |-> "none",
                           built |-> [definitions |-> definitions, order |-> o]]
    <3>1. attempt'.phase = "initialize" /\ attempt'.built.definitions = definitions BY <2>7
    <3>2. RG!Declared' = RG!Declared BY <2>1, DeclaredStays
    <3>3. BuiltRight' BY <2>4, <2>5, <3>1, <3>2 DEF BuiltRight
    <3>4. FailedRight' BY <3>1 DEF FailedRight
    <3>5. (runtime = RG!Unbuilt => Represents(registry, accepted))' BY <2>1 DEF RefreshInv, Represents
    <3> QED BY <2>1, <2>2, <3>1, <3>3, <3>4, <3>5 DEF RefreshInv
  <2> QED BY <2>3, <2>6, <2>7
<1>9. CASE RG!finishRefresh
  <2>1. /\ attempt.phase \in {"initialize", "failed"} /\ attempt' = RG!None
        /\ UNCHANGED <<configurations, accepted, environment, attempts, late>>
        /\ \/ /\ attempt.phase = "failed" /\ UNCHANGED <<registry, runtime>>
              /\ kept' = IF kept = "attempt" THEN "lost" ELSE kept
           \/ /\ attempt.phase = "initialize" /\ runtime' = attempt.built
              /\ kept' = IF kept = "attempt" THEN "context" ELSE kept
    BY <1>9 DEF RG!finishRefresh
  <2>2. AttemptOK /\ attempts # 0 BY <2>1, Underway DEF RefreshInv
  <2>3. attempt'.phase = "none" BY <2>1, NoAttempt
  <2>4. runtime' = RG!Unbuilt => attempt.phase = "failed" BY <2>1, <2>2 DEF AttemptOK, Built
  <2>5. (runtime = RG!Unbuilt => Represents(registry, accepted))' BY <2>1, <2>2, <2>4 DEF RefreshInv, Represents
  <2>6. BuiltRight' /\ FailedRight' BY <2>3 DEF BuiltRight, FailedRight
  <2>7. kept' # "attempt" /\ (kept' = "context" => runtime' # RG!Unbuilt)
    <3>1. kept = "context" => runtime # RG!Unbuilt BY DEF RefreshInv
    <3> QED BY <2>1, <2>4, <3>1
  <2> QED BY <2>1, <2>2, <2>3, <2>5, <2>6, <2>7 DEF RefreshInv
<1>10. ASSUME NEW d \in Definitions, RG!LateRegister(d) PROVE RefreshInv'
  <2>1. UNCHANGED <<configurations, accepted, environment, attempts, kept, runtime>> BY <1>10 DEF RG!LateRegister
  <2>2. CASE kept = "attempt"
    <3>1. /\ d.name \notin DOMAIN attempt.registry /\ attempt' = [attempt EXCEPT !.registry = RG!With(@, {d})]
          /\ late' = (IF RG!Applying THEN late \cup {d} ELSE late) /\ registry' = registry
      BY <1>10, <2>2 DEF RG!LateRegister
    <3>2. attempt.phase \in {"register", "initialize", "failed"} BY <2>2 DEF RefreshInv
    <3>3. AttemptOK /\ attempts # 0 BY <3>2, Underway DEF RefreshInv
    <3>4. /\ attempt'.phase = attempt.phase /\ attempt'.registry = RG!With(attempt.registry, {d})
          /\ attempt'.todo = attempt.todo /\ attempt'.built = attempt.built /\ attempt'.err = attempt.err
      BY <3>1, <3>3 DEF AttemptOK
    <3>5. (runtime = RG!Unbuilt => Represents(registry, accepted))' BY <2>1, <3>1 DEF RefreshInv, Represents
    <3>6. CASE attempt.phase = "register"
      <4>1. late' = late \cup {d} BY <3>1, <3>6 DEF RG!Applying
      <4>2. DeclaredBy(Handled)' = DeclaredBy(Handled) \cup {d}
        <5>1. Handled' = Handled BY <2>1, <3>4 DEF Handled, RG!ToSet
        <5>2. RG!Holding' = RG!Holding BY <2>1 DEF RG!Holding, RG!Holds
        <5> QED BY <2>1, <4>1, <5>1, <5>2 DEF DeclaredBy, RG!ToSet
      <4>3. Represents(attempt'.registry, DeclaredBy(Handled) \cup {d})
        <5>1. Represents(attempt.registry, DeclaredBy(Handled)) BY <3>6 DEF RefreshInv
        <5>2. DeclaredBy(Handled) \in SUBSET Definitions BY DeclaredType
        <5>3. {d} \in SUBSET Definitions /\ NamedApart({d}) BY DEF NamedApart
        <5>4. \A e \in {d} : e.name \notin DOMAIN attempt.registry BY <3>1
        <5> QED BY <3>4, <5>1, <5>2, <5>3, <5>4, MoreRepresented
      <4>4. Represents(attempt.registry, DeclaredBy(Handled))' BY <4>2, <4>3 DEF Represents
      <4>5. BuiltRight' /\ FailedRight' BY <3>4, <3>6 DEF BuiltRight, FailedRight
      <4> QED BY <2>1, <2>2, <3>3, <3>4, <3>5, <3>6, <4>4, <4>5 DEF RefreshInv
    <3>7. CASE attempt.phase # "register"
      <4>1. late' = late BY <3>1, <3>2, <3>7 DEF RG!Applying
      <4>2. BuiltRight' /\ FailedRight' BY <2>1, <3>4, <4>1, RightStays DEF RefreshInv
      <4> QED BY <2>1, <2>2, <3>2, <3>3, <3>4, <3>5, <3>7, <4>2 DEF RefreshInv
    <3> QED BY <3>6, <3>7
  <2>3. CASE kept = "context"
    <3>1. UNCHANGED <<attempt, late>> BY <1>10, <2>3 DEF RG!LateRegister
    <3>2. runtime # RG!Unbuilt BY <2>3 DEF RefreshInv
    <3>3. attempt.phase = "none" BY <3>2, NoAttempt DEF RegType, AttemptOK
    <3>4. BuiltRight' /\ FailedRight' BY <3>1, <3>3 DEF BuiltRight, FailedRight
    <3> QED BY <2>1, <3>1, <3>2, <3>3, <3>4 DEF RefreshInv
  <2> QED BY <1>10, <2>2, <2>3 DEF RG!LateRegister
<1>11. ASSUME NEW r \in Readers, RG!Ask(r) \/ RG!scanMatchingNames(r) \/ RG!cacheTypeIndex(r) PROVE RefreshInv'
  BY <1>11, RefreshRests DEF RG!Ask, RG!scanMatchingNames, RG!cacheTypeIndex, RG!Rest, RG!declared
<1> QED BY <1>1, <1>2, <1>3, <1>4, <1>5, <1>6, <1>7, <1>8, <1>9, <1>10, <1>11 DEF RG!Next

\* No declaration, no attempt and no container is where it begins.
LEMMA NothingDeclared ==
  ASSUME StartupInit
  PROVE  RegType /\ LookupInv /\ RefreshInv
<1>1. /\ registry = <<>> /\ configurations = {} /\ accepted = {} /\ late = {}
      /\ environment = [sources |-> {}, profiles |-> {}]
      /\ attempt = RG!None /\ attempts = 0 /\ kept = "none"
      /\ runtime = RG!Unbuilt /\ typeIndex = <<>>
      /\ reader = [r \in Readers |-> RG!Idle]
  BY DEF StartupInit, RG!Init
<1>2. attempt.phase = "none" BY <1>1, NoAttempt
<1>3. DOMAIN (<<>>) = {} BY EmptySeq
<1>4. RegType BY <1>1, <1>3 DEF RegType, NamedApart, Known
<1>5. LookupInv BY <1>1, <1>3 DEF LookupInv, IndexOK, ReaderOK, RG!Idle
<1>6. Represents(registry, accepted) BY <1>1, <1>3 DEF Represents
<1>7. RefreshInv
  <2>1. environment.sources = {} BY <1>1
  <2> QED BY <1>1, <1>2, <1>6, <2>1 DEF RefreshInv, BuiltRight, FailedRight
<1> QED BY <1>4, <1>5, <1>7

\* Every step of the program keeps what is known of registration.
LEMMA RegistrationMoves ==
  ASSUME RG!RegistrationAssumption, RegType, LookupInv, RefreshInv, [StartupNext]_startupVars
  PROVE  RegType' /\ LookupInv' /\ RefreshInv'
<1>1. CASE RG!Next BY <1>1, TypeSteps, LookupSteps, RefreshSteps
<1>2. CASE UNCHANGED registrationVars
  <2>1. UNCHANGED <<registry, configurations, environment, attempt, attempts, kept, runtime, typeIndex, reader, accepted, late>>
    BY <1>2 DEF registrationVars
  <2>2. RegType'
    <3>1. AttemptOK => AttemptOK' BY <2>1 DEF AttemptOK, Built, RG!StartupOrders, RG!Applying
    <3>2. (runtime = RG!Unbuilt \/ Built(runtime))' BY <2>1 DEF RegType, Built, RG!StartupOrders
    <3> QED BY <2>1, <3>1, <3>2 DEF RegType
  <2>3. LookupInv'
    <3>1. IndexOK' BY <2>1 DEF LookupInv, IndexOK
    <3>2. \A r \in Readers : ReaderOK(r)' BY <2>1, LookupRests DEF LookupInv
    <3> QED BY <2>1, <3>1, <3>2 DEF LookupInv
  <2>4. RefreshInv' BY <2>1, RefreshRests
  <2> QED BY <2>2, <2>3, <2>4
<1> QED BY <1>1, <1>2 DEF StartupNext, Registering, Hooks, Graph, Events, startupVars

\* What a Refresh builds is every definition a caller registered or a configuration
\* that holds declares, each as it was declared, and no other, whatever earlier
\* attempts failed at and whoever registers through a registry that was kept; and a
\* Refresh that fails has a reason among them or in user code
\* (context/refresh_part1.go: cloneRegistry, finishRefresh), whatever is declared.
THEOREM WhatIsDeclaredIsBuilt == StartupSpec => []DeclaredIsBuilt
<1>1. RG!RegistrationAssumption BY StartupAssumption
<1>2. StartupInit => RegType /\ LookupInv /\ RefreshInv BY NothingDeclared
<1>3. RegType /\ LookupInv /\ RefreshInv /\ [StartupNext]_startupVars => RegType' /\ LookupInv' /\ RefreshInv'
  BY <1>1, RegistrationMoves
<1>4. RefreshInv => DeclaredIsBuilt BY RefreshIsRight
<1> QED BY <1>2, <1>3, <1>4, PTL DEF StartupSpec

\* A lookup of one bean by type finds the one that beats all others, or fails when
\* there is none; a lookup of all finds each once, the singletons as they started;
\* whichever readers scan and store at the same time (container/type_index.go).
THEOREM LookupIsExact == StartupSpec => []SelectionIsTheBest
<1>1. RG!RegistrationAssumption BY StartupAssumption
<1>2. StartupInit => RegType /\ LookupInv /\ RefreshInv BY NothingDeclared
<1>3. RegType /\ LookupInv /\ RefreshInv /\ [StartupNext]_startupVars => RegType' /\ LookupInv' /\ RefreshInv'
  BY <1>1, RegistrationMoves
<1>4. LookupInv => SelectionIsTheBest BY LookupIsBest
<1> QED BY <1>2, <1>3, <1>4, PTL DEF StartupSpec
=============================================================================
