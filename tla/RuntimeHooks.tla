---------------------------- MODULE RuntimeHooks ----------------------------
(***************************************************************************)
(* From beans to the order of the lifecycle: registerRuntimeHooks chooses  *)
(* which singletons become hooks of the manager and which of their         *)
(* declared dependencies stay as DependsOn; the manager then sorts them    *)
(* with dependencySortedHooks, one turn of its loop per step.  Hooks       *)
(* registered by hand on a manager of their own keep any DependsOn they    *)
(* are given, cyclic ones and names that are not registered included.  The *)
(* ready list, which the code keeps sorted by lessHook, is the set of its  *)
(* members: its head is the least of them.                                 *)
(***************************************************************************)
EXTENDS HookOrder, SequencesExt

Bean == Hook     \* any bean may become a hook

VARIABLES
  needs,      \* DependencyDescriptors: the beans each bean declares to need
  phase,      \* "filter", "cycles" and "registered", or "byHand"
  hooks,      \* the names passed to sortedHooks
  deps,       \* their DependsOn
  inDegree,   \* unemitted dependencies of each hook, as the code counts them
  ready,      \* hooks waiting with in-degree zero
  sorted,     \* the result so far
  result      \* "none", "looping", then "sorted" or "circular"

sortVars == <<inDegree, ready, sorted, result>>
vars == <<hooks, deps, sortVars>>
runtimeVars == <<vars, needs, phase>>

Emitted == Range(sorted)
Dependents(h) == {g \in hooks : h \in deps[g]}

Unsorted ==
  /\ inDegree = [h \in Hook |-> 0]
  /\ ready = {}
  /\ sorted = <<>>
  /\ result = "none"

Init ==
  /\ hooks \in SUBSET Hook
  /\ deps \in {d \in [Hook -> SUBSET Hook] : \A h \in Hook \ hooks : d[h] = {}}
  /\ Unsorted

\* What is done before the loop.
Count ==
  /\ result = "none"
  /\ inDegree' = [h \in Hook |-> Cardinality(DepsIn(hooks, deps, h))]
  /\ ready' = {h \in hooks : inDegree'[h] = 0}
  /\ result' = "looping"
  /\ UNCHANGED <<hooks, deps, sorted>>

Due(degree) == degree <= 0

IsFirst(h) == IsLeast(h, ready)

\* One turn of the loop: the first ready hook goes out, and those that waited
\* for it alone become ready.
Emit(h) ==
  /\ result = "looping"
  /\ Len(sorted) < Cardinality(hooks)
  /\ IsFirst(h)
  /\ sorted' = Append(sorted, h)
  /\ LET freed == Dependents(h) \ (Emitted \cup {h})
         degree == [g \in Hook |-> inDegree[g] - (IF g \in freed THEN 1 ELSE 0)]
     IN  /\ inDegree' = degree
         /\ ready' = (ready \ {h}) \cup {g \in freed : Due(degree[g])}
  /\ UNCHANGED <<hooks, deps, result>>

Circular ==
  /\ result = "looping"
  /\ Len(sorted) < Cardinality(hooks)
  /\ ready = {}
  /\ result' = "circular"
  /\ UNCHANGED <<hooks, deps, inDegree, ready, sorted>>

Finish ==
  /\ result = "looping"
  /\ Len(sorted) = Cardinality(hooks)
  /\ result' = "sorted"
  /\ UNCHANGED <<hooks, deps, inDegree, ready, sorted>>

Sort == Count \/ (\E h \in Hook : Emit(h)) \/ Circular \/ Finish
-----------------------------------------------------------------------------
\* hooks are the singletons that are managed and have Start, Stop or Close;
\* a bean that is no hook may stand between two that are.
RuntimeInit ==
  \/ /\ phase = "filter"
     /\ needs \in [Bean -> SUBSET Bean]
     /\ hooks \in (SUBSET Hook) \ {{}}
     /\ deps = [h \in Hook |-> {}]
     /\ Unsorted
  \/ /\ phase = "byHand"
     /\ needs = [b \in Bean |-> {}]
     /\ Init

\* The beans that paths of d lead to from x: the least set that has what d
\* gives x and what it gives its own members.
Reached(d, x) ==
  {y \in Bean : \A S \in SUBSET Bean :
     d[x] \subseteq S /\ (\A z \in S : d[z] \subseteq S) => y \in S}

\* runtimeHookDependencies: only what is itself a hook is kept.
Filter ==
  /\ phase = "filter"
  /\ deps' = [h \in Hook |-> IF h \in hooks THEN needs[h] \cap hooks ELSE {}]
  /\ phase' = "cycles"
  /\ UNCHANGED <<hooks, sortVars, needs>>

\* Mutant: a hook on a cycle loses all that it depends on.
OnCycle(x, y) == x \in Reached(deps, x)

\* runtimeHookDependencyComponents: x and y reach each other through hooks.
InCycle(x, y) == x = y \/ (y \in Reached(deps, x) /\ x \in Reached(deps, y))

\* removeCyclicRuntimeHookDependencies drops what lies inside a component.
DropCycles ==
  /\ phase = "cycles"
  /\ deps' = [x \in Hook |-> {y \in deps[x] : ~ InCycle(x, y)}]
  /\ phase' = "registered"
  /\ UNCHANGED <<hooks, sortVars, needs>>

\* manager.Start and manager.Close sort what was registered.
SortHooks ==
  /\ phase \in {"registered", "byHand"}
  /\ Sort
  /\ UNCHANGED <<needs, phase>>

RuntimeNext == Filter \/ DropCycles \/ SortHooks

RuntimeSpec == RuntimeInit /\ [][RuntimeNext]_runtimeVars
-----------------------------------------------------------------------------
\* What Manager relies on: a sorted result is the start order of the hooks, and
\* the only one, so two calls with the same hooks never disagree; an error means
\* a real cycle: some hooks left over each need one another, and no order exists.
SortedIsTheOrder ==
  /\ result = "sorted" => StartOrders(hooks, deps) = {sorted}
  /\ result = "circular" =>
       /\ StartOrders(hooks, deps) = {}
       /\ \E C \in (SUBSET (hooks \ Emitted)) \ {{}} :
            \A h \in C : DepsIn(hooks, deps, h) \cap C # {}

StartsBefore(x, y) ==
  \E i, j \in DOMAIN sorted : sorted[i] = x /\ sorted[j] = y /\ i < j

\* A context never registers hooks that its manager could then neither start
\* nor close: whatever cycles the beans have, an order exists.  And breaking a
\* cycle costs only the dependencies inside it: a hook starts after,
\* and closes before, each hook it declares and is not in a cycle with.
AlwaysStartable ==
  /\ phase = "registered" => result # "circular"
  /\ phase = "registered" /\ result = "sorted" =>
       \A x \in hooks : \A y \in needs[x] \cap hooks :
         x \notin Reached(needs, y) => StartsBefore(y, x)

\* Start, Stop and Close agree: what is sorted is sorted into the one order there
\* is, and that order is the one beans declare (refresh_part2.go:
\* registerRuntimeHooks; executor_part1.go: sortedHooks).
HooksRunAsDeclared == SortedIsTheOrder /\ AlwaysStartable

\* Every declared dependency takes part in the lifecycle order, whatever beans
\* lie on the way (docs/goark-annotations-v1.md, generation rules).
NeedsInOrder ==
  phase = "registered" /\ result = "sorted" =>
    \A x, y \in hooks :
      y \in Reached(needs, x) /\ x \notin Reached(needs, y) => StartsBefore(y, x)
=============================================================================
