----------------------------- MODULE HookOrder -----------------------------
(***************************************************************************)
(* The order in which lifecycle.Manager drives its hooks: lessHook, and    *)
(* what dependencySortedHooks promises to return for a set of registered   *)
(* hooks.  The sort itself, loop by loop, is in module RuntimeHooks.       *)
(***************************************************************************)
EXTENDS Integers, FiniteSets, Sequences, Functions

CONSTANTS
  Hook,      \* names of the hooks a program may register
  Meta       \* Meta[h] = [priority, order, name]: what lessHook compares

\* A hook name is the key of Manager.hooks and the tie-breaker of lessHook, so
\* no two hooks share one.
HookAssumption ==
  /\ IsFiniteSet(Hook)
  /\ Meta \in [Hook -> [priority: BOOLEAN, order: Int, name: Int]]
  /\ \A g, h \in Hook : Meta[g].name = Meta[h].name => g = h

\* lessHook: a priority hook first, then the smaller order, then the name.
LessHook(g, h) ==
  LET a == Meta[g]
      b == Meta[h]
  IN  IF a.priority # b.priority THEN a.priority
      ELSE IF a.order = b.order  THEN a.name < b.name
      ELSE a.order < b.order

\* Dependencies that count: a name no registered hook has is skipped.
DepsIn(H, deps, h) == deps[h] \cap H

\* Of any hooks of H, one depends on none of the others, nor on itself.
Acyclic(H, deps) == \A S \in (SUBSET H) \ {{}} : \E h \in S : deps[h] \cap S = {}

\* The hooks whose in-degree has reached zero once the hooks in done are out.
ReadyHooks(H, deps, done) == {h \in H \ done : DepsIn(H, deps, h) \subseteq done}

IsLeast(h, S) == h \in S /\ \A g \in S \ {h} : LessHook(h, g)

\* What D demands of an element is in base or stands earlier in s.
Layered(D, base, s) ==
  \A i \in DOMAIN s : D[s[i]] \subseteq base \cup {s[j] : j \in 1 .. (i - 1)}

\* s lists each hook of H once, and every position holds the least of the
\* hooks that were ready there.
IsStartOrder(s, H, deps) ==
  /\ Range(s) = H
  /\ IsInjective(s)
  /\ \A i \in DOMAIN s :
       IsLeast(s[i], ReadyHooks(H, deps, {s[j] : j \in 1 .. (i - 1)}))

\* The result of sortedHooks: one sequence, or none when the dependencies of
\* the registered hooks have a cycle.
StartOrders(H, deps) ==
  {s \in [1 .. Cardinality(H) -> H] : IsStartOrder(s, H, deps)}
=============================================================================
