-------------------------- MODULE DependencyGraph --------------------------
(***************************************************************************)
(* What container.New makes of the declared dependencies: Tarjan's search  *)
(* for the strongly connected components, the refusal of cycles that early *)
(* singletons cannot resolve, and the startup order of the singletons.     *)
(* Beans are numbered in the order of their names.                         *)
(***************************************************************************)
EXTENDS Integers, FiniteSetsExt, SequencesExt

CONSTANTS
  N,             \* beans are 1 .. N
  Prototypes,    \* beans that are not singletons
  Injectors,     \* beans with a DependencyInjector
  Order,         \* Definition.Order
  AllowCircular

Bean == 1 .. N

GraphAssumption ==
  /\ N \in Nat
  /\ Prototypes \subseteq Bean /\ Injectors \subseteq Bean
  /\ Order \in [Bean -> Int]
  /\ AllowCircular \in BOOLEAN

VARIABLES
  edges,        \* the kind of dependency of each pair, "none" where there is none
  indices, lowlink, onStack, index,   \* the search: -1 marks an unvisited bean
  frames,       \* its recursion: a bean and the targets it has still to follow
  components,   \* the components found
  done,         \* components that computeStartupOrder has put out
  order,        \* the startup order so far
  result        \* "searching", then "ordering" and "ordered", or "circular"

searchVars == <<indices, lowlink, onStack, index, frames, components>>
vars == <<edges, searchVars, done, order, result>>

\* "fixed" stands for a factory or a depends-on dependency.
Kind == {"none", "injection", "fixed"}
Targets(x) == {y \in Bean : edges[x, y] # "none"}

Begin(graph) ==
  /\ edges = graph
  /\ indices = [x \in Bean |-> -1] /\ lowlink = [x \in Bean |-> -1]
  /\ onStack = <<>> /\ index = 0 /\ frames = <<>>
  /\ components = {} /\ done = {} /\ order = <<>>
  /\ result = "searching"
Init == \E graph \in [Bean \X Bean -> Kind] : Begin(graph)
-----------------------------------------------------------------------------
Visit(x, caller) ==
  /\ indices' = [indices EXCEPT ![x] = index]
  /\ lowlink' = [lowlink EXCEPT ![x] = index]
  /\ index' = index + 1
  /\ onStack' = Append(onStack, x)
  /\ frames' = Append(caller, [bean |-> x, left |-> Targets(x)])
  /\ UNCHANGED <<edges, components, done, order, result>>

\* The outer loop: strongConnect of the first name not visited.
Root ==
  /\ result = "searching" /\ frames = <<>>
  /\ \E x \in Bean : indices[x] = -1
  /\ Visit(Min({x \in Bean : indices[x] = -1}), <<>>)

\* strongConnect looks at the next target of its bean.
Follow ==
  /\ frames # <<>> /\ Last(frames).left # {}
  /\ LET x == Last(frames).bean
         y == Min(Last(frames).left)
         caller == Append(Front(frames), [Last(frames) EXCEPT !.left = @ \ {y}])
     IN  IF indices[y] = -1 THEN Visit(y, caller)
         ELSE /\ lowlink' = IF y \in Range(onStack) /\ indices[y] < lowlink[x]
                            THEN [lowlink EXCEPT ![x] = indices[y]] ELSE lowlink
              /\ frames' = caller
              /\ UNCHANGED <<edges, indices, onStack, index, components, done, order, result>>

\* strongConnect returns: a bean that reaches nothing older closes a component.
Leave ==
  /\ frames # <<>> /\ Last(frames).left = {}
  /\ LET x == Last(frames).bean
         above == Front(frames)
         at == CHOOSE i \in DOMAIN onStack : onStack[i] = x
     IN  /\ IF lowlink[x] = indices[x]
            THEN /\ components' = components \cup {{onStack[i] : i \in at .. Len(onStack)}}
                 /\ onStack' = SubSeq(onStack, 1, at - 1)
            ELSE UNCHANGED <<components, onStack>>
         /\ lowlink' = IF above # <<>> /\ lowlink[x] < lowlink[Last(above).bean]
                       THEN [lowlink EXCEPT ![Last(above).bean] = lowlink[x]] ELSE lowlink
         /\ frames' = above
  /\ UNCHANGED <<edges, indices, index, done, order, result>>

SearchDone == result = "searching" /\ frames = <<>> /\ \A x \in Bean : indices[x] # -1

-----------------------------------------------------------------------------
\* Mutant: a prototype with an injector passes for a singleton.
ResolvableByInjector(C) ==
  /\ AllowCircular
  /\ C \subseteq Injectors
  /\ \A x, y \in C : edges[x, y] # "fixed"

\* canResolveCircularComponent: singletons with injectors, tied by injection.
Resolvable(C) ==
  /\ AllowCircular
  /\ C \subseteq Injectors \ Prototypes
  /\ \A x, y \in C : edges[x, y] # "fixed"

Cyclic(C) == Cardinality(C) > 1 \/ \E x \in C : edges[x, x] # "none"

\* Mutant: the edges inside a component are not left out of its in-degree.
NeedsItself(C) == {D \in components : \E x \in C : Targets(x) \cap D # {}}

Needs(C) == {D \in components \ {C} : \E x \in C : Targets(x) \cap D # {}}
Ready == {C \in components \ done : Needs(C) \subseteq done}

\* validateDependencyGraph.
Validate ==
  /\ SearchDone
  /\ result' = IF \E C \in components : Cyclic(C) /\ ~ Resolvable(C)
               THEN "circular" ELSE "ordering"
  /\ UNCHANGED <<edges, searchVars, done, order>>

\* sortComponents: the smallest order in the component, then its first name.
ComponentOrder(C) == Min({Order[x] : x \in C})
Before(C, D) ==
  \/ ComponentOrder(C) < ComponentOrder(D)
  \/ ComponentOrder(C) = ComponentOrder(D) /\ Min(C) < Min(D)

\* The members of a component as sort.Strings leaves them.
ByName(S) ==
  CHOOSE s \in [1 .. Cardinality(S) -> S] : \A i, j \in DOMAIN s : i < j => s[i] < s[j]

\* One turn of the loop of computeStartupOrder: the first ready component goes
\* out, its singletons in the order of their names.
Emit ==
  /\ result = "ordering"
  /\ \E C \in Ready :
       /\ \A D \in Ready \ {C} : Before(C, D)
       /\ order' = order \o ByName(C \ Prototypes)
       /\ done' = done \cup {C}
  /\ UNCHANGED <<edges, searchVars, result>>

Finish ==
  /\ result = "ordering"
  /\ Ready = {}
  /\ result' = "ordered"
  /\ UNCHANGED <<edges, searchVars, done, order>>

Next == Root \/ Follow \/ Leave \/ Validate \/ Emit \/ Finish

Spec == Init /\ [][Next]_vars
-----------------------------------------------------------------------------
\* Reference: the pairs of beans joined by a path of at least one edge, which
\* leads from the first into every set that no edge leaves and that has all its
\* targets.
Reach ==
  {e \in Bean \X Bean : \A S \in SUBSET Bean :
     Targets(e[1]) \subseteq S /\ (\A x \in S : Targets(x) \subseteq S) => e[2] \in S}

Mutual(x, y) == x = y \/ (<<x, y>> \in Reach /\ <<y, x>> \in Reach)

\* A container is refused exactly when some cycle has an edge or a bean that an
\* early singleton cannot stand in for: circular references switched off, a
\* factory or depends-on edge, a prototype, a bean without injector.
RefusedIffUnresolvable ==
  LET onCycle == {e \in Reach : e \in DOMAIN edges /\ edges[e] # "none"
                                 /\ <<e[2], e[1]>> \in Reach}
      fine(e) == AllowCircular /\ edges[e] = "injection"
                 /\ {e[1], e[2]} \subseteq Injectors \ Prototypes
  IN  /\ result = "circular" => \E e \in onCycle : ~ fine(e)
      /\ result \in {"ordering", "ordered"} => \A e \in onCycle : fine(e)

\* The startup order lists every singleton once, each after all that it needs
\* even through prototypes, the members of its own cycle excepted; where needs
\* do not decide, Definition.Order does: a bean stands before one of greater
\* order unless it waited for something that the other did not need.
OrderRespectsNeeds ==
  result = "ordered" =>
    /\ Range(order) = Bean \ Prototypes
    /\ IsInjective(order)
    /\ \A i, j \in DOMAIN order :
         <<order[i], order[j]>> \in Reach /\ ~ Mutual(order[i], order[j]) => j < i
    /\ \A i \in 1 .. Len(order) - 1 :
         LET x == order[i]
             y == order[i + 1]
         IN  Order[y] < Order[x] =>
               \/ <<y, x>> \in Reach
               \/ \E z \in Bean : Mutual(x, z) /\ Order[z] <= Order[y]
               \/ \E z \in Bean \ (Range(SubSeq(order, 1, i - 1)) \cup {y}) :
                    <<y, z>> \in Reach
=============================================================================
