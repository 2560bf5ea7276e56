------------------------------ MODULE Startup ------------------------------
(***************************************************************************)
(* What happens between a program that declares beans and one that runs:   *)
(* configurations make a registry and that a container (Registration),     *)
(* container.New orders the singletons (DependencyGraph), Refresh makes    *)
(* hooks of them whose order the manager finds (RuntimeHooks), and the bus *)
(* tells listeners (EventBus).  A behaviour is about one of the four; the  *)
(* others rest where they begin.                                           *)
(***************************************************************************)
EXTENDS RuntimeHooks

CONSTANTS
  Definitions, Configurations, Assignable, Readers, Questions, Rank, MaxAttempts,   \* Registration
  N, Prototypes, Injectors, Order, AllowCircular,       \* DependencyGraph
  Thread, Event, Handler, Options, Accepts,             \* EventBus
  MaxSubscriptions, MaxPublished, MaxDepth

VARIABLES
  part,         \* "registration", "graph", "hooks" or "events"
  registry, configurations, environment, attempt, attempts, kept, runtime, typeIndex, reader, accepted, late,
  edges, indices, lowlink, onStack, index, frames, components, done, order, outcome,
  handlers, stack, subscribed, published

graphVars == <<edges, indices, lowlink, onStack, index, frames, components, done, order, outcome>>
busVars == <<handlers, stack, subscribed, published>>
registrationVars == <<registry, configurations, environment, attempt, attempts, kept, runtime, typeIndex, reader, accepted, late>>
startupVars == <<registrationVars, runtimeVars, graphVars, busVars, part>>

RG == INSTANCE Registration
DG == INSTANCE DependencyGraph WITH result <- outcome
EB == INSTANCE EventBus WITH Meta <- Options

ASSUME StartupAssumption == HookAssumption /\ RG!RegistrationAssumption /\ DG!GraphAssumption /\ EB!EventBusAssumption

StartupInit ==
  /\ part \in {"registration", "graph", "hooks", "events"}
  /\ IF part = "hooks" THEN RuntimeInit
     ELSE /\ phase = "byHand" /\ hooks = {} /\ Unsorted
          /\ needs = [b \in Bean |-> {}] /\ deps = [h \in Hook |-> {}]
  /\ IF part = "graph" THEN DG!Init ELSE DG!Begin([e \in DG!Bean \X DG!Bean |-> "none"])
  /\ RG!Init /\ EB!Init

Registering == part = "registration" /\ RG!Next /\ UNCHANGED <<runtimeVars, graphVars, busVars, part>>
Hooks == part = "hooks" /\ RuntimeNext /\ UNCHANGED <<registrationVars, graphVars, busVars, part>>
Graph == part = "graph" /\ DG!Next /\ UNCHANGED <<registrationVars, runtimeVars, busVars, part>>
Events == part = "events" /\ EB!Next /\ UNCHANGED <<registrationVars, runtimeVars, graphVars, part>>

StartupNext == Registering \/ Hooks \/ Graph \/ Events

StartupSpec == StartupInit /\ [][StartupNext]_startupVars
-----------------------------------------------------------------------------
\* What a Refresh builds is what callers and configurations declared, whatever
\* failed before it (context/refresh_part1.go: cloneRegistry, finishRefresh).
DeclaredIsBuilt == RG!DeclaredIsBuilt

\* A lookup by type finds the bean that beats all others, and a lookup of all
\* finds each, whoever fills the index (container/type_index.go).
SelectionIsTheBest == RG!SelectionIsTheBest

\* A container is refused exactly when some cycle has an edge or a bean that an
\* early singleton cannot stand in for (dependency_graph.go: a component is
\* resolvable by early references or refused).
RefusedIffUnresolvable == DG!RefusedIffUnresolvable

\* The startup order respects what each singleton needs, through prototypes and
\* around cycles, and Definition.Order where needs leave a choice.
OrderRespectsNeeds == DG!OrderRespectsNeeds

\* A Publish reaches the listeners there were when it began, each once and in
\* dispatch order, whatever subscribes and publishes meanwhile.
DispatchIsExact == EB!DispatchIsExact
=============================================================================
