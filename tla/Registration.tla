----------------------------- MODULE Registration -----------------------------
(* From what is declared to a container: definitions and configurations are   *)
(* registered with an ApplicationContext, Refresh applies the configurations  *)
(* to a clone of the registry, container.New takes a snapshot of it, and      *)
(* goroutines then look beans up by type while an index fills on demand.      *)
(* The user code of a configuration may fail, or keep the registry it was     *)
(* given and register later.  Closing is left to ApplicationContext, cycles    *)
(* to DependencyGraph; its startup order is here any that respects needs.     *)
EXTENDS Integers, Sequences, FiniteSets, SequencesExt

CONSTANTS
  Definitions,     \* what callers may register: [name, type, primary, priority, prototype, descriptors, ...]
  Configurations,  \* [name, order, priority, source, profile, condition, definitions]
  Assignable,      \* pairs of types
  Readers, Questions,   \* goroutines and what they look up: [all, type, qualifier]
  Rank,            \* the order of names
  MaxAttempts

VARIABLES
  registry,        \* the context's: from name to definition
  configurations,  \* the configurations registered
  environment,     \* [sources, profiles]: what configurations add to it
  attempt,         \* the Refresh under way
  attempts,
  kept,            \* whose registry a configuration kept: "none", "attempt", "context" or "lost"
  runtime,         \* the container: [definitions, order]
  typeIndex,       \* from type to the names that match
  reader,          \* per reader its question, names found and answer
  accepted, late   \* history: definitions accepted from callers, and through the kept registry

vars == <<registry, configurations, environment, attempt, attempts, kept, runtime, typeIndex, reader, accepted, late>>
lookups == <<typeIndex, reader>>
declared == <<registry, configurations, accepted>>

None == [phase |-> "none"]
Unbuilt == None
Idle == [at |-> "idle"]
Absent == ""   \* what is not given
NotFound == "not found"
Conflict == "conflict"
Refusals == {NotFound, Conflict, "invalid", "mismatch"}
NameIs(name) == {d \in Definitions : d.name = name}

(* Names are not empty and have an order; no refusal is mistaken for a name.  *)
(* An optional depends-on is left out: normalized twice, it is required.      *)
Kinds == {"factory", "injection", "depends-on"}
Descriptor == [name : STRING, kind : Kinds, optional : BOOLEAN]
Definition == [name : STRING, type : STRING, primary : BOOLEAN, priority : Int, prototype : BOOLEAN,
               descriptors : SUBSET Descriptor, dependsOn : SUBSET STRING, dependencies : SUBSET STRING]
Ranked(named) == \A x, y \in named : Rank[x.name] \in Nat \ {0} /\ (Rank[x.name] = Rank[y.name] => x.name = y.name)
RegistrationAssumption ==
  /\ IsFiniteSet(Definitions) /\ Ranked(Definitions)
  /\ \A d \in Definitions :
       /\ d \in Definition /\ d.name \notin {Absent} \cup Refusals
       /\ \A e \in d.descriptors : e.kind = "depends-on" => ~e.optional
  /\ IsFiniteSet(Configurations) /\ Ranked(Configurations)
  /\ \A c \in Configurations : c.priority \in BOOLEAN /\ c.order \in Int /\ c.definitions \in Seq(Definitions)
  /\ \A q \in Questions : q.all \in BOOLEAN

Init ==
  /\ registry = <<>> /\ configurations = {} /\ accepted = {} /\ late = {}
  /\ environment = [sources |-> {}, profiles |-> {}]
  /\ attempt = None /\ attempts = 0 /\ kept = "none"
  /\ runtime = Unbuilt /\ typeIndex = <<>>
  /\ reader = [r \in Readers |-> Idle]

Refreshing == attempt # None
Refreshed == runtime # Unbuilt
-----------------------------------------------------------------------------
(* A definition names what it needs in three ways; normalized brings them     *)
(* together.  Two descriptors of one name and kind are one, which is optional *)
(* when both are.                                                             *)
NamesOf(descriptors) == {e.name : e \in descriptors}
appendDependencyDescriptor(descriptors) ==
  {[e EXCEPT !.optional = \A f \in descriptors : f.name = e.name /\ f.kind = e.kind => f.optional] : e \in descriptors}
normalized(d) ==
  LET manual == {[name |-> n, kind |-> "depends-on", optional |-> FALSE] : n \in d.dependsOn}
      known == appendDependencyDescriptor(d.descriptors \cup manual)
      inferred == {[name |-> n, kind |-> "factory", optional |-> FALSE] : n \in d.dependencies \ NamesOf(known)}
  IN  [d EXCEPT !.descriptors = known \cup inferred,
                !.dependsOn = {e.name : e \in {e \in known : e.kind = "depends-on"}},
                !.dependencies = NamesOf(known \cup inferred)]
With(definitions, added) ==
  [n \in DOMAIN definitions \cup {d.name : d \in added} |->
     IF n \in DOMAIN definitions THEN definitions[n] ELSE normalized(CHOOSE d \in added : d.name = n)]

(* RegisterDefinition and RegisterConfiguration: refused while refreshing and *)
(* afterwards, and for a name that is taken.                                  *)
RegisterDefinition(d) ==
  /\ ~Refreshing /\ ~Refreshed
  /\ d.name \notin DOMAIN registry
  /\ registry' = With(registry, {d})
  /\ accepted' = accepted \cup {d}
  /\ UNCHANGED <<configurations, environment, attempt, attempts, kept, runtime, late, lookups>>
RegisterConfiguration(c) ==
  /\ ~Refreshing /\ ~Refreshed
  /\ \A other \in configurations : other.name # c.name
  /\ configurations' = configurations \cup {c}
  /\ UNCHANGED <<registry, accepted, environment, attempt, attempts, kept, runtime, late, lookups>>

(* Priority first, then order, then name.                                     *)
lessConfiguration(c, d) ==
  IF c.priority # d.priority THEN c.priority
  ELSE c.order < d.order \/ (c.order = d.order /\ Rank[c.name] < Rank[d.name])
sortConfigurations(cs) ==
  CHOOSE s \in [1 .. Cardinality(cs) -> cs] : \A i, j \in DOMAIN s : i < j => lessConfiguration(s[i], s[j])

cloneRegistry(source) == [n \in DOMAIN source |-> normalized(source[n])]
beginRefresh ==
  /\ ~Refreshed /\ ~Refreshing /\ attempts < MaxAttempts
  /\ attempt' = [phase |-> "environment", registry |-> cloneRegistry(registry), todo |-> sortConfigurations(configurations), err |-> "none"]
  /\ attempts' = attempts + 1 /\ late' = {}
  /\ UNCHANGED <<declared, environment, kept, runtime, lookups>>

Applying == attempt.phase \in {"environment", "register"}
Fail(reason) == attempt' = [attempt EXCEPT !.phase = "failed", !.err = reason]

(* Every environment configurer runs before anything is registered.  Adding a *)
(* property source of a name that is there is an error.                       *)
ConfigureEnvironment ==
  /\ attempt.phase = "environment" /\ attempt.todo # <<>>
  /\ LET c == Head(attempt.todo)
     IN  IF c.source \in environment.sources THEN Fail("source") /\ UNCHANGED environment
         ELSE /\ environment' = [sources |-> environment.sources \cup ({c.source} \ {Absent}),
                                 profiles |-> environment.profiles \cup ({c.profile} \ {Absent})]
              /\ attempt' = [attempt EXCEPT !.todo = Tail(@)]
  /\ UNCHANGED <<declared, attempts, kept, runtime, late, lookups>>
EndOfEnvironment ==
  /\ attempt.phase = "environment" /\ attempt.todo = <<>>
  /\ attempt' = [attempt EXCEPT !.phase = "register", !.todo = sortConfigurations(configurations)]
  /\ UNCHANGED <<declared, environment, attempts, kept, runtime, late, lookups>>

(* A configuration registers what its condition admits, and may keep the      *)
(* registry.                                                                  *)
Holds(c) == c.condition \in {Absent} \cup environment.profiles
Clashes(definitions) ==
  \E i \in DOMAIN definitions :
    definitions[i].name \in DOMAIN attempt.registry \cup {definitions[j].name : j \in 1 .. i - 1}
Register ==
  /\ attempt.phase = "register" /\ attempt.todo # <<>>
  /\ LET c == Head(attempt.todo)
         own == IF Holds(c) THEN c.definitions ELSE <<>>
     IN  /\ IF Clashes(own) THEN Fail("clash")
            ELSE attempt' = [attempt EXCEPT !.registry = With(@, ToSet(own)), !.todo = Tail(@)]
         /\ kept' \in {kept, "attempt"}
  /\ UNCHANGED <<declared, environment, attempts, runtime, late, lookups>>

(* The registry that was kept is open to registration for ever.  What it gets *)
(* after a failed attempt nobody sees.                                        *)
LateRegister(d) ==
  /\ kept \in {"attempt", "context"}
  /\ IF kept = "attempt"
     THEN /\ d.name \notin DOMAIN attempt.registry
          /\ attempt' = [attempt EXCEPT !.registry = With(@, {d})]
          /\ late' = IF Applying THEN late \cup {d} ELSE late
          /\ UNCHANGED registry
     ELSE /\ d.name \notin DOMAIN registry
          /\ registry' = With(registry, {d})
          /\ UNCHANGED <<attempt, late>>
  /\ UNCHANGED <<configurations, accepted, environment, attempts, kept, runtime, lookups>>

(* User code fails or the context of Refresh is cancelled.                    *)
Fault ==
  /\ \/ Applying /\ attempt.todo # <<>>
     \/ attempt.phase = "initialize"
  /\ Fail("fault")
  /\ UNCHANGED <<declared, environment, attempts, kept, runtime, late, lookups>>

(* container.New takes its snapshot and sees that no need is missing.         *)
Missing(definitions) ==
  \E n \in DOMAIN definitions : \E e \in definitions[n].descriptors :
    ~e.optional /\ e.name \notin DOMAIN definitions
StartupOrders(definitions) ==
  LET singletons == {n \in DOMAIN definitions : ~definitions[n].prototype}
  IN  {s \in [1 .. Cardinality(singletons) -> singletons] :
         /\ IsInjective(s)
         /\ \A i, j \in DOMAIN s : s[j] \in NamesOf(definitions[s[i]].descriptors) => j < i}
New ==
  /\ attempt.phase = "register" /\ attempt.todo = <<>>
  /\ LET definitions == [n \in DOMAIN attempt.registry |-> normalized(attempt.registry[n])]
     IN  IF Missing(definitions) THEN Fail("missing")
         ELSE \E order \in StartupOrders(definitions) :
                attempt' = [phase |-> "initialize", registry |-> attempt.registry, err |-> "none",
                            built |-> [definitions |-> definitions, order |-> order]]
  /\ UNCHANGED <<declared, environment, attempts, kept, runtime, late, lookups>>

(* The names of a type, in their order; the index starts with the types of    *)
(* the definitions.                                                           *)
typeAssignable(actual, expected) == <<actual, expected>> \in Assignable
matchingNames(definitions, type) ==
  LET matching == {n \in DOMAIN definitions : typeAssignable(definitions[n].type, type)}
  IN  CHOOSE s \in [1 .. Cardinality(matching) -> matching] : \A i, j \in DOMAIN s : i < j => Rank[s[i]] < Rank[s[j]]
rebuildTypeIndex(definitions) ==
  [t \in {definitions[n].type : n \in DOMAIN definitions} |-> matchingNames(definitions, t)]

(* The end of a Refresh.  The clone becomes the registry, or is dropped; what *)
(* the environment was given stays either way.                                *)
finishRefreshKeeping ==   \* mutant: a failed attempt leaves its registrations
  /\ attempt.phase \in {"initialize", "failed"}
  /\ attempt' = None
  /\ IF attempt.phase = "failed"
     THEN /\ kept' = IF kept = "attempt" THEN "lost" ELSE kept
          /\ registry' = attempt.registry
          /\ UNCHANGED <<runtime, typeIndex>>
     ELSE /\ kept' = IF kept = "attempt" THEN "context" ELSE kept
          /\ registry' = attempt.registry
          /\ runtime' = attempt.built
          /\ typeIndex' = rebuildTypeIndex(attempt.built.definitions)
  /\ UNCHANGED <<configurations, accepted, environment, attempts, late, reader>>
finishRefresh ==
  /\ attempt.phase \in {"initialize", "failed"}
  /\ attempt' = None
  /\ IF attempt.phase = "failed"
     THEN /\ kept' = IF kept = "attempt" THEN "lost" ELSE kept
          /\ UNCHANGED <<registry, runtime, typeIndex>>
     ELSE /\ kept' = IF kept = "attempt" THEN "context" ELSE kept
          /\ registry' = attempt.registry
          /\ runtime' = attempt.built
          /\ typeIndex' = rebuildTypeIndex(attempt.built.definitions)
  /\ UNCHANGED <<configurations, accepted, environment, attempts, late, reader>>
-----------------------------------------------------------------------------
(* GetByType and GetAllByType.  A name is chosen by qualifier, else it is the *)
(* only one, the only primary one, or the only one of the least priority.     *)
Only(names, other) == IF Cardinality(names) = 1 THEN CHOOSE n \in names : TRUE ELSE other
selectQualifier(q) ==
  CASE q.qualifier = Absent -> "invalid"
    [] q.qualifier # Absent /\ q.qualifier \notin DOMAIN runtime.definitions -> NotFound
    [] OTHER -> IF typeAssignable(runtime.definitions[q.qualifier].type, q.type) THEN q.qualifier ELSE "mismatch"
selectPriority(names) ==
  LET Value(n) == runtime.definitions[n].priority
      ranked == {n \in names : Value(n) # 0}
  IN  Only({n \in ranked : \A m \in ranked : Value(n) <= Value(m)}, Conflict)
selectFirstPrimary(names) ==   \* mutant: of several primary candidates the first is taken
  LET primary == {n \in names : runtime.definitions[n].primary}
  IN  IF primary = {} THEN selectPriority(names) ELSE CHOOSE n \in primary : \A m \in primary : Rank[n] <= Rank[m]
selectPreferred(names) ==
  LET primary == {n \in names : runtime.definitions[n].primary}
  IN  IF primary = {} THEN selectPriority(names) ELSE Only(primary, Conflict)
selectByType(names) ==
  CASE names = {} -> NotFound
    [] Cardinality(names) = 1 -> Only(names, Conflict)
    [] OTHER -> selectPreferred(names)
(* All of a type: the singletons in startup order, then the rest by name.     *)
At(s, n) == CHOOSE i \in DOMAIN s : s[i] = n
Kept(s, names) ==   \* of the names in a list, those that are wanted, as they stand in it
  LET wanted == ToSet(s) \cap names
  IN  CHOOSE t \in [1 .. Cardinality(wanted) -> wanted] : \A i, j \in DOMAIN t : i < j => At(s, t[i]) < At(s, t[j])
matchingNamesInStartupOrder(names) ==
  Kept(runtime.order, ToSet(names)) \o Kept(names, ToSet(names) \ ToSet(runtime.order))
Answer(q, names) ==
  [at |-> "done", question |-> q,
   answer |-> IF q.all THEN matchingNamesInStartupOrder(names) ELSE selectByType(ToSet(names))]

(* A reader finds its type in the index, or scans the definitions and then    *)
(* stores what it found, unless another was there first.                      *)
Rest == UNCHANGED <<declared, environment, attempt, attempts, kept, runtime, late>>
Ask(r) ==
  /\ Refreshed /\ reader[r].at \in {"idle", "done"}
  /\ \E q \in Questions :
       reader' = [reader EXCEPT ![r] =
         CASE ~q.all /\ q.qualifier # "none" -> [at |-> "done", question |-> q, answer |-> selectQualifier(q)]
           [] (q.all \/ q.qualifier = "none") /\ q.type \in DOMAIN typeIndex -> Answer(q, typeIndex[q.type])
           [] OTHER -> [at |-> "scan", question |-> q]]
  /\ UNCHANGED typeIndex /\ Rest
scanMatchingNames(r) ==
  /\ reader[r].at = "scan"
  /\ reader' = [reader EXCEPT ![r] = [at |-> "cache", question |-> @.question,
                                      names |-> matchingNames(runtime.definitions, @.question.type)]]
  /\ UNCHANGED typeIndex /\ Rest
cacheTypeIndex(r) ==
  /\ reader[r].at = "cache"
  /\ LET q == reader[r].question
         names == IF q.type \in DOMAIN typeIndex THEN typeIndex[q.type] ELSE reader[r].names
     IN  /\ typeIndex' = [t \in DOMAIN typeIndex \cup {q.type} |-> IF t = q.type THEN names ELSE typeIndex[t]]
         /\ reader' = [reader EXCEPT ![r] = Answer(q, names)]
  /\ Rest

Next ==
  \/ \E d \in Definitions : RegisterDefinition(d) \/ LateRegister(d)
  \/ \E c \in Configurations : RegisterConfiguration(c)
  \/ beginRefresh \/ ConfigureEnvironment \/ EndOfEnvironment \/ Register \/ Fault \/ New \/ finishRefresh
  \/ \E r \in Readers : Ask(r) \/ scanMatchingNames(r) \/ cacheTypeIndex(r)

Spec == Init /\ [][Next]_vars
-----------------------------------------------------------------------------
(* What a Refresh builds is what was declared, whatever failed before it and  *)
(* whoever registers meanwhile: every accepted definition, those of every     *)
(* configuration whose condition the whole environment meets, and no other.   *)
(* Without a failure of user code a Refresh fails only when two declare one   *)
(* name, a need is declared by no one, or a source is added twice, by two     *)
(* configurations or by an earlier attempt (refresh_part1.go: cloneRegistry,  *)
(* configuration.go: applyConfigurations).  Left out: optional depends-on     *)
(* descriptors, which a second normalization makes required.                  *)
Holding == {c \in configurations : Holds(c)}
Declared == accepted \cup late \cup UNION {ToSet(c.definitions) : c \in Holding}
Declarers(name) ==
  Cardinality(UNION {{<<c, i>> : i \in {i \in DOMAIN c.definitions : c.definitions[i].name = name}} : c \in Holding})
    + Cardinality(accepted \cap NameIs(name)) + Cardinality(late \cap NameIs(name))
DeclaredIsBuilt ==
  /\ attempt.phase = "initialize" =>
       /\ DOMAIN attempt.built.definitions = {d.name : d \in Declared}
       /\ \A d \in Declared : attempt.built.definitions[d.name] = normalized(d)
  /\ attempt.phase = "failed" =>
       CASE attempt.err = "clash" -> \E d \in Declared : Declarers(d.name) > 1
         [] attempt.err = "missing" ->
              \E d \in Declared : \E e \in normalized(d).descriptors :
                ~e.optional /\ \A other \in Declared : other.name # e.name
         [] attempt.err = "source" ->
              attempts > 1 \/ \E c, d \in configurations : c # d /\ c.source = d.source /\ c.source # Absent
         [] OTHER -> attempt.err = "fault"

(* A lookup finds the bean that beats every other of its type, or fails when  *)
(* none does; a lookup of all finds each once, singletons as they started,    *)
(* whatever was in the index and whoever filled it meanwhile (type_index.go). *)
Fits(name, q) == typeAssignable(runtime.definitions[name].type, q.type)
Beats(a, b) ==
  LET d == runtime.definitions[a]
      e == runtime.definitions[b]
  IN  ~e.primary /\ (d.primary \/ (d.priority # 0 /\ (e.priority = 0 \/ d.priority < e.priority)))
Best(q) ==
  IF q.qualifier # "none" THEN {q.qualifier} \cap {n \in DOMAIN runtime.definitions : Fits(n, q)}
  ELSE LET fits == {n \in DOMAIN runtime.definitions : Fits(n, q)}
       IN  {n \in fits : \A other \in fits \ {n} : Beats(n, other)}
SelectionIsTheBest ==
  \A r \in Readers : reader[r].at = "done" =>
    LET q == reader[r].question
        answer == reader[r].answer
    IN  IF ~q.all THEN IF Best(q) = {} THEN answer \notin DOMAIN runtime.definitions ELSE {answer} = Best(q)
        ELSE /\ ToSet(answer) = {n \in DOMAIN runtime.definitions : Fits(n, q)}
             /\ IsInjective(answer)
             /\ \A i, j \in DOMAIN answer : i < j =>
                  LET Started(n) == IF n \in ToSet(runtime.order) THEN At(runtime.order, n) ELSE Len(runtime.order) + Rank[n]
                  IN  Started(answer[i]) < Started(answer[j])
=============================================================================
