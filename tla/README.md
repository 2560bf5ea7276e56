# A TLA+ model of goark

goark is a dependency-injection framework for Go: a container and an application
context, a component lifecycle, an event bus, an environment with typed
configuration, an expression language, and a web layer with controllers, filters,
sessions, static files and a client. This directory specifies what these parts do
when goroutines and requests use them at the same time, when callbacks fail or
panic, when calls are cancelled, retried or overlap, and at the limits and corner
cases of the texts they read. TLC checks the specification on small instances;
TLAPS proves the main results about the lifecycle manager, the container, the
context, what a Refresh registers and a lookup finds, the order of hooks, the event
bus, the environment, the request pipeline, the choice of a route, cross-origin
policies, the session, versioned static files and the bodies a client sends and takes,
for instances of every size.

Paths below are relative to `src/`.

## 1. The system

### Components

The status says how much of a component is modelled; `PROJECT.json` has the details.

| component | state it keeps | operations | what makes it correct | status |
|---|---|---|---|---|
| `lifecycle` manager | hooks by name, their DependsOn, list of started hooks, one state word, one mutex | Register, Start, Stop, Close, Running | a hook runs only over its dependencies; the state word tells the truth; Close releases everything; one driver at a time | modelled, proved |
| `container` resolution | singletons, early singletons, calls in flight, chain of each resolve | Get, InitializeSingletons | one instance per singleton, injected before anybody sees it; every Get returns | modelled, proved |
| `container` graph | nothing after `New` | search for cycles, startup order | exactly the unresolvable cycles are refused; the order follows needs, then Order | modelled, proved |
| `container` registry, type index | definitions by name; an index from type to names, filled by readers | Register, New, GetByType, GetAllByType | what is built is what was declared; a lookup finds the best bean or fails | partly, proved |
| `context` configurations | configurations by name | RegisterConfiguration, apply to a clone of the registry | order, conditions on the whole environment; a failed Refresh leaves no registration | modelled, proved |
| `context` | four flags, container and manager once refreshed | Refresh, Start, Stop, Close, Publish | built once, closed once; Close undoes Refresh and Start | partly, proved |
| `event` bus | subscriptions with a sequence number | Subscribe, Publish | a Publish that succeeds called every handler that was due, once, in order | modelled, proved |
| `core/env` | ordered property sources, active and default profiles | add, replace, merge, look up, resolve placeholders, load files, inject | precedence is kept; placeholders resolve or fail; a broken file is not passed over | modelled, the list proved |
| `core/convert` | converters by type pair | convert | CanConvert and Convert agree; a result has the type asked for | partly |
| `expression` (GaEL) | none | lex, parse, evaluate | what is written is what is parsed | partly |
| `core/resource` | locations registered with a loader | load, relative resources | a resource's location leads back to it | partly |
| `web` registry | what configurers contributed | configure, freeze | the pipelines built from it keep its order | partly |
| request pipeline (`web`, `web/filter`, `web/mvc`) | per request | filters, interceptors, wrappers, handler, exception handling | who let a request pass completes, in reverse; what was changed for the call is restored | partly, proved |
| routes (`web/mvc`) and CORS (`web`, `web/cors`) | routes and policies, fixed at start | register, choose by conditions, preflight | several routes answer as the best alone; a preflight predicts the request | partly, proved |
| `web/message`, `web/problem`, conditional responses | registered converters | negotiate, read, write, ETag | what is written is read back; caching never changes what a client ends with | partly |
| `web/mvc/flash`, `sessionattrs` | lists kept in the session | read before, write after the handler | no flash map lost or given twice; attributes are what success left | modelled, proved |
| `web/static` | caches of content versions | link, resolve a versioned path | a link keeps its content | modelled, proved |
| `web/client` | per request; a goroutine behind a pipe for multipart bodies | build, send, retry, take the response | bodies arrive whole or fail; the goroutine ends | partly, proved |
| binding of request parameters, forms and models, templates | per request | reflection | - | not modelled |
| `web/stream`, `web/websocket`, `web/uri`, `web/locale`, `web/test`, `core/util`, `core/lang`, `errors`, `goark.go` | none or per request | formatting, I/O, assertions, re-exports | - | not modelled |

### How they interact

`ApplicationContext.Refresh` clones the registry, lets the configurations adjust the
environment and register their beans, builds the container (which checks the
dependency graph and computes the startup order), initialises the singletons in that
order, turns those that have Start, Stop or Close into hooks of a new lifecycle
manager, and publishes RefreshedEvent on the bus. Start, Stop and Close ask the
manager whether it runs, drive it, and publish the event that fits. Beans get values
from the environment: a text has its placeholders resolved, an expression in it
evaluated, and the result converted to the type of its target.

The web layer is configured once: configurers contribute filters, interceptors,
converters, mappers and mappings to a registry, which is frozen into the chains that
every request runs through. What requests share is the session and the caches of
static versions. Everything that is user code (factories, injectors, hooks, event
handlers, configurations, filters, controllers) is called with no lock held, so any
of it may interleave with calls of other goroutines, fail, panic, or call back.

### What is hard about it

* Every lock is held for a few lines only. Between two of them the world moves:
  Close reads Running() and acts on it later, Refresh stores its result without
  another look at the flags, Merge asks for a source and adds it in two sections, the
  flash filter reads a session list and writes it back.
* Creating singletons is a claim (`inFlight`), a long unlocked stretch that resolves
  other beans, and a publication. Circular injection hands out instances that are
  not finished.
* Start fails half way, or a Stop fails in the middle of Close, and the rest must
  still be done, in the right order; Start and Close sort the hooks separately and
  rely on getting the same order.
* A Refresh that failed is tried again over an environment that its configurers
  changed already.
* A filter or interceptor fails or panics after others let the request pass.
* Depth limits, size limits and precedence rules are exercised at their boundaries.
* The goroutine that writes a multipart body must end however the request is given up.

The hazards are listed one by one, with the line where each bites and the
properties that cover it, in `PROJECT.json`.

## 2. The modules

### Core

| module | models | notes |
|---|---|---|
| `HookOrder` | `lessHook`, and what `sortedHooks` must return | `StartOrders(H, deps)` is the set of admissible results, proved about and used by the manager |
| `LifecycleManager` | `lifecycle/executor_part1.go`, `executor_part2.go`, `manager.go` | one action per locked section and per callback |
| `ManagedGroup` | the promise of the manager to its users | abstract: no callers, states or lists |
| `Container` | `resolver.go`, `singleton.go`, `resolution_state.go` | a stack of frames per goroutine, one action per locked section or user callback |
| `SingletonScope` | the promise of the singleton scope | abstract |
| `ApplicationContext` | `context/lifecycle.go`, `refresh_part1.go`, the end of `refresh_part2.go` | composes `LifecycleManager` by INSTANCE and drives it through that module's own actions |
| `Registration` | `container/registry.go`, `dependency.go`, `type_index.go`, `container.New`, `context/configuration.go` | declarations, attempts of Refresh, lookups by type |
| `RuntimeHooks` | `registerRuntimeHooks`, the filtering of dependencies, and `dependencySortedHooks` turn by turn | what is registered is then sorted: into the one member of `StartOrders`, or an honest cycle |
| `DependencyGraph` | `dependency_graph.go` | Tarjan's search with its recursion as a stack, the refusal, the startup order |
| `EventBus` | `event/event.go` | a stack of publications per goroutine |
| `Startup` | the four above, from declarations to a running program | a behaviour is about one of them |
| `HookOrderProofs`, `LifecycleProofs`, `ContainerProofs`, `ContextProofs`, `StartupProofs` | theorems | section 5 |

### Configuration

| module | models | notes |
|---|---|---|
| `PropertySources` | `core/env/property_sources.go` and the kinds of source | a list, looked up from its head |
| `PlaceholderResolver` | `property_resolver_part1.go`, `part2.go` | texts are sequences of tokens; fallbacks, nesting, depth limit |
| `Environment` | `environment_part1.go` and on | goroutines edit sources and profiles; each locked section of Merge is a step |
| `ProfileExpression` | `profile_expression.go` | the parser, beside the meaning it must have |
| `ConfigLoading` | the candidate files, `.properties`, flattening of nested configuration, name validation | |
| `Conversion` | `core/convert/service.go`, `builtin.go` | values are a type and what they contain; a choice among assignable converters is nondeterministic |
| `Gael` | `expression/`: lexer, parser, evaluator | precedence by levels, numbers as fractions |
| `Resources`, `Paths` | `core/resource`, path cleaning | |
| `Configuration` | the injection of values (`core/env/value.go`), and the composition | placeholders, GaEL and conversion in turn; an environment that lives, or one question put to a reader of texts |
| `EnvironmentProofs` | theorems | section 5 |

### Web

| module | models | notes |
|---|---|---|
| `WebRegistry` | `web/registry.go`, `registry_runtime.go`, `configuration.go` | contributions of configurers, and the chains built from them |
| `WebPipeline` | filters, interceptors and controller wrappers around a handler | extends `WebRegistry`; a stack of what was entered; user code chooses to go on, stop, fail or panic |
| `PathPatterns` | path and glob matching | checked against the meaning of patterns |
| `Cors`, `RequestMapping` | `web/cors`, `web/cors_mapping.go`; controllers, conditions, dispatch | `RequestMapping` extends `Cors`: routes carry policies |
| `Responses` | converters and negotiation; results, validators, the ETag filter | |
| `SessionState` | `web/mvc/flash`, `web/mvc/sessionattrs` | each read and each write of the session is a step |
| `StaticVersions` | `web/static` | files are rewritten and removed between the steps of a request |
| `MultipartBody`, `HttpClient` | the goroutine behind the pipe; the exchange of a client | |
| `Web` | the composition | extends the pipeline, the session and the static files, has an instance of the others; a behaviour is a request, a session, files, a body, or one question |
| `WebPipelineProofs`, `WebProofs` | theorems | section 5 |

`MC...` modules hold the instances TLC checks: constants only.

### How state and actions correspond to the code

**LifecycleManager.** `state`, `hooks`, `deps` and `started` are the fields of
`Manager`; `pc`, `todo` and `local` are a goroutine's position, the list its loop
still has to visit and the list it carries (started so far in `startHooks`,
sorted hooks in `Close`). BeginStart/BeginStop/BeginClose are the sections under
the mutex at the start of a call, FinishStart/FinishStop/FinishClose the ones at
its end, StartHook/StopHook/CloseHook one turn of the loops between. FailStart is
the error or cancelled context that turns a start into a rollback. Errors of Stop
and Close callbacks are collected and change nothing else, so they are the same
step as success. Panic unwinds out of any callback: the package does not recover,
so the state word stays as it is and later calls are refused. `up` and `closes`
are history: what the hooks themselves have seen.

**Container.** A frame is one activation of `resolve`; its phase says whether it
is entering, resolving depends-on beans, inside the factory, inside the injector,
waiting for another goroutine's call, woken, or on its way out with an error.
What a factory or an injector resolves is a constant of the instance. An instance
is its bean and a number, so two instances of one bean are told apart. `wired`
(which instance holds which) and `served` (what Get returned) are history.
Cancellation of a context and errors of user code are faults, bounded in number.

**DependencyGraph.** Beans are numbers in the order of their names, which is the
order in which the code visits them. Each edge is none, an injection, or fixed (a
factory argument or a depends-on).

**ApplicationContext.** `step` is a goroutine's position in its call, `seen` the
value that Running() returned to it. The configurations, `container.New` and the
initialisation of singletons are the step that may fail before the first hook is
registered. A callback error makes Start or Stop fail and costs the event.

**Registration.** `registry`, `configurations` and `environment` belong to the
context; `attempt` is the Refresh under way with the clone it registers into and the
configurations still to visit; `runtime` is the snapshot the container took. A
configuration may keep the registry it was given and register later (`kept`):
during the attempt that counts, after a failure it is lost. `typeIndex` starts with
the types of the definitions; a reader that misses scans and then stores under the
lock, in two steps. `accepted` and `late` are history. The startup order is any
order that respects needs; which one is `DependencyGraph`'s business.

**EventBus.** A publication is the event, the rest of the copy it works on, and
where it is. Handlers return, fail, subscribe and publish as they like.

**RuntimeHooks.** The sort keeps a sorted ready list; the model keeps
the set and takes its least member, which is what a sorted list's head is.

**Environment.** `sources` is the list in order of precedence; a call that changes it
is one step, `Merge` is several (`merge` holds what is left of the parent). Reading
is checked in every state rather than modelled as a step: a text is resolved in one
lookup after another, and the model resolves it against one state of the sources.

**Texts.** A placeholder text, an expression or a profile is a short sequence of
tokens; a `.properties` line is a sequence of characters, since its escapes are what
is checked. Parsers are operators that follow the code's recursive descent.

**WebPipeline.** `todo` is what lies ahead, `stack` what has been entered: a filter
around what it calls, an interceptor that let the request pass, a wrapper with what
it must restore. Leaving an element is its code after the call, or its deferred
function. What user code may be is limited to what Go's types allow: a filter, and
what a wrapped filter wraps, is called before the handler, an interceptor after the
router (`PipelineAssumption`). Which paths a mapping admits is a constant operator,
`PathPatterns` in the composition. `passed` and `completed` (the interceptors that let
the request go on, and those told of its end), `saved` and `asked` are history.

**SessionState.** A request has a plan (where it goes, whether it redirects, writes
attributes, fails); its steps are the filters' reads, the handler, and the filters'
writes in the order the code does them. Time is a clock up to `MaxTime`. The flash maps
of a session are a set: the list's order reaches nobody, since all that match are
merged, and each map is known by the visit whose redirect left it. `left` is history:
what the visits answered so far leave behind, each after those answered before it.

**StaticVersions, MultipartBody.** A deployment writes files between the steps of a
lookup, which opens, hashes and caches in that order. The pipe is `offered`: a write
waits until it is read or the pipe is closed; the transport may stop reading at any
time and then closes the body. A reader whose name cannot be opened tries once more
without the fixed version (`stripped`), as `fixedVersionFS` does; a cached version
is kept under the size and time the file had.

**Questions.** Pure code (routing, CORS, negotiation, conditional requests, the
client's exchange, parsers, conversion) is asked one question per behaviour: the
question is in the initial state, one step answers it with what the code computes,
and the property judges the answer. Where the code's choice depends on map order,
the answer is the set of all outcomes.

Operators whose comment says "mutant" are plausible wrong versions of the definition
that follows them. No specification uses them; each is there so that one can
substitute it and see which property notices.

## 3. What TLC checks

Deadlock is not checked: each of these systems may stop, because callers may stop
calling and because calls are bounded.

| run | instance | what it shows |
|---|---|---|
| `lifecycle` | 3 hooks with any DependsOn, 2 goroutines, callbacks fail or panic | hooks run only over their dependencies (`DependenciesUp`), the state word tells the truth after success, rollback and stop (`StateTellsTruth`), a closed manager has closed every closer whatever failed (`ClosedReleasesAll`), one goroutine drives (`OneDriver`), the manager implements `ManagedGroup`, every call returns |
| `startup` | *registration*: 5 bean definitions (two of one name, a tie of priorities, two primaries), 3 configurations (one conditional on another's profile and sorted before it, two that add one source), 2 attempts, 2 readers, 4 kinds of lookup; *graph*: all 19683 graphs over 3 beans; *hooks*: every declaration among 3 beans with every choice of hooks, and every DependsOn by hand; *events*: 3 handlers, 2 goroutines, 3 subscriptions, 2 publications nested up to 2 deep | what is built is what was declared, after failures too (`DeclaredIsBuilt`); a lookup finds the bean that beats the others, whoever fills the index (`SelectionIsTheBest`); a graph is refused exactly for a cycle no early instance can stand in for, and the order follows needs; hooks sort into their one order and it is the declared one (`HooksRunAsDeclared`); a Publish reaches exactly the listeners there were (`DispatchIsExact`) |
| `container` | app, config, store and a prototype tied by depends-on, factory and injector dependencies; an injection cycle entered at one bean; two factories that resolve each other; 2 goroutines, 3 Gets, 2 faults | one creator at a time and nothing left behind by a failure (`OneCreator`), nobody reaches a half-injected bean (`DeeplyInjected`), depends-on first, the container implements `SingletonScope`, every Get returns |
| `context` | 2 hooks, one needing the other; 2 goroutines, any 4 calls of Refresh, Start, Stop, Close; every step may fail | events stand for changes (`EventsStandForChanges`), the context uses the manager only as `LifecycleManager` allows (`DrivesManager`), as long as no call overlaps another Close stops and releases everything (`CloseDoesAll`), every call returns |
| `configuration` | 4 sources over 3 keys that refer to each other up to and past a depth limit of 2, a parent merged meanwhile, 5 texts, 6 target types; every profile expression of up to 4 tokens, every GaEL tree of 2 operators, `.properties` keys and values of up to 2 special characters, pairs of nested entries, every state of 3 candidate files, every pair of 17 types with 3 sets of converters, 55 locations in 4 loaders | a merge overrides nothing and precedence never turns around while goroutines change the sources; a text resolves exactly when its chain is short enough; an injected value has the type asked for; what is written is read back; a broken file is not passed over; CanConvert keeps its promise |
| `web` | 6 deployments with 384 requests each; 7 scenarios of 3 requests in one session, in sequence or overlapping; 2 files rewritten twice under 4 configurations with 2 readers; bodies of up to 3 parts; and the questions: routes alone, in pairs and in threes, 5 by 5 CORS policies, every kind of value written and read, a resource asked for twice, calls with interceptors and servers that fail | whoever let a request pass completes in reverse and whatever was changed for it is restored; flash maps and session attributes survive what overlaps; links keep their content; bodies arrive whole and their goroutine ends; several routes answer as the best alone; a preflight predicts the request; what is written is read back; conditional requests are transparent |
| `runtime_hooks_transitive`, `container_mutual_wait`, `container_retry`, `context_close_during_start`, `context_close_during_refresh`, `web_flash_race` | as small as shows it | **violated**: section 4 |

`MCWeb` also evaluates an assumption: on every pattern and path of up to three
segments, and every glob of up to four characters, the matchers accept what some
reading of the wildcards accepts.

### Bounds

Three hooks are the least with a chain and with a cycle longer than two; priority,
order and name each decide at least one comparison among them. Two goroutines are
enough for every pair of racing calls, and a manager admits one driver, so a third
could only be refused like the second. Three Gets let a creation fail, be waited
for and be tried again; two faults let the retry fail too or a waiter be cancelled
while the creator fails. Four context calls let a start, a stop and a second start
come before a close, or every pair of calls race after a refresh. Three beans give
graphs with two components that meet in a third and with a cycle between two and a
bean outside. Two attempts are a failure and a retry. A depth limit of two is passed
by a chain of three keys. Three requests of one session are the one that leaves a
flash map, the one that takes it and the one that must not see it again; a flash map
lives for two instants of a clock of three, so it can expire. Two writes replace a
file and its replacement. A GaEL tree of two operators has every pair of levels in
both nestings, which is what decides parentheses.

`MaxCalls`, `MaxFaults`, `MaxAttempts`, `MaxSubscriptions`, `MaxPublished`,
`MaxDepth`, `MaxTime`, `MaxWrites` and `MaxParts` are the only bounds on counters;
they stop the environment (callers, faults, deployments, time), never a goroutine
inside a call. `MaxInt` is the largest int64 scaled down, with its overflow.
`up` and `closes` need no bound: the inductive invariant shows that they stay 0 or 1.

No symmetry is used. Hooks, beans and handlers are told apart by order and name.

### Fairness

The liveness properties assume weak fairness of each goroutine's own steps and nothing
else: `Advance(t)` in the manager, `Step(t)` in container and context, and in
`MultipartBody` the writing goroutine and the transport, which by the contract of
net/http closes the body of every request. It stands for two things. The Go
scheduler runs every goroutine that can run, and a mutex section ends. And user code
that is called comes back: a factory, injector, hook or handler that never returns
keeps its caller for ever in any program. Nothing is assumed of callers (nobody has
to call Close, or to read a body to its end), of cancellation, or of failures: a
goroutine that waits is not saved by a timeout. Weak fairness is enough since a
goroutine's step, once enabled, stays enabled until it moves: a waiter in the
container is woken by the end of the call it waits for, a writer by the end of the
pipe, not by a condition that can come and go.

## 4. Findings

1. **Two goroutines in one injection cycle block each other**
   (`container_mutual_wait`, `container/singleton.go:28`). With circular references
   allowed and two beans that inject each other, Get of one and Get of the other at
   the same time each claim their bean and wait for the other's call. Nothing but
   a cancelled context ends it.
2. **A failed injection leaves a bean holding a discarded instance**
   (`container_retry`, `container/singleton.go:53`). The partner in the cycle was
   published with the early instance; the next Get makes a second one.
3. **Close during Start closes a context whose hooks then come up**
   (`context_close_during_start`, `context/lifecycle.go:69`).
4. **Close during Refresh leaves singletons that nobody closes**
   (`context_close_during_refresh`, `context/refresh_part1.go:149`).
5. **A lifecycle dependency through a bean that is no hook is lost**
   (`runtime_hooks_transitive`, `context/refresh_part2.go:125`), although the
   generation rules in `docs/goark-annotations-v1.md` say that every dependency
   description takes part in the close order.
6. **Two overlapping requests of one session are given the same flash map**
   (`web_flash_race`, `web/mvc/flash/filter.go:96`), which the package calls
   one-time: the list is read before and written back after, with nothing between
   that keeps the other request out.

The corresponding guarantees hold when the circumstance is absent, and the passing
runs check that: `container` enters the cycle at one bean only, and in `DeeplyInjected`
the beans of one cycle, and they alone, may hold each other before they are injected; `CloseDoesAll` and the last part of
`EventsStandForChanges` (no overlap); `HooksRunAsDeclared` (dependencies between
hooks); `FlashNeitherLostNorRepeated` (a client that waits for its answers).

Behaviour met on the way that no document contradicts, which the properties leave
out by name:

* An optional depends-on dependency becomes required, because a definition is
  normalized again when it is registered.
* A Refresh that failed after an environment configurer added a property source
  fails again on a retry, since the source is there already.
* CanConvert and Convert disagree on texts and truth values of declared types and on
  arrays.
* A `.properties` value that ends in an escaped blank loses it.
* String literals of GaEL keep their escapes, and an integer result is an int64, which
  is refused for an int.
* A resource of an `fs.FS` tells a location that does not name the file system.
* A response limit of the largest int64 overflows, and every body is taken as empty; an
  interceptor that retries a streamed body sends an empty one.
* The ETag filter drops the body of a 205, and a handler that sets the status after
  it wrote the body is answered differently through the filter.
* An interceptor pattern with a wildcard before a trailing `**` is compared as text.
* A file whose whole name is an extension (`.env`) gets a content version that its
  link does not resolve to, since `splitContentVersion` wants something before the
  version; a file that another file's link names is served instead of it.

## 5. What is proved

Every theorem below holds for all values of the constants that its assumptions admit:
any number of hooks, beans, goroutines, sources, requests or files, and no bound on
what they do. A property that a run checks is proved of the module that defines it.

### The lifecycle manager: `LifecycleProofs`, `HookOrderProofs`

| theorem | statement |
|---|---|
| `Inductive` | `IInv` always holds |
| `TypeCorrect`, `DependenciesStayUp`, `TruthfulState`, `CloseIsComplete`, `SingleDriver` | the invariants of run `lifecycle` |
| `BalancedCallbacks`, `CloseOrder` | no callback comes twice or out of turn; a hook is closed when nothing runs and every closer that depends on it has been closed |
| `Refinement` | the manager implements `ManagedGroup` |
| `ClosedStaysDown` | after the first Close callback nothing starts |

They assume nothing: that only finitely many hooks are registered is part of the
state's type. None of the invariants is inductive by itself, since it says nothing of
the lists that goroutines carry. `IInv` adds that:

* `DriverInv`: a goroutine inside the manager is alone there, and its position and
  the state word agree. Its consequence, lemma `Alone`, is what lets every action
  lemma forget the other goroutines.
* `SettledInv`: while no one drives, the hooks that are up are none or all, and in
  state running the list `started` has each of them once, in an order in which
  dependencies come first (`Ordered`).
* `StartingInv`: in the start loop, the hooks up are exactly those in `local`, and
  what is left in `todo` can be appended to them in order (`Layered` with `local` as
  base).
* `SweepingInv`: in a rollback, a stop or the first half of a close, the hooks up
  are exactly those in `todo`, in order. Taking the last one off is therefore safe.
* `ClosingInv`: while closing, nothing is up, and the closers closed are exactly
  those no longer in `todo`.

One lemma per action shows that it is preserved. `HookOrderProofs` has the facts
about lists they cite: taking the head or the last element of an ordered list,
appending one whose needs are met, and that a start order (`StartOrders`) is
ordered. The refinement needs the same invariant: that StartHook is an Up, StopHook
a Down and CloseHook a Release of the abstract group says that the guards of the
abstract actions follow from where the goroutine stands.

### The container: `ContainerProofs`

| theorem | statement |
|---|---|
| `ContainerInductive`, `ContainerTypeCorrect` | `IInv`, and the type invariant in it |
| `SingleCreator` | `OneCreator` |
| `MadeAfterDependsOn` | `DependsOnFirst`, if no injector leads back to a bean that depends on its own |
| `ContainerIsSingletonScope` | `ImplementsScope`, if no injector leads back to a bean that depends on, or is made from, its own |
| `NothingHalfInjected` | `DeeplyInjected` |

`IInv` ties each claim to one frame of one stack: a bean is in flight exactly when one
goroutine has a frame of it between claim and publication, that goroutine is the one
the claim names, an early instance is the one in that frame, and what waits is on a
stack that has not claimed the bean. `MetInv` follows one need: a frame that is past
its dependencies of a kind finds them published, or is inside their creation, which
the hypothesis `NoWayBack` excludes; `ValidateDependencies` refuses such graphs before
a container exists, and every instance of `MCContainer` is evaluated to have the
hypothesis. `FieldsInv` says what every instance reaches, through whatever was wired
so far: another instance that is complete, or one whose injector is still running
further down the same stack, inside one injection cycle.

### The context: `ContextProofs`

| theorem | statement |
|---|---|
| `ContextDrivesManager` | `DrivesManager`: every step of the context is a step of `LifecycleManager`, or leaves it alone |
| `ManagerInside` | so all that is proved of the manager is true of the manager in a context |
| `ContextInductive` | `CtxInv` |
| `EventsAreTrue` | `EventsStandForChanges` |
| `CloseIsThorough` | `CloseDoesAll` |

They assume `ContextAssumption`: finitely many hooks, no two of one name, each with a
callback (what `isLifecycleTarget` accepts), with dependencies that have no cycle
(`removeCyclicRuntimeHookDependencies` unbinds the others: lemma `UnboundIsAcyclic` of
`StartupProofs`). In `CtxInv`, `Placed` says where a goroutine can stand for each
state of the four flags, `RefreshInv` and `CloserInv` who built and who closes,
`BuildInv` what has been registered, and `Calm` what holds while no two calls ever
overlapped; the manager's own `IInv` supplies what its state word means.

### Starting up: `StartupProofs`

| theorem | statement |
|---|---|
| `HooksRunInOrder` | `HooksRunAsDeclared`: what `registerRuntimeHooks` keeps has an order, the sort finds it, and it is the only one; hooks with dependencies given by hand are sorted, or have a cycle |
| `PublishIsExact` | `DispatchIsExact` |
| `RefusalIsExact` | `RefusedIffUnresolvable` |
| `OrderIsSound` | `OrderRespectsNeeds` |
| `WhatIsDeclaredIsBuilt` | `DeclaredIsBuilt` |
| `LookupIsExact` | `SelectionIsTheBest` |

They assume `StartupAssumption` (finitely many hooks and beans, no two of one name,
orders as the types have them; finitely many definitions and configurations whose
names have an order, with no name empty, and no depends-on that is optional). The sort's
invariant `SortInv` says that what is emitted is in order and that a hook's counter is
the number of its dependencies not emitted; that a stuck sort leaves a cycle is an
argument about the least span of a path. `BusInv` says that what is left of a
publication's copy, with what it has called, is what was subscribed when it began,
however far publications nest.

For the dependency graph, `SearchInv` is the invariant of Tarjan's search with its
recursion as a stack of calls. An open call reaches all that is above its bean on the
stack (`Down`), and everything on the stack reaches an open call not above it (`Up`).
An open call's lowlink is the index of something it reaches (`Low`), and no edge
followed from what it owns leads lower (`Least`). So what a call takes off the stack
when it has reached nothing older is a bean with all that it reaches and is reached by
(`Strong`), and nothing leads out of what has been taken off (`EdgeInv`). With that,
`VerdictInv` says what was found of the components and lemma `VerdictOnCycles` says it
of the edges on cycles. `OrderInv` says that the components put out need nothing else,
that the order lists their singletons, and that what was not put out may stand after
the last of them although its order is less: it was not ready, or not the first. That
the loop puts out all is an argument about the component that reaches the fewest beans.

For the registry, `RegType` says what the variables hold. In `RefreshInv`, the context's
registry is the accepted definitions under their normalized names (`Represents`), and
the clone of the Refresh under way is those and what the configurations handled so far
declare, less what their conditions refuse; a failed attempt stands for a refusal, or
for two definitions of one name. Two facts about the code carry it: normalizing twice
is normalizing once, and a clash of names means two who declare. `LookupInv` says that
the index, and what a reader holds between its scan and its store, is what a scan of
the container's definitions finds: they no longer change, so a store that comes late
stores the same.

### The environment: `EnvironmentProofs`

| theorem | statement |
|---|---|
| `NamesAreUnique` | no name is twice in the list, whoever adds at the same time |
| `PrecedenceNeverTurns` | `PrecedenceKept` |
| `MergeFillsGaps` | `MergeOverridesNothing` |

They assume `EnvironmentAssumption`: the system environment has a name of its own and a
parent is an environment. The invariant is that the lists are lists of sources and the
names are distinct; each operation on the list is shown to keep the order of what it
keeps (`KeepsOrder`), and a source that is appended to answer only what none before
it answers.

### The request pipeline, and the filter for conditional requests: `WebPipelineProofs`

| theorem | statement |
|---|---|
| `EveryCallRestores` | `RequestRestored` |
| `EveryPassIsCompleted` | `CompletedInReverse` |
| `ConditionalsAreTransparent` | `ConditionalIsTransparent` |

The first assumes nothing: `RestoreInv` says that of all who will put an attribute or
the method back, the deepest in the stack has what the request came with. The second
assumes `PipelineAssumption`, the Go types of filters and interceptors. `CompletionInv`
says that the handler interceptors on the stack are those that let the request pass and
have not been told, nested in the one router, with filters before it and interceptors
after it in what lies ahead, and that those told were told in reverse.

The third is about the answer to a question, under `WebAssumption`; that the answer is
the reply is the only invariant (`AnswerInv`), and the rest is about what is computed.
A fold of the library is a function chosen for its equation, so `FoldExists` builds such
a function, `FoldRuns` shows that any solution runs through the list from its head, and
`Turns` is the induction over its turns. `WebAssumption` says of conditional requests
(`AsksTwice`) what HTTP asks of handlers: an explicit tag belongs to one answer and is
none of the filter's hashes nor "*", times do not go back, and the first request carries
no validators. The argument:

* A result writes itself in steps, a status before a body (`Ordered`), whatever kind of
  result it is; a handler that writes directly may do otherwise, and the property
  excepts it.
* `Mirrors` relates a response that runs the steps bare with the capture of the filter
  that runs the same steps: the same body and status, in the capture or, once it passes
  everything through, in its parent. `FilterPasses` concludes that a response that is
  good through the filter is the bare one with a tag added, or a 304.
* The validators of a first answer are those the handler set, or a hash of its body
  (`FirstBears`), and setting validators does not change what is told (`HeadersAside`).
* So a 304 for the second request names either the answer that had its tag, or one of
  the same body, or one that was not modified since (`TellsTheSame`).

### What requests leave behind, and what they are answered: `WebProofs`

| theorem | statement |
|---|---|
| `FlashMapsArriveOnce` | `FlashNeitherLostNorRepeated` |
| `AttributesAreWhatSuccessLeft` | `SessionIsWhatSuccessLeft` |
| `LinksLeadToTheirContent` | `LinksKeepTheirContent` |
| `BodiesAreWholeOrFail` | `WholeOrError` of `MultipartBody` |
| `WholeBodiesArrive` | `BodiesArriveWhole` |
| `TogetherAsAlone` | `AloneOrTogether` |
| `PreflightForetold` | `PreflightPredictsActual` |
| `ValuesComeBack` | `WrittenIsReadBack` |

The first two assume `SessionAssumption` (a redirect has a target, time is a number).
`FlashInv` says that a map in the session, or read from it, is one redirect's and is
addressed, and for a client that waits that who is about to write the maps has read
them as they are (`Restoring`, `Appending`) and that what was left is stored, given, or
out of date (`Kept`). `AttrInv` says that until a request saves its attributes, the
session and what is in its hands make what those before it left.

The third assumes `StaticAssumption`: files have clean paths, a name that is more than
an extension, and no name that is the link of another file. `StaticInv` says that write
times are never used twice, so that a cached version whose time the file still has is
the version of what the file holds (`Cache`), although what was hashed may be newer
than the time it is filed under; that each reader follows the link of one file
(`Follows`), and that the version it compares was of the file as long as nothing was
written since it was taken (`Hashing`, `Comparing`).

The fourth assumes nothing. `BodyInv` says that what the transport has read, followed by
what waits in the pipe, is the parts of the form in turn as long as nothing failed, and
that only a transport that has closed its end stops a writer.

The last four are about the answer to a question, under `WebAssumption`, which says
what a question is made of: lists where Go has slices, a request with all its fields, an
`Origin` that is not "*", a handler for each route, errors of the transport that are
none of the client's, and an application that registers the same converters of its own
for reading and for writing, ahead of those of the package (`AsksOfConverters`). They
use the lemmas about loops of `WebPipelineProofs`:

* For the exchange, the invariant of the chain of interceptors (`Onward`) is what a call
  of the rest of the chain may do to the log of what was sent: the first request carries
  the body, without a stream all do, and what comes back is an error, an interceptor's
  own reply, or the server's reply to the last request.
* For the dispatch, `BestIn` and `GravestIn` say what i turns have found: the first of
  the heaviest routes that fit, and the gravest refusal. They rest on `MatchOfRoute`: a
  match does not depend on the routes tried before it, except for the media type left
  in the request by a route that names none.
* For the policies, a pattern with a mapping has a policy for some method
  (`CrossedIsMapped`), a preflight and the request it is for are judged by one policy
  (`PreflightForetells`), and none writes "*" with credentials (`FilterIsCautious`).
* For the converters, the type a writer negotiates is one its first able converter
  writes, and the first of the readers that takes that type for the value has the same
  codec: a converter of the application stands before those of the package on both
  sides.

### What the proofs changed

`DeeplyInjected` once left out everything that was reached through the head of a
cycle, and was false as it stood with a second injected field; it now excepts the beans
of one cycle that hold each other, and the run injects a second field. The model of
static files took a fixed version off a name as often as it found one, where the code
does so once. The limit on a response body was a choice between overlapping cases for a
negative limit. In `Registration`, a container without beans and no container were one
value, so a Refresh that built the former did not count, and a name declared twice
within one configuration was no clash. `WrittenIsReadBack` excepted bytes written as
`application/json` only, where the JSON converter takes them for every type of JSON.

### What is only model-checked

* Liveness and everything that depends on fairness (`CallsReturn`, `GetReturns`,
  `BodyReleased`): it needs ENABLED, which the prover does not treat.
* `Configuration` beyond its environment: what parsers, resolvers and conversions
  compute is recursion over texts and nested values, for which the library has only
  induction theorems with an operator as a parameter. TLC compares them with a
  reference over all short inputs.

## 6. What is not modelled

Inside the modelled components:

* A factory that resolves with a context of its own, ignores an error of Get, or
  starts goroutines that share its resolution chain. It is user code; with a fresh
  context a circular Get waits for itself.
* Panics of factories are errors (the container recovers them). Panics of hooks are
  in `LifecycleManager` and left out of `ApplicationContext`.
* Lazy singletons created after Refresh, which never become hooks.
* In `Registration`: closing a context (that is `ApplicationContext`), lazy beans, and
  lookups by factories during initialisation, which use the same index.
* Reading a placeholder text while the sources change between two of its lookups.
* Numbers and durations as texts: a text parses as a set of kinds. Encodings (JSON,
  XML, YAML, TOML, forms, base64): an encoded body is its codec and its value.
* Headers that are copied without a decision, character encodings, and adapters to the
  servlet API. The servlet container, net/http, io.Pipe and the session store are
  external: modelled from how the code uses them.

Whole components:

* Binding of parameters, forms and models (`web/mvc/binding_part*.go` and the argument
  resolvers): conversion of one request into one value by reflection. There is no
  state and no interleaving, and a model would repeat the code; the conversion it
  rests on is `Conversion`.
* Views and templates, `web/stream`, `web/websocket`, `web/uri`, `web/locale`:
  formatting and I/O on one request.
* `web/test`, `core/util`, `core/lang`, `errors`, `internal/reflectx`, `goark.go`:
  assertions, helpers and re-exports without state.

## 7. Plan

In order of importance.

1. Lazy singletons and lookups during initialisation in `Registration`; binding of
   collections, as far as its limits on indices and depth are state.
