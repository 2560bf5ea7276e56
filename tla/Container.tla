----------------------------- MODULE Container -----------------------------
(***************************************************************************)
(* container.Container as goroutines resolve beans through it.  A call of  *)
(* Get runs down the dependencies on a stack of frames, one per nested     *)
(* resolve; singletonMu is held only to look up, to claim or to finish a   *)
(* singleton, and a goroutine that finds the singleton claimed by another  *)
(* waits for that call.                                                    *)
(*                                                                         *)
(* A bean's factory and injector are what they resolve through the         *)
(* container, in order, declared or not.  An instance is <<bean, n>>: the  *)
(* n-th object its factory returned.                                       *)
(***************************************************************************)
EXTENDS Integers, FiniteSets, SequencesExt

CONSTANTS
  Bean,
  Singletons,      \* beans of singleton scope; the others are prototypes
  DependsOn,       \* beans a definition names as depends-on, in order
  FactoryDeps,     \* beans its factory resolves, in order
  InjectDeps,      \* beans its injector resolves; none means no injector
  AllowCircular,   \* WithAllowCircularReferences
  Thread,
  Roots,           \* beans that callers ask for; the others are met on the way
  MaxCalls,        \* bound: calls of Get
  MaxFaults        \* bound: factory or injector errors and cancellations

ASSUME ContainerAssumption ==
  /\ Singletons \subseteq Bean /\ Roots \subseteq Bean
  /\ DependsOn \in [Bean -> Seq(Bean)]
  /\ FactoryDeps \in [Bean -> Seq(Bean)]
  /\ InjectDeps \in [Bean -> Seq(Bean)]
  /\ AllowCircular \in BOOLEAN
  /\ MaxCalls \in Nat /\ MaxFaults \in Nat

None == 0     \* no instance, or an error where an instance is expected

VARIABLES
  singletons,   \* Container.singletons: the instance number, or None
  early,        \* Container.earlySingletons
  inFlight,     \* Container.inFlight: the goroutine creating it, if any
  stack,        \* the nested resolves of each goroutine, innermost last
  made,         \* history: instances each factory has returned
  wired,        \* history: <<instance, instance it holds>>
  served,       \* history: instances that Get returned to its caller
  calls, faults

cacheVars == <<singletons, early, inFlight>>
historyVars == <<made, wired, served>>
vars == <<cacheVars, stack, historyVars, calls, faults>>

\* Phases of a frame: "enter" (resolve was called); "dependsOn", "factory" and
\* "inject" (creating); "wait" and "got" (another goroutine's call); "failed".
Creating == {"dependsOn", "factory", "inject", "failed"}

NewFrame(b) == [bean |-> b, phase |-> "enter", next |-> 1, val |-> None, uses |-> {}]

Init ==
  /\ singletons = [b \in Bean |-> None]
  /\ early = [b \in Bean |-> None]
  /\ inFlight = [b \in Bean |-> {}]
  /\ stack = [t \in Thread |-> <<>>]
  /\ made = [b \in Bean |-> 0]
  /\ wired = {} /\ served = {}
  /\ calls = 0 /\ faults = 0
-----------------------------------------------------------------------------
Top(t) == Last(stack[t])
In(t, phase) == stack[t] # <<>> /\ Top(t).phase = phase

\* resolutionState: the names this chain of resolves has entered.
Active(t) == {stack[t][i].bean : i \in 1 .. (Len(stack[t]) - 1)}

SetTop(st, f) == Append(Front(st), f)
Push(t, b) == stack' = [stack EXCEPT ![t] = Append(@, NewFrame(b))]

\* The caller's frame, once the resolve it made returns instance i or fails.
Answered(st, i) ==
  IF st = <<>> THEN st
  ELSE SetTop(st, [Last(st) EXCEPT
         !.next = @ + 1,
         !.uses = IF Last(st).phase = "factory" THEN @ \cup {i} ELSE @])

Failed(st) == IF st = <<>> THEN st ELSE SetTop(st, [Last(st) EXCEPT !.phase = "failed"])

\* What the caller does with instance i: an injector sets a field with it, the
\* outermost caller receives it.
Record(st, i) ==
  /\ wired' = IF st # <<>> /\ Last(st).phase = "inject"
              THEN wired \cup {<<<<Last(st).bean, Last(st).val>>, i>>} ELSE wired
  /\ served' = IF st = <<>> THEN served \cup {i} ELSE served

Reply(t, n) ==
  LET rest == Front(stack[t])
  IN  /\ stack' = [stack EXCEPT ![t] = Answered(rest, <<Top(t).bean, n>>)]
      /\ Record(rest, <<Top(t).bean, n>>)
      /\ UNCHANGED made

Error(t) == stack' = [stack EXCEPT ![t] = Failed(Front(@))]

Fault == faults < MaxFaults /\ faults' = faults + 1

-----------------------------------------------------------------------------
\* Get with a context of its own.
Call(t, b) ==
  /\ stack[t] = <<>>
  /\ calls < MaxCalls
  /\ calls' = calls + 1
  /\ Push(t, b)
  /\ UNCHANGED <<cacheVars, historyVars, faults>>

\* resolve with a context that is done.
ResolveCancelled(t) ==
  /\ In(t, "enter")
  /\ Fault
  /\ Error(t)
  /\ UNCHANGED <<cacheVars, historyVars, calls>>

\* Mutant: an early instance is given to any chain that asks for the bean.
ResolveEarlyAnywhere(t) ==
  /\ In(t, "enter")
  /\ AllowCircular /\ early[Top(t).bean] # None
  /\ Reply(t, early[Top(t).bean])
  /\ UNCHANGED <<cacheVars, calls, faults>>

\* resolve of a bean that this chain is creating already.
ResolveEarly(t) ==
  /\ In(t, "enter")
  /\ Top(t).bean \in Active(t)
  /\ AllowCircular /\ early[Top(t).bean] # None
  /\ Reply(t, early[Top(t).bean])
  /\ UNCHANGED <<cacheVars, calls, faults>>

ResolveCircular(t) ==
  /\ In(t, "enter")
  /\ Top(t).bean \in Active(t)
  /\ ~ (AllowCircular /\ early[Top(t).bean] # None)
  /\ Error(t)
  /\ UNCHANGED <<cacheVars, historyVars, calls, faults>>

Entered(t) == In(t, "enter") /\ Top(t).bean \notin Active(t)

\* resolveSingleton: the cached instance, another's call, or a call of its own.
ResolveCached(t) ==
  /\ Entered(t)
  /\ Top(t).bean \in Singletons
  /\ singletons[Top(t).bean] # None
  /\ Reply(t, singletons[Top(t).bean])
  /\ UNCHANGED <<cacheVars, calls, faults>>

Join(t) ==
  /\ Entered(t)
  /\ singletons[Top(t).bean] = None
  /\ inFlight[Top(t).bean] # {}
  /\ stack' = [stack EXCEPT ![t] = SetTop(@, [Top(t) EXCEPT !.phase = "wait"])]
  /\ UNCHANGED <<cacheVars, historyVars, calls, faults>>

\* Mutant: inFlight is not looked at.
ClaimTwice(t) ==
  /\ Entered(t)
  /\ singletons[Top(t).bean] = None
  /\ inFlight' = IF Top(t).bean \in Singletons
                 THEN [inFlight EXCEPT ![Top(t).bean] = {t}] ELSE inFlight
  /\ stack' = [stack EXCEPT ![t] = SetTop(@, [Top(t) EXCEPT !.phase = "dependsOn"])]
  /\ UNCHANGED <<singletons, early, historyVars, calls, faults>>

Claim(t) ==
  /\ Entered(t)
  /\ singletons[Top(t).bean] = None
  /\ inFlight[Top(t).bean] = {}
  /\ inFlight' = IF Top(t).bean \in Singletons
                 THEN [inFlight EXCEPT ![Top(t).bean] = {t}] ELSE inFlight
  /\ stack' = [stack EXCEPT ![t] = SetTop(@, [Top(t) EXCEPT !.phase = "dependsOn"])]
  /\ UNCHANGED <<singletons, early, historyVars, calls, faults>>

\* The select of a waiter: the other's call has ended, or the context is done.
Wake(t) ==
  /\ In(t, "got")
  /\ \/ Top(t).val # None /\ Reply(t, Top(t).val)
     \/ Top(t).val = None /\ Error(t) /\ UNCHANGED historyVars
  /\ UNCHANGED <<cacheVars, calls, faults>>

WaitCancelled(t) ==
  /\ In(t, "wait") \/ In(t, "got")
  /\ Fault
  /\ Error(t)
  /\ UNCHANGED <<cacheVars, historyVars, calls>>

-----------------------------------------------------------------------------
Deps(b, phase) ==
  CASE phase = "dependsOn" -> DependsOn[b]
    [] phase = "factory"   -> FactoryDeps[b]
    [] phase = "inject"    -> InjectDeps[b]
    [] OTHER               -> <<>>

Working(t) == stack[t] # <<>> /\ Top(t).phase \in {"dependsOn", "factory", "inject"}
DepsDone(t) == Top(t).next > Len(Deps(Top(t).bean, Top(t).phase))

\* resolveDependsOn, the factory or the injector resolves its next bean.
ResolveNext(t) ==
  /\ Working(t)
  /\ ~ DepsDone(t)
  /\ Push(t, Deps(Top(t).bean, Top(t).phase)[Top(t).next])
  /\ UNCHANGED <<cacheVars, historyVars, calls, faults>>

\* Mutant: depends-on beans are only declared, not resolved first.
DependsOnIgnored(t) ==
  /\ In(t, "dependsOn")
  /\ stack' = [stack EXCEPT ![t] =
                 SetTop(@, [Top(t) EXCEPT !.phase = "factory", !.next = 1])]
  /\ UNCHANGED <<cacheVars, historyVars, calls, faults>>

DependsOnDone(t) ==
  /\ In(t, "dependsOn")
  /\ DepsDone(t)
  /\ stack' = [stack EXCEPT ![t] =
                 SetTop(@, [Top(t) EXCEPT !.phase = "factory", !.next = 1])]
  /\ UNCHANGED <<cacheVars, historyVars, calls, faults>>

\* The factory returns an object holding what it resolved; a singleton with an
\* injector is exposed early.
Instantiate(t) ==
  LET b == Top(t).bean
      n == made[b] + 1
  IN  /\ In(t, "factory")
      /\ DepsDone(t)
      /\ made' = [made EXCEPT ![b] = n]
      /\ wired' = wired \cup {<<<<b, n>>, i>> : i \in Top(t).uses}
      /\ early' = IF AllowCircular /\ b \in Singletons /\ InjectDeps[b] # <<>>
                  THEN [early EXCEPT ![b] = n] ELSE early
      /\ stack' = [stack EXCEPT ![t] = SetTop(@, [Top(t) EXCEPT
                     !.phase = "inject", !.next = 1, !.val = n, !.uses = {}])]
      /\ UNCHANGED <<singletons, inFlight, served, calls, faults>>

\* The factory or the injector returns an error or panics by itself.
CreationFails(t) ==
  /\ In(t, "factory") \/ (In(t, "inject") /\ InjectDeps[Top(t).bean] # <<>>)
  /\ Fault
  /\ stack' = [stack EXCEPT ![t] = SetTop(@, [Top(t) EXCEPT !.phase = "failed"])]
  /\ UNCHANGED <<cacheVars, historyVars, calls>>

\* close(call.done): everyone waiting for b has its result.
Deliver(st, t, b, n) ==
  [u \in Thread |->
    IF u # t /\ In(u, "wait") /\ Top(u).bean = b
    THEN SetTop(stack[u], [Top(u) EXCEPT !.phase = "got", !.val = n])
    ELSE st[u]]

\* Mutant: the instance is returned but not cached.
PublishUncached(t) ==
  LET b == Top(t).bean
      i == <<b, Top(t).val>>
      rest == Front(stack[t])
      mine == [stack EXCEPT ![t] = Answered(rest, i)]
  IN  /\ In(t, "inject")
      /\ DepsDone(t)
      /\ Record(rest, i)
      /\ IF b \in Singletons
         THEN /\ early' = [early EXCEPT ![b] = None]
              /\ inFlight' = [inFlight EXCEPT ![b] = {}]
              /\ stack' = Deliver(mine, t, b, Top(t).val)
         ELSE stack' = mine /\ UNCHANGED <<early, inFlight>>
      /\ UNCHANGED <<singletons, made, calls, faults>>

\* Mutant: done is not closed, nobody wakes.
PublishSilently(t) ==
  LET b == Top(t).bean
      i == <<b, Top(t).val>>
      rest == Front(stack[t])
      mine == [stack EXCEPT ![t] = Answered(rest, i)]
  IN  /\ In(t, "inject")
      /\ DepsDone(t)
      /\ Record(rest, i)
      /\ IF b \in Singletons
         THEN /\ singletons' = [singletons EXCEPT ![b] = Top(t).val]
              /\ early' = [early EXCEPT ![b] = None]
              /\ inFlight' = [inFlight EXCEPT ![b] = {}]
         ELSE UNCHANGED cacheVars
      /\ stack' = mine
      /\ UNCHANGED <<made, calls, faults>>

\* The end of resolveSingleton, and of create for a prototype.
Publish(t) ==
  LET b == Top(t).bean
      i == <<b, Top(t).val>>
      rest == Front(stack[t])
      mine == [stack EXCEPT ![t] = Answered(rest, i)]
  IN  /\ In(t, "inject")
      /\ DepsDone(t)
      /\ Record(rest, i)
      /\ IF b \in Singletons
         THEN /\ singletons' = [singletons EXCEPT ![b] = Top(t).val]
              /\ early' = [early EXCEPT ![b] = None]
              /\ inFlight' = [inFlight EXCEPT ![b] = {}]
              /\ stack' = Deliver(mine, t, b, Top(t).val)
         ELSE stack' = mine /\ UNCHANGED cacheVars
      /\ UNCHANGED <<made, calls, faults>>

GiveUp(t) ==
  LET b == Top(t).bean
      mine == [stack EXCEPT ![t] = Failed(Front(@))]
  IN  /\ In(t, "failed")
      /\ IF b \in Singletons
         THEN /\ early' = [early EXCEPT ![b] = None]
              /\ inFlight' = [inFlight EXCEPT ![b] = {}]
              /\ stack' = Deliver(mine, t, b, None)
         ELSE stack' = mine /\ UNCHANGED <<early, inFlight>>
      /\ UNCHANGED <<singletons, historyVars, calls, faults>>

\* What a goroutine does by itself, faults aside.
Step(t) ==
  \/ ResolveEarly(t) \/ ResolveCircular(t) \/ ResolveCached(t)
  \/ Join(t) \/ Claim(t) \/ Wake(t)
  \/ ResolveNext(t) \/ DependsOnDone(t) \/ Instantiate(t)
  \/ Publish(t) \/ GiveUp(t)

Misfortune(t) == ResolveCancelled(t) \/ WaitCancelled(t) \/ CreationFails(t)

Next ==
  \E t \in Thread :
    \/ \E b \in Roots : Call(t, b)
    \/ Step(t)
    \/ Misfortune(t)

Spec == Init /\ [][Next]_vars

\* Factories and injectors return; the scheduler runs every goroutine that can.
FairSpec == Spec /\ \A t \in Thread : WF_vars(Step(t))
-----------------------------------------------------------------------------
\* Frames of b in which its creation is under way.
CreatingFrames(b) ==
  UNION {{<<t, i>> : i \in {j \in DOMAIN stack[t] :
            stack[t][j].bean = b /\ stack[t][j].phase \in Creating}} : t \in Thread}

\* A singleton is created by one goroutine at a time, the one inFlight names,
\* and never once it has been published; a creation that has ended, well or
\* not, leaves neither a claim nor an early instance behind.
OneCreator ==
  \A b \in Singletons :
    /\ Cardinality(CreatingFrames(b)) <= 1
    /\ inFlight[b] = {c[1] : c \in CreatingFrames(b)}
    /\ inFlight[b] # {} => singletons[b] = None
    /\ early[b] # None =>
         \E c \in CreatingFrames(b) : stack[c[1]][c[2]].val = early[b]

\* What one bean's creation resolves; Leads goes along any number of these.
AskedBy(a) == Range(DependsOn[a]) \cup Range(FactoryDeps[a]) \cup Range(InjectDeps[a])
ClosedSets == {S \in SUBSET Bean : \A a \in S : AskedBy(a) \subseteq S}
Leads == {e \in Bean \X Bean : \A S \in ClosedSets : e[1] \in S => e[2] \in S}

\* The injector of instance i has set every field.
Injected(i) ==
  \A d \in Range(InjectDeps[i[1]]) : \E w \in wired : w[1] = i /\ w[2][1] = d

\* Get returns, and the cache offers, only an instance whose injector has set
\* every field, and so are the objects that any object holds, whichever
\* goroutines inject at the time (docs/goark-annotations-v1.md: a concurrent Get
\* waits for the injection).  Only beans of one cycle hold each other before that.
DeeplyInjected ==
  /\ \A i \in served \cup {<<b, singletons[b]>> : b \in {x \in Singletons : singletons[x] # None}} :
       Injected(i)
  /\ \A w \in wired : Injected(w[2]) \/ <<w[2][1], w[1][1]>> \in Leads

\* Instances that the program can hold: handed out, cached, or a field of one.
Held ==
  LET roots == served \cup {<<b, singletons[b]>> : b \in {x \in Singletons : singletons[x] # None}}
  IN  roots \cup {w[2] : w \in {x \in wired : x[1] \in roots}}

\* There is one instance of each singleton: no caller and no field holds another
\* one, whichever creations failed and were tried again.
SingletonIsUnique ==
  \A i, j \in Held : i[1] = j[1] /\ i[1] \in Singletons => i = j

\* No injector of d leads back to a bean that resolves d in phase p: the cycles
\* that ValidateDependencies accepts are of injection alone.
NoWayBack(p) ==
  AllowCircular =>
    \A b \in Bean : \A d \in Range(Deps(b, p)) \cap Singletons :
      \A e \in Range(InjectDeps[d]) : <<e, b>> \notin Leads

\* An instance is made only after the singletons its bean depends on.
DependsOnFirst ==
  [][\A b \in Bean : made'[b] # made[b] =>
       \A d \in Range(DependsOn[b]) \cap Singletons : singletons[d] # None]_vars

\* Every Get returns.
GetReturns == \A t \in Thread : stack[t] # <<>> ~> stack[t] = <<>>

\* To its callers the container is a singleton scope.
Before == [b \in Singletons |->
             (Range(DependsOn[b]) \cup Range(FactoryDeps[b])) \cap Singletons]
Scope == INSTANCE SingletonScope WITH
  Bean <- Singletons,
  instance <- [b \in Singletons |-> singletons[b]],
  handedOut <- {i \in served : i[1] \in Singletons}
ImplementsScope == Scope!Spec
=============================================================================
