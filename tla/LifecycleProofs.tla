-------------------------- MODULE LifecycleProofs --------------------------
(***************************************************************************)
(* Theorems about LifecycleManager for any hooks, dependencies, goroutines *)
(* and callbacks.  IInv says, for every point a goroutine can be at, which *)
(* hooks are up and which are closed in terms of its lists; one lemma per  *)
(* action shows that it is preserved.                                      *)
(***************************************************************************)
EXTENDS LifecycleManager, HookOrderProofs

\* A new manager satisfies the invariant.
LEMMA InitInv == Init => IInv
BY FS_EmptySet
DEF Init, IInv, TypeOK, DriverInv, SettledInv, StartingInv, SweepingInv, ClosingInv,
    DependenciesUp, CallbacksBalanced, DependentsClosedFirst, UpIs, ClosesIs,
    Sweeping, Driving, IsUp, DepsIn

\* Register happens in a stopped manager: nothing is up, closed or under way
\* that the new hook or its dependencies could disturb.
LEMMA RegisterInv ==
  ASSUME IInv, NEW h \in Hook, NEW ds \in SUBSET Hook, Register(h, ds)
  PROVE  IInv'
<1> USE DEF IInv, Register, callVars, managerVars
<1>1. TypeOK' BY FS_AddElement DEF TypeOK
<1>2. \A t \in Thread : pc[t] = "idle" BY DEF DriverInv, TypeOK, Driving, Sweeping
<1>3. DriverInv' BY DEF DriverInv
<1>4. UpIs({})' /\ ClosesIs({})' BY DEF SettledInv, UpIs, ClosesIs
<1>5. SettledInv' BY <1>4 DEF SettledInv
<1>6. ASSUME NEW t \in Thread
      PROVE  (StartingInv(t) /\ SweepingInv(t) /\ ClosingInv(t))'
  BY <1>2 DEF StartingInv, SweepingInv, ClosingInv, Sweeping
<1>7. DependenciesUp' BY <1>4, <1>1 DEF DependenciesUp, UpIs, IsUp, TypeOK
<1>8. CallbacksBalanced' BY DEF CallbacksBalanced
<1>9. DependentsClosedFirst' BY <1>4, <1>1 DEF DependentsClosedFirst, ClosesIs, TypeOK
<1> QED BY <1>1, <1>3, <1>5, <1>6, <1>7, <1>8, <1>9

\* Only the goroutine that moves is inside the manager.
LEMMA Alone ==
  ASSUME IInv, NEW t \in Thread, pc[t] # "idle" \/ state \notin Busy
  PROVE  \A u \in Thread \ {t} : pc[u] = "idle"
BY DEF IInv, DriverInv, Busy, TypeOK, Driving, Sweeping

\* The part of the invariant that a step which touches no callback preserves.
LEMMA QuietStep ==
  ASSUME IInv, UNCHANGED <<hooks, deps, up, closes>>
  PROVE  (DependenciesUp /\ CallbacksBalanced /\ DependentsClosedFirst)'
BY DEF IInv, DependenciesUp, CallbacksBalanced, DependentsClosedFirst, IsUp, DepsIn

\* The goroutines that do not move stay idle, and say nothing.
LEMMA IdleSays ==
  ASSUME NEW u \in Thread, pc'[u] = "idle"
  PROVE  (StartingInv(u) /\ SweepingInv(u) /\ ClosingInv(u))'
BY DEF StartingInv, SweepingInv, ClosingInv, Sweeping

\* Start takes the manager: the hooks are sorted and none runs yet.
LEMMA BeginStartInv ==
  ASSUME IInv, NEW t \in Thread, BeginStart(t)
  PROVE  IInv'
<1> USE DEF IInv
<1>1. PICK order \in Orders : Enter(t, "starting", order, <<>>) BY DEF BeginStart
<1>2. /\ order \in Seq(Hook) /\ Range(order) = hooks /\ IsInjective(order)
      /\ Layered(Needs, {}, order)
  BY StartOrderFacts DEF Orders, TypeOK, Needs
<1>3. TypeOK' BY <1>1, <1>2, EmptySeq DEF BeginStart, Enter, TypeOK, Driving
<1>4. /\ pc'[t] = "starting" /\ todo'[t] = order /\ local'[t] = <<>>
      /\ \A u \in Thread \ {t} : pc'[u] = "idle"
  BY <1>1, Alone DEF BeginStart, Enter, TypeOK, Busy
<1>5. DriverInv' BY <1>4 DEF BeginStart, DriverInv
<1>6. UpIs({})' /\ ClosesIs({})' BY DEF BeginStart, SettledInv, UpIs, ClosesIs
<1>7. SettledInv' BY <1>6 DEF BeginStart, SettledInv
<1>8. (StartingInv(t) /\ SweepingInv(t) /\ ClosingInv(t))'
  <2>1. Range(<<>>) = {} /\ IsInjective(<<>>) /\ Layered(Needs, {}, <<>>)
    BY EmptyList
  <2>2. Needs' = Needs BY DEF BeginStart, Needs
  <2> QED BY <1>2, <1>4, <1>6, <2>1, <2>2
      DEF BeginStart, StartingInv, SweepingInv, ClosingInv, Sweeping, Ordered
<1> QED BY <1>3, <1>4, <1>5, <1>7, <1>8, IdleSays, QuietStep DEF BeginStart

\* A hook that has started joins those that run, after all it needs.
LEMMA StartHookInv ==
  ASSUME IInv, NEW t \in Thread, StartHook(t)
  PROVE  IInv'
<1> USE DEF IInv
<1> DEFINE h == Head(todo[t])
           l == local[t]
           r == Tail(todo[t])
<1>1. /\ todo[t] \in Seq(Hook) /\ todo[t] # <<>> /\ l \in Seq(Hook)
      /\ pc[t] = "starting"
      /\ StartingInv(t) /\ state = "starting" /\ ClosesIs({})
  BY DEF StartHook, TypeOK, DriverInv, SettledInv
<1>2. /\ Ordered(l) /\ UpIs(Range(l)) /\ IsInjective(todo[t])
      /\ Layered(Needs, Range(l), todo[t])
      /\ Range(l) \cap Range(todo[t]) = {} /\ Range(l) \cup Range(todo[t]) = hooks
  BY <1>1 DEF StartingInv
<1>3. /\ h \in Hook /\ r \in Seq(Hook)
      /\ Range(todo[t]) = {h} \cup Range(r) /\ h \notin Range(r)
      /\ IsInjective(r)
      /\ Needs[h] \subseteq Range(l)
      /\ Layered(Needs, Range(l) \cup {h}, r)
  BY <1>1, <1>2, HeadFacts, ZenonT(40)
<1>4. /\ Append(l, h) \in Seq(Hook) /\ Range(Append(l, h)) = Range(l) \cup {h}
      /\ IsInjective(Append(l, h)) /\ Layered(Needs, {}, Append(l, h))
  BY <1>1, <1>2, <1>3, AppendFacts DEF Ordered
<1> HIDE DEF h, l, r
<1>5. /\ pc' = pc /\ todo'[t] = r /\ local'[t] = Append(l, h)
      /\ up' = [up EXCEPT ![h] = @ + 1]
      /\ \A u \in Thread \ {t} : pc'[u] = "idle"
      /\ UNCHANGED <<managerVars, closes>>
  BY <1>1, Alone DEF StartHook, Goto, TypeOK, h, l, r
<1>6. TypeOK' BY <1>3, <1>4, <1>5 DEF StartHook, Goto, TypeOK, managerVars, h, l, r
<1>7. DriverInv' /\ SettledInv' BY <1>1, <1>5 DEF DriverInv, SettledInv, managerVars, ClosesIs
<1>8. \A g \in Hook : up'[g] = IF g \in Range(Append(l, h)) THEN 1 ELSE 0
  BY <1>2, <1>3, <1>4, <1>5 DEF UpIs, TypeOK
<1>9. Needs' = Needs BY <1>5 DEF Needs, managerVars
<1>10. (SweepingInv(t) /\ ClosingInv(t))'
  BY <1>1, <1>5 DEF SweepingInv, ClosingInv, Sweeping
<1>11. StartingInv(t)'
  <2>1. /\ Range(Append(l, h)) \cap Range(r) = {}
        /\ Range(Append(l, h)) \cup Range(r) = hooks
    BY <1>2, <1>3, <1>4
  <2>2. Layered(Needs, Range(Append(l, h)), r) BY <1>3, <1>4
  <2> QED BY <1>3, <1>4, <1>5, <1>8, <1>9, <2>1, <2>2
      DEF StartingInv, Ordered, UpIs, managerVars
<1>12. DependenciesUp'
  <2>1. \A g \in hooks : up'[g] > 0 => \A d \in DepsIn(hooks, deps, g) : up'[d] > 0
    BY <1>4, <1>8, UpDependencies DEF TypeOK, Needs
  <2> QED BY <2>1, <1>5 DEF DependenciesUp, IsUp, managerVars
<1>13. CallbacksBalanced' BY <1>5, <1>8 DEF CallbacksBalanced, UpIs
<1>14. DependentsClosedFirst' BY <1>1, <1>5 DEF DependentsClosedFirst, ClosesIs, managerVars, TypeOK
<1> QED BY <1>5, <1>6, <1>7, <1>10, <1>11, <1>12, <1>13, <1>14, IdleSays

\* A start that fails turns around: what was started is to be stopped.
LEMMA FailStartInv ==
  ASSUME IInv, NEW t \in Thread, FailStart(t)
  PROVE  IInv'
<1> USE DEF IInv
<1>1. /\ pc[t] = "starting" /\ state = "starting"
      /\ Ordered(local[t]) /\ UpIs(Range(local[t])) /\ Range(local[t]) \subseteq hooks
      /\ local[t] \in Seq(Hook)
  BY DEF FailStart, StartingInv, DriverInv, TypeOK
<1>2. /\ pc'[t] = "rollback" /\ todo'[t] = local[t]
      /\ \A u \in Thread \ {t} : pc'[u] = "idle"
      /\ UNCHANGED <<managerVars, up, closes>>
  BY <1>1, Alone DEF FailStart, Goto, TypeOK
<1>3. TypeOK' BY <1>1, <1>2, EmptySeq DEF FailStart, Goto, TypeOK, managerVars, Driving, Sweeping
<1>4. DriverInv' /\ SettledInv' BY <1>1, <1>2 DEF DriverInv, SettledInv, managerVars, ClosesIs
<1>5. Needs' = Needs BY <1>2 DEF Needs, managerVars
<1>6. (StartingInv(t) /\ SweepingInv(t) /\ ClosingInv(t))'
  BY <1>1, <1>2, <1>5
  DEF StartingInv, SweepingInv, ClosingInv, Sweeping, Ordered, UpIs, managerVars
<1> QED BY <1>2, <1>3, <1>4, <1>6, IdleSays, QuietStep DEF managerVars

\* The last hook has started and the manager is running.
LEMMA FinishStartInv ==
  ASSUME IInv, NEW t \in Thread, FinishStart(t)
  PROVE  IInv'
<1> USE DEF IInv
<1>1. /\ pc[t] = "starting" /\ state = "starting" /\ ClosesIs({})
      /\ Ordered(local[t]) /\ UpIs(Range(local[t])) /\ Range(local[t]) = hooks
      /\ local[t] \in Seq(Hook)
  BY EmptyList DEF FinishStart, StartingInv, DriverInv, TypeOK, SettledInv
<1>2. /\ pc'[t] = "idle" /\ started' = local[t] /\ state' = "running"
      /\ \A u \in Thread \ {t} : pc'[u] = "idle"
      /\ UNCHANGED <<hooks, deps, up, closes>>
  BY <1>1, Alone DEF FinishStart, Return, Goto, TypeOK
<1>3. TypeOK' BY <1>1, <1>2, EmptySeq DEF FinishStart, Return, Goto, TypeOK
<1>4. DriverInv' BY <1>2 DEF DriverInv
<1>5. Needs' = Needs BY <1>2 DEF Needs
<1>6. SettledInv' BY <1>1, <1>2, <1>5 DEF SettledInv, ClosesIs, UpIs, Ordered
<1> QED BY <1>2, <1>3, <1>4, <1>6, IdleSays, QuietStep

\* A hook is stopped, or fails to, before those it needs.
LEMMA StopHookInv ==
  ASSUME IInv, NEW t \in Thread, StopHook(t)
  PROVE  IInv'
<1> USE DEF IInv
<1> DEFINE h == Last(todo[t])
           r == Front(todo[t])
<1>1. /\ todo[t] \in Seq(Hook) /\ todo[t] # <<>>
      /\ pc[t] \in Sweeping /\ state \in Busy
      /\ Ordered(todo[t]) /\ UpIs(Range(todo[t])) /\ Range(todo[t]) \subseteq hooks
      /\ ClosesIs({})
  BY DEF StopHook, TypeOK, SweepingInv, ClosingInv, DriverInv, SettledInv, Sweeping, Busy
<1>2. /\ h \in Hook /\ r \in Seq(Hook)
      /\ Range(todo[t]) = {h} \cup Range(r) /\ h \notin Range(r)
      /\ IsInjective(r) /\ Layered(Needs, {}, r)
  BY <1>1, LastFacts DEF Ordered
<1> HIDE DEF h, r
<1>3. /\ pc' = pc /\ todo'[t] = r /\ local' = local
      /\ up' = [up EXCEPT ![h] = @ - 1]
      /\ \A u \in Thread \ {t} : pc'[u] = "idle"
      /\ UNCHANGED <<managerVars, closes>>
  <2>1. pc[t] # "idle" BY <1>1 DEF Sweeping
  <2> QED BY <2>1, Alone DEF StopHook, Goto, TypeOK, h, r
<1>4. TypeOK' BY <1>2, <1>3 DEF StopHook, Goto, TypeOK, managerVars, h, r
<1>5. DriverInv' /\ SettledInv'
  BY <1>1, <1>3 DEF DriverInv, SettledInv, managerVars, ClosesIs, Busy
<1>6. \A g \in Hook : up'[g] = IF g \in Range(r) THEN 1 ELSE 0
  BY <1>1, <1>2, <1>3 DEF UpIs, TypeOK
<1>7. Needs' = Needs BY <1>3 DEF Needs, managerVars
<1>8. (StartingInv(t) /\ SweepingInv(t) /\ ClosingInv(t))'
  BY <1>1, <1>2, <1>3, <1>6, <1>7
  DEF StartingInv, SweepingInv, ClosingInv, Sweeping, Ordered, UpIs, ClosesIs, managerVars
<1>9. DependenciesUp'
  <2>1. \A g \in hooks : up'[g] > 0 => \A d \in DepsIn(hooks, deps, g) : up'[d] > 0
    BY <1>2, <1>6, UpDependencies DEF TypeOK, Needs
  <2> QED BY <2>1, <1>3 DEF DependenciesUp, IsUp, managerVars
<1>10. CallbacksBalanced' BY <1>3, <1>6 DEF CallbacksBalanced, UpIs
<1>11. DependentsClosedFirst' BY <1>1, <1>3 DEF DependentsClosedFirst, ClosesIs, managerVars, TypeOK
<1> QED BY <1>3, <1>4, <1>5, <1>8, <1>9, <1>10, <1>11, IdleSays

\* All are stopped, after Stop or a failed Start, and the manager is stopped.
LEMMA FinishStopInv ==
  ASSUME IInv, NEW t \in Thread, FinishStop(t)
  PROVE  IInv'
<1> USE DEF IInv
<1>1. pc[t] # "idle" /\ UpIs({}) /\ ClosesIs({})
  BY EmptyList DEF FinishStop, SweepingInv, ClosingInv, SettledInv, DriverInv, Sweeping
<1>2. /\ pc'[t] = "idle" /\ started' = <<>> /\ state' = "stopped"
      /\ \A u \in Thread \ {t} : pc'[u] = "idle"
      /\ UNCHANGED <<hooks, deps, up, closes>>
  BY <1>1, Alone DEF FinishStop, Return, Goto, TypeOK
<1>3. TypeOK' BY <1>2, EmptySeq DEF FinishStop, Return, Goto, TypeOK
<1>4. DriverInv' BY <1>2 DEF DriverInv
<1>5. SettledInv' BY <1>1, <1>2 DEF SettledInv, ClosesIs, UpIs
<1> QED BY <1>2, <1>3, <1>4, <1>5, IdleSays, QuietStep

\* Stop takes a running manager.
LEMMA BeginStopInv ==
  ASSUME IInv, NEW t \in Thread, BeginStop(t)
  PROVE  IInv'
<1> USE DEF IInv
<1>1. /\ Ordered(started) /\ Range(started) = hooks /\ UpIs(hooks) /\ ClosesIs({})
      /\ started \in Seq(Hook)
  BY DEF BeginStop, SettledInv, TypeOK
<1>2. /\ pc'[t] = "stopping" /\ todo'[t] = started /\ state' = "stopping"
      /\ \A u \in Thread \ {t} : pc'[u] = "idle"
      /\ UNCHANGED <<hooks, deps, started, up, closes>>
  BY Alone DEF BeginStop, Enter, TypeOK, Busy
<1>3. TypeOK' BY <1>1, <1>2, EmptySeq DEF BeginStop, Enter, TypeOK, Driving, Sweeping
<1>4. DriverInv' BY <1>2 DEF DriverInv
<1>5. SettledInv' BY <1>2 DEF SettledInv
<1>6. Needs' = Needs BY <1>2 DEF Needs
<1>7. (StartingInv(t) /\ SweepingInv(t) /\ ClosingInv(t))'
  BY <1>1, <1>2, <1>6
  DEF StartingInv, SweepingInv, ClosingInv, Sweeping, Ordered, UpIs, ClosesIs
<1> QED BY <1>2, <1>3, <1>4, <1>5, <1>7, IdleSays, QuietStep

\* Close takes the manager, from running or from stopped.
LEMMA BeginCloseInv ==
  ASSUME IInv, NEW t \in Thread, BeginClose(t)
  PROVE  IInv'
<1> USE DEF IInv
<1> DEFINE stops == IF state = "running" THEN started ELSE <<>>
<1>1. PICK order \in Orders : Enter(t, "closeStop", stops, order) BY DEF BeginClose
<1>2. /\ order \in Seq(Hook) /\ Range(order) = hooks /\ IsInjective(order)
      /\ Layered(Needs, {}, order)
  BY StartOrderFacts DEF Orders, TypeOK, Needs
<1>3. /\ stops \in Seq(Hook) /\ Ordered(stops) /\ Range(stops) \subseteq hooks
      /\ UpIs(Range(stops)) /\ ClosesIs({})
  <2>1. CASE state = "running" BY <2>1 DEF SettledInv, TypeOK
  <2>2. CASE state = "stopped" BY <2>2, EmptyList, EmptySeq DEF SettledInv, Ordered
  <2> QED BY <2>1, <2>2 DEF BeginClose
<1> HIDE DEF stops
<1>4. /\ pc'[t] = "closeStop" /\ todo'[t] = stops /\ local'[t] = order
      /\ state' = "stopping"
      /\ \A u \in Thread \ {t} : pc'[u] = "idle"
      /\ UNCHANGED <<hooks, deps, started, up, closes>>
  BY <1>1, Alone DEF BeginClose, Enter, TypeOK, Busy
<1>5. TypeOK' BY <1>1, <1>2, <1>3, <1>4 DEF Enter, TypeOK, Driving, Sweeping
<1>6. DriverInv' /\ SettledInv' BY <1>4 DEF DriverInv, SettledInv
<1>7. Needs' = Needs BY <1>4 DEF Needs
<1>8. (StartingInv(t) /\ SweepingInv(t) /\ ClosingInv(t))'
  BY <1>2, <1>3, <1>4, <1>7
  DEF StartingInv, SweepingInv, ClosingInv, Sweeping, Ordered, UpIs, ClosesIs
<1> QED BY <1>4, <1>5, <1>6, <1>8, IdleSays, QuietStep

\* Close has stopped what ran and turns to the closers.
LEMMA CloseStoppedInv ==
  ASSUME IInv, NEW t \in Thread, CloseStopped(t)
  PROVE  IInv'
<1> USE DEF IInv
<1>1. /\ pc[t] = "closeStop" /\ UpIs({}) /\ ClosesIs({})
      /\ Ordered(local[t]) /\ Range(local[t]) = hooks /\ local[t] \in Seq(Hook)
  BY EmptyList DEF CloseStopped, SweepingInv, ClosingInv, Sweeping, TypeOK
<1>2. /\ pc'[t] = "closing" /\ todo'[t] = local[t]
      /\ \A u \in Thread \ {t} : pc'[u] = "idle"
      /\ UNCHANGED <<managerVars, up, closes>>
  BY <1>1, Alone DEF CloseStopped, Goto, TypeOK
<1>3. TypeOK' BY <1>1, <1>2, EmptySeq DEF CloseStopped, Goto, TypeOK, managerVars, Driving
<1>4. DriverInv' /\ SettledInv'
  BY <1>1, <1>2 DEF DriverInv, SettledInv, managerVars
<1>5. Needs' = Needs BY <1>2 DEF Needs, managerVars
<1>6. (StartingInv(t) /\ SweepingInv(t) /\ ClosingInv(t))'
  <2>1. (hooks \ Range(local[t])) \cap Closers = {} BY <1>1
  <2> QED BY <1>1, <1>2, <1>5, <2>1
      DEF StartingInv, SweepingInv, ClosingInv, Sweeping, Ordered, UpIs, ClosesIs, managerVars
<1> QED BY <1>2, <1>3, <1>4, <1>6, IdleSays, QuietStep DEF managerVars

\* A hook whose closing is due: all that depend on it stood behind it in the
\* list, and have been closed.
LEMMA CloseHookInv ==
  ASSUME IInv, NEW t \in Thread, CloseHook(t)
  PROVE  IInv'
<1> USE DEF IInv
<1> DEFINE h == Last(todo[t])
           r == Front(todo[t])
<1>1. /\ todo[t] \in Seq(Hook) /\ todo[t] # <<>>
      /\ pc[t] = "closing" /\ state = "stopping" /\ UpIs({})
      /\ Ordered(todo[t]) /\ Range(todo[t]) \subseteq hooks
      /\ ClosesIs((hooks \ Range(todo[t])) \cap Closers)
  BY DEF CloseHook, TypeOK, ClosingInv, DriverInv
<1>2. /\ h \in Hook /\ r \in Seq(Hook)
      /\ Range(todo[t]) = {h} \cup Range(r) /\ h \notin Range(r)
      /\ IsInjective(r) /\ Layered(Needs, {}, r)
  BY <1>1, LastFacts DEF Ordered
<1> HIDE DEF h, r
<1>3. /\ pc' = pc /\ todo'[t] = r /\ local' = local
      /\ closes' = [closes EXCEPT ![h] = IF h \in Closers THEN @ + 1 ELSE @]
      /\ \A u \in Thread \ {t} : pc'[u] = "idle"
      /\ UNCHANGED <<managerVars, up>>
  BY <1>1, Alone DEF CloseHook, Goto, TypeOK, h, r
<1>4. TypeOK' BY <1>2, <1>3 DEF CloseHook, Goto, TypeOK, managerVars, h, r
<1>5. DriverInv' /\ SettledInv'
  BY <1>1, <1>3 DEF DriverInv, SettledInv, managerVars
<1>6. \A g \in Hook :
        closes'[g] = IF g \in (hooks \ Range(r)) \cap Closers THEN 1 ELSE 0
  <2> SUFFICES ASSUME NEW g \in Hook
               PROVE  closes'[g] = IF g \in (hooks \ Range(r)) \cap Closers THEN 1 ELSE 0
    OBVIOUS
  <2>1. closes[g] = IF g \in (hooks \ Range(todo[t])) \cap Closers THEN 1 ELSE 0
    BY <1>1 DEF ClosesIs
  <2>2. CASE g = h BY <2>1, <2>2, <1>1, <1>2, <1>3 DEF TypeOK
  <2>3. CASE g # h BY <2>1, <2>3, <1>2, <1>3 DEF TypeOK
  <2> QED BY <2>2, <2>3
<1>7. Needs' = Needs BY <1>3 DEF Needs, managerVars
<1>8. (StartingInv(t) /\ SweepingInv(t) /\ ClosingInv(t))'
  BY <1>1, <1>2, <1>3, <1>6, <1>7
  DEF StartingInv, SweepingInv, ClosingInv, Sweeping, Ordered, UpIs, ClosesIs, managerVars
<1>9. (DependenciesUp /\ CallbacksBalanced)'
  BY <1>1, <1>3, <1>6 DEF DependenciesUp, CallbacksBalanced, IsUp, UpIs, DepsIn, managerVars
<1>10. DependentsClosedFirst'
  <2> SUFFICES ASSUME NEW d \in hooks, closes'[d] > 0,
                      NEW g \in hooks \cap Closers, d \in deps[g]
               PROVE  closes'[g] > 0
    BY <1>1, <1>3 DEF DependentsClosedFirst, UpIs, managerVars
  <2>1. d \notin Range(r) BY <1>6 DEF TypeOK
  <2>2. d \in Needs[g] BY DEF Needs, DepsIn, TypeOK
  <2>3. g \notin Range(r) BY <1>2, <2>1, <2>2, LayeredClosed, LenProperties
  <2> QED BY <2>3, <1>6 DEF TypeOK
<1> QED BY <1>3, <1>4, <1>5, <1>8, <1>9, <1>10, IdleSays

\* All closers are closed, and so is the manager.
LEMMA FinishCloseInv ==
  ASSUME IInv, NEW t \in Thread, FinishClose(t)
  PROVE  IInv'
<1> USE DEF IInv
<1>1. pc[t] = "closing" /\ UpIs({}) /\ ClosesIs(hooks \cap Closers)
  <2>1. hooks \ {} = hooks OBVIOUS
  <2> QED BY <2>1, EmptyList DEF FinishClose, ClosingInv
<1>2. /\ pc'[t] = "idle" /\ started' = <<>> /\ state' = "closed"
      /\ \A u \in Thread \ {t} : pc'[u] = "idle"
      /\ UNCHANGED <<hooks, deps, up, closes>>
  BY <1>1, Alone DEF FinishClose, Return, Goto, TypeOK
<1>3. TypeOK' BY <1>2, EmptySeq DEF FinishClose, Return, Goto, TypeOK
<1>4. DriverInv' BY <1>2 DEF DriverInv
<1>5. SettledInv' BY <1>1, <1>2 DEF SettledInv, ClosesIs, UpIs
<1> QED BY <1>2, <1>3, <1>4, <1>5, IdleSays, QuietStep

\* A panic leaves the state busy with no goroutine inside: from there on no
\* action is possible, and what is up and closed stays in order.
LEMMA PanicInv ==
  ASSUME IInv, NEW t \in Thread, Panic(t)
  PROVE  IInv'
<1> USE DEF IInv
<1>1. pc[t] # "idle" /\ state \in Busy
  BY DEF Panic, DriverInv, Sweeping, Busy
<1>2. /\ pc'[t] = "idle"
      /\ \A u \in Thread \ {t} : pc'[u] = "idle"
      /\ UNCHANGED <<managerVars, up, closes>>
  BY <1>1, Alone DEF Panic, Return, Goto, TypeOK
<1>3. TypeOK' BY <1>2, EmptySeq DEF Panic, Return, Goto, TypeOK, managerVars
<1>4. DriverInv' BY <1>2 DEF DriverInv
<1>5. SettledInv' BY <1>1, <1>2 DEF SettledInv, managerVars, Busy, ClosesIs
<1> QED BY <1>2, <1>3, <1>4, <1>5, IdleSays, QuietStep DEF managerVars

\* The invariant is inductive.
LEMMA NextInv == IInv /\ [Next]_vars => IInv'
<1> SUFFICES ASSUME IInv, [Next]_vars PROVE IInv' OBVIOUS
<1>1. CASE UNCHANGED vars
  <2> USE <1>1 DEF vars, managerVars, callVars
  <2>1. TypeOK' /\ DriverInv' BY DEF IInv, TypeOK, DriverInv
  <2>2. Needs' = Needs BY DEF Needs
  <2>3. SettledInv' BY <2>2 DEF IInv, SettledInv, Ordered, UpIs, ClosesIs
  <2>4. ASSUME NEW t \in Thread
        PROVE  (StartingInv(t) /\ SweepingInv(t) /\ ClosingInv(t))'
    BY <2>2 DEF IInv, StartingInv, SweepingInv, ClosingInv, Ordered, UpIs, ClosesIs
  <2> QED BY <2>1, <2>3, <2>4, QuietStep DEF IInv
<1>2. CASE \E h \in Hook, ds \in SUBSET Hook : Register(h, ds) BY <1>2, RegisterInv
<1>3. ASSUME NEW t \in Thread, BeginStart(t) \/ BeginStop(t) \/ BeginClose(t)
      PROVE  IInv'
  BY <1>3, BeginStartInv, BeginStopInv, BeginCloseInv
<1>4. ASSUME NEW t \in Thread, Advance(t) PROVE IInv'
  BY <1>4, StartHookInv, FailStartInv, FinishStartInv, StopHookInv, FinishStopInv,
     CloseStoppedInv, CloseHookInv, FinishCloseInv, PanicInv DEF Advance
<1> QED BY <1>1, <1>2, <1>3, <1>4 DEF Next

\* The inductive invariant holds in every reachable state.
THEOREM Inductive == Spec => []IInv
BY InitInv, NextInv, PTL DEF Spec

\* The variables keep their types.
THEOREM TypeCorrect == Spec => []TypeOK
BY Inductive, PTL DEF IInv

\* In every reachable state of every manager, whatever the dependencies and the
\* callers, a hook that is up finds every registered hook it depends on up.
THEOREM DependenciesStayUp == Spec => []DependenciesUp
BY Inductive, PTL DEF IInv

\* No hook is ever started twice without a stop, stopped without a start, or
\* closed twice.
THEOREM BalancedCallbacks == Spec => []CallbacksBalanced
BY Inductive, PTL DEF IInv

\* Hooks are closed after all that depend on them, once nothing is up.
THEOREM CloseOrder == Spec => []DependentsClosedFirst
BY Inductive, PTL DEF IInv

\* A manager that says it is stopped or closed has nothing up, and one that
\* says it is running has every registered hook up.
THEOREM TruthfulState == Spec => []StateTellsTruth
<1>1. IInv => StateTellsTruth
  BY DEF IInv, SettledInv, StateTellsTruth, UpIs, IsUp, TypeOK
<1> QED BY <1>1, Inductive, PTL

\* A closed manager has closed every registered closer.
THEOREM CloseIsComplete == Spec => []ClosedReleasesAll
<1>1. IInv => ClosedReleasesAll
  BY DEF IInv, SettledInv, ClosedReleasesAll, ClosesIs, TypeOK
<1> QED BY <1>1, Inductive, PTL

\* At most one goroutine drives the hooks, and only while the state is busy.
THEOREM SingleDriver == Spec => []OneDriver
<1>1. IInv => OneDriver
  BY DEF IInv, DriverInv, OneDriver, TypeOK, Driving, Sweeping, Busy
<1> QED BY <1>1, Inductive, PTL

-----------------------------------------------------------------------------
\* The manager implements the abstract group.

\* Until Close turns to the closers, none has been closed.
LEMMA NoneReleasedBefore ==
  ASSUME IInv, NEW t \in Thread, pc[t] \in {"starting", "rollback", "stopping", "closeStop"}
  PROVE  ClosesIs({})
BY DEF IInv, DriverInv, SettledInv, ClosingInv

\* Register is the group's Join.
LEMMA RegisterIsJoin ==
  ASSUME IInv, NEW h \in Hook, NEW ds \in SUBSET Hook, Register(h, ds)
  PROVE  Group!Next
<1>1. UpIs({}) /\ ClosesIs({}) BY DEF IInv, Register, SettledInv
<1>2. Group!Join(h, ds)
  BY <1>1 DEF Register, Group!Join, Group!AllDown, Group!NoneReleased, UpIs, ClosesIs
<1> QED BY <1>2 DEF Group!Next

\* A Start callback is the group's Up.
LEMMA StartHookIsUp ==
  ASSUME IInv, NEW t \in Thread, StartHook(t)
  PROVE  Group!Next
<1> DEFINE h == Head(todo[t])
<1>1. /\ todo[t] \in Seq(Hook) /\ todo[t] # <<>> /\ ClosesIs({})
      /\ StartingInv(t) /\ pc[t] = "starting"
  BY NoneReleasedBefore DEF StartHook, IInv, TypeOK
<1>2. /\ UpIs(Range(local[t])) /\ IsInjective(todo[t])
      /\ Layered(Needs, Range(local[t]), todo[t])
      /\ Range(local[t]) \cap Range(todo[t]) = {}
      /\ Range(local[t]) \cup Range(todo[t]) = hooks
  BY <1>1 DEF StartingInv
<1>3. h \in Hook /\ h \in Range(todo[t]) /\ Needs[h] \subseteq Range(local[t])
  <2>1. h \in Hook BY <1>1, <1>2, HeadFacts
  <2> QED BY <1>1, <1>2, <2>1, HeadNeeds
<1>4. up' = [up EXCEPT ![h] = @ + 1] /\ UNCHANGED <<hooks, deps, closes>>
  BY DEF StartHook, managerVars
<1> HIDE DEF h
<1>5. up[h] = 0 /\ h \in hooks BY <1>2, <1>3 DEF UpIs
<1>6. \A d \in deps[h] \cap hooks : up[d] = 1
  BY <1>2, <1>3 DEF UpIs, Needs, DepsIn, IInv, TypeOK
<1>7. Group!Up(h)
  BY <1>1, <1>4, <1>5, <1>6 DEF Group!Up, Group!NoneReleased, ClosesIs
<1> QED BY <1>3, <1>7 DEF Group!Next

\* A Stop callback is the group's Down.
LEMMA StopHookIsDown ==
  ASSUME IInv, NEW t \in Thread, StopHook(t)
  PROVE  Group!Next
<1> DEFINE h == Last(todo[t])
           r == Front(todo[t])
<1>1. /\ todo[t] \in Seq(Hook) /\ todo[t] # <<>>
      /\ Ordered(todo[t]) /\ UpIs(Range(todo[t])) /\ Range(todo[t]) \subseteq hooks
  BY DEF StopHook, IInv, TypeOK, SweepingInv
<1>2. /\ h \in Hook /\ r \in Seq(Hook) /\ Layered(Needs, {}, r)
      /\ Range(todo[t]) = {h} \cup Range(r) /\ h \notin Range(r)
  BY <1>1, LastFacts DEF Ordered
<1>3. up' = [up EXCEPT ![h] = @ - 1] /\ UNCHANGED <<hooks, deps, closes>>
  BY DEF StopHook, managerVars
<1> HIDE DEF h, r
<1>4. h \in hooks /\ up[h] = 1 BY <1>1, <1>2 DEF UpIs
<1>5. \A d \in Range(r) : h \notin Needs[d] BY <1>2, LayeredClosed, LenProperties
<1>6. h \notin Needs[h]
  <2>1. Needs[h] \subseteq Range(r)
    BY <1>1, LastNeeds DEF Ordered, h, r
  <2> QED BY <2>1, <1>2
<1>7. ASSUME NEW d \in hooks, h \in deps[d] PROVE up[d] = 0
  <2>1. d \in Hook /\ h \in Needs[d] BY <1>7, <1>4 DEF Needs, DepsIn, IInv, TypeOK
  <2> QED BY <2>1, <1>1, <1>2, <1>5, <1>6 DEF UpIs
<1>8. Group!Down(h) BY <1>3, <1>4, <1>7 DEF Group!Down
<1> QED BY <1>2, <1>8 DEF Group!Next

\* A Close callback is the group's Release.
LEMMA CloseHookIsRelease ==
  ASSUME IInv, NEW t \in Thread, CloseHook(t)
  PROVE  Group!Next \/ UNCHANGED Group!groupVars
<1> DEFINE h == Last(todo[t])
           r == Front(todo[t])
<1>1. /\ todo[t] \in Seq(Hook) /\ todo[t] # <<>> /\ UpIs({})
      /\ Ordered(todo[t]) /\ Range(todo[t]) \subseteq hooks
      /\ ClosesIs((hooks \ Range(todo[t])) \cap Closers)
  BY DEF CloseHook, IInv, TypeOK, ClosingInv
<1>2. /\ h \in Hook /\ r \in Seq(Hook) /\ Layered(Needs, {}, r)
      /\ Range(todo[t]) = {h} \cup Range(r) /\ h \notin Range(r)
  BY <1>1, LastFacts DEF Ordered
<1>3. /\ closes' = [closes EXCEPT ![h] = IF h \in Closers THEN @ + 1 ELSE @]
      /\ UNCHANGED <<hooks, deps, up>>
  BY DEF CloseHook, managerVars
<1> HIDE DEF h, r
<1>4. CASE h \notin Closers
  BY <1>3, <1>4 DEF Group!groupVars, IInv, TypeOK
<1>5. CASE h \in Closers
  <2>1. h \in hooks /\ closes[h] = 0 BY <1>1, <1>2 DEF ClosesIs
  <2>2. closes' = [closes EXCEPT ![h] = 1] BY <1>3, <1>5, <2>1
  <2>3. \A d \in {h} \cup Range(r) : h \notin Needs[d]
    <3>1. Needs[h] \subseteq Range(r) BY <1>1, LastNeeds DEF Ordered, h, r
    <3>2. \A d \in Range(r) : Needs[d] \subseteq Range(r)
      BY <1>2, LayeredClosed, LenProperties
    <3> QED BY <1>2, <3>1, <3>2
  <2>4. ASSUME NEW d \in hooks \cap Closers, h \in deps[d] PROVE closes[d] = 1
    <3>1. d \in Hook /\ h \in Needs[d] BY <2>4, <2>1 DEF Needs, DepsIn, IInv, TypeOK
    <3>2. d \notin Range(todo[t]) BY <3>1, <1>2, <2>3
    <3> QED BY <3>1, <3>2, <2>4, <1>1 DEF ClosesIs
  <2>5. Group!AllDown BY <1>1 DEF Group!AllDown, UpIs
  <2>6. Group!Release(h)
    BY <1>3, <1>5, <2>1, <2>2, <2>4, <2>5 DEF Group!Release
  <2> QED BY <2>6, <1>2 DEF Group!Next
<1> QED BY <1>4, <1>5

\* Every step of the manager is a step of the group or leaves the group alone.
LEMMA StepRefines ==
  IInv /\ [Next]_vars => [Group!Next]_(Group!groupVars)
<1> SUFFICES ASSUME IInv, [Next]_vars
             PROVE  Group!Next \/ UNCHANGED Group!groupVars
  OBVIOUS
<1>1. CASE UNCHANGED vars BY <1>1 DEF vars, managerVars, Group!groupVars
<1>2. CASE \E h \in Hook, ds \in SUBSET Hook : Register(h, ds) BY <1>2, RegisterIsJoin
<1>3. ASSUME NEW t \in Thread, BeginStart(t) \/ BeginStop(t) \/ BeginClose(t)
      PROVE  UNCHANGED Group!groupVars
  BY <1>3 DEF BeginStart, BeginStop, BeginClose, Group!groupVars
<1>4. ASSUME NEW t \in Thread, Advance(t)
      PROVE  Group!Next \/ UNCHANGED Group!groupVars
  <2>1. CASE StartHook(t) BY <2>1, StartHookIsUp
  <2>2. CASE StopHook(t) BY <2>2, StopHookIsDown
  <2>3. CASE CloseHook(t) BY <2>3, CloseHookIsRelease
  <2>4. CASE FailStart(t) \/ FinishStart(t) \/ FinishStop(t) \/ CloseStopped(t)
             \/ FinishClose(t) \/ Panic(t)
    BY <2>4 DEF FailStart, FinishStart, FinishStop, CloseStopped, FinishClose, Panic,
       managerVars, Group!groupVars
  <2> QED BY <1>4, <2>1, <2>2, <2>3, <2>4 DEF Advance
<1> QED BY <1>1, <1>2, <1>3, <1>4 DEF Next

\* Whatever the hooks, the dependencies and the callers, the manager is an
\* implementation of the abstract group: components go up after what they need,
\* down before it, and are released once, when all are down.
THEOREM Refinement == Spec => ImplementsGroup
<1>1. Init => Group!Init BY DEF Init, Group!Init
<1> QED BY <1>1, StepRefines, Inductive, PTL DEF Spec, ImplementsGroup, Group!Spec

\* Once a hook has been closed, no step starts one.
THEOREM ClosedStaysDown == Spec => NoStartAfterClose
<1>1. ASSUME IInv, [Next]_vars, \E h \in Hook : closes[h] > 0, NEW g \in Hook
      PROVE  up'[g] <= up[g]
  <2>1. CASE \E t \in Thread : StartHook(t)
    <3>1. PICK t \in Thread : StartHook(t) BY <2>1
    <3>2. ClosesIs({}) BY <3>1, <1>1, NoneReleasedBefore DEF StartHook
    <3> QED BY <3>2, <1>1 DEF ClosesIs
  <2>2. CASE \E t \in Thread : StopHook(t)
    <3>1. PICK t \in Thread : StopHook(t) BY <2>2
    <3> QED BY <3>1, <1>1 DEF StopHook, IInv, TypeOK
  <2>3. CASE UNCHANGED up BY <2>3, <1>1 DEF IInv, TypeOK
  <2> QED BY <1>1, <2>1, <2>2, <2>3
      DEF Next, Advance, Register, BeginStart, FailStart, FinishStart, FinishStop, BeginStop,
          BeginClose, CloseStopped, CloseHook, FinishClose, Panic, vars
<1>2. IInv /\ [Next]_vars =>
        [(\E h \in Hook : closes[h] > 0) => \A h \in Hook : up'[h] <= up[h]]_vars
  BY <1>1
<1> QED BY <1>2, Inductive, PTL DEF Spec, NoStartAfterClose
=============================================================================
