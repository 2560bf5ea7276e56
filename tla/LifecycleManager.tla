-------------------------- MODULE LifecycleManager --------------------------
(***************************************************************************)
(* lifecycle.Manager: callers in several goroutines register hooks, start, *)
(* stop and close them.  The mutex is held only to read or change the      *)
(* manager's state (begin..., finish...); the callbacks of the hooks run   *)
(* outside it, one action each, interleaved with every other caller.       *)
(*                                                                         *)
(* A call that returns without touching the manager (Start while running,  *)
(* anything while another caller is driving, Start or Close over cyclic    *)
(* dependencies, any call once closed) is a stuttering step here; its      *)
(* result is StartResult, StopResult or CloseResult.                       *)
(***************************************************************************)
EXTENDS HookOrder, SequencesExt

CONSTANTS
  Thread,      \* goroutines that call the manager
  Starters,    \* hooks whose target has Start
  Stoppers,    \* hooks whose target has Stop
  Closers,     \* hooks whose target has Close
  MayPanic     \* whether callbacks may panic

ManagerAssumption ==
  /\ Starters \cup Stoppers \cup Closers = Hook
  /\ MayPanic \in BOOLEAN

VARIABLES
  state,     \* Manager.state
  hooks,     \* names in Manager.hooks
  deps,      \* DependsOn of each registered hook
  started,   \* Manager.started
  pc,        \* what each goroutine is doing inside the manager
  todo,      \* hooks its current loop has still to visit
  local,     \* its list of hooks started so far, or of hooks to close later
  up,        \* history: Starts a hook came through minus the stop turns it had
  closes     \* history: Close calls each hook received

managerVars == <<state, hooks, deps, started>>
callVars == <<pc, todo, local>>
vars == <<managerVars, callVars, up, closes>>

Sweeping == {"rollback", "stopping", "closeStop"}   \* inside stopHooks
Driving == Sweeping \cup {"starting", "closing"}
Busy == {"starting", "stopping"}

TypeOK ==
  /\ state \in {"stopped", "starting", "running", "stopping", "closed"}
  /\ hooks \subseteq Hook /\ IsFiniteSet(hooks)
  /\ deps \in [Hook -> SUBSET Hook]
  /\ started \in Seq(Hook)
  /\ pc \in [Thread -> {"idle"} \cup Driving]
  /\ todo \in [Thread -> Seq(Hook)]
  /\ local \in [Thread -> Seq(Hook)]
  /\ up \in [Hook -> Int]
  /\ closes \in [Hook -> Nat]

Init ==
  /\ state = "stopped"
  /\ hooks = {}
  /\ deps = [h \in Hook |-> {}]
  /\ started = <<>>
  /\ pc = [t \in Thread |-> "idle"]
  /\ todo = [t \in Thread |-> <<>>]
  /\ local = [t \in Thread |-> <<>>]
  /\ up = [h \in Hook |-> 0]
  /\ closes = [h \in Hook |-> 0]

Orders == StartOrders(hooks, deps)

-----------------------------------------------------------------------------
\* Register, once newHook has accepted the target.
Register(h, ds) ==
  /\ state = "stopped"
  /\ h \notin hooks
  /\ hooks' = hooks \cup {h}
  /\ deps' = [deps EXCEPT ![h] = ds]
  /\ UNCHANGED <<state, started, callVars, up, closes>>

Enter(t, where, toVisit, kept) ==
  /\ pc[t] = "idle"
  /\ pc' = [pc EXCEPT ![t] = where]
  /\ todo' = [todo EXCEPT ![t] = toVisit]
  /\ local' = [local EXCEPT ![t] = kept]

Goto(t, where, toVisit, kept) ==
  /\ pc' = [pc EXCEPT ![t] = where]
  /\ todo' = [todo EXCEPT ![t] = toVisit]
  /\ local' = [local EXCEPT ![t] = kept]

Return(t) == Goto(t, "idle", <<>>, <<>>)

StartResult ==
  CASE state = "running" -> {"ok"}
    [] state = "closed"  -> {"closed"}
    [] state \in Busy    -> {"conflict"}
    [] OTHER             -> IF Orders = {} THEN {"circular"} ELSE {}

StopResult ==
  CASE state \in {"stopped", "closed"} -> {"ok"}
    [] state \in Busy                  -> {"conflict"}
    [] OTHER                           -> {}

CloseResult ==
  CASE state = "closed" -> {"ok"}
    [] state \in Busy   -> {"conflict"}
    [] OTHER            -> IF Orders = {} THEN {"circular"} ELSE {}

-----------------------------------------------------------------------------
\* Mutant: the state is not set before the mutex is released.
BeginStartUnmarked(t) ==
  /\ state = "stopped"
  /\ \E order \in Orders : Enter(t, "starting", order, <<>>)
  /\ UNCHANGED <<state, hooks, deps, started, up, closes>>

BeginStart(t) ==
  /\ state = "stopped"
  /\ \E order \in Orders : Enter(t, "starting", order, <<>>)
  /\ state' = "starting"
  /\ UNCHANGED <<hooks, deps, started, up, closes>>

\* One turn of the loop of startHooks that succeeds.  A hook without Start is
\* only counted as started.
StartHook(t) ==
  /\ pc[t] = "starting"
  /\ todo[t] # <<>>
  /\ up' = [up EXCEPT ![Head(todo[t])] = @ + 1]
  /\ Goto(t, "starting", Tail(todo[t]), Append(local[t], Head(todo[t])))
  /\ UNCHANGED <<managerVars, closes>>

\* Mutant: a failed Start rolls nothing back.
FailStartOnly(t) ==
  /\ pc[t] = "starting"
  /\ todo[t] # <<>>
  /\ Goto(t, "rollback", <<>>, <<>>)
  /\ UNCHANGED <<managerVars, up, closes>>

\* ctx is done at the head of the loop, or the hook's Start returns an error:
\* the hooks started so far are stopped, not this one.
FailStart(t) ==
  /\ pc[t] = "starting"
  /\ todo[t] # <<>>
  /\ Goto(t, "rollback", local[t], <<>>)
  /\ UNCHANGED <<managerVars, up, closes>>

FinishStart(t) ==
  /\ pc[t] = "starting"
  /\ todo[t] = <<>>
  /\ started' = local[t]
  /\ state' = "running"
  /\ Return(t)
  /\ UNCHANGED <<hooks, deps, up, closes>>

\* Mutant: stopHooks runs from the first hook to the last.
StopHookForwards(t) ==
  /\ pc[t] \in Sweeping
  /\ todo[t] # <<>>
  /\ up' = [up EXCEPT ![Head(todo[t])] = @ - 1]
  /\ Goto(t, pc[t], Tail(todo[t]), local[t])
  /\ UNCHANGED <<managerVars, closes>>

\* One turn of stopHooks: from the last hook to the first, errors collected.
StopHook(t) ==
  /\ pc[t] \in Sweeping
  /\ todo[t] # <<>>
  /\ up' = [up EXCEPT ![Last(todo[t])] = @ - 1]
  /\ Goto(t, pc[t], Front(todo[t]), local[t])
  /\ UNCHANGED <<managerVars, closes>>

\* Mutant: what the caller was doing is stored as the manager's state.
FinishStopMislabels(t) ==
  /\ pc[t] \in {"rollback", "stopping"}
  /\ todo[t] = <<>>
  /\ started' = <<>>
  /\ state' = pc[t]
  /\ Return(t)
  /\ UNCHANGED <<hooks, deps, up, closes>>

\* Mutant: the goroutine whose Start failed blocks on a mutex it holds.
FinishStopBlocks(t) ==
  /\ pc[t] = "stopping"
  /\ todo[t] = <<>>
  /\ started' = <<>>
  /\ state' = "stopped"
  /\ Return(t)
  /\ UNCHANGED <<hooks, deps, up, closes>>

\* finishStart with an error, and finishStop.
FinishStop(t) ==
  /\ pc[t] \in {"rollback", "stopping"}
  /\ todo[t] = <<>>
  /\ started' = <<>>
  /\ state' = "stopped"
  /\ Return(t)
  /\ UNCHANGED <<hooks, deps, up, closes>>

BeginStop(t) ==
  /\ state = "running"
  /\ Enter(t, "stopping", started, <<>>)
  /\ state' = "stopping"
  /\ UNCHANGED <<hooks, deps, started, up, closes>>

\* Mutant: Close releases only the hooks that were started.
BeginCloseStarted(t) ==
  /\ state \in {"running", "stopped"}
  /\ Orders # {}
  /\ Enter(t, "closeStop", started, started)
  /\ state' = "stopping"
  /\ UNCHANGED <<hooks, deps, started, up, closes>>

BeginClose(t) ==
  /\ state \in {"running", "stopped"}
  /\ \E order \in Orders :
       Enter(t, "closeStop", IF state = "running" THEN started ELSE <<>>, order)
  /\ state' = "stopping"
  /\ UNCHANGED <<hooks, deps, started, up, closes>>

CloseStopped(t) ==
  /\ pc[t] = "closeStop"
  /\ todo[t] = <<>>
  /\ Goto(t, "closing", local[t], <<>>)
  /\ UNCHANGED <<managerVars, up, closes>>

\* Mutant: closeHooks runs from the first hook to the last.
CloseHookForwards(t) ==
  /\ pc[t] = "closing"
  /\ todo[t] # <<>>
  /\ closes' = [closes EXCEPT ![Head(todo[t])] =
                  IF Head(todo[t]) \in Closers THEN @ + 1 ELSE @]
  /\ Goto(t, "closing", Tail(todo[t]), local[t])
  /\ UNCHANGED <<managerVars, up>>

\* One turn of closeHooks; every hook is visited whatever the others return.
CloseHook(t) ==
  /\ pc[t] = "closing"
  /\ todo[t] # <<>>
  /\ closes' = [closes EXCEPT ![Last(todo[t])] =
                  IF Last(todo[t]) \in Closers THEN @ + 1 ELSE @]
  /\ Goto(t, "closing", Front(todo[t]), local[t])
  /\ UNCHANGED <<managerVars, up>>

FinishClose(t) ==
  /\ pc[t] = "closing"
  /\ todo[t] = <<>>
  /\ started' = <<>>
  /\ state' = "closed"
  /\ Return(t)
  /\ UNCHANGED <<hooks, deps, up, closes>>

\* A callback panics and unwinds the caller: nothing in the package recovers,
\* so no finish... function runs and the state stays what begin... made it.
Panic(t) ==
  /\ MayPanic
  /\ todo[t] # <<>>
  /\ \/ pc[t] = "starting" /\ Head(todo[t]) \in Starters
     \/ pc[t] \in Sweeping /\ Last(todo[t]) \in Stoppers
     \/ pc[t] = "closing" /\ Last(todo[t]) \in Closers
  /\ Return(t)
  /\ UNCHANGED <<managerVars, up, closes>>

\* What a goroutine inside a call does next.
Advance(t) ==
  \/ StartHook(t) \/ FailStart(t) \/ FinishStart(t)
  \/ StopHook(t) \/ FinishStop(t)
  \/ CloseStopped(t) \/ CloseHook(t) \/ FinishClose(t)
  \/ Panic(t)

Next ==
  \/ \E h \in Hook, ds \in SUBSET Hook : Register(h, ds)
  \/ \E t \in Thread :
       \/ BeginStart(t) \/ BeginStop(t) \/ BeginClose(t)
       \/ Advance(t)

Spec == Init /\ [][Next]_vars

\* Callbacks return and the scheduler runs every goroutine that can run.
FairSpec == Spec /\ \A t \in Thread : WF_vars(Advance(t))
-----------------------------------------------------------------------------
IsUp(h) == up[h] > 0

\* A hook runs only while every registered hook it depends on runs: starting,
\* stopping, rolling back and closing keep the order, for any DependsOn and
\* whichever callers interleave (startHooks, stopHooks).
DependenciesUp ==
  \A h \in hooks : IsUp(h) => \A d \in DepsIn(hooks, deps, h) : IsUp(d)

\* No hook is started twice without a stop between, none is stopped that was
\* not started, and none is closed twice, even when Start, Stop and Close race.
CallbacksBalanced == \A h \in Hook : up[h] \in {0, 1} /\ closes[h] \in {0, 1}

\* A manager that says stopped or closed has nothing running: a failed Start
\* rolled all of it back.  One that says running runs every registered hook.
StateTellsTruth ==
  /\ state \in {"stopped", "closed"} => \A h \in Hook : up[h] = 0
  /\ state = "running" => \A h \in Hook : IsUp(h) <=> h \in hooks

\* Close releases every closer, whichever callbacks failed on the way.
ClosedReleasesAll ==
  state = "closed" => \A h \in hooks \cap Closers : closes[h] = 1

\* A hook is closed only after every hook that depends on it was closed, and
\* only when nothing runs any more.
DependentsClosedFirst ==
  \A d \in hooks : closes[d] > 0 =>
    /\ \A h \in Hook : up[h] = 0
    /\ \A h \in hooks \cap Closers :
         d \in deps[h] => closes[h] > 0

\* At most one caller drives the hooks, and never while the state is settled.
OneDriver ==
  /\ \A t, u \in Thread : pc[t] # "idle" /\ pc[u] # "idle" => t = u
  /\ (\E t \in Thread : pc[t] # "idle") => state \in Busy

\* Once a hook has been closed nothing is started again.
NoStartAfterClose ==
  [][(\E h \in Hook : closes[h] > 0) => \A h \in Hook : up'[h] <= up[h]]_vars

\* Every call comes back, also one whose callbacks fail or panic.
CallsReturn == \A t \in Thread : pc[t] # "idle" ~> pc[t] = "idle"
-----------------------------------------------------------------------------
\* The inductive invariant: what each goroutine's lists and the manager's state
\* say about which hooks are up and which are closed.

Needs == [h \in Hook |-> DepsIn(hooks, deps, h)]
Ordered(s) == IsInjective(s) /\ Layered(Needs, {}, s)
UpIs(S) == \A h \in Hook : up[h] = IF h \in S THEN 1 ELSE 0
ClosesIs(S) == \A h \in Hook : closes[h] = IF h \in S THEN 1 ELSE 0

DriverInv ==
  /\ \A t, u \in Thread : pc[t] # "idle" /\ pc[u] # "idle" => t = u
  /\ \A t \in Thread :
       /\ pc[t] \in {"starting", "rollback"} => state = "starting"
       /\ pc[t] \in {"stopping", "closeStop", "closing"} => state = "stopping"

SettledInv ==
  /\ state \in {"stopped", "closed"} => UpIs({})
  /\ state = "running" =>
       Ordered(started) /\ Range(started) = hooks /\ UpIs(hooks)
  /\ state \in {"stopped", "starting", "running"} => ClosesIs({})
  /\ state = "closed" => ClosesIs(hooks \cap Closers)

StartingInv(t) ==
  pc[t] = "starting" =>
    /\ Ordered(local[t])
    /\ UpIs(Range(local[t]))
    /\ IsInjective(todo[t])
    /\ Layered(Needs, Range(local[t]), todo[t])
    /\ Range(local[t]) \cap Range(todo[t]) = {}
    /\ Range(local[t]) \cup Range(todo[t]) = hooks

SweepingInv(t) ==
  pc[t] \in Sweeping =>
    Ordered(todo[t]) /\ UpIs(Range(todo[t])) /\ Range(todo[t]) \subseteq hooks

ClosingInv(t) ==
  /\ pc[t] \in {"stopping", "closeStop"} => ClosesIs({})
  /\ pc[t] = "closeStop" => Ordered(local[t]) /\ Range(local[t]) = hooks
  /\ pc[t] = "closing" =>
       /\ UpIs({})
       /\ Ordered(todo[t])
       /\ Range(todo[t]) \subseteq hooks
       /\ ClosesIs((hooks \ Range(todo[t])) \cap Closers)

IInv ==
  /\ TypeOK
  /\ DriverInv
  /\ SettledInv
  /\ \A t \in Thread : StartingInv(t) /\ SweepingInv(t) /\ ClosingInv(t)
  /\ DependenciesUp
  /\ CallbacksBalanced
  /\ DependentsClosedFirst

\* The manager implements the abstract group: every callback is one of its
\* steps, everything else a stutter, and Register is Join.
Group == INSTANCE ManagedGroup WITH
  Component <- Hook, Holder <- Closers,
  members <- hooks, needs <- deps, released <- closes
ImplementsGroup == Group!Spec
=============================================================================
