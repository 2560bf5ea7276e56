------------------------- MODULE ApplicationContext -------------------------
(***************************************************************************)
(* context.ApplicationContext: Refresh, Start, Stop and Close, called from *)
(* several goroutines, over one event bus and one lifecycle manager.  The  *)
(* context's mutex guards its four flags for the length of one step; the   *)
(* manager is asked and driven outside it.                                 *)
(*                                                                         *)
(* The manager is module LifecycleManager, driven through its own actions. *)
(* It exists from registerRuntimeHooks on and is seen by the other         *)
(* goroutines once Refresh has finished.                                   *)
(***************************************************************************)
EXTENDS HookOrder, SequencesExt

CONSTANTS
  Thread, Starters, Stoppers, Closers,
  HookDeps,    \* runtimeHookDependencies: the DependsOn of each hook
  Calls,       \* the calls each goroutine may make
  MaxCalls     \* bound: calls in all

\* Every hook has Start, Stop or Close (isLifecycleTarget), and
\* removeCyclicRuntimeHookDependencies leaves no cycle among them.
ASSUME ContextAssumption ==
  /\ HookAssumption
  /\ Starters \cup Stoppers \cup Closers = Hook
  /\ HookDeps \in [Hook -> SUBSET Hook]
  /\ Acyclic(Hook, HookDeps)
  /\ Calls \in [Thread -> SUBSET {"Refresh", "Start", "Stop", "Close"}]
  /\ MaxCalls \in Nat

VARIABLES
  refreshing, refreshed, closing, closed,            \* flags of the context
  state, hooks, deps, started,                       \* the lifecycle manager
  pc, todo, local, up, closes,                       \* the goroutines inside it
  call,      \* the call each goroutine is in
  step,      \* where it is in that call
  seen,      \* what Running() said: "none" (no manager), "idle" or "running"
  failed,    \* a callback of the manager call it made returned an error
  events,    \* history: events handed to the handlers of the bus
  starts,    \* history: how often the manager came to run
  raced,     \* history: some call overlapped another goroutine's
  calls      \* calls made

Manager == INSTANCE LifecycleManager WITH MayPanic <- FALSE

flags == <<refreshing, refreshed, closing, closed>>
managerVars == <<state, hooks, deps, started, pc, todo, local, up, closes>>
historyVars == <<events, starts, raced, calls>>
threadVars == <<call, step, seen, failed>>
vars == <<flags, managerVars, threadVars, historyVars>>

Init ==
  /\ refreshing = FALSE /\ refreshed = FALSE /\ closing = FALSE /\ closed = FALSE
  /\ Manager!Init
  /\ call = [t \in Thread |-> "Refresh"]
  /\ step = [t \in Thread |-> "idle"]
  /\ seen = [t \in Thread |-> "none"]
  /\ failed = [t \in Thread |-> FALSE]
  /\ events = <<>> /\ starts = 0
  /\ raced = FALSE /\ calls = 0

Goto(t, where) == step' = [step EXCEPT ![t] = where]
Return(t) == Goto(t, "idle")

Call(t, c) ==
  /\ step[t] = "idle"
  /\ calls < MaxCalls
  /\ calls' = calls + 1
  /\ raced' = (raced \/ \E u \in Thread \ {t} : step[u] # "idle")
  /\ call' = [call EXCEPT ![t] = c]
  /\ seen' = [seen EXCEPT ![t] = "none"]
  /\ failed' = [failed EXCEPT ![t] = FALSE]
  /\ Goto(t, CASE c \in {"Refresh", "Start"} -> "refresh"
               [] c = "Stop"                 -> "runtime"
               [] c = "Close"                -> "beginClose")
  /\ UNCHANGED <<flags, managerVars, events, starts>>

-----------------------------------------------------------------------------
\* Refresh, and the first half of Start.

AfterRefresh(t) == IF call[t] = "Start" THEN "runtime" ELSE "idle"

BeginRefresh(t) ==
  /\ step[t] = "refresh"
  /\ \/ /\ closed \/ closing \/ (refreshing /\ ~refreshed)
        /\ Return(t)
        /\ UNCHANGED refreshing
     \/ /\ refreshed /\ ~closed /\ ~closing
        /\ Goto(t, AfterRefresh(t))
        /\ UNCHANGED refreshing
     \/ /\ ~closed /\ ~closing /\ ~refreshed /\ ~refreshing
        /\ refreshing' = TRUE
        /\ Goto(t, "building")
  /\ UNCHANGED <<refreshed, closing, closed, managerVars, call, seen, failed, historyVars>>

\* Mutant: a refresh that fails half way through the hooks undoes them in place.
BuildFailsInPlace(t) ==
  /\ step[t] = "building"
  /\ refreshing' = FALSE
  /\ hooks' = {}
  /\ deps' = [h \in Hook |-> {}]
  /\ Return(t)
  /\ UNCHANGED <<refreshed, closing, closed, state, started, pc, todo, local, up, closes,
                 call, seen, failed, historyVars>>

\* A configuration, container.New or a singleton fails: the new container is
\* dropped and Refresh may be called again.
BuildFails(t) ==
  /\ step[t] = "building"
  /\ hooks = {}
  /\ refreshing' = FALSE
  /\ Return(t)
  /\ UNCHANGED <<refreshed, closing, closed, managerVars, call, seen, failed, historyVars>>

\* registerRuntimeHooks, on a manager nobody else can reach yet.
RegisterHook(t) ==
  /\ step[t] = "building"
  /\ \E h \in Hook : Manager!Register(h, HookDeps[h])
  /\ UNCHANGED <<flags, threadVars, historyVars>>

FinishRefresh(t) ==
  /\ step[t] = "building"
  /\ hooks = Hook
  /\ refreshed' = TRUE
  /\ refreshing' = FALSE
  /\ Goto(t, "publishRefreshed")
  /\ UNCHANGED <<closing, closed, managerVars, call, seen, failed, historyVars>>

\* Publish: the context of the call may be done, or a handler may fail, and the
\* caller sees an error although the context stays refreshed.
PublishRefreshed(t) ==
  /\ step[t] = "publishRefreshed"
  /\ \/ events' = Append(events, "Refreshed") /\ Goto(t, AfterRefresh(t))
     \/ events' \in {events, Append(events, "Refreshed")} /\ Return(t)
  /\ UNCHANGED <<flags, managerVars, call, seen, failed, starts, raced, calls>>

-----------------------------------------------------------------------------
\* Start, Stop and Close ask the manager.

Runtime(t) ==
  /\ step[t] = "runtime"
  /\ Goto(t, IF closed \/ closing \/ ~refreshed THEN "idle" ELSE "look")
  /\ UNCHANGED <<flags, managerVars, call, seen, failed, historyVars>>

\* wasRunning := manager.Running().  Close stops only what it saw running.
Look(t) ==
  /\ step[t] = "look"
  /\ seen' = [seen EXCEPT ![t] = IF state = "running" THEN "running" ELSE "idle"]
  /\ Goto(t, IF call[t] = "Close" /\ state # "running" THEN "mark" ELSE "manager")
  /\ UNCHANGED <<flags, managerVars, call, failed, historyVars>>

\* What follows a manager call: an event if it changed what Running() had said.
Afterwards(t, ok) ==
  LET eventful == IF call[t] = "Start" THEN seen[t] = "idle" ELSE seen[t] = "running"
  IN  IF ok /\ eventful THEN "publish"
      ELSE IF call[t] = "Close" THEN "mark" ELSE "idle"

\* manager.Start or manager.Stop returns at once, or begins to drive the hooks.
Ask(t, begin, result) ==
  /\ step[t] = "manager"
  /\ \/ begin /\ Goto(t, "driving")
     \/ /\ result # {}
        /\ Goto(t, Afterwards(t, "ok" \in result))
        /\ UNCHANGED managerVars
  /\ UNCHANGED <<flags, call, seen, failed, historyVars>>

AskStart(t) ==
  call[t] = "Start" /\ Ask(t, Manager!BeginStart(t), Manager!StartResult)

\* manager.Start with a context that is done.
StartCancelled(t) ==
  /\ step[t] = "manager"
  /\ call[t] = "Start"
  /\ Return(t)
  /\ UNCHANGED <<flags, managerVars, call, seen, failed, historyVars>>

AskStop(t) ==
  call[t] \in {"Stop", "Close"} /\ Ask(t, Manager!BeginStop(t), Manager!StopResult)

\* The goroutine drives the hooks.  Start has failed once it rolls back; Stop has
\* when a hook's Stop returns an error.
Drive(t) ==
  /\ step[t] \in {"driving", "closing"}
  /\ Manager!Advance(t)
  /\ \/ pc'[t] # "rollback" /\ UNCHANGED failed
     \/ /\ \/ pc'[t] = "rollback"
           \/ pc[t] = "stopping" /\ todo[t] # <<>> /\ Last(todo[t]) \in Stoppers
        /\ failed' = [failed EXCEPT ![t] = TRUE]
  /\ starts' = IF state # "running" /\ state' = "running" THEN starts + 1 ELSE starts
  /\ UNCHANGED <<flags, call, step, seen, events, raced, calls>>

\* Mutant: a manager call with an error is never come back from.
DrivenBlocks(t) ==
  /\ step[t] = "driving"
  /\ pc[t] = "idle"
  /\ ~failed[t]
  /\ Goto(t, Afterwards(t, TRUE))
  /\ UNCHANGED <<flags, managerVars, call, seen, failed, historyVars>>

Driven(t) ==
  /\ step[t] = "driving"
  /\ pc[t] = "idle"
  /\ Goto(t, Afterwards(t, ~failed[t]))
  /\ UNCHANGED <<flags, managerVars, call, seen, failed, historyVars>>

PublishChange(t) ==
  /\ step[t] = "publish"
  /\ events' \in {events, Append(events, IF call[t] = "Start" THEN "Started" ELSE "Stopped")}
  /\ Goto(t, IF call[t] = "Close" THEN "mark" ELSE "idle")
  /\ UNCHANGED <<flags, managerVars, call, seen, failed, starts, raced, calls>>

-----------------------------------------------------------------------------
\* Mutant: a Close that is under way is not noticed.
BeginCloseTwice(t) ==
  /\ step[t] = "beginClose"
  /\ IF closed
     THEN Return(t) /\ UNCHANGED closing
     ELSE closing' = TRUE /\ Goto(t, IF refreshed THEN "look" ELSE "mark")
  /\ UNCHANGED <<refreshing, refreshed, closed, managerVars, call, seen, failed, historyVars>>

BeginClose(t) ==
  /\ step[t] = "beginClose"
  /\ IF closed \/ closing
     THEN Return(t) /\ UNCHANGED closing
     ELSE closing' = TRUE /\ Goto(t, IF refreshed THEN "look" ELSE "mark")
  /\ UNCHANGED <<refreshing, refreshed, closed, managerVars, call, seen, failed, historyVars>>

MarkClosed(t) ==
  /\ step[t] = "mark"
  /\ closed' = TRUE
  /\ closing' = FALSE
  /\ Goto(t, "publishClosed")
  /\ UNCHANGED <<refreshing, refreshed, managerVars, call, seen, failed, historyVars>>

\* Mutant: a handler's error makes Close return before it releases anything.
PublishClosedGivesUp(t) ==
  /\ step[t] = "publishClosed"
  /\ \/ events' = events /\ Return(t)
     \/ /\ events' = Append(events, "Closed")
        /\ Goto(t, IF seen[t] = "none" THEN "idle" ELSE "final")
  /\ UNCHANGED <<flags, managerVars, call, seen, failed, starts, raced, calls>>

PublishClosed(t) ==
  /\ step[t] = "publishClosed"
  /\ events' \in {events, Append(events, "Closed")}
  /\ Goto(t, IF seen[t] = "none" THEN "idle" ELSE "final")
  /\ UNCHANGED <<flags, managerVars, call, seen, failed, starts, raced, calls>>

\* manager.Close; its error is only joined to the others.
CloseManager(t) ==
  /\ step[t] = "final"
  /\ \/ Manager!BeginClose(t) /\ Goto(t, "closing")
     \/ Manager!CloseResult # {} /\ Return(t) /\ UNCHANGED managerVars
  /\ UNCHANGED <<flags, call, seen, failed, historyVars>>

Closed(t) ==
  /\ step[t] = "closing"
  /\ pc[t] = "idle"
  /\ Return(t)
  /\ UNCHANGED <<flags, managerVars, call, seen, failed, historyVars>>

Step(t) ==
  \/ BeginRefresh(t) \/ BuildFails(t) \/ RegisterHook(t) \/ FinishRefresh(t)
  \/ PublishRefreshed(t) \/ Runtime(t) \/ Look(t)
  \/ AskStart(t) \/ StartCancelled(t) \/ AskStop(t)
  \/ Drive(t) \/ Driven(t) \/ PublishChange(t)
  \/ BeginClose(t) \/ MarkClosed(t) \/ PublishClosed(t) \/ CloseManager(t) \/ Closed(t)

Next == \E t \in Thread : (\E c \in Calls[t] : Call(t, c)) \/ Step(t)

Spec == Init /\ [][Next]_vars

\* Callbacks, handlers and factories return; every goroutine gets to run.
FairSpec == Spec /\ \A t \in Thread : WF_vars(Step(t))
-----------------------------------------------------------------------------
\* The context drives the manager only as the manager allows: what is proved
\* of LifecycleManager holds of the manager inside a context.
DrivesManager == Manager!Spec

\* Listeners can count on what events say.  RefreshedEvent and ClosedEvent are
\* published at most once, however many goroutines refresh and close; and when
\* calls wait for each other, a StartedEvent stands for a start of the lifecycle.
Published(e) == Cardinality({i \in DOMAIN events : events[i] = e})
EventsStandForChanges ==
  /\ Published("Refreshed") <= 1
  /\ Published("Closed") <= 1
  /\ ~raced => Published("Started") <= starts

Idle == \A t \in Thread : step[t] = "idle"

\* Close stops the lifecycle: when every call has returned, a closed context
\* runs nothing (context/lifecycle.go, comment of Close).
StoppedAfterClose == closed /\ Idle => \A h \in Hook : up[h] = 0

\* Close releases the resources: when every call has returned, a closed context
\* that was refreshed has closed every closer.
ReleasedAfterClose ==
  closed /\ Idle /\ refreshed => \A h \in Closers : closes[h] = 1

\* Calls that wait for each other get all of it: Close stops and releases, in
\* whatever state it finds the context and whichever callbacks and handlers fail.
CloseDoesAll == ~raced => StoppedAfterClose /\ ReleasedAfterClose

\* Every call returns.
CallsReturn == \A t \in Thread : step[t] # "idle" ~> step[t] = "idle"
=============================================================================
