--------------------------- MODULE ContextProofs ---------------------------
(***************************************************************************)
(* Theorems about ApplicationContext for any hooks, goroutines and calls.  *)
(* The context drives the manager through its own actions only, so what    *)
(* LifecycleProofs proves holds inside it; from that and from where each   *)
(* goroutine stands follow the promises of the context.                    *)
(***************************************************************************)
EXTENDS ApplicationContext, SequenceTheorems, FiniteSetTheorems, TLAPS

MP == INSTANCE LifecycleProofs WITH MayPanic <- FALSE

-----------------------------------------------------------------------------
\* The two instances of the manager draw their hooks' orders from the same set.
LEMMA SameOrders == Manager!Orders = MP!Orders
<1>1. \A g, h : Manager!LessHook(g, h) <=> MP!LessHook(g, h)
  BY DEF Manager!LessHook, MP!LessHook
<1>2. \A h, S : Manager!IsLeast(h, S) <=> MP!IsLeast(h, S)
  BY <1>1 DEF Manager!IsLeast, MP!IsLeast
<1>3. \A done : Manager!ReadyHooks(hooks, deps, done) = MP!ReadyHooks(hooks, deps, done)
  BY DEF Manager!ReadyHooks, MP!ReadyHooks, Manager!DepsIn, MP!DepsIn
<1>4. \A s : Manager!IsStartOrder(s, hooks, deps) <=> MP!IsStartOrder(s, hooks, deps)
  BY <1>2, <1>3 DEF Manager!IsStartOrder, MP!IsStartOrder, Manager!Range, MP!Range,
     Manager!IsInjective, MP!IsInjective
<1>5. \A S : Manager!Cardinality(S) = MP!Cardinality(S)
  BY DEF Manager!Cardinality, MP!Cardinality
<1> QED BY <1>4, <1>5 DEF Manager!Orders, MP!Orders, Manager!StartOrders, MP!StartOrders

\* The manager the context drives and the manager LifecycleProofs is about are one
\* machine: same initial states, same steps, same variables.
LEMMA SameManager ==
  /\ Manager!Init <=> MP!Init
  /\ [Manager!Next]_(Manager!vars) <=> [MP!Next]_(MP!vars)
<1>1. Manager!Init <=> MP!Init BY DEF Manager!Init, MP!Init
<1>2. ASSUME NEW t \in Thread PROVE Manager!BeginStart(t) <=> MP!BeginStart(t)
  BY SameOrders DEF Manager!BeginStart, MP!BeginStart, Manager!Enter, MP!Enter
<1>3. ASSUME NEW t \in Thread PROVE Manager!BeginStop(t) <=> MP!BeginStop(t)
  BY DEF Manager!BeginStop, MP!BeginStop, Manager!Enter, MP!Enter
<1>4. ASSUME NEW t \in Thread PROVE Manager!BeginClose(t) <=> MP!BeginClose(t)
  BY SameOrders DEF Manager!BeginClose, MP!BeginClose, Manager!Enter, MP!Enter
<1>5. ASSUME NEW t \in Thread PROVE Manager!StartHook(t) <=> MP!StartHook(t)
  BY DEF Manager!StartHook, MP!StartHook, Manager!Goto, MP!Goto, Manager!managerVars, MP!managerVars
<1>6. ASSUME NEW t \in Thread PROVE Manager!FailStart(t) <=> MP!FailStart(t)
  BY DEF Manager!FailStart, MP!FailStart, Manager!Goto, MP!Goto, Manager!managerVars, MP!managerVars
<1>7. ASSUME NEW t \in Thread PROVE Manager!FinishStart(t) <=> MP!FinishStart(t)
  BY DEF Manager!FinishStart, MP!FinishStart, Manager!Goto, MP!Goto, Manager!Return, MP!Return
<1>8. ASSUME NEW t \in Thread PROVE Manager!StopHook(t) <=> MP!StopHook(t)
  BY DEF Manager!StopHook, MP!StopHook, Manager!Front, MP!Front, Manager!Last, MP!Last, Manager!Goto, MP!Goto, Manager!managerVars, MP!managerVars, Manager!Sweeping, MP!Sweeping
<1>9. ASSUME NEW t \in Thread PROVE Manager!FinishStop(t) <=> MP!FinishStop(t)
  BY DEF Manager!FinishStop, MP!FinishStop, Manager!Goto, MP!Goto, Manager!Return, MP!Return
<1>10. ASSUME NEW t \in Thread PROVE Manager!CloseStopped(t) <=> MP!CloseStopped(t)
  BY DEF Manager!CloseStopped, MP!CloseStopped, Manager!Goto, MP!Goto, Manager!managerVars, MP!managerVars
<1>11. ASSUME NEW t \in Thread PROVE Manager!CloseHook(t) <=> MP!CloseHook(t)
  BY DEF Manager!CloseHook, MP!CloseHook, Manager!Front, MP!Front, Manager!Last, MP!Last, Manager!Goto, MP!Goto, Manager!managerVars, MP!managerVars
<1>12. ASSUME NEW t \in Thread PROVE Manager!FinishClose(t) <=> MP!FinishClose(t)
  BY DEF Manager!FinishClose, MP!FinishClose, Manager!Goto, MP!Goto, Manager!Return, MP!Return
<1>13. ASSUME NEW t \in Thread PROVE Manager!Panic(t) <=> MP!Panic(t)
  BY DEF Manager!Panic, MP!Panic, Manager!Goto, MP!Goto, Manager!Return, MP!Return, Manager!Sweeping, MP!Sweeping, Manager!managerVars, MP!managerVars
<1>20. ASSUME NEW t \in Thread PROVE Manager!Advance(t) <=> MP!Advance(t)
  BY <1>2, <1>3, <1>4, <1>5, <1>6, <1>7, <1>8, <1>9, <1>10, <1>11, <1>12, <1>13 DEF Manager!Advance, MP!Advance
<1>21. ASSUME NEW h \in Hook, NEW ds \in SUBSET Hook PROVE Manager!Register(h, ds) <=> MP!Register(h, ds)
  BY DEF Manager!Register, MP!Register, Manager!callVars, MP!callVars
<1>22. Manager!Next <=> MP!Next
  BY <1>2, <1>3, <1>4, <1>20, <1>21 DEF Manager!Next, MP!Next
<1>23. UNCHANGED Manager!vars <=> UNCHANGED MP!vars
  BY DEF Manager!vars, MP!vars, Manager!managerVars, MP!managerVars, Manager!callVars, MP!callVars
<1> QED BY <1>1, <1>22, <1>23

\* What every step of the context is to its manager.
LEMMA StepIsManagers == [Next]_vars => [Manager!Next]_(Manager!vars)
<1> SUFFICES ASSUME [Next]_vars PROVE [Manager!Next]_(Manager!vars) OBVIOUS
<1> USE DEF Manager!vars, Manager!managerVars, Manager!callVars
<1>1. CASE UNCHANGED vars BY <1>1 DEF vars, managerVars
<1>2. ASSUME NEW t \in Thread, NEW c, Call(t, c) PROVE UNCHANGED managerVars
  BY <1>2 DEF Call
<1>3. ASSUME NEW t \in Thread, Step(t)
      PROVE  UNCHANGED managerVars \/ Manager!Next
  <2>1. CASE RegisterHook(t)
    BY <2>1, ContextAssumption DEF RegisterHook, Manager!Next
  <2>2. CASE AskStart(t) BY <2>2 DEF AskStart, Ask, Manager!Next
  <2>3. CASE AskStop(t) BY <2>3 DEF AskStop, Ask, Manager!Next
  <2>4. CASE Drive(t) BY <2>4 DEF Drive, Manager!Next
  <2>5. CASE CloseManager(t) BY <2>5 DEF CloseManager, Manager!Next
  <2> QED
    BY <1>3, <2>1, <2>2, <2>3, <2>4, <2>5
    DEF Step, BeginRefresh, BuildFails, FinishRefresh, PublishRefreshed, Runtime, Look,
        StartCancelled, Driven, PublishChange, BeginClose, MarkClosed, PublishClosed, Closed
<1> QED BY <1>1, <1>2, <1>3 DEF Next, managerVars

\* However Refresh, Start, Stop and Close overlap and fail, the context calls its
\* manager only as LifecycleManager allows.
THEOREM ContextDrivesManager == Spec => DrivesManager
<1>1. Init => Manager!Init BY DEF Init
<1> QED BY <1>1, StepIsManagers, PTL DEF Spec, DrivesManager, Manager!Spec

\* The manager of a context is a manager as LifecycleProofs knows it.
LEMMA InsideSpec == Spec => MP!Spec
<1>1. Init => MP!Init BY SameManager DEF Init
<1>2. [Next]_vars => [MP!Next]_(MP!vars) BY StepIsManagers, SameManager
<1> QED BY <1>1, <1>2, PTL DEF Spec, MP!Spec

\* The manager's inductive invariant holds in every state of a context.
LEMMA InsideInv == Spec => []MP!IInv
BY InsideSpec, MP!Inductive, PTL

\* Everything that is proved of a manager by itself is true of the manager of a
\* context: its hooks run over their dependencies, none twice, one goroutine
\* drives them, and its state tells the truth.
THEOREM ManagerInside ==
  Spec => [](/\ MP!DependenciesUp /\ MP!CallbacksBalanced /\ MP!StateTellsTruth
             /\ MP!ClosedReleasesAll /\ MP!DependentsClosedFirst /\ MP!OneDriver)
BY InsideSpec, MP!DependenciesStayUp, MP!BalancedCallbacks, MP!TruthfulState,
   MP!CloseIsComplete, MP!CloseOrder, MP!SingleDriver, PTL

-----------------------------------------------------------------------------
\* Where goroutines stand in their calls, and what that says of the flags.

Steps == {"idle", "refresh", "building", "publishRefreshed", "runtime", "look", "manager",
          "driving", "publish", "beginClose", "mark", "publishClosed", "final", "closing"}
Events == {"Refreshed", "Started", "Stopped", "Closed"}

ContextTypeOK ==
  /\ refreshing \in BOOLEAN /\ refreshed \in BOOLEAN
  /\ closing \in BOOLEAN /\ closed \in BOOLEAN
  /\ call \in [Thread -> {"Refresh", "Start", "Stop", "Close"}]
  /\ step \in [Thread -> Steps]
  /\ seen \in [Thread -> {"none", "idle", "running"}]
  /\ failed \in [Thread -> BOOLEAN]
  /\ events \in Seq(Events)
  /\ starts \in Nat
  /\ raced \in BOOLEAN

\* Each step belongs to some calls, and what it will do depends on what it saw.
Placed(t) ==
  /\ step[t] \in {"refresh", "building", "publishRefreshed"} => call[t] \in {"Refresh", "Start"}
  /\ step[t] = "runtime" => call[t] \in {"Start", "Stop"}
  /\ step[t] \in {"look", "manager", "driving", "publish"} =>
       refreshed /\ call[t] \in {"Start", "Stop", "Close"}
  /\ step[t] \in {"beginClose", "mark", "publishClosed", "final", "closing"} => call[t] = "Close"
  /\ step[t] \in {"manager", "driving", "publish", "final", "closing"} => seen[t] # "none"
  /\ seen[t] # "none" => refreshed
  /\ pc[t] # "idle" => step[t] \in {"driving", "closing"}

\* One goroutine at a time refreshes, and only until one has done so.
RefreshInv ==
  /\ \A t \in Thread :
       /\ step[t] = "building" => refreshing /\ ~refreshed
       /\ step[t] = "publishRefreshed" => refreshed /\ Published("Refreshed") = 0
       /\ \A u \in Thread : step[t] = step[u] /\ step[t] \in {"building", "publishRefreshed"} => t = u
  /\ ~refreshed => Published("Refreshed") = 0
  /\ Published("Refreshed") <= 1

\* One goroutine closes.
IsClosing(t) == call[t] = "Close" /\ step[t] \notin {"idle", "beginClose"}
CloserInv ==
  /\ \A t \in Thread : IsClosing(t) =>
       /\ \A u \in Thread : IsClosing(u) => t = u
       /\ IF step[t] \in {"publishClosed", "final", "closing"} THEN closed ELSE closing /\ ~closed
       /\ step[t] = "publishClosed" => Published("Closed") = 0
  /\ ~closed => Published("Closed") = 0
  /\ Published("Closed") <= 1

\* Until the context is refreshed its manager only gathers hooks, then it has all.
BuildInv ==
  /\ ~refreshed => state = "stopped"
  /\ refreshed => hooks = Hook
  /\ \A h \in hooks : deps[h] = HookDeps[h]

\* While calls wait for each other: what the one under way has made of the manager.
CalmAt(t) ==
  /\ step[t] = "building" => ~closed
  /\ step[t] = "manager" =>
       /\ call[t] = "Start" /\ seen[t] = "idle" => state # "running"
       /\ call[t] = "Close" => state = "running"
  /\ step[t] = "driving" =>
       IF call[t] = "Start"
       THEN \/ pc[t] = "starting"
            \/ pc[t] = "rollback" /\ failed[t]
            \/ /\ pc[t] = "idle" /\ state \in {"stopped", "running"}
               /\ failed[t] \/ Published("Started") < starts
       ELSE pc[t] = "stopping" \/ (pc[t] = "idle" /\ state = "stopped")
  /\ step[t] = "publish" /\ call[t] = "Start" => Published("Started") < starts
  /\ step[t] \in {"publish", "mark", "publishClosed", "final"} /\ call[t] = "Close" => state = "stopped"
  /\ step[t] \in {"mark", "publishClosed"} /\ seen[t] = "none" => ~refreshed
  /\ step[t] = "closing" => pc[t] \in {"closeStop", "closing"} \/ (pc[t] = "idle" /\ state = "closed")

Calm ==
  /\ \A t, u \in Thread : step[t] # "idle" /\ step[u] # "idle" => t = u
  /\ \A t \in Thread : CalmAt(t)
  /\ Published("Started") <= starts
  /\ (\A t \in Thread : step[t] \notin {"driving", "closing"}) => state \notin {"starting", "stopping"}
  /\ ~closed => state # "closed"
  /\ closed /\ refreshed /\ (\A t \in Thread : step[t] \notin {"publishClosed", "final", "closing"})
       => state = "closed"

CtxInv ==
  /\ ContextTypeOK
  /\ \A t \in Thread : Placed(t)
  /\ RefreshInv
  /\ CloserInv
  /\ BuildInv
  /\ ~raced => Calm

-----------------------------------------------------------------------------
\* How often an event was published is a number, which only its publication moves.
LEMMA PublishedMore ==
  ASSUME events \in Seq(Events), NEW e
  PROVE  /\ Published(e) \in Nat
         /\ events' = events => Published(e)' = Published(e)
         /\ \A x \in Events : events' = Append(events, x) =>
              Published(e)' = Published(e) + (IF e = x THEN 1 ELSE 0)
<1> DEFINE P == {i \in DOMAIN events : events[i] = e}
<1>1. Len(events) \in Nat /\ DOMAIN events = 1 .. Len(events) BY LenProperties
<1>2. IsFiniteSet(P) /\ Cardinality(P) \in Nat
  <2>1. IsFiniteSet(1 .. Len(events)) BY <1>1, FS_Interval
  <2> QED BY <1>1, <2>1, FS_Subset, FS_CardinalityType
<1>3. ASSUME NEW x \in Events, events' = Append(events, x)
      PROVE  Published(e)' = Published(e) + (IF e = x THEN 1 ELSE 0)
  <2> DEFINE Q == {i \in DOMAIN events' : events'[i] = e}
             n == Len(events) + 1
  <2>1. /\ DOMAIN events' = 1 .. n /\ events'[n] = x
        /\ \A i \in 1 .. Len(events) : events'[i] = events[i]
    BY <1>1, <1>3, AppendProperties
  <2>2. Q = IF e = x THEN P \cup {n} ELSE P BY <1>1, <2>1
  <2>3. n \notin P BY <1>1
  <2>4. Cardinality(P \cup {n}) = Cardinality(P) + 1
    <3> HIDE DEF P, n
    <3> QED BY <1>2, <2>3, FS_AddElement
  <2>5. Cardinality(Q) = Cardinality(P) + (IF e = x THEN 1 ELSE 0)
    <3> HIDE DEF P, Q
    <3> QED BY <1>2, <2>2, <2>4
  <2> QED BY <2>5 DEF Published
<1> QED BY <1>2, <1>3 DEF Published

\* What one step inside the manager does to the goroutine and to the state.
LEMMA AdvanceSays ==
  ASSUME MP!IInv, NEW t \in Thread, Manager!Advance(t)
  PROVE  /\ UNCHANGED <<hooks, deps>>
         /\ pc[t] # "idle" /\ DOMAIN pc' = Thread
         /\ \A u \in Thread \ {t} : pc'[u] = pc[u]
         /\ \/ /\ pc[t] = "starting" /\ state = "starting"
               /\ \/ pc'[t] \in {"starting", "rollback"} /\ state' = "starting"
                  \/ pc'[t] = "idle" /\ state' = "running"
            \/ /\ pc[t] = "rollback" /\ state = "starting"
               /\ \/ pc'[t] = "rollback" /\ state' = "starting"
                  \/ pc'[t] = "idle" /\ state' = "stopped"
            \/ /\ pc[t] = "stopping" /\ state = "stopping"
               /\ \/ pc'[t] = "stopping" /\ state' = "stopping"
                  \/ pc'[t] = "idle" /\ state' = "stopped"
            \/ /\ pc[t] \in {"closeStop", "closing"} /\ state = "stopping"
               /\ \/ pc'[t] \in {"closeStop", "closing"} /\ state' = "stopping"
                  \/ pc'[t] = "idle" /\ state' = "closed"
BY DEF MP!IInv, MP!TypeOK, MP!DriverInv, MP!Driving, MP!Sweeping, Manager!Advance,
   Manager!StartHook, Manager!FailStart, Manager!FinishStart, Manager!StopHook,
   Manager!FinishStop, Manager!CloseStopped, Manager!CloseHook, Manager!FinishClose,
   Manager!Panic, Manager!Goto, Manager!Return, Manager!managerVars, Manager!Sweeping

\* The manager's part of the invariant in the words of this module.
LEMMA PcSays ==
  ASSUME MP!IInv
  PROVE  /\ pc \in [Thread -> {"idle", "starting", "rollback", "stopping", "closeStop", "closing"}]
         /\ state \in {"stopped", "starting", "running", "stopping", "closed"}
         /\ \A t \in Thread :
              /\ pc[t] \in {"starting", "rollback"} => state = "starting"
              /\ pc[t] \in {"stopping", "closeStop", "closing"} => state = "stopping"
BY DEF MP!IInv, MP!TypeOK, MP!DriverInv, MP!Driving, MP!Sweeping

\* A call's step keeps the context's variables in their types.
LEMMA TypeStep ==
  ASSUME ContextTypeOK, MP!IInv, NEW t \in Thread, Step(t)
  PROVE  ContextTypeOK'
<1>0. /\ Append(events, "Refreshed") \in Seq(Events) /\ Append(events, "Started") \in Seq(Events)
      /\ Append(events, "Stopped") \in Seq(Events) /\ Append(events, "Closed") \in Seq(Events)
  BY AppendProperties DEF ContextTypeOK, Events
<1>1. CASE BeginRefresh(t)
  BY <1>1
  DEF BeginRefresh, Goto, Return, AfterRefresh, managerVars, historyVars, ContextTypeOK, Steps
<1>2. CASE BuildFails(t)
  BY <1>2
  DEF BuildFails, Goto, Return, managerVars, historyVars, ContextTypeOK, Steps
<1>3. CASE RegisterHook(t)
  BY <1>3
  DEF RegisterHook, Manager!Register, Manager!callVars, flags, threadVars, historyVars,
      ContextTypeOK, Steps
<1>4. CASE FinishRefresh(t)
  BY <1>4
  DEF FinishRefresh, Goto, managerVars, historyVars, ContextTypeOK, Steps
<1>5. CASE PublishRefreshed(t)
  BY <1>5, <1>0
  DEF PublishRefreshed, Goto, Return, AfterRefresh, flags, managerVars, ContextTypeOK, Steps
<1>6. CASE Runtime(t)
  BY <1>6
  DEF Runtime, Goto, flags, managerVars, historyVars, ContextTypeOK, Steps
<1>7. CASE Look(t)
  BY <1>7
  DEF Look, Goto, flags, managerVars, historyVars, ContextTypeOK, Steps
<1>8. CASE AskStart(t)
  BY <1>8
  DEF AskStart, Ask, Manager!BeginStart, Manager!Enter, Goto, Afterwards, flags, managerVars,
      historyVars, ContextTypeOK, Steps
<1>9. CASE StartCancelled(t)
  BY <1>9
  DEF StartCancelled, Goto, Return, flags, managerVars, historyVars, ContextTypeOK, Steps
<1>10. CASE AskStop(t)
  BY <1>10
  DEF AskStop, Ask, Manager!BeginStop, Manager!Enter, Goto, Afterwards, flags, managerVars,
      historyVars, ContextTypeOK, Steps
<1>11. CASE Drive(t)
  <2>1. failed' = failed \/ failed' = [failed EXCEPT ![t] = TRUE] BY <1>11 DEF Drive
  <2>2. starts' \in {starts, starts + 1} BY <1>11 DEF Drive
  <2>3. failed' \in [Thread -> BOOLEAN] BY <2>1 DEF ContextTypeOK
  <2>4. starts' \in Nat BY <2>2 DEF ContextTypeOK
  <2>5. UNCHANGED <<refreshing, refreshed, closing, closed, call, step, seen, events, raced>>
    BY <1>11 DEF Drive, flags
  <2> QED BY <2>3, <2>4, <2>5 DEF ContextTypeOK
<1>12. CASE Driven(t)
  BY <1>12
  DEF Driven, Goto, Afterwards, flags, managerVars, historyVars, ContextTypeOK, Steps
<1>13. CASE PublishChange(t)
  BY <1>13, <1>0
  DEF PublishChange, Goto, flags, managerVars, ContextTypeOK, Steps
<1>14. CASE BeginClose(t)
  BY <1>14
  DEF BeginClose, Goto, Return, managerVars, historyVars, ContextTypeOK, Steps
<1>15. CASE MarkClosed(t)
  BY <1>15
  DEF MarkClosed, Goto, managerVars, historyVars, ContextTypeOK, Steps
<1>16. CASE PublishClosed(t)
  BY <1>16, <1>0
  DEF PublishClosed, Goto, flags, managerVars, ContextTypeOK, Steps
<1>17. CASE CloseManager(t)
  BY <1>17
  DEF CloseManager, Manager!BeginClose, Manager!Enter, Goto, Return, flags, managerVars,
      historyVars, ContextTypeOK, Steps
<1>18. CASE Closed(t)
  BY <1>18
  DEF Closed, Goto, Return, flags, managerVars, historyVars, ContextTypeOK, Steps
<1> QED BY <1>1, <1>2, <1>3, <1>4, <1>5, <1>6, <1>7, <1>8, <1>9, <1>10, <1>11, <1>12, <1>13, <1>14, <1>15, <1>16, <1>17, <1>18 DEF Step

\* A call's step leaves its goroutine where the call's way through the code can be:
\* inside the manager only with the manager's lock, elsewhere only without.
LEMMA PlacedStep ==
  ASSUME ContextTypeOK, MP!IInv, \A u \in Thread : Placed(u), NEW t \in Thread, Step(t)
  PROVE  \A u \in Thread : Placed(u)'
<1> SUFFICES ASSUME NEW u \in Thread PROVE Placed(u)' OBVIOUS
<1>0. /\ Placed(t) /\ Placed(u)
      /\ pc \in [Thread -> {"idle", "starting", "rollback", "stopping", "closeStop", "closing"}]
  BY PcSays
<1>1. CASE BeginRefresh(t)
  BY <1>1, <1>0
  DEF BeginRefresh, Goto, Return, AfterRefresh, managerVars, historyVars, ContextTypeOK, Steps,
      Placed
<1>2. CASE BuildFails(t)
  BY <1>2, <1>0
  DEF BuildFails, Goto, Return, managerVars, historyVars, ContextTypeOK, Steps, Placed
<1>3. CASE RegisterHook(t)
  BY <1>3, <1>0
  DEF RegisterHook, Manager!Register, Manager!callVars, flags, threadVars, historyVars,
      ContextTypeOK, Steps, Placed
<1>4. CASE FinishRefresh(t)
  BY <1>4, <1>0
  DEF FinishRefresh, Goto, managerVars, historyVars, ContextTypeOK, Steps, Placed
<1>5. CASE PublishRefreshed(t)
  BY <1>5, <1>0
  DEF PublishRefreshed, Goto, Return, AfterRefresh, flags, managerVars, ContextTypeOK, Steps,
      Placed
<1>6. CASE Runtime(t)
  BY <1>6, <1>0
  DEF Runtime, Goto, flags, managerVars, historyVars, ContextTypeOK, Steps, Placed
<1>7. CASE Look(t)
  BY <1>7, <1>0
  DEF Look, Goto, flags, managerVars, historyVars, ContextTypeOK, Steps, Placed
<1>8. CASE AskStart(t)
  BY <1>8, <1>0
  DEF AskStart, Ask, Manager!BeginStart, Manager!Enter, Goto, Afterwards, flags, managerVars,
      historyVars, ContextTypeOK, Steps, Placed
<1>9. CASE StartCancelled(t)
  BY <1>9, <1>0
  DEF StartCancelled, Goto, Return, flags, managerVars, historyVars, ContextTypeOK, Steps,
      Placed
<1>10. CASE AskStop(t)
  BY <1>10, <1>0
  DEF AskStop, Ask, Manager!BeginStop, Manager!Enter, Goto, Afterwards, flags, managerVars,
      historyVars, ContextTypeOK, Steps, Placed
<1>11. CASE Drive(t)
  BY <1>11, <1>0, AdvanceSays
  DEF Drive, flags, ContextTypeOK, Steps, Placed
<1>12. CASE Driven(t)
  BY <1>12, <1>0
  DEF Driven, Goto, Afterwards, flags, managerVars, historyVars, ContextTypeOK, Steps, Placed
<1>13. CASE PublishChange(t)
  BY <1>13, <1>0
  DEF PublishChange, Goto, flags, managerVars, ContextTypeOK, Steps, Placed
<1>14. CASE BeginClose(t)
  BY <1>14, <1>0
  DEF BeginClose, Goto, Return, managerVars, historyVars, ContextTypeOK, Steps, Placed
<1>15. CASE MarkClosed(t)
  BY <1>15, <1>0
  DEF MarkClosed, Goto, managerVars, historyVars, ContextTypeOK, Steps, Placed
<1>16. CASE PublishClosed(t)
  BY <1>16, <1>0
  DEF PublishClosed, Goto, flags, managerVars, ContextTypeOK, Steps, Placed
<1>17. CASE CloseManager(t)
  BY <1>17, <1>0
  DEF CloseManager, Manager!BeginClose, Manager!Enter, Goto, Return, flags, managerVars,
      historyVars, ContextTypeOK, Steps, Placed
<1>18. CASE Closed(t)
  BY <1>18, <1>0
  DEF Closed, Goto, Return, flags, managerVars, historyVars, ContextTypeOK, Steps, Placed
<1> QED BY <1>1, <1>2, <1>3, <1>4, <1>5, <1>6, <1>7, <1>8, <1>9, <1>10, <1>11, <1>12, <1>13, <1>14, <1>15, <1>16, <1>17, <1>18 DEF Step

\* A call's step keeps what is true of the goroutine that refreshes: only one does,
\* and until it answers no other has built or started the context.
LEMMA RefreshStep ==
  ASSUME ContextTypeOK, RefreshInv, NEW t \in Thread, Step(t)
  PROVE  RefreshInv'
<1>0. /\ Published("Refreshed") \in Nat
      /\ events' = events => Published("Refreshed")' = Published("Refreshed")
      /\ \A x \in Events : events' = Append(events, x) =>
           Published("Refreshed")' = Published("Refreshed") + (IF "Refreshed" = x THEN 1 ELSE 0)
  BY PublishedMore DEF ContextTypeOK
<1>1. CASE BeginRefresh(t)
  BY <1>1, <1>0
  DEF BeginRefresh, Goto, Return, AfterRefresh, managerVars, historyVars, ContextTypeOK, Steps,
      Events, RefreshInv
<1>2. CASE BuildFails(t)
  BY <1>2, <1>0
  DEF BuildFails, Goto, Return, managerVars, historyVars, ContextTypeOK, Steps, Events,
      RefreshInv
<1>3. CASE RegisterHook(t)
  BY <1>3, <1>0
  DEF RegisterHook, Manager!Register, Manager!callVars, flags, threadVars, historyVars,
      ContextTypeOK, Steps, Events, RefreshInv
<1>4. CASE FinishRefresh(t)
  BY <1>4, <1>0
  DEF FinishRefresh, Goto, managerVars, historyVars, ContextTypeOK, Steps, Events, RefreshInv
<1>5. CASE PublishRefreshed(t)
  BY <1>5, <1>0
  DEF PublishRefreshed, Goto, Return, AfterRefresh, flags, managerVars, ContextTypeOK, Steps,
      Events, RefreshInv
<1>6. CASE Runtime(t)
  BY <1>6, <1>0
  DEF Runtime, Goto, flags, managerVars, historyVars, ContextTypeOK, Steps, Events, RefreshInv
<1>7. CASE Look(t)
  BY <1>7, <1>0
  DEF Look, Goto, flags, managerVars, historyVars, ContextTypeOK, Steps, Events, RefreshInv
<1>8. CASE AskStart(t)
  BY <1>8, <1>0
  DEF AskStart, Ask, Manager!BeginStart, Manager!Enter, Goto, Afterwards, flags, managerVars,
      historyVars, ContextTypeOK, Steps, Events, RefreshInv
<1>9. CASE StartCancelled(t)
  BY <1>9, <1>0
  DEF StartCancelled, Goto, Return, flags, managerVars, historyVars, ContextTypeOK, Steps,
      Events, RefreshInv
<1>10. CASE AskStop(t)
  BY <1>10, <1>0
  DEF AskStop, Ask, Manager!BeginStop, Manager!Enter, Goto, Afterwards, flags, managerVars,
      historyVars, ContextTypeOK, Steps, Events, RefreshInv
<1>11. CASE Drive(t)
  BY <1>11, <1>0
  DEF Drive, flags, ContextTypeOK, Steps, Events, RefreshInv
<1>12. CASE Driven(t)
  BY <1>12, <1>0
  DEF Driven, Goto, Afterwards, flags, managerVars, historyVars, ContextTypeOK, Steps, Events,
      RefreshInv
<1>13. CASE PublishChange(t)
  BY <1>13, <1>0
  DEF PublishChange, Goto, flags, managerVars, ContextTypeOK, Steps, Events, RefreshInv
<1>14. CASE BeginClose(t)
  BY <1>14, <1>0
  DEF BeginClose, Goto, Return, managerVars, historyVars, ContextTypeOK, Steps, Events,
      RefreshInv
<1>15. CASE MarkClosed(t)
  BY <1>15, <1>0
  DEF MarkClosed, Goto, managerVars, historyVars, ContextTypeOK, Steps, Events, RefreshInv
<1>16. CASE PublishClosed(t)
  BY <1>16, <1>0
  DEF PublishClosed, Goto, flags, managerVars, ContextTypeOK, Steps, Events, RefreshInv
<1>17. CASE CloseManager(t)
  BY <1>17, <1>0
  DEF CloseManager, Manager!BeginClose, Manager!Enter, Goto, Return, flags, managerVars,
      historyVars, ContextTypeOK, Steps, Events, RefreshInv
<1>18. CASE Closed(t)
  BY <1>18, <1>0
  DEF Closed, Goto, Return, flags, managerVars, historyVars, ContextTypeOK, Steps, Events,
      RefreshInv
<1> QED BY <1>1, <1>2, <1>3, <1>4, <1>5, <1>6, <1>7, <1>8, <1>9, <1>10, <1>11, <1>12, <1>13, <1>14, <1>15, <1>16, <1>17, <1>18 DEF Step

\* A call's step keeps what is true of the goroutine that closes: the first Close
\* claims the context, and how far it came says what it has done.
LEMMA CloserStep ==
  ASSUME ContextTypeOK, \A u \in Thread : Placed(u), CloserInv, NEW t \in Thread, Step(t)
  PROVE  CloserInv'
<1>0. /\ Published("Closed") \in Nat
      /\ events' = events => Published("Closed")' = Published("Closed")
      /\ \A x \in Events : events' = Append(events, x) =>
           Published("Closed")' = Published("Closed") + (IF "Closed" = x THEN 1 ELSE 0)
  BY PublishedMore DEF ContextTypeOK
<1>1. CASE BeginRefresh(t)
  BY <1>1, <1>0
  DEF BeginRefresh, Goto, Return, AfterRefresh, managerVars, historyVars, ContextTypeOK, Steps,
      Events, CloserInv, IsClosing, Placed
<1>2. CASE BuildFails(t)
  BY <1>2, <1>0
  DEF BuildFails, Goto, Return, managerVars, historyVars, ContextTypeOK, Steps, Events,
      CloserInv, IsClosing, Placed
<1>3. CASE RegisterHook(t)
  BY <1>3, <1>0
  DEF RegisterHook, Manager!Register, Manager!callVars, flags, threadVars, historyVars,
      ContextTypeOK, Steps, Events, CloserInv, IsClosing, Placed
<1>4. CASE FinishRefresh(t)
  BY <1>4, <1>0
  DEF FinishRefresh, Goto, managerVars, historyVars, ContextTypeOK, Steps, Events, CloserInv,
      IsClosing, Placed
<1>5. CASE PublishRefreshed(t)
  BY <1>5, <1>0
  DEF PublishRefreshed, Goto, Return, AfterRefresh, flags, managerVars, ContextTypeOK, Steps,
      Events, CloserInv, IsClosing, Placed
<1>6. CASE Runtime(t)
  BY <1>6, <1>0
  DEF Runtime, Goto, flags, managerVars, historyVars, ContextTypeOK, Steps, Events, CloserInv,
      IsClosing, Placed
<1>7. CASE Look(t)
  BY <1>7, <1>0
  DEF Look, Goto, flags, managerVars, historyVars, ContextTypeOK, Steps, Events, CloserInv,
      IsClosing, Placed
<1>8. CASE AskStart(t)
  BY <1>8, <1>0
  DEF AskStart, Ask, Manager!BeginStart, Manager!Enter, Goto, Afterwards, flags, managerVars,
      historyVars, ContextTypeOK, Steps, Events, CloserInv, IsClosing, Placed
<1>9. CASE StartCancelled(t)
  BY <1>9, <1>0
  DEF StartCancelled, Goto, Return, flags, managerVars, historyVars, ContextTypeOK, Steps,
      Events, CloserInv, IsClosing, Placed
<1>10. CASE AskStop(t)
  BY <1>10, <1>0
  DEF AskStop, Ask, Manager!BeginStop, Manager!Enter, Goto, Afterwards, flags, managerVars,
      historyVars, ContextTypeOK, Steps, Events, CloserInv, IsClosing, Placed
<1>11. CASE Drive(t)
  BY <1>11, <1>0
  DEF Drive, flags, ContextTypeOK, Steps, Events, CloserInv, IsClosing, Placed
<1>12. CASE Driven(t)
  BY <1>12, <1>0
  DEF Driven, Goto, Afterwards, flags, managerVars, historyVars, ContextTypeOK, Steps, Events,
      CloserInv, IsClosing, Placed
<1>13. CASE PublishChange(t)
  BY <1>13, <1>0
  DEF PublishChange, Goto, flags, managerVars, ContextTypeOK, Steps, Events, CloserInv,
      IsClosing, Placed
<1>14. CASE BeginClose(t)
  BY <1>14, <1>0
  DEF BeginClose, Goto, Return, managerVars, historyVars, ContextTypeOK, Steps, Events,
      CloserInv, IsClosing, Placed
<1>15. CASE MarkClosed(t)
  BY <1>15, <1>0
  DEF MarkClosed, Goto, managerVars, historyVars, ContextTypeOK, Steps, Events, CloserInv,
      IsClosing, Placed
<1>16. CASE PublishClosed(t)
  BY <1>16, <1>0
  DEF PublishClosed, Goto, flags, managerVars, ContextTypeOK, Steps, Events, CloserInv,
      IsClosing, Placed
<1>17. CASE CloseManager(t)
  BY <1>17, <1>0
  DEF CloseManager, Manager!BeginClose, Manager!Enter, Goto, Return, flags, managerVars,
      historyVars, ContextTypeOK, Steps, Events, CloserInv, IsClosing, Placed
<1>18. CASE Closed(t)
  BY <1>18, <1>0
  DEF Closed, Goto, Return, flags, managerVars, historyVars, ContextTypeOK, Steps, Events,
      CloserInv, IsClosing, Placed
<1> QED BY <1>1, <1>2, <1>3, <1>4, <1>5, <1>6, <1>7, <1>8, <1>9, <1>10, <1>11, <1>12, <1>13, <1>14, <1>15, <1>16, <1>17, <1>18 DEF Step

\* A call's step keeps what is true of the container: built once, by the one refresh,
\* and only then are there hooks.
LEMMA BuildStep ==
  ASSUME ContextTypeOK, MP!IInv, \A u \in Thread : Placed(u), RefreshInv, BuildInv,
         NEW t \in Thread, Step(t)
  PROVE  BuildInv'
<1>0. /\ Placed(t) /\ hooks \subseteq Hook /\ deps \in [Hook -> SUBSET Hook]
      /\ step[t] = "building" => ~refreshed
  BY DEF RefreshInv, MP!IInv, MP!TypeOK
<1>1. CASE BeginRefresh(t)
  BY <1>1, <1>0
  DEF BeginRefresh, Goto, Return, AfterRefresh, managerVars, historyVars, ContextTypeOK, Steps,
      Placed, BuildInv
<1>2. CASE BuildFails(t)
  BY <1>2, <1>0
  DEF BuildFails, Goto, Return, managerVars, historyVars, ContextTypeOK, Steps, Placed, BuildInv
<1>3. CASE RegisterHook(t)
  BY <1>3, <1>0
  DEF RegisterHook, Manager!Register, Manager!callVars, flags, threadVars, historyVars,
      ContextTypeOK, Steps, Placed, BuildInv
<1>4. CASE FinishRefresh(t)
  BY <1>4, <1>0
  DEF FinishRefresh, Goto, managerVars, historyVars, ContextTypeOK, Steps, Placed, BuildInv
<1>5. CASE PublishRefreshed(t)
  BY <1>5, <1>0
  DEF PublishRefreshed, Goto, Return, AfterRefresh, flags, managerVars, ContextTypeOK, Steps,
      Placed, BuildInv
<1>6. CASE Runtime(t)
  BY <1>6, <1>0
  DEF Runtime, Goto, flags, managerVars, historyVars, ContextTypeOK, Steps, Placed, BuildInv
<1>7. CASE Look(t)
  BY <1>7, <1>0
  DEF Look, Goto, flags, managerVars, historyVars, ContextTypeOK, Steps, Placed, BuildInv
<1>8. CASE AskStart(t)
  BY <1>8, <1>0
  DEF AskStart, Ask, Manager!BeginStart, Manager!Enter, Goto, Afterwards, flags, managerVars,
      historyVars, ContextTypeOK, Steps, Placed, BuildInv
<1>9. CASE StartCancelled(t)
  BY <1>9, <1>0
  DEF StartCancelled, Goto, Return, flags, managerVars, historyVars, ContextTypeOK, Steps,
      Placed, BuildInv
<1>10. CASE AskStop(t)
  BY <1>10, <1>0
  DEF AskStop, Ask, Manager!BeginStop, Manager!Enter, Goto, Afterwards, flags, managerVars,
      historyVars, ContextTypeOK, Steps, Placed, BuildInv
<1>11. CASE Drive(t)
  BY <1>11, <1>0, AdvanceSays
  DEF Drive, flags, ContextTypeOK, Steps, Placed, BuildInv
<1>12. CASE Driven(t)
  BY <1>12, <1>0
  DEF Driven, Goto, Afterwards, flags, managerVars, historyVars, ContextTypeOK, Steps, Placed,
      BuildInv
<1>13. CASE PublishChange(t)
  BY <1>13, <1>0
  DEF PublishChange, Goto, flags, managerVars, ContextTypeOK, Steps, Placed, BuildInv
<1>14. CASE BeginClose(t)
  BY <1>14, <1>0
  DEF BeginClose, Goto, Return, managerVars, historyVars, ContextTypeOK, Steps, Placed, BuildInv
<1>15. CASE MarkClosed(t)
  BY <1>15, <1>0
  DEF MarkClosed, Goto, managerVars, historyVars, ContextTypeOK, Steps, Placed, BuildInv
<1>16. CASE PublishClosed(t)
  BY <1>16, <1>0
  DEF PublishClosed, Goto, flags, managerVars, ContextTypeOK, Steps, Placed, BuildInv
<1>17. CASE CloseManager(t)
  BY <1>17, <1>0
  DEF CloseManager, Manager!BeginClose, Manager!Enter, Goto, Return, flags, managerVars,
      historyVars, ContextTypeOK, Steps, Placed, BuildInv
<1>18. CASE Closed(t)
  BY <1>18, <1>0
  DEF Closed, Goto, Return, flags, managerVars, historyVars, ContextTypeOK, Steps, Placed,
      BuildInv
<1> QED BY <1>1, <1>2, <1>3, <1>4, <1>5, <1>6, <1>7, <1>8, <1>9, <1>10, <1>11, <1>12, <1>13, <1>14, <1>15, <1>16, <1>17, <1>18 DEF Step

\* Calm, as a goroutine sees it that is the only one in a call.
CalmFor(t) ==
  /\ CalmAt(t)
  /\ Published("Started") <= starts
  /\ step[t] \notin {"driving", "closing"} => state \notin {"starting", "stopping"}
  /\ ~closed => state # "closed"
  /\ closed /\ refreshed /\ step[t] \notin {"publishClosed", "final", "closing"} => state = "closed"

\* While no other goroutine is in a call, Calm says what CalmFor says of this one.
LEMMA CalmIsCalmFor ==
  ASSUME NEW t \in Thread, \A u \in Thread \ {t} : step[u] = "idle"
  PROVE  Calm <=> CalmFor(t)
BY DEF Calm, CalmFor, CalmAt

\* The dependencies among the hooks of a context have no cycle, so that its manager
\* can start and close them.
LEMMA HooksSort ==
  ASSUME MP!IInv, BuildInv, refreshed
  PROVE  Manager!Orders # {}
<1>1. hooks = Hook /\ deps = HookDeps
  <2>1. hooks = Hook /\ \A h \in Hook : deps[h] = HookDeps[h] BY DEF BuildInv
  <2>2. deps \in [Hook -> SUBSET Hook] /\ HookDeps \in [Hook -> SUBSET Hook]
    BY ContextAssumption DEF MP!IInv, MP!TypeOK
  <2> QED BY <2>1, <2>2
<1>2. MP!HookAssumption /\ MP!Acyclic(Hook, HookDeps)
  <2>1. MP!HookAssumption
    BY ContextAssumption DEF HookAssumption, MP!HookAssumption, IsFiniteSet, MP!IsFiniteSet
  <2>2. Acyclic(Hook, HookDeps) <=> MP!Acyclic(Hook, HookDeps) BY DEF Acyclic, MP!Acyclic
  <2> QED BY <2>1, <2>2, ContextAssumption
<1>3. MP!StartOrders(Hook, HookDeps) # {} BY <1>2, MP!AcyclicHasOrder
<1> QED BY <1>1, <1>3, SameOrders DEF MP!Orders

\* A call's step keeps the events in step with the starts while calls wait for
\* each other.
LEMMA CalmForStep ==
  ASSUME ContextTypeOK, MP!IInv, \A u \in Thread : Placed(u), RefreshInv, CloserInv, BuildInv,
         NEW t \in Thread, CalmFor(t), Step(t)
  PROVE  CalmFor(t)'
<1>0. /\ Published("Started") \in Nat
      /\ events' = events => Published("Started")' = Published("Started")
      /\ \A x \in Events : events' = Append(events, x) =>
           Published("Started")' = Published("Started") + (IF "Started" = x THEN 1 ELSE 0)
  BY PublishedMore DEF ContextTypeOK
<1>a. /\ pc \in [Thread -> {"idle", "starting", "rollback", "stopping", "closeStop", "closing"}]
      /\ state \in {"stopped", "starting", "running", "stopping", "closed"}
      /\ pc[t] \in {"starting", "rollback"} => state = "starting"
      /\ pc[t] \in {"stopping", "closeStop", "closing"} => state = "stopping"
  BY PcSays
<1>b. /\ step[t] = "building" => ~refreshed
      /\ step[t] = "publishRefreshed" => refreshed
      /\ step[t] # "idle" /\ step[t] # "beginClose" /\ call[t] = "Close" =>
           IF step[t] \in {"publishClosed", "final", "closing"} THEN closed ELSE closing /\ ~closed
      /\ ~refreshed => state = "stopped"
  BY DEF RefreshInv, CloserInv, IsClosing, BuildInv
<1>c. Placed(t) OBVIOUS
<1>1. CASE BeginRefresh(t)
  BY <1>1, <1>0, <1>a, <1>b, <1>c
  DEF BeginRefresh, Goto, Return, AfterRefresh, managerVars, historyVars, ContextTypeOK, Steps,
      Events, Placed, CalmFor, CalmAt
<1>2. CASE BuildFails(t)
  BY <1>2, <1>0, <1>a, <1>b, <1>c
  DEF BuildFails, Goto, Return, managerVars, historyVars, ContextTypeOK, Steps, Events, Placed,
      CalmFor, CalmAt
<1>3. CASE RegisterHook(t)
  BY <1>3, <1>0, <1>a, <1>b, <1>c
  DEF RegisterHook, Manager!Register, Manager!callVars, flags, threadVars, historyVars,
      ContextTypeOK, Steps, Events, Placed, CalmFor, CalmAt
<1>4. CASE FinishRefresh(t)
  BY <1>4, <1>0, <1>a, <1>b, <1>c
  DEF FinishRefresh, Goto, managerVars, historyVars, ContextTypeOK, Steps, Events, Placed,
      CalmFor, CalmAt
<1>5. CASE PublishRefreshed(t)
  BY <1>5, <1>0, <1>a, <1>b, <1>c
  DEF PublishRefreshed, Goto, Return, AfterRefresh, flags, managerVars, ContextTypeOK, Steps,
      Events, Placed, CalmFor, CalmAt
<1>6. CASE Runtime(t)
  BY <1>6, <1>0, <1>a, <1>b, <1>c
  DEF Runtime, Goto, flags, managerVars, historyVars, ContextTypeOK, Steps, Events, Placed,
      CalmFor, CalmAt
<1>7. CASE Look(t)
  BY <1>7, <1>0, <1>a, <1>b, <1>c
  DEF Look, Goto, flags, managerVars, historyVars, ContextTypeOK, Steps, Events, Placed,
      CalmFor, CalmAt
<1>8. CASE AskStart(t)
  BY <1>8, <1>0, <1>a, <1>b, <1>c
  DEF AskStart, Manager!StartResult, Manager!Busy, Ask, Manager!BeginStart, Manager!Enter, Goto,
      Afterwards, flags, managerVars, historyVars, ContextTypeOK, Steps, Events, Placed,
      CalmFor, CalmAt
<1>9. CASE StartCancelled(t)
  BY <1>9, <1>0, <1>a, <1>b, <1>c
  DEF StartCancelled, Goto, Return, flags, managerVars, historyVars, ContextTypeOK, Steps,
      Events, Placed, CalmFor, CalmAt
<1>10. CASE AskStop(t)
  BY <1>10, <1>0, <1>a, <1>b, <1>c
  DEF AskStop, Manager!StopResult, Manager!Busy, Ask, Manager!BeginStop, Manager!Enter, Goto,
      Afterwards, flags, managerVars, historyVars, ContextTypeOK, Steps, Events, Placed,
      CalmFor, CalmAt
<1>11. CASE Drive(t)
  BY <1>11, <1>0, <1>a, <1>b, <1>c, AdvanceSays
  DEF Drive, flags, ContextTypeOK, Steps, Events, Placed, CalmFor, CalmAt
<1>12. CASE Driven(t)
  BY <1>12, <1>0, <1>a, <1>b, <1>c
  DEF Driven, Goto, Afterwards, flags, managerVars, historyVars, ContextTypeOK, Steps, Events,
      Placed, CalmFor, CalmAt
<1>13. CASE PublishChange(t)
  BY <1>13, <1>0, <1>a, <1>b, <1>c
  DEF PublishChange, Goto, flags, managerVars, ContextTypeOK, Steps, Events, Placed, CalmFor,
      CalmAt
<1>14. CASE BeginClose(t)
  BY <1>14, <1>0, <1>a, <1>b, <1>c
  DEF BeginClose, Goto, Return, managerVars, historyVars, ContextTypeOK, Steps, Events, Placed,
      CalmFor, CalmAt
<1>15. CASE MarkClosed(t)
  BY <1>15, <1>0, <1>a, <1>b, <1>c
  DEF MarkClosed, Goto, managerVars, historyVars, ContextTypeOK, Steps, Events, Placed, CalmFor,
      CalmAt
<1>16. CASE PublishClosed(t)
  BY <1>16, <1>0, <1>a, <1>b, <1>c
  DEF PublishClosed, Goto, flags, managerVars, ContextTypeOK, Steps, Events, Placed, CalmFor,
      CalmAt
<1>17. CASE CloseManager(t)
  BY <1>17, <1>0, <1>a, <1>b, <1>c, HooksSort
  DEF CloseManager, Manager!CloseResult, Manager!Busy, Manager!BeginClose, Manager!Enter, Goto,
      Return, flags, managerVars, historyVars, ContextTypeOK, Steps, Events, Placed, CalmFor,
      CalmAt
<1>18. CASE Closed(t)
  BY <1>18, <1>0, <1>a, <1>b, <1>c
  DEF Closed, Goto, Return, flags, managerVars, historyVars, ContextTypeOK, Steps, Events,
      Placed, CalmFor, CalmAt
<1> QED BY <1>1, <1>2, <1>3, <1>4, <1>5, <1>6, <1>7, <1>8, <1>9, <1>10, <1>11, <1>12, <1>13, <1>14, <1>15, <1>16, <1>17, <1>18 DEF Step

\* What every step of a call has in common.
LEMMA StepMoves ==
  ASSUME ContextTypeOK, NEW t \in Thread, Step(t)
  PROVE  /\ step[t] # "idle" /\ raced' = raced
         /\ \A u \in Thread \ {t} : step'[u] = step[u]
<1>1. CASE BeginRefresh(t)
  BY <1>1
  DEF BeginRefresh, Goto, Return, AfterRefresh, managerVars, historyVars, ContextTypeOK
<1>2. CASE BuildFails(t)
  BY <1>2
  DEF BuildFails, Goto, Return, managerVars, historyVars, ContextTypeOK
<1>3. CASE RegisterHook(t)
  BY <1>3
  DEF RegisterHook, Manager!Register, Manager!callVars, flags, threadVars, historyVars,
      ContextTypeOK
<1>4. CASE FinishRefresh(t)
  BY <1>4
  DEF FinishRefresh, Goto, managerVars, historyVars, ContextTypeOK
<1>5. CASE PublishRefreshed(t)
  BY <1>5
  DEF PublishRefreshed, Goto, Return, AfterRefresh, flags, managerVars, ContextTypeOK
<1>6. CASE Runtime(t)
  BY <1>6
  DEF Runtime, Goto, flags, managerVars, historyVars, ContextTypeOK
<1>7. CASE Look(t)
  BY <1>7
  DEF Look, Goto, flags, managerVars, historyVars, ContextTypeOK
<1>8. CASE AskStart(t)
  BY <1>8
  DEF AskStart, Ask, Manager!BeginStart, Manager!Enter, Goto, Afterwards, flags, managerVars,
      historyVars, ContextTypeOK
<1>9. CASE StartCancelled(t)
  BY <1>9
  DEF StartCancelled, Goto, Return, flags, managerVars, historyVars, ContextTypeOK
<1>10. CASE AskStop(t)
  BY <1>10
  DEF AskStop, Ask, Manager!BeginStop, Manager!Enter, Goto, Afterwards, flags, managerVars,
      historyVars, ContextTypeOK
<1>11. CASE Drive(t)
  BY <1>11
  DEF Drive, flags, ContextTypeOK
<1>12. CASE Driven(t)
  BY <1>12
  DEF Driven, Goto, Afterwards, flags, managerVars, historyVars, ContextTypeOK
<1>13. CASE PublishChange(t)
  BY <1>13
  DEF PublishChange, Goto, flags, managerVars, ContextTypeOK
<1>14. CASE BeginClose(t)
  BY <1>14
  DEF BeginClose, Goto, Return, managerVars, historyVars, ContextTypeOK
<1>15. CASE MarkClosed(t)
  BY <1>15
  DEF MarkClosed, Goto, managerVars, historyVars, ContextTypeOK
<1>16. CASE PublishClosed(t)
  BY <1>16
  DEF PublishClosed, Goto, flags, managerVars, ContextTypeOK
<1>17. CASE CloseManager(t)
  BY <1>17
  DEF CloseManager, Manager!BeginClose, Manager!Enter, Goto, Return, flags, managerVars,
      historyVars, ContextTypeOK
<1>18. CASE Closed(t)
  BY <1>18
  DEF Closed, Goto, Return, flags, managerVars, historyVars, ContextTypeOK
<1> QED BY <1>1, <1>2, <1>3, <1>4, <1>5, <1>6, <1>7, <1>8, <1>9, <1>10, <1>11, <1>12, <1>13, <1>14, <1>15, <1>16, <1>17, <1>18 DEF Step

\* A call's step keeps the whole invariant.
LEMMA StepInv ==
  ASSUME MP!IInv, CtxInv, NEW t \in Thread, Step(t)
  PROVE  CtxInv'
<1> USE DEF CtxInv
<1>1. ASSUME ~raced' PROVE Calm'
  <2>1. Calm /\ \A u \in Thread \ {t} : step[u] = "idle" /\ step'[u] = "idle"
    BY <1>1, StepMoves DEF Calm
  <2>2. CalmFor(t) BY <2>1, CalmIsCalmFor
  <2>3. CalmFor(t)' BY <2>2, CalmForStep
  <2>4. (\A u \in Thread \ {t} : step[u] = "idle")' BY <2>1
  <2> QED BY <2>3, <2>4 DEF Calm, CalmFor, CalmAt
<1> QED BY <1>1, TypeStep, PlacedStep, RefreshStep, CloserStep, BuildStep

\* A new call keeps the invariant.
LEMMA CallInv ==
  ASSUME CtxInv, NEW t \in Thread, NEW c \in Calls[t], Call(t, c)
  PROVE  CtxInv'
<1> USE DEF CtxInv
<1>1. /\ c \in {"Refresh", "Start", "Stop", "Close"}
      /\ step[t] = "idle" /\ call' = [call EXCEPT ![t] = c]
      /\ step' = [step EXCEPT ![t] = CASE c \in {"Refresh", "Start"} -> "refresh"
                                       [] c = "Stop" -> "runtime"
                                       [] c = "Close" -> "beginClose"]
      /\ seen' = [seen EXCEPT ![t] = "none"] /\ failed' = [failed EXCEPT ![t] = FALSE]
      /\ raced' = (raced \/ \E u \in Thread \ {t} : step[u] # "idle")
      /\ UNCHANGED <<refreshing, refreshed, closing, closed, state, hooks, deps, pc, events, starts>>
  BY ContextAssumption DEF Call, Goto, flags, managerVars
<1>2. step'[t] \in {"refresh", "runtime", "beginClose"} /\ step'[t] \in Steps
  BY <1>1 DEF ContextTypeOK, Steps
<1>3. ContextTypeOK' BY <1>1, <1>2 DEF ContextTypeOK
<1>4. \A e : Published(e)' = Published(e) BY <1>1 DEF Published
<1>5. ASSUME NEW u \in Thread PROVE Placed(u)'
  BY <1>1, <1>2 DEF Placed, ContextTypeOK
<1>6. RefreshInv' BY <1>1, <1>2, <1>4 DEF RefreshInv, ContextTypeOK
<1>7. CloserInv' BY <1>1, <1>2, <1>4 DEF CloserInv, IsClosing, ContextTypeOK
<1>8. BuildInv' BY <1>1 DEF BuildInv
<1>9. ASSUME ~raced' PROVE Calm'
  <2>1. Calm /\ \A u \in Thread : step[u] = "idle" BY <1>1, <1>9
  <2>2. (\A u \in Thread \ {t} : step[u] = "idle")' BY <1>1, <2>1 DEF ContextTypeOK
  <2>3. CalmFor(t)' BY <1>1, <1>2, <1>4, <2>1 DEF Calm, CalmFor, CalmAt
  <2> QED BY <2>2, <2>3 DEF Calm, CalmFor, CalmAt
<1> QED BY <1>3, <1>5, <1>6, <1>7, <1>8, <1>9

\* The invariant holds of a new context.
LEMMA CtxInit == Init => CtxInv
<1> SUFFICES ASSUME Init PROVE CtxInv OBVIOUS
<1>1. \A e : Published(e) = 0
  <2>1. \A e : {i \in DOMAIN events : events[i] = e} = {} BY DEF Init
  <2> QED BY <2>1, FS_EmptySet DEF Published
<1>2. ContextTypeOK BY EmptySeq DEF Init, ContextTypeOK, Steps
<1>3. /\ state = "stopped" /\ hooks = {} /\ \A t \in Thread : pc[t] = "idle"
  BY DEF Init, Manager!Init
<1>4. Calm BY <1>1, <1>3 DEF Init, Calm, CalmAt
<1> QED BY <1>1, <1>2, <1>3, <1>4
        DEF Init, CtxInv, Placed, RefreshInv, CloserInv, IsClosing, BuildInv

\* The invariant is inductive, given the manager's own.
LEMMA CtxNext == MP!IInv /\ CtxInv /\ [Next]_vars => CtxInv'
<1> SUFFICES ASSUME MP!IInv, CtxInv, [Next]_vars PROVE CtxInv' OBVIOUS
<1>1. CASE UNCHANGED vars
  <2>1. UNCHANGED <<refreshing, refreshed, closing, closed, state, hooks, deps, pc, call, step,
                    seen, failed, events, starts, raced>>
    BY <1>1 DEF vars, flags, managerVars, threadVars, historyVars
  <2> QED BY <2>1
      DEF CtxInv, ContextTypeOK, Placed, RefreshInv, CloserInv, IsClosing, BuildInv, Calm,
          CalmAt, Published
<1> QED BY <1>1, StepInv, CallInv DEF Next

\* Where each goroutine stands determines what the flags, the manager's state and the
\* events can be, for any hooks, goroutines and calls.
THEOREM ContextInductive == Spec => []CtxInv
BY InsideInv, CtxInit, CtxNext, PTL DEF Spec

\* RefreshedEvent and ClosedEvent are published at most once however many goroutines
\* call, and StartedEvents stand for starts when calls wait for each other.
THEOREM EventsAreTrue == Spec => []EventsStandForChanges
<1>1. CtxInv => EventsStandForChanges
  BY DEF CtxInv, RefreshInv, CloserInv, Calm, EventsStandForChanges
<1> QED BY <1>1, ContextInductive, PTL

\* A Close that overlaps no other call stops what runs and closes every closer, in
\* whatever state it finds the context and whatever fails on its way.
THEOREM CloseIsThorough == Spec => []CloseDoesAll
<1>1. MP!IInv /\ CtxInv => CloseDoesAll
  <2> SUFFICES ASSUME MP!IInv, CtxInv, ~raced, closed, Idle
               PROVE  /\ \A h \in Hook : up[h] = 0
                      /\ refreshed => \A h \in Closers : closes[h] = 1
    BY DEF CloseDoesAll, StoppedAfterClose, ReleasedAfterClose
  <2>1. state \in {"stopped", "closed"} /\ (refreshed => state = "closed" /\ hooks = Hook)
    BY DEF CtxInv, Calm, BuildInv, Idle
  <2>2. Closers \subseteq Hook BY ContextAssumption
  <2> QED BY <2>1, <2>2 DEF MP!IInv, MP!SettledInv, MP!UpIs, MP!ClosesIs
<1> QED BY <1>1, ContextInductive, InsideInv, PTL
=============================================================================
