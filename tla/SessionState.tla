----------------------------- MODULE SessionState -----------------------------
(* What requests of one client leave behind for each other in the session:    *)
(* flash maps (web/mvc/flash) and the session attributes of a controller      *)
(* (web/mvc/sessionattrs).  Both filters read before the handler runs and     *)
(* write after it succeeded, flash outside session attributes; between a read *)
(* of the session and the write that goes with it other requests may run.     *)
(* The session itself (servlet/session) is external: every single call on it  *)
(* is atomic.                                                                 *)
EXTENDS Naturals, FiniteSets

CONSTANTS Visits,      \* the requests of one client
          Scenarios,   \* what each request asks for and does, [Visits -> plan]
          Timeout,     \* how long a flash map lives
          MaxTime      \* bound: the last instant of the clock

(* A redirect that names no path leaves no flash map; one in the session is   *)
(* for some path.                                                             *)
ASSUME SessionAssumption ==
  /\ Timeout \in Nat \ {0} /\ MaxTime \in Nat
  /\ \A scenario \in Scenarios : \A r \in Visits : scenario[r].location.path # "any"

VARIABLES plan,      \* the scenario of this behaviour
          serial,    \* does the client wait for an answer before it asks again
          now,
          session,   \* [exists, flash, attributes]
          visit,     \* per request: where it is and its request attributes
          left       \* history: what the requests answered so far leave in the session,
                     \* each of them after those that were answered before it

ssvars == <<plan, serial, now, session, visit, left>>

NoAttributes == [x \in {} |-> "none"]     \* attributes are functions from their names
NoSession == [exists |-> FALSE, flash |-> {}, attributes |-> NoAttributes]
NewVisit == [at |-> "idle", read |-> {}, input |-> {}, bound |-> FALSE, model |-> NoAttributes,
               pending |-> NoAttributes, completed |-> {}, redirected |-> FALSE]

(* A flash map knows the request it is meant for and when it dies. *)
expired(item) == item.expiresAt <= now
matches(item, r) ==
  /\ item.path \in {"any", plan[r].path}
  /\ item.params \subseteq plan[r].params
startExpiration(r) ==
  [id |-> r, path |-> plan[r].location.path, params |-> plan[r].location.params,
   expiresAt |-> now + Timeout]
activeFlashMaps(maps) == {item \in maps : ~expired(item)}
remaining(maps, r) == {item \in maps : ~expired(item) /\ ~matches(item, r)}
delivered(maps, r) == {item \in maps : ~expired(item) /\ matches(item, r)}

Over(f, g) == [x \in DOMAIN f \cup DOMAIN g |-> IF x \in DOMAIN g THEN g[x] ELSE f[x]]
Among(f, names) == [x \in DOMAIN f \cap names |-> f[x]]

Is(r, place) == visit[r].at = place
Go(r, place) == visit' = [visit EXCEPT ![r].at = place]

(* The session attributes of one request after those before it: a failed      *)
(* request changes nothing, a completed conversation leaves none of its names.*)
LeftBy(r, before) ==
  IF plan[r].fails THEN before
  ELSE IF plan[r].completes THEN Among(before, DOMAIN before \ plan[r].names)
  ELSE Over(before, [n \in plan[r].names \cap plan[r].writes |-> r])
Leave(r) == left' = LeftBy(r, left)
-----------------------------------------------------------------------------
InitSession ==
  /\ plan \in Scenarios
  /\ serial \in BOOLEAN
  /\ now = 0
  /\ session = NoSession
  /\ visit = [r \in Visits |-> NewVisit]
  /\ left = NoAttributes

Arrive(r) ==
  /\ Is(r, "idle")
  /\ serial => \A o \in Visits : visit[o].at \in {"idle", "done"}
  /\ Go(r, "restore")
  /\ UNCHANGED <<plan, serial, now, session, left>>

replaceNothing(r) ==
  /\ Is(r, "replace")
  /\ Go(r, "bind")
  /\ UNCHANGED <<plan, serial, now, session, left>>
(* restoreInput reads the maps and decides; the session is not asked again    *)
(* before replaceSessionFlashMaps writes the rest back.                       *)
restoreInput(r) ==
  /\ Is(r, "restore")
  /\ IF session.exists /\ session.flash # {}
     THEN visit' = [visit EXCEPT ![r].at = "replace",
                                 ![r].read = remaining(session.flash, r),
                                 ![r].input = {item.id : item \in delivered(session.flash, r)}]
     ELSE Go(r, "bind")
  /\ UNCHANGED <<plan, serial, now, session, left>>

replaceSessionFlashMaps(r) ==
  /\ Is(r, "replace")
  /\ session' = [session EXCEPT !.flash = visit[r].read]
  /\ Go(r, "bind")
  /\ UNCHANGED <<plan, serial, now, left>>

(* The session attribute filter binds the session to the request, if any.     *)
Bind(r) ==
  /\ Is(r, "bind")
  /\ visit' = [visit EXCEPT ![r].at = "load", ![r].bound = session.exists]
  /\ UNCHANGED <<plan, serial, now, session, left>>

loadSessionAttributes(r) ==
  /\ Is(r, "load")
  /\ visit' = [visit EXCEPT ![r].at = "handle",
                   ![r].model = IF visit[r].bound THEN Among(session.attributes, plan[r].names)
                                ELSE NoAttributes]
  /\ UNCHANGED <<plan, serial, now, session, left>>

(* The handler: it may fail, and then neither filter writes; otherwise it has *)
(* put values into the model, may have ended the conversation (SessionStatus) *)
(* and may redirect with flash attributes.                                    *)
HandlerFails(r) ==
  /\ Is(r, "handle") /\ plan[r].fails
  /\ Go(r, "done")
  /\ Leave(r)
  /\ UNCHANGED <<plan, serial, now, session>>
HandlerSucceeds(r) ==
  /\ Is(r, "handle") /\ ~plan[r].fails
  /\ LET model == Over(visit[r].model, [n \in plan[r].writes |-> r])
     IN  visit' = [visit EXCEPT ![r].at = "save",
                       ![r].model = model,
                       ![r].pending = IF plan[r].completes THEN NoAttributes ELSE Among(model, plan[r].names),
                       ![r].completed = IF plan[r].completes THEN plan[r].names ELSE {},
                       ![r].redirected = plan[r].redirects]
  /\ UNCHANGED <<plan, serial, now, session, left>>

removePending(r) ==
  /\ Is(r, "save") /\ visit[r].completed # {}
  /\ session' = [session EXCEPT !.attributes = Among(@, DOMAIN @ \ DOMAIN visit[r].pending)]
  /\ Go(r, "output")
  /\ UNCHANGED <<plan, serial, now, left>>
(* Completed names are removed, and then nothing is saved.                    *)
removeCompleted(r) ==
  /\ Is(r, "save") /\ visit[r].completed # {}
  /\ session' = [session EXCEPT !.attributes = Among(@, DOMAIN @ \ visit[r].completed)]
  /\ Go(r, "output")
  /\ UNCHANGED <<plan, serial, now, left>>
savePending(r) ==
  /\ Is(r, "save") /\ visit[r].completed = {}
  /\ session' = IF visit[r].pending = NoAttributes THEN session
                ELSE [session EXCEPT !.exists = TRUE, !.attributes = Over(@, visit[r].pending)]
  /\ Go(r, "output")
  /\ UNCHANGED <<plan, serial, now, left>>

(* A redirect with flash attributes and a place to go: the live maps are read *)
(* now and written back with the new one in the next step.  A Location without *)
(* a path drops the attributes.                                               *)
HasOutput(r) == visit[r].redirected /\ plan[r].flash /\ plan[r].location.path # "none"
saveOutput(r) ==
  /\ Is(r, "output") /\ HasOutput(r)
  /\ session' = [session EXCEPT !.exists = TRUE]
  /\ visit' = [visit EXCEPT ![r].at = "append",
                   ![r].read = activeFlashMaps(session.flash) \cup {startExpiration(r)}]
  /\ UNCHANGED <<plan, serial, now, left>>
NoOutput(r) ==
  /\ Is(r, "output") /\ ~HasOutput(r)
  /\ Go(r, "done")
  /\ Leave(r)
  /\ UNCHANGED <<plan, serial, now, session>>
SetFlashMaps(r) ==
  /\ Is(r, "append")
  /\ session' = [session EXCEPT !.flash = visit[r].read]
  /\ Go(r, "done")
  /\ Leave(r)
  /\ UNCHANGED <<plan, serial, now>>

Tick ==
  /\ now < MaxTime
  /\ now' = now + 1
  /\ UNCHANGED <<plan, serial, session, visit, left>>

StepOf(r) ==
  \/ Arrive(r) \/ restoreInput(r) \/ replaceSessionFlashMaps(r) \/ Bind(r)
  \/ loadSessionAttributes(r) \/ HandlerFails(r) \/ HandlerSucceeds(r)
  \/ removeCompleted(r) \/ savePending(r) \/ saveOutput(r) \/ NoOutput(r) \/ SetFlashMaps(r)
NextSession == Tick \/ \E r \in Visits : StepOf(r)
SpecSession == InitSession /\ [][NextSession]_ssvars
-----------------------------------------------------------------------------
Flashes(r) == Is(r, "done") /\ ~plan[r].fails /\ HasOutput(r)
Waiting(r) == \E item \in session.flash : item.id = r
Receivers(r) == {o \in Visits : r \in visit[o].input}
OutOfDate(r) == \E item \in visit[r].read : item.id = r /\ expired(item)
Quiet == \A r \in Visits : visit[r].at \in {"idle", "done"}

(* A flash map reaches at most one request, however requests overlap          *)
(* (flash/filter.go:22 calls it a one-time FlashMap).                         *)
FlashDeliveredOnce == \A r \in Visits : Cardinality(Receivers(r)) <= 1

(* A map is given only to a request for the path and parameters its redirect  *)
(* named, and for a client that waits for each answer none is lost and none   *)
(* is delivered twice: one that was saved waits in the session, has reached   *)
(* exactly one request, or is out of date (flash/filter.go: restoreInput puts *)
(* back what does not match, saveOutput adds to what is there).               *)
FlashNeitherLostNorRepeated ==
  /\ \A r \in Visits : \A o \in Receivers(r) :
       plan[r].location.path = plan[o].path /\ plan[r].location.params \subseteq plan[o].params
  /\ serial =>
       /\ FlashDeliveredOnce
       /\ \A r \in Visits :
            /\ Waiting(r) => \A o \in Receivers(r) : Is(o, "replace")
            /\ Flashes(r) /\ Receivers(r) = {} => Waiting(r) \/ OutOfDate(r)

(* What the session holds between requests of such a client is what the       *)
(* successful ones left, in the order they were answered: a failed request    *)
(* changes nothing and a completed conversation leaves none of its names      *)
(* (sessionattrs/filter.go, view_part1.go: wrapSessionAttributes).            *)
SessionIsWhatSuccessLeft == serial /\ Quiet => session.attributes = left
=============================================================================
