-------------------------------- MODULE WebProofs --------------------------------
(***************************************************************************)
(* Theorems about the web side: what requests leave behind for each other, *)
(* the flash maps and the attributes of a session; links to static files   *)
(* that are rewritten while readers follow them; the bodies a client sends *)
(* and takes; and the questions: which of several routes answers, what a   *)
(* preflight foretells, and whether what one converter writes another      *)
(* reads back.                                                             *)
(***************************************************************************)
EXTENDS WebPipelineProofs

-----------------------------------------------------------------------------
\* The session and each request as records.
Fields == {"at", "read", "input", "bound", "model", "pending", "completed", "redirected"}
Records ==
  /\ DOMAIN visit = Visits
  /\ \A r \in Visits : Fields \subseteq DOMAIN visit[r]
  /\ {"exists", "flash", "attributes"} \subseteq DOMAIN session

Active(r) == visit[r].at \notin {"idle", "done"}

\* A flash map in the session, or read from it, is the one of a redirect; a
\* request is given those that are meant for it.
IsMap(item) ==
  /\ item.id \in Visits /\ item.path # "any" /\ item.expiresAt \in Nat
  /\ item.path = plan[item.id].location.path /\ item.params = plan[item.id].location.params
MeantFor(r, o) ==
  r \in Visits /\ plan[r].location.path = plan[o].path /\ plan[r].location.params \subseteq plan[o].params
Addressed ==
  /\ \A item \in session.flash : IsMap(item)
  /\ \A o \in Visits : (\A item \in visit[o].read : IsMap(item)) /\ (\A r \in visit[o].input : MeantFor(r, o))

\* For a client that waits for its answers one request is on its way at most.
OneAtATime == \A r, o \in Visits : Active(r) /\ Active(o) => r = o

\* What is in the session was left by requests that were answered, and is for
\* nobody yet, except one who has it and has not put back the rest.
Stored ==
  /\ \A i, j \in session.flash : i.id = j.id => i = j
  /\ \A item \in session.flash : Is(item.id, "done")
  /\ \A o \in Visits : \A item \in session.flash : item.id \in visit[o].input => Is(o, "replace")
Given ==
  /\ \A o \in Visits : \A r \in visit[o].input : Is(r, "done")
  /\ \A o, p \in Visits : \A r \in visit[o].input \cap visit[p].input : o = p
  /\ \A o \in Visits : visit[o].at \in {"idle", "restore"} => visit[o].input = {}
\* Who is about to write the maps has read them as they are.
Restoring ==
  \A o \in Visits : Is(o, "replace") =>
    /\ visit[o].read \subseteq session.flash
    /\ \A item \in session.flash : item \in visit[o].read \/ item.id \in visit[o].input \/ expired(item)
    /\ \A item \in visit[o].read : item.id \notin visit[o].input
Appending ==
  \A o \in Visits : Is(o, "append") =>
    /\ \E item \in visit[o].read : item.id = o
    /\ \A item \in visit[o].read : item \in session.flash \/ item.id = o
    /\ \A i, j \in visit[o].read : i.id = j.id => i = j
    /\ \A item \in session.flash : item \in visit[o].read \/ expired(item)
\* Nothing that was left is lost.
Kept ==
  \A r \in Visits : Flashes(r) =>
    \E item \in visit[r].read :
      item.id = r /\ (Receivers(r) = {} => item \in session.flash \/ expired(item))
InTurn == OneAtATime /\ Stored /\ Given /\ Restoring /\ Appending /\ Kept

Clock == now \in Nat
FlashInv == plan \in Scenarios /\ Clock /\ Records /\ Addressed /\ (serial => InTurn)

\* A session begins empty.
LEMMA InitFlash == InitSession => FlashInv
BY DEF InitSession, NoSession, NewVisit, FlashInv, Clock, Records, Fields, Addressed, InTurn, OneAtATime, Active, Stored,
       Given, Restoring, Appending, Kept, Flashes, Is

\* A step that reads and writes no flash map: one request goes from one place
\* to another, and if it is answered it leaves none.
LEMMA Aside ==
  ASSUME FlashInv, Records', NEW r \in Visits, plan' = plan, serial' = serial, now' = now,
         session'.flash = session.flash,
         \A o \in Visits : visit'[o].read = visit[o].read /\ visit'[o].input = visit[o].input,
         \A o \in Visits \ {r} : visit'[o].at = visit[o].at /\ visit'[o].redirected = visit[o].redirected,
         visit[r].at \notin {"done", "replace"}, visit'[r].at \notin {"idle", "replace", "append"},
         visit'[r].at = "restore" => visit[r].at = "idle",
         visit'[r].at = "done" => ~Flashes(r)',
         serial => \A o \in Visits \ {r} : ~Active(o)
  PROVE  FlashInv'
<1>1. /\ plan \in Scenarios /\ Clock /\ Addressed /\ (serial => InTurn) BY DEF FlashInv
<1>2. Addressed' BY <1>1 DEF Addressed, IsMap, MeantFor
<1>3. ASSUME serial PROVE InTurn'
  <2>1. InTurn BY <1>1, <1>3
  <2>2. OneAtATime' BY <1>3, <2>1 DEF InTurn, OneAtATime, Active
  <2>3. Stored' BY <1>1, <2>1 DEF InTurn, Stored, Is, Addressed, IsMap
  <2>4. Given' BY <1>1, <2>1 DEF InTurn, Given, Is, Addressed, MeantFor
  <2>5. Restoring' BY <2>1 DEF InTurn, Restoring, Is, expired
  <2>6. Appending' BY <2>1 DEF InTurn, Appending, Is, expired
  <2>7. Kept'
    <3> SUFFICES ASSUME NEW o \in Visits, Flashes(o)'
                 PROVE  \E item \in visit'[o].read :
                          item.id = o /\ (Receivers(o)' = {} => item \in session'.flash \/ expired(item)')
      BY DEF Kept
    <3>1. o # r BY DEF Flashes, Is
    <3>2. Flashes(o) BY <3>1 DEF Flashes, Is, HasOutput
    <3>3. Receivers(o)' = Receivers(o) BY DEF Receivers
    <3>4. PICK item \in visit[o].read : item.id = o /\ (Receivers(o) = {} => item \in session.flash \/ expired(item))
      BY <2>1, <3>2 DEF InTurn, Kept
    <3> QED BY <3>3, <3>4 DEF expired
  <2> QED BY <2>2, <2>3, <2>4, <2>5, <2>6, <2>7 DEF InTurn
<1> QED BY <1>1, <1>2, <1>3 DEF FlashInv, Clock

\* Time goes on: what is out of date stays so.
LEMMA TickFlash ==
  ASSUME FlashInv, Tick
  PROVE  FlashInv'
<1>1. /\ now' \in Nat /\ plan' = plan /\ serial' = serial /\ session' = session /\ visit' = visit
      /\ now' = now + 1 /\ now \in Nat
  BY DEF Tick, FlashInv, Clock
<1>2. \A item : IsMap(item) /\ expired(item) => expired(item)'
  <2> SUFFICES ASSUME NEW item, item.expiresAt \in Nat, item.expiresAt <= now PROVE item.expiresAt <= now'
    BY <1>1 DEF expired, IsMap
  <2> QED BY <1>1
<1>3. /\ Addressed /\ \A item \in session.flash : IsMap(item)
      /\ \A o \in Visits : \A item \in visit[o].read : IsMap(item)
  BY DEF FlashInv, Addressed
<1>4. Records' /\ Addressed' BY <1>1, <1>3 DEF FlashInv, Records, Addressed, IsMap, MeantFor
<1>5. ASSUME serial PROVE InTurn'
  <2>1. InTurn BY <1>5 DEF FlashInv
  <2>2. OneAtATime' /\ Stored' /\ Given' BY <1>1, <2>1 DEF InTurn, OneAtATime, Active, Stored, Given, Is
  <2>3. Restoring' BY <1>1, <1>2, <1>3, <2>1 DEF InTurn, Restoring, Is
  <2>4. Appending' BY <1>1, <1>2, <1>3, <2>1 DEF InTurn, Appending, Is
  <2>5. Kept'
    <3> SUFFICES ASSUME NEW r \in Visits, Flashes(r)
                 PROVE  \E item \in visit[r].read :
                          item.id = r /\ (Receivers(r) = {} => item \in session.flash \/ expired(item)')
      BY <1>1 DEF Kept, Flashes, Is, HasOutput, Receivers
    <3> QED BY <1>2, <1>3, <2>1 DEF InTurn, Kept
  <2> QED BY <2>2, <2>3, <2>4, <2>5 DEF InTurn
<1> QED BY <1>1, <1>4, <1>5 DEF FlashInv, Clock

\* Reading the maps, and giving those that match.
LEMMA RestoreFlash ==
  ASSUME FlashInv, NEW r \in Visits, restoreInput(r), session.exists, session.flash # {}
  PROVE  FlashInv'
<1>1. /\ plan \in Scenarios /\ Clock /\ Records /\ Addressed /\ (serial => InTurn) BY DEF FlashInv
<1> DEFINE read == remaining(session.flash, r)
           input == {item.id : item \in delivered(session.flash, r)}
<1>2. /\ plan' = plan /\ serial' = serial /\ now' = now /\ session' = session
      /\ Is(r, "restore")
      /\ visit' = [visit EXCEPT ![r].at = "replace", ![r].read = read, ![r].input = input]
  BY DEF restoreInput
<1> HIDE DEF read, input
<1>3. /\ Records'
      /\ visit'[r].at = "replace" /\ visit'[r].read = read /\ visit'[r].input = input
      /\ \A o \in Visits \ {r} : visit'[o] = visit[o]
  BY <1>1, <1>2 DEF Records, Fields
<1>4. read \subseteq session.flash
      /\ (\A item \in session.flash : item \in read \/ item.id \in input \/ expired(item))
      /\ (\A item \in read : ~matches(item, r))
  BY DEF read, input, remaining, delivered
<1>5. \A o \in input : \E item \in session.flash : item.id = o /\ matches(item, r)
  BY DEF input, delivered
<1>6. Addressed'
  <2>1. \A item \in read : IsMap(item) BY <1>1, <1>4 DEF Addressed
  <2>2. ASSUME NEW o \in input PROVE MeantFor(o, r)
    <3>1. PICK item \in session.flash : item.id = o /\ matches(item, r) BY <1>5, <2>2
    <3> QED BY <1>1, <3>1 DEF Addressed, IsMap, MeantFor, matches
  <2>3. \A o \in Visits : /\ \A item \in visit'[o].read : IsMap(item)
                          /\ \A p \in visit'[o].input : MeantFor(p, o)
    BY <1>1, <1>3, <2>1, <2>2 DEF Addressed
  <2>4. (\A item : IsMap(item)' <=> IsMap(item)) /\ (\A o, p : MeantFor(p, o)' <=> MeantFor(p, o))
    BY <1>2 DEF IsMap, MeantFor
  <2> QED BY <1>1, <1>2, <2>3, <2>4 DEF Addressed
<1>7. ASSUME serial PROVE InTurn'
  <2>1. InTurn BY <1>1, <1>7
  <2>2. \A o \in Visits \ {r} : ~Active(o) /\ ~Active(o)' BY <1>2, <1>3, <2>1 DEF InTurn, OneAtATime, Active, Is
  <2>3. OneAtATime' BY <2>2 DEF OneAtATime
  <2>4. \A item \in session.flash : Is(item.id, "done") /\ item.id # r /\ item.id \in Visits
    BY <1>1, <1>2, <2>1 DEF InTurn, Stored, Is, Addressed, IsMap
  <2>5. ASSUME NEW o \in input, NEW p \in Visits, o \in visit[p].input PROVE FALSE
    <3>1. PICK item \in session.flash : item.id = o BY <1>5, <2>5
    <3>2. Is(p, "replace") BY <2>1, <2>5, <3>1 DEF InTurn, Stored
    <3> QED BY <1>2, <2>2, <3>2 DEF Active, Is
  <2>6. Stored'
    <3>1. \A i, j \in session.flash : i.id = j.id => i = j BY <2>1 DEF InTurn, Stored
    <3>2. \A item \in session.flash : visit'[item.id].at = "done" BY <1>3, <2>4 DEF Is
    <3>3. ASSUME NEW o \in Visits, NEW item \in session.flash, item.id \in visit'[o].input
          PROVE  visit'[o].at = "replace"
      <4>1. CASE o = r BY <1>3, <4>1
      <4>2. CASE o # r BY <1>3, <2>1, <3>3, <4>2 DEF InTurn, Stored, Is
      <4> QED BY <4>1, <4>2
    <3> QED BY <1>2, <3>1, <3>2, <3>3 DEF Stored, Is
  <2>7. Given'
    <3>1. \A o \in input : visit'[o].at = "done" BY <1>3, <1>5, <2>4 DEF Is
    <3>2. ASSUME NEW p \in Visits \ {r}, NEW o \in visit[p].input PROVE visit'[o].at = "done"
      <4>1. Is(o, "done") /\ o \in Visits BY <1>1, <2>1 DEF InTurn, Given, Addressed, MeantFor
      <4> QED BY <1>2, <1>3, <4>1 DEF Is
    <3>3. \A p, q \in Visits : \A o \in visit'[p].input \cap visit'[q].input : p = q
      BY <1>3, <2>1, <2>5 DEF InTurn, Given
    <3>4. \A p \in Visits : visit'[p].at \in {"idle", "restore"} => visit'[p].input = {}
      BY <1>3, <2>1 DEF InTurn, Given
    <3> QED BY <1>3, <3>1, <3>2, <3>3, <3>4 DEF Given, Is
  <2>8. Restoring'
    <3>1. \A o \in Visits : Is(o, "replace")' => o = r BY <2>2 DEF Active, Is
    <3>2. \A item \in read : item.id \notin input
      <4> SUFFICES ASSUME NEW item \in read, item.id \in input PROVE FALSE OBVIOUS
      <4>1. PICK other \in session.flash : other.id = item.id /\ matches(other, r) BY <1>5
      <4>2. other = item BY <1>4, <2>1, <4>1 DEF InTurn, Stored
      <4> QED BY <1>4, <4>1, <4>2
    <3>3. \A item : expired(item)' <=> expired(item) BY <1>2 DEF expired
    <3> QED BY <1>2, <1>3, <1>4, <3>1, <3>2, <3>3 DEF Restoring
  <2>9. Appending'
    <3>1. \A o \in Visits : ~Is(o, "append")' BY <1>3, <2>2 DEF Active, Is
    <3> QED BY <3>1 DEF Appending
  <2>10. Kept'
    <3> SUFFICES ASSUME NEW o \in Visits, Flashes(o)'
                 PROVE  \E item \in visit'[o].read :
                          item.id = o /\ (Receivers(o)' = {} => item \in session'.flash \/ expired(item)')
      BY DEF Kept
    <3>1. o # r /\ Flashes(o) BY <1>2, <1>3 DEF Flashes, Is, HasOutput
    <3>2. PICK item \in visit[o].read : item.id = o /\ (Receivers(o) = {} => item \in session.flash \/ expired(item))
      BY <2>1, <3>1 DEF InTurn, Kept
    <3>3. visit[r].input = {} BY <1>2, <2>1 DEF InTurn, Given, Is
    <3>4. Receivers(o)' = {} => Receivers(o) = {}
      <4> SUFFICES ASSUME Receivers(o)' = {}, NEW p \in Receivers(o) PROVE FALSE OBVIOUS
      <4>1. p \in Visits /\ o \in visit[p].input /\ p # r BY <3>3 DEF Receivers
      <4> QED BY <1>3, <4>1 DEF Receivers
    <3>5. visit'[o].read = visit[o].read BY <1>3, <3>1
    <3> QED BY <1>2, <3>2, <3>4, <3>5 DEF expired
  <2> QED BY <2>3, <2>6, <2>7, <2>8, <2>9, <2>10 DEF InTurn
<1> QED BY <1>1, <1>2, <1>3, <1>6, <1>7 DEF FlashInv, Clock

\* Putting back the rest: what is gone was given or is out of date.
LEMMA ReplaceFlash ==
  ASSUME FlashInv, NEW r \in Visits, replaceSessionFlashMaps(r)
  PROVE  FlashInv'
<1>1. /\ plan \in Scenarios /\ Clock /\ Records /\ Addressed /\ (serial => InTurn) BY DEF FlashInv
<1>2. /\ plan' = plan /\ serial' = serial /\ now' = now /\ session' = [session EXCEPT !.flash = visit[r].read]
      /\ Is(r, "replace") /\ visit' = [visit EXCEPT ![r].at = "bind"]
  BY DEF replaceSessionFlashMaps, Go
<1>3. /\ Records' /\ session'.flash = visit[r].read
      /\ \A o \in Visits : /\ visit'[o].read = visit[o].read /\ visit'[o].input = visit[o].input
                           /\ visit'[o].redirected = visit[o].redirected
                           /\ visit'[o].at = IF o = r THEN "bind" ELSE visit[o].at
  BY <1>1, <1>2 DEF Records, Fields
<1>4. (\A item : IsMap(item)' <=> IsMap(item)) /\ (\A o, p : MeantFor(p, o)' <=> MeantFor(p, o))
      /\ (\A item : expired(item)' <=> expired(item))
  BY <1>2 DEF IsMap, MeantFor, expired
<1>5. Addressed' BY <1>1, <1>3, <1>4 DEF Addressed
<1>6. ASSUME serial PROVE InTurn'
  <2>1. InTurn BY <1>1, <1>6
  <2>2. \A o \in Visits \ {r} : ~Active(o) /\ ~Active(o)' BY <1>2, <1>3, <2>1 DEF InTurn, OneAtATime, Active, Is
  <2>3. OneAtATime' BY <2>2 DEF OneAtATime
  <2>4. /\ visit[r].read \subseteq session.flash
        /\ \A item \in session.flash : item \in visit[r].read \/ item.id \in visit[r].input \/ expired(item)
        /\ \A item \in visit[r].read : item.id \notin visit[r].input
    BY <1>2, <2>1 DEF InTurn, Restoring
  <2>5. \A item \in visit[r].read : Is(item.id, "done")' /\ \A o \in Visits : item.id \notin visit[o].input
    <3> SUFFICES ASSUME NEW item \in visit[r].read
                 PROVE  visit'[item.id].at = "done" /\ \A o \in Visits : item.id \notin visit[o].input
      BY DEF Is
    <3>1. item \in session.flash /\ item.id \in Visits /\ Is(item.id, "done") /\ item.id # r
      BY <1>1, <1>2, <2>1, <2>4 DEF InTurn, Stored, Addressed, IsMap, Is
    <3>2. ASSUME NEW o \in Visits, item.id \in visit[o].input PROVE FALSE
      <4>1. o # r BY <2>4, <3>2
      <4>2. Is(o, "replace") BY <2>1, <3>1, <3>2 DEF InTurn, Stored
      <4> QED BY <2>2, <4>1, <4>2 DEF Active, Is
    <3> QED BY <1>3, <3>1, <3>2 DEF Is
  <2>6. Stored' BY <1>3, <2>1, <2>4, <2>5 DEF InTurn, Stored
  <2>7. Given'
    <3>1. ASSUME NEW o \in Visits, NEW p \in visit[o].input PROVE visit'[p].at = "done"
      <4>1. Is(p, "done") /\ p \in Visits BY <1>1, <2>1 DEF InTurn, Given, Addressed, MeantFor
      <4> QED BY <1>2, <1>3, <4>1 DEF Is
    <3> QED BY <1>3, <2>1, <3>1 DEF InTurn, Given, Is
  <2>8. Restoring'
    <3>1. \A o \in Visits : ~Is(o, "replace")' BY <1>3, <2>2 DEF Active, Is
    <3> QED BY <3>1 DEF Restoring
  <2>9. Appending'
    <3>1. \A o \in Visits : ~Is(o, "append")' BY <1>3, <2>2 DEF Active, Is
    <3> QED BY <3>1 DEF Appending
  <2>10. Kept'
    <3> SUFFICES ASSUME NEW o \in Visits, Flashes(o)'
                 PROVE  \E item \in visit'[o].read :
                          item.id = o /\ (Receivers(o)' = {} => item \in session'.flash \/ expired(item)')
      BY DEF Kept
    <3>1. Flashes(o) BY <1>2, <1>3 DEF Flashes, Is, HasOutput
    <3>2. PICK item \in visit[o].read : item.id = o /\ (Receivers(o) = {} => item \in session.flash \/ expired(item))
      BY <2>1, <3>1 DEF InTurn, Kept
    <3>3. Receivers(o)' = Receivers(o) BY <1>3 DEF Receivers
    <3>4. Receivers(o) = {} => item \in visit[r].read \/ expired(item) BY <2>4, <3>2 DEF Receivers
    <3> QED BY <1>3, <1>4, <3>2, <3>3, <3>4
  <2> QED BY <2>3, <2>6, <2>7, <2>8, <2>9, <2>10 DEF InTurn
<1> QED BY <1>1, <1>2, <1>3, <1>5, <1>6 DEF FlashInv, Clock

\* Reading the maps that are not out of date, to add one.
LEMMA OutputFlash ==
  ASSUME FlashInv, NEW r \in Visits, saveOutput(r)
  PROVE  FlashInv'
<1>1. /\ plan \in Scenarios /\ Clock /\ Records /\ Addressed /\ (serial => InTurn) BY DEF FlashInv
<1> DEFINE read == activeFlashMaps(session.flash) \cup {startExpiration(r)}
<1>2. /\ plan' = plan /\ serial' = serial /\ now' = now /\ session' = [session EXCEPT !.exists = TRUE]
      /\ Is(r, "output") /\ HasOutput(r)
      /\ visit' = [visit EXCEPT ![r].at = "append", ![r].read = read]
  BY DEF saveOutput
<1>3. IsMap(startExpiration(r)) /\ startExpiration(r).id = r
  <2>1. now + Timeout \in Nat /\ plan[r].location.path # "any" BY <1>1, SessionAssumption DEF Clock
  <2> QED BY <2>1 DEF IsMap, startExpiration
<1>4. /\ \A item \in read : item \in session.flash \/ (item.id = r /\ item = startExpiration(r))
      /\ startExpiration(r) \in read
      /\ \A item \in session.flash : item \in read \/ expired(item)
  BY <1>3 DEF activeFlashMaps
<1> HIDE DEF read
<1>5. /\ Records' /\ session'.flash = session.flash
      /\ \A o \in Visits : /\ visit'[o].read = IF o = r THEN read ELSE visit[o].read
                           /\ visit'[o].input = visit[o].input
                           /\ visit'[o].redirected = visit[o].redirected
                           /\ visit'[o].at = IF o = r THEN "append" ELSE visit[o].at
  BY <1>1, <1>2 DEF Records, Fields
<1>6. (\A item : IsMap(item)' <=> IsMap(item)) /\ (\A o, p : MeantFor(p, o)' <=> MeantFor(p, o))
      /\ (\A item : expired(item)' <=> expired(item))
  BY <1>2 DEF IsMap, MeantFor, expired
<1>7. Addressed' BY <1>1, <1>3, <1>4, <1>5, <1>6 DEF Addressed
<1>8. ASSUME serial PROVE InTurn'
  <2>1. InTurn BY <1>1, <1>8
  <2>2. \A o \in Visits \ {r} : ~Active(o) /\ ~Active(o)' BY <1>2, <1>5, <2>1 DEF InTurn, OneAtATime, Active, Is
  <2>3. OneAtATime' BY <2>2 DEF OneAtATime
  <2>4. \A item \in session.flash : Is(item.id, "done") /\ item.id # r /\ item.id \in Visits
    BY <1>1, <1>2, <2>1 DEF InTurn, Stored, Is, Addressed, IsMap
  <2>5. Stored'
    <3>1. \A item \in session.flash : visit'[item.id].at = "done" BY <1>5, <2>4 DEF Is
    <3>2. ASSUME NEW o \in Visits, NEW item \in session.flash, item.id \in visit[o].input PROVE visit'[o].at = "replace"
      <4>1. Is(o, "replace") BY <2>1, <3>2 DEF InTurn, Stored
      <4> QED BY <1>2, <1>5, <4>1 DEF Is
    <3> QED BY <1>5, <2>1, <3>1, <3>2 DEF InTurn, Stored, Is
  <2>6. Given'
    <3>1. ASSUME NEW o \in Visits, NEW p \in visit[o].input PROVE visit'[p].at = "done"
      <4>1. Is(p, "done") /\ p \in Visits BY <1>1, <2>1 DEF InTurn, Given, Addressed, MeantFor
      <4> QED BY <1>2, <1>5, <4>1 DEF Is
    <3> QED BY <1>5, <2>1, <3>1 DEF InTurn, Given, Is
  <2>7. Restoring'
    <3>1. \A o \in Visits : ~Is(o, "replace")' BY <1>5, <2>2 DEF Active, Is
    <3> QED BY <3>1 DEF Restoring
  <2>8. Appending'
    <3>1. \A o \in Visits : Is(o, "append")' => o = r BY <2>2 DEF Active, Is
    <3>2. \A i, j \in read : i.id = j.id => i = j BY <1>3, <1>4, <2>1, <2>4 DEF InTurn, Stored
    <3> QED BY <1>3, <1>4, <1>5, <1>6, <3>1, <3>2 DEF Appending
  <2>9. Kept'
    <3> SUFFICES ASSUME NEW o \in Visits, Flashes(o)'
                 PROVE  \E item \in visit'[o].read :
                          item.id = o /\ (Receivers(o)' = {} => item \in session'.flash \/ expired(item)')
      BY DEF Kept
    <3>0. o # r BY <1>5 DEF Flashes, Is
    <3>1. o # r /\ Flashes(o) BY <1>2, <1>5, <3>0 DEF Flashes, Is, HasOutput
    <3>2. PICK item \in visit[o].read : item.id = o /\ (Receivers(o) = {} => item \in session.flash \/ expired(item))
      BY <2>1, <3>1 DEF InTurn, Kept
    <3>3. Receivers(o)' = Receivers(o) BY <1>5 DEF Receivers
    <3> QED BY <1>5, <1>6, <3>1, <3>2, <3>3
  <2> QED BY <2>3, <2>5, <2>6, <2>7, <2>8, <2>9 DEF InTurn
<1> QED BY <1>1, <1>2, <1>5, <1>7, <1>8 DEF FlashInv, Clock

\* Writing them back with the new one.
LEMMA AppendFlash ==
  ASSUME FlashInv, NEW r \in Visits, SetFlashMaps(r)
  PROVE  FlashInv'
<1>1. /\ plan \in Scenarios /\ Clock /\ Records /\ Addressed /\ (serial => InTurn) BY DEF FlashInv
<1>2. /\ plan' = plan /\ serial' = serial /\ now' = now /\ session' = [session EXCEPT !.flash = visit[r].read]
      /\ Is(r, "append") /\ visit' = [visit EXCEPT ![r].at = "done"]
  BY DEF SetFlashMaps, Go
<1>3. /\ Records' /\ session'.flash = visit[r].read
      /\ \A o \in Visits : /\ visit'[o].read = visit[o].read /\ visit'[o].input = visit[o].input
                           /\ visit'[o].redirected = visit[o].redirected
                           /\ visit'[o].at = IF o = r THEN "done" ELSE visit[o].at
  BY <1>1, <1>2 DEF Records, Fields
<1>4. (\A item : IsMap(item)' <=> IsMap(item)) /\ (\A o, p : MeantFor(p, o)' <=> MeantFor(p, o))
      /\ (\A item : expired(item)' <=> expired(item))
  BY <1>2 DEF IsMap, MeantFor, expired
<1>5. Addressed' BY <1>1, <1>3, <1>4 DEF Addressed
<1>6. ASSUME serial PROVE InTurn'
  <2>1. InTurn BY <1>1, <1>6
  <2>2. \A o \in Visits \ {r} : ~Active(o) /\ ~Active(o)' BY <1>2, <1>3, <2>1 DEF InTurn, OneAtATime, Active, Is
  <2>3. OneAtATime' BY <2>2 DEF OneAtATime
  <2>4. /\ \E item \in visit[r].read : item.id = r
        /\ \A item \in visit[r].read : item \in session.flash \/ item.id = r
        /\ \A i, j \in visit[r].read : i.id = j.id => i = j
        /\ \A item \in session.flash : item \in visit[r].read \/ expired(item)
    BY <1>2, <2>1 DEF InTurn, Appending
  <2>5. \A o \in Visits : r \notin visit[o].input BY <1>2, <2>1 DEF InTurn, Given, Is
  <2>6. ASSUME NEW item \in visit[r].read, NEW o \in Visits, item.id \in visit[o].input PROVE FALSE
    <3>1. item \in session.flash BY <2>4, <2>5, <2>6
    <3>2. Is(o, "replace") BY <2>1, <2>6, <3>1 DEF InTurn, Stored
    <3> QED BY <1>2, <2>2, <3>2 DEF Active, Is
  <2>7. \A item \in visit[r].read : visit'[item.id].at = "done"
    <3> SUFFICES ASSUME NEW item \in visit[r].read PROVE visit'[item.id].at = "done" OBVIOUS
    <3>1. item.id \in Visits BY <1>1 DEF Addressed, IsMap
    <3>2. item.id # r => Is(item.id, "done") BY <2>1, <2>4 DEF InTurn, Stored
    <3> QED BY <1>3, <3>1, <3>2 DEF Is
  <2>8. Stored' BY <1>3, <2>4, <2>6, <2>7 DEF Stored, Is
  <2>9. Given'
    <3>1. ASSUME NEW o \in Visits, NEW p \in visit[o].input PROVE visit'[p].at = "done"
      <4>1. Is(p, "done") /\ p \in Visits BY <1>1, <2>1 DEF InTurn, Given, Addressed, MeantFor
      <4> QED BY <1>2, <1>3, <4>1 DEF Is
    <3> QED BY <1>3, <2>1, <3>1 DEF InTurn, Given, Is
  <2>10. Restoring'
    <3>1. \A o \in Visits : ~Is(o, "replace")' BY <1>3, <2>2 DEF Active, Is
    <3> QED BY <3>1 DEF Restoring
  <2>11. Appending'
    <3>1. \A o \in Visits : ~Is(o, "append")' BY <1>3, <2>2 DEF Active, Is
    <3> QED BY <3>1 DEF Appending
  <2>12. Kept'
    <3> SUFFICES ASSUME NEW o \in Visits, Flashes(o)'
                 PROVE  \E item \in visit'[o].read :
                          item.id = o /\ (Receivers(o)' = {} => item \in session'.flash \/ expired(item)')
      BY DEF Kept
    <3>1. CASE o = r BY <1>3, <2>4, <3>1
    <3>2. CASE o # r
      <4>1. Flashes(o) BY <1>2, <1>3, <3>2 DEF Flashes, Is, HasOutput
      <4>2. PICK item \in visit[o].read : item.id = o /\ (Receivers(o) = {} => item \in session.flash \/ expired(item))
        BY <2>1, <4>1 DEF InTurn, Kept
      <4>3. Receivers(o)' = Receivers(o) BY <1>3 DEF Receivers
      <4> QED BY <1>3, <1>4, <2>4, <4>2, <4>3
    <3> QED BY <3>1, <3>2
  <2> QED BY <2>3, <2>8, <2>9, <2>10, <2>11, <2>12 DEF InTurn
<1> QED BY <1>1, <1>2, <1>3, <1>5, <1>6 DEF FlashInv, Clock

-----------------------------------------------------------------------------
\* A request on its way has all its fields, and for such a client is alone.
LEMMA Alone ==
  ASSUME FlashInv, NEW r \in Visits
  PROVE  /\ DOMAIN visit = Visits /\ Fields \subseteq DOMAIN visit[r]
         /\ serial /\ Active(r) => \A o \in Visits \ {r} : ~Active(o)
BY DEF FlashInv, Records, InTurn, OneAtATime

\* A request that arrives is the only one on its way.
LEMMA ArriveFlash ==
  ASSUME FlashInv, NEW r \in Visits, Arrive(r)
  PROVE  FlashInv'
<1>1. /\ plan' = plan /\ serial' = serial /\ now' = now /\ session' = session /\ Is(r, "idle")
      /\ visit' = [visit EXCEPT ![r].at = "restore"]
      /\ serial => \A o \in Visits : ~Active(o)
  BY DEF Arrive, Go, Active
<1>2. Records' BY <1>1 DEF FlashInv, Records
<1>3. /\ visit'[r].at = "restore" /\ \A o \in Visits \ {r} : visit'[o] = visit[o]
      /\ visit'[r].read = visit[r].read /\ visit'[r].input = visit[r].input
  BY <1>1, Alone DEF Fields
<1> QED BY <1>1, <1>2, <1>3, Aside DEF Is

\* The steps of a request that is past its flash maps and has none to leave.
LEMMA OnwardFlash ==
  ASSUME FlashInv, NEW r \in Visits,
         \/ restoreInput(r) /\ ~(session.exists /\ session.flash # {})
         \/ Bind(r) \/ loadSessionAttributes(r) \/ HandlerFails(r) \/ HandlerSucceeds(r)
         \/ removeCompleted(r) \/ savePending(r) \/ NoOutput(r)
  PROVE  FlashInv'
<1> DEFINE Ahead ==
             /\ plan' = plan /\ serial' = serial /\ now' = now /\ session'.flash = session.flash
             /\ {"exists", "flash", "attributes"} \subseteq DOMAIN session'
             /\ visit[r].at \notin {"idle", "done", "replace"}
             /\ visit'[r].at \notin {"idle", "restore", "replace", "append"}
             /\ DOMAIN visit' = Visits /\ Fields \subseteq DOMAIN visit'[r]
             /\ visit'[r].read = visit[r].read /\ visit'[r].input = visit[r].input
             /\ \A o \in Visits \ {r} : visit'[o] = visit[o]
             /\ visit'[r].at = "done" => ~Flashes(r)'
<1>1. DOMAIN visit = Visits /\ Fields \subseteq DOMAIN visit[r] BY Alone
<1>2. {"exists", "flash", "attributes"} \subseteq DOMAIN session BY DEF FlashInv, Records
<1>3. Ahead
  <2>1. CASE restoreInput(r) /\ ~(session.exists /\ session.flash # {})
    BY <1>1, <1>2, <2>1 DEF restoreInput, Go, Is, Fields
  <2>2. CASE Bind(r) BY <1>1, <1>2, <2>2 DEF Bind, Is, Fields
  <2>3. CASE loadSessionAttributes(r) BY <1>1, <1>2, <2>3 DEF loadSessionAttributes, Is, Fields
  <2>4. CASE HandlerFails(r) BY <1>1, <1>2, <2>4 DEF HandlerFails, Go, Is, Fields, Flashes
  <2>5. CASE HandlerSucceeds(r) BY <1>1, <1>2, <2>5 DEF HandlerSucceeds, Is, Fields
  <2>6. CASE removeCompleted(r) BY <1>1, <1>2, <2>6 DEF removeCompleted, Go, Is, Fields
  <2>7. CASE savePending(r) BY <1>1, <1>2, <2>7 DEF savePending, Go, Is, Fields
  <2>8. CASE NoOutput(r) BY <1>1, <1>2, <2>8 DEF NoOutput, Go, Is, Fields, Flashes, HasOutput
  <2> QED BY <2>1, <2>2, <2>3, <2>4, <2>5, <2>6, <2>7, <2>8
<1>4. Records' BY <1>3 DEF FlashInv, Records
<1>5. serial => \A o \in Visits \ {r} : ~Active(o) BY <1>3, Alone DEF Active
<1>6. \A o \in Visits : visit'[o].read = visit[o].read /\ visit'[o].input = visit[o].input
  BY <1>3
<1> HIDE <1>1, <1>2
<1> QED BY <1>3, <1>4, <1>5, <1>6, Aside

\* Every step keeps the invariant of the flash maps.
LEMMA StepFlash == FlashInv /\ [NextSession]_ssvars => FlashInv'
<1> SUFFICES ASSUME FlashInv, [NextSession]_ssvars PROVE FlashInv' OBVIOUS
<1>1. CASE Tick BY <1>1, TickFlash
<1>2. ASSUME NEW r \in Visits, StepOf(r) PROVE FlashInv'
  <2>1. CASE Arrive(r) BY <2>1, ArriveFlash
  <2>2. CASE restoreInput(r) BY <2>2, RestoreFlash, OnwardFlash
  <2>3. CASE replaceSessionFlashMaps(r) BY <2>3, ReplaceFlash
  <2>4. CASE saveOutput(r) BY <2>4, OutputFlash
  <2>5. CASE SetFlashMaps(r) BY <2>5, AppendFlash
  <2> QED BY <1>2, <2>1, <2>2, <2>3, <2>4, <2>5, OnwardFlash DEF StepOf
<1>3. CASE UNCHANGED ssvars
  BY <1>3 DEF ssvars, FlashInv, Clock, Records, Addressed, IsMap, MeantFor, InTurn, OneAtATime, Active, Stored,
     Given, Restoring, Appending, Kept, Flashes, Is, HasOutput, Receivers, expired
<1> QED BY <1>1, <1>2, <1>3 DEF NextSession

\* A flash map that was saved by a redirect reaches only a request it was
\* meant for, and for a client that waits for its answers exactly one, or
\* still waits in the session, or has gone out of date: the session flash maps
\* of restoreInput and saveOutput lose none and give none twice.
THEOREM FlashMapsArriveOnce == SpecSession => []FlashNeitherLostNorRepeated
<1>1. FlashInv => FlashNeitherLostNorRepeated
  <2> SUFFICES ASSUME FlashInv PROVE FlashNeitherLostNorRepeated OBVIOUS
  <2>1. \A r \in Visits : \A o \in Receivers(r) :
          plan[r].location.path = plan[o].path /\ plan[r].location.params \subseteq plan[o].params
    BY DEF FlashInv, Addressed, MeantFor, Receivers
  <2>2. ASSUME serial PROVE FlashDeliveredOnce
    <3> SUFFICES ASSUME NEW r \in Visits PROVE Cardinality(Receivers(r)) <= 1 BY DEF FlashDeliveredOnce
    <3>1. CASE Receivers(r) = {} BY <3>1, FS_EmptySet
    <3>2. ASSUME NEW o \in Receivers(r) PROVE Cardinality(Receivers(r)) <= 1
      <4>1. Receivers(r) = {o} BY <2>2, <3>2 DEF FlashInv, InTurn, Given, Receivers
      <4>2. Cardinality({o}) = 1 BY FS_Singleton
      <4> QED BY <4>1, <4>2
    <3> QED BY <3>1, <3>2
  <2>3. ASSUME serial, NEW r \in Visits PROVE Waiting(r) => \A o \in Receivers(r) : Is(o, "replace")
    BY <2>3 DEF FlashInv, InTurn, Stored, Waiting, Receivers
  <2>4. ASSUME serial, NEW r \in Visits, Flashes(r), Receivers(r) = {} PROVE Waiting(r) \/ OutOfDate(r)
    BY <2>4 DEF FlashInv, InTurn, Kept, Waiting, OutOfDate
  <2> QED BY <2>1, <2>2, <2>3, <2>4 DEF FlashNeitherLostNorRepeated
<1> QED BY <1>1, InitFlash, StepFlash, PTL DEF SpecSession

-----------------------------------------------------------------------------
\* The attributes.  Until a request saves, the session holds what those before
\* it left; what it is about to save makes of that what it leaves itself.
IsFn(f) == f = [x \in DOMAIN f |-> f[x]]
Written(r) == [n \in plan[r].writes |-> r]
Own(r) == [n \in plan[r].names \cap plan[r].writes |-> r]
ToSave(r, attributes) == Among(Over(Among(attributes, plan[r].names), Written(r)), plan[r].names)
InHand(r) ==
  /\ Is(r, "load") => visit[r].bound = session.exists
  /\ Is(r, "handle") => visit[r].model = Among(session.attributes, plan[r].names)
  /\ Is(r, "save") =>
       /\ ~plan[r].fails
       /\ visit[r].completed = IF plan[r].completes THEN plan[r].names ELSE {}
       /\ visit[r].pending = IF plan[r].completes THEN NoAttributes ELSE ToSave(r, session.attributes)
  /\ visit[r].at \in {"output", "append"} => ~plan[r].fails /\ session.attributes = LeftBy(r, left)
Saved(r) == visit[r].at \in {"output", "append"}
AttrInv ==
  /\ IsFn(session.attributes) /\ IsFn(left)
  /\ ~session.exists => session.attributes = NoAttributes
  /\ (\A r \in Visits : ~Saved(r)) => session.attributes = left
  /\ \A r \in Visits : InHand(r)
StateInv == FlashInv /\ (serial => AttrInv)

\* A function is what its domain and its values make it.
LEMMA SameFn ==
  ASSUME NEW f, NEW g, IsFn(f), IsFn(g), DOMAIN f = DOMAIN g, \A x \in DOMAIN f : f[x] = g[x]
  PROVE  f = g
BY DEF IsFn

\* What functions overlaid and cut to some names are.
LEMMA OverAmong ==
  /\ \A f, g : /\ IsFn(Over(f, g)) /\ DOMAIN Over(f, g) = DOMAIN f \cup DOMAIN g
               /\ \A x \in DOMAIN f \cup DOMAIN g : Over(f, g)[x] = IF x \in DOMAIN g THEN g[x] ELSE f[x]
  /\ \A f, names : /\ IsFn(Among(f, names)) /\ DOMAIN Among(f, names) = DOMAIN f \cap names
                   /\ \A x \in DOMAIN f \cap names : Among(f, names)[x] = f[x]
  /\ IsFn(NoAttributes) /\ DOMAIN NoAttributes = {}
  /\ \A r : /\ IsFn(Written(r)) /\ DOMAIN Written(r) = plan[r].writes
            /\ \A n \in plan[r].writes : Written(r)[n] = r
BY DEF IsFn, Over, Among, NoAttributes, Written

\* What a handler leaves in its model for the attributes of its controller,
\* written over what was in the session: only what it wrote itself is new.
LEMMA SavedIsWritten ==
  ASSUME NEW r, NEW a, IsFn(a)
  PROVE  /\ Over(a, ToSave(r, a)) = Over(a, Own(r))
         /\ ToSave(r, a) = NoAttributes => Over(a, Own(r)) = a
         /\ plan[r].names = {} => Among(a, DOMAIN a \ plan[r].names) = a
         /\ a = NoAttributes => Among(a, plan[r].names) = NoAttributes /\ \A names : Among(a, DOMAIN a \ names) = NoAttributes
<1> DEFINE names == plan[r].names
           new == Own(r)
           model == Over(Among(a, names), Written(r))
           save == ToSave(r, a)
<1>1. IsFn(new) /\ DOMAIN new = names \cap plan[r].writes /\ \A n \in names \cap plan[r].writes : new[n] = r
  BY DEF IsFn, Own
<1>2. /\ DOMAIN model = (DOMAIN a \cap names) \cup plan[r].writes
      /\ \A x \in DOMAIN model : model[x] = IF x \in plan[r].writes THEN r ELSE a[x]
  BY DEF Over, Among, Written
<1> HIDE DEF model
<1>3. /\ DOMAIN save = ((DOMAIN a \cap names) \cup plan[r].writes) \cap names
      /\ \A x \in DOMAIN save : save[x] = IF x \in plan[r].writes THEN r ELSE a[x]
  BY <1>2 DEF ToSave, model, Among
<1> HIDE DEF save, new
<1>4. Over(a, save) = Over(a, new)
  <2>1. DOMAIN Over(a, save) = DOMAIN Over(a, new) BY <1>1, <1>3 DEF Over
  <2>2. ASSUME NEW x \in DOMAIN Over(a, save) PROVE Over(a, save)[x] = Over(a, new)[x]
    <3>1. x \in DOMAIN a \cup DOMAIN save /\ x \in DOMAIN a \cup DOMAIN new BY <2>1, <2>2 DEF Over
    <3>2. Over(a, save)[x] = IF x \in DOMAIN save THEN save[x] ELSE a[x] BY <3>1, OverAmong
    <3>3. Over(a, new)[x] = IF x \in DOMAIN new THEN new[x] ELSE a[x] BY <3>1, OverAmong
    <3> QED BY <1>1, <1>3, <3>1, <3>2, <3>3
  <2> QED BY <2>1, <2>2, SameFn, OverAmong
<1>5. ASSUME save = NoAttributes PROVE Over(a, new) = a
  <2>1. DOMAIN new = {} BY <1>1, <1>3, <1>5, OverAmong
  <2>2. DOMAIN Over(a, new) = DOMAIN a /\ \A x \in DOMAIN a : Over(a, new)[x] = a[x]
    BY <2>1 DEF Over
  <2> QED BY <2>2, SameFn, OverAmong
<1>6. ASSUME names = {} PROVE Among(a, DOMAIN a \ names) = a
  <2>1. DOMAIN Among(a, DOMAIN a \ names) = DOMAIN a /\ \A x \in DOMAIN a : Among(a, DOMAIN a \ names)[x] = a[x]
    BY <1>6 DEF Among
  <2>2. IsFn(Among(a, DOMAIN a \ names)) BY OverAmong
  <2> HIDE DEF names
  <2> QED BY <2>1, <2>2, SameFn
<1>7. ASSUME a = NoAttributes, NEW kept PROVE Among(a, kept) = NoAttributes
  <2>1. DOMAIN Among(a, kept) = {} BY <1>7 DEF Among, NoAttributes
  <2> QED BY <2>1, SameFn, OverAmong
<1> QED BY <1>4, <1>5, <1>6, <1>7 DEF save, new

\* A session begins without attributes, and nobody left any.
LEMMA InitAttr == InitSession => AttrInv
<1> SUFFICES ASSUME InitSession PROVE AttrInv OBVIOUS
<1>1. session.attributes = NoAttributes /\ left = NoAttributes /\ IsFn(NoAttributes) BY DEF InitSession, NoSession, IsFn, NoAttributes
<1>2. \A r \in Visits : InHand(r) BY DEF InitSession, NewVisit, InHand, Is
<1> QED BY <1>1, <1>2 DEF AttrInv

\* A step of the request that is on its way, the others having been answered
\* or not having come yet.
LEMMA StepAttr ==
  ASSUME StateInv, serial, NEW r \in Visits, StepOf(r)
  PROVE  AttrInv'
<1>1. /\ FlashInv /\ AttrInv /\ DOMAIN visit = Visits /\ Fields \subseteq DOMAIN visit[r]
      /\ {"exists", "flash", "attributes"} \subseteq DOMAIN session
  BY Alone DEF StateInv, FlashInv, Records
<1>2. plan' = plan /\ \A o \in Visits \ {r} : visit'[o] = visit[o]
  BY <1>1 DEF StepOf, Arrive, restoreInput, replaceSessionFlashMaps, Bind, loadSessionAttributes, HandlerFails,
     HandlerSucceeds, removeCompleted, savePending, saveOutput, NoOutput, SetFlashMaps, Go
<1>3. \A o \in Visits \ {r} : ~Active(o)
  <2>1. CASE Arrive(r) BY <2>1 DEF Arrive, Active
  <2>2. CASE ~Arrive(r)
    <3>1. Active(r)
      BY <2>2 DEF StepOf, restoreInput, replaceSessionFlashMaps, Bind, loadSessionAttributes, HandlerFails,
         HandlerSucceeds, removeCompleted, savePending, saveOutput, NoOutput, SetFlashMaps, Is, Active
    <3> QED BY <1>1, <3>1, Alone
  <2> QED BY <2>1, <2>2
<1>4. \A o \in Visits \ {r} : ~Saved(o) /\ ~Saved(o)' /\ InHand(o)'
  BY <1>2, <1>3 DEF Active, Saved, InHand, Is
<1>5. /\ IsFn(session.attributes) /\ IsFn(left) /\ InHand(r)
      /\ ~session.exists => session.attributes = NoAttributes
      /\ ~Saved(r) => session.attributes = left
  BY <1>1, <1>4 DEF AttrInv
<1> DEFINE Sound ==
             /\ IsFn(session'.attributes) /\ IsFn(left')
             /\ ~session'.exists => session'.attributes = NoAttributes
             /\ ~Saved(r)' => session'.attributes = left'
             /\ InHand(r)'
<1>6. Sound
  <2>1. CASE Arrive(r) \/ restoreInput(r) \/ replaceSessionFlashMaps(r)
    <3>1. /\ left' = left /\ session'.attributes = session.attributes /\ session'.exists = session.exists
          /\ ~Saved(r) /\ visit'[r].at \in {"restore", "replace", "bind"}
      BY <1>1, <2>1 DEF Arrive, restoreInput, replaceSessionFlashMaps, Go, Is, Saved, Fields
    <3> QED BY <1>5, <3>1 DEF InHand, Saved, Is
  <2>2. CASE Bind(r)
    <3>1. /\ left' = left /\ session' = session /\ ~Saved(r)
          /\ visit'[r].at = "load" /\ visit'[r].bound = session.exists
      BY <1>1, <2>2 DEF Bind, Is, Saved, Fields
    <3> QED BY <1>5, <3>1 DEF InHand, Saved, Is
  <2>3. CASE loadSessionAttributes(r)
    <3>1. /\ left' = left /\ session' = session /\ ~Saved(r) /\ Is(r, "load") /\ visit'[r].at = "handle"
          /\ visit'[r].model = IF visit[r].bound THEN Among(session.attributes, plan[r].names) ELSE NoAttributes
      BY <1>1, <2>3 DEF loadSessionAttributes, Is, Saved, Fields
    <3>2. visit'[r].model = Among(session.attributes, plan[r].names)
      <4>1. CASE session.exists BY <1>5, <3>1, <4>1 DEF InHand
      <4>2. CASE ~session.exists BY <1>5, <3>1, <4>2, SavedIsWritten DEF InHand
      <4> QED BY <4>1, <4>2
    <3> QED BY <1>2, <1>5, <3>1, <3>2 DEF InHand, Saved, Is
  <2>4. CASE HandlerFails(r)
    <3>1. /\ left' = left /\ session' = session /\ ~Saved(r) /\ visit'[r].at = "done"
      BY <1>1, <2>4 DEF HandlerFails, Leave, LeftBy, Go, Is, Saved, Fields
    <3> QED BY <1>5, <3>1 DEF InHand, Saved, Is
  <2>5. CASE HandlerSucceeds(r)
    <3>1. /\ left' = left /\ session' = session /\ ~Saved(r) /\ ~plan[r].fails /\ Is(r, "handle")
          /\ visit'[r].at = "save"
          /\ visit'[r].completed = IF plan[r].completes THEN plan[r].names ELSE {}
          /\ visit'[r].pending = IF plan[r].completes THEN NoAttributes
                                   ELSE Among(Over(visit[r].model, Written(r)), plan[r].names)
      BY <1>1, <2>5 DEF HandlerSucceeds, Is, Saved, Fields, Written
    <3>2. ToSave(r, session.attributes)' = ToSave(r, session.attributes)
      BY <1>2, <3>1 DEF ToSave, Written
    <3>3. Among(Over(visit[r].model, Written(r)), plan[r].names) = ToSave(r, session.attributes)
      BY <1>5, <3>1 DEF InHand, ToSave
    <3> QED BY <1>2, <1>5, <3>1, <3>2, <3>3 DEF InHand, Saved, Is
  <2>6. CASE removeCompleted(r)
    <3>1. /\ left' = left /\ ~Saved(r) /\ Is(r, "save") /\ visit[r].completed # {}
          /\ visit'[r].at = "output" /\ session'.exists = session.exists
          /\ session'.attributes = Among(session.attributes, DOMAIN session.attributes \ visit[r].completed)
      BY <1>1, <2>6 DEF removeCompleted, Go, Is, Saved, Fields
    <3>2. plan[r].completes /\ ~plan[r].fails /\ visit[r].completed = plan[r].names BY <1>5, <3>1 DEF InHand
    <3>3. session'.attributes = LeftBy(r, left)' BY <1>2, <1>5, <3>1, <3>2 DEF LeftBy
    <3>4. ~session'.exists => session'.attributes = NoAttributes BY <1>5, <3>1, SavedIsWritten
    <3>5. IsFn(session'.attributes) BY <3>1, OverAmong
    <3> QED BY <1>2, <1>5, <3>1, <3>2, <3>3, <3>4, <3>5 DEF InHand, Saved, Is
  <2>7. CASE savePending(r)
    <3>1. /\ left' = left /\ ~Saved(r) /\ Is(r, "save") /\ visit[r].completed = {} /\ visit'[r].at = "output"
          /\ IF visit[r].pending = NoAttributes THEN session' = session
             ELSE session'.exists = TRUE /\ session'.attributes = Over(session.attributes, visit[r].pending)
      BY <1>1, <2>7 DEF savePending, Go, Is, Saved, Fields
    <3>2. ~plan[r].fails BY <1>5, <3>1 DEF InHand
    <3>3. session'.attributes = LeftBy(r, left)'
      <4>1. session'.attributes = LeftBy(r, left)
        <5>1. CASE plan[r].completes
          <6>1. plan[r].names = {} /\ visit[r].pending = NoAttributes BY <1>5, <3>1, <5>1 DEF InHand
          <6>2. LeftBy(r, left) = Among(session.attributes, DOMAIN session.attributes \ plan[r].names)
            BY <1>5, <3>1, <3>2, <5>1 DEF LeftBy
          <6>3. Among(session.attributes, DOMAIN session.attributes \ plan[r].names) = session.attributes
            BY <1>5, <6>1, SavedIsWritten
          <6>4. session' = session BY <3>1, <6>1
          <6> QED BY <6>2, <6>3, <6>4
        <5>2. CASE ~plan[r].completes
          <6>1. visit[r].pending = ToSave(r, session.attributes) BY <1>5, <3>1, <5>2 DEF InHand
          <6>2. LeftBy(r, left) = Over(session.attributes, Own(r))
            BY <1>5, <3>1, <3>2, <5>2 DEF LeftBy, Own
          <6>3. Over(session.attributes, visit[r].pending) = LeftBy(r, left) BY <1>5, <6>1, <6>2, SavedIsWritten
          <6>4. visit[r].pending = NoAttributes => session.attributes = LeftBy(r, left)
            BY <1>5, <6>1, <6>2, SavedIsWritten
          <6> QED BY <3>1, <6>3, <6>4
        <5> QED BY <5>1, <5>2
      <4>2. LeftBy(r, left)' = LeftBy(r, left) BY <1>2, <3>1 DEF LeftBy
      <4> QED BY <4>1, <4>2
    <3>4. IsFn(session'.attributes) /\ (~session'.exists => session'.attributes = NoAttributes)
      BY <1>5, <3>1, OverAmong
    <3> QED BY <1>2, <1>5, <3>1, <3>2, <3>3, <3>4 DEF InHand, Saved, Is
  <2>8. CASE saveOutput(r)
    <3>1. /\ left' = left /\ Is(r, "output") /\ visit'[r].at = "append"
          /\ session'.exists = TRUE /\ session'.attributes = session.attributes
      BY <1>1, <2>8 DEF saveOutput, Is, Fields
    <3>2. LeftBy(r, left)' = LeftBy(r, left) BY <1>2, <3>1 DEF LeftBy
    <3> QED BY <1>2, <1>5, <3>1, <3>2 DEF InHand, Saved, Is
  <2>9. CASE NoOutput(r) \/ SetFlashMaps(r)
    <3>1. /\ left' = LeftBy(r, left) /\ visit[r].at \in {"output", "append"} /\ visit'[r].at = "done"
          /\ session'.exists = session.exists /\ session'.attributes = session.attributes
      BY <1>1, <2>9 DEF NoOutput, SetFlashMaps, Leave, Go, Is, Fields
    <3> QED BY <1>5, <3>1 DEF InHand, Saved, Is
  <2> QED BY <2>1, <2>2, <2>3, <2>4, <2>5, <2>6, <2>7, <2>8, <2>9 DEF StepOf
<1> QED BY <1>4, <1>6 DEF AttrInv

\* Every step keeps the invariants of both.
LEMMA NextState == StateInv /\ [NextSession]_ssvars => StateInv'
<1> SUFFICES ASSUME StateInv, [NextSession]_ssvars PROVE StateInv' OBVIOUS
<1>1. FlashInv' BY StepFlash DEF StateInv
<1>2. ASSUME serial' PROVE AttrInv'
  <2>1. serial /\ AttrInv BY <1>2 DEF StateInv, NextSession, Tick, ssvars, StepOf, Arrive,
       restoreInput, replaceSessionFlashMaps, Bind, loadSessionAttributes, HandlerFails, HandlerSucceeds,
       removeCompleted, savePending, saveOutput, NoOutput, SetFlashMaps
  <2>2. CASE Tick \/ UNCHANGED ssvars
    <3>1. plan' = plan /\ session' = session /\ visit' = visit /\ left' = left BY <2>2 DEF Tick, ssvars
    <3> QED BY <2>1, <3>1 DEF AttrInv, InHand, Saved, Is, IsFn, LeftBy, ToSave, Written
  <2> QED BY <1>2, <2>1, <2>2, StepAttr DEF NextSession, StateInv
<1> QED BY <1>1, <1>2 DEF StateInv

\* Between the requests of a client that waits for its answers the session
\* holds what the successful ones left, in that order: a failed request changes
\* nothing, a completed conversation leaves none of its names, and what a
\* handler did not write comes from the session it was read from
\* (loadSessionAttributes, wrapSessionAttributes).
THEOREM AttributesAreWhatSuccessLeft == SpecSession => []SessionIsWhatSuccessLeft
<1>1. StateInv => SessionIsWhatSuccessLeft
  BY DEF StateInv, AttrInv, Saved, Quiet, SessionIsWhatSuccessLeft
<1>2. InitSession => StateInv BY InitFlash, InitAttr DEF StateInv
<1> QED BY <1>1, <1>2, NextState, PTL DEF SpecSession

-----------------------------------------------------------------------------
\* Static files.  A link to a file is its path with the hash of the content it
\* had; a reader tries the name of the link, and once more without a fixed
\* version.
Parts == [stem : STRING, versions : Seq([of : STRING, digits : Nat]), ext : STRING]
Versioned(path, content) == IF served.content THEN insertContentVersion(path, Hash(content)) ELSE path
Under(r, path) == IF reader[r].stripped \/ served.fixed = Empty THEN path ELSE FixedVersionPath(served.fixed, path)

\* Each file has the time of its last write; a cached version is that of the
\* content which the file had at its time, if it has it still.
Disk ==
  /\ writes \in Nat /\ served \in Configurations
  /\ DOMAIN disk \subseteq Files
  /\ \A path \in DOMAIN disk : disk[path].content \in Contents /\ disk[path].time \in Nat /\ disk[path].time <= writes
Cache ==
  \A path \in DOMAIN cache :
    /\ cache[path].signature.time \in Nat /\ cache[path].signature.time <= writes
    /\ path \in DOMAIN disk /\ disk[path].time = cache[path].signature.time =>
         cache[path].version = Hash(disk[path].content)

ReaderFields == {"at", "name", "stripped", "base", "requested", "signature", "version", "handle", "status",
                 "got", "wanted", "late", "raced"}
ReaderShape == DOMAIN reader = Readers /\ \A r \in Readers : ReaderFields \subseteq DOMAIN reader[r]

\* Where a reader is that follows a link to a path.
Follows(r, path) ==
  /\ reader[r].wanted \in Contents
  /\ ~reader[r].late => ~reader[r].raced /\ path \in DOMAIN disk /\ disk[path].content = reader[r].wanted
  /\ reader[r].name = Under(r, Versioned(path, reader[r].wanted))
  /\ reader[r].at \in {"stat", "hash", "compare"} =>
       /\ served.content
       /\ reader[r].requested = Hash(reader[r].wanted)
       /\ reader[r].base = Under(r, path)
  /\ reader[r].at \in {"hash", "compare"} => reader[r].base = path
Hashing(r) ==
  reader[r].at = "hash" =>
    /\ reader[r].signature.time \in Nat /\ reader[r].signature.time <= writes
    /\ ~reader[r].raced => reader[r].base \in DOMAIN disk /\ disk[reader[r].base].time = reader[r].signature.time
    /\ reader[r].base \in DOMAIN disk /\ disk[reader[r].base].time = reader[r].signature.time =>
         reader[r].handle = disk[reader[r].base].content
Comparing(r) ==
  reader[r].at = "compare" /\ ~reader[r].raced =>
    reader[r].base \in DOMAIN disk /\ reader[r].version = Hash(disk[reader[r].base].content)
Arrived(r) ==
  /\ ~reader[r].late => reader[r].got = reader[r].wanted
  /\ served.content /\ ~reader[r].raced /\ isStaticCacheStatus(reader[r].status) =>
       reader[r].got = reader[r].wanted
Places == {"exact", "stat", "hash", "compare"}
ReaderInv(r) ==
  /\ reader[r].at \in {"idle", "done"} \cup Places
  /\ reader[r].at \in Places => \E path \in Files : Follows(r, path)
  /\ Hashing(r) /\ Comparing(r)
  /\ reader[r].at = "done" => Arrived(r)
StaticInv == Disk /\ Cache /\ ReaderShape /\ \A r \in Readers : ReaderInv(r)

\* The last element of a sequence and what is before it.
LEMMA Wider ==
  ASSUME NEW S, NEW x, NEW s \in Seq(S)
  PROVE  s \in Seq(S \cup {x})
<1> DEFINE n == Len(s)
           T == S \cup {x}
<1>1. n \in Nat /\ s = [i \in 1 .. n |-> s[i]] OBVIOUS
<1>2. \A i \in 1 .. n : s[i] \in T OBVIOUS
<1> HIDE DEF n, T
<1>3. [i \in 1 .. n |-> s[i]] \in Seq(T) BY <1>1, <1>2
<1> QED BY <1>1, <1>3 DEF T

\* A sequence is empty or has a positive length.
LEMMA Lengths ==
  ASSUME NEW S, NEW s \in Seq(S)
  PROVE  Len(s) \in Nat /\ (s # <<>> => Len(s) > 0)
BY EmptySeq

\* A sequence is its front and its last element.
LEMMA FrontLast ==
  ASSUME NEW S, NEW s \in Seq(S), s # <<>>
  PROVE  /\ Len(s) \in Nat \ {0} /\ Last(s) \in S
         /\ Front(s) \in Seq(S) /\ Len(Front(s)) = Len(s) - 1
         /\ \A i \in 1 .. Len(s) - 1 : Front(s)[i] = s[i]
         /\ Append(Front(s), Last(s)) = s
<1>1. Len(s) \in Nat \ {0} BY EmptySeq
<1>2. /\ Front(s) \in Seq(S) /\ Len(Front(s)) = Len(s) - 1
      /\ \A i \in 1 .. Len(s) - 1 : Front(s)[i] = s[i]
  <2>1. Front(s) = [i \in 1 .. Len(s) - 1 |-> s[i]] BY <1>1 DEF Front
  <2>2. \A i \in 1 .. Len(s) - 1 : s[i] \in S BY <1>1
  <2> QED BY <1>1, <2>1, <2>2
<1>3. Last(s) \in S BY <1>1 DEF Last
<1>4. Append(Front(s), Last(s)) = s
  <2>1. /\ Append(Front(s), Last(s)) \in Seq(S) /\ Len(Append(Front(s), Last(s))) = Len(s)
        /\ \A i \in 1 .. Len(s) : Append(Front(s), Last(s))[i] = s[i]
    BY <1>1, <1>2, <1>3 DEF Last
  <2> QED BY <2>1, SeqEqual
<1> QED BY <1>1, <1>2, <1>3, <1>4

\* What is appended is the last element of the result.
LEMMA AppendLast ==
  ASSUME NEW S, NEW s \in Seq(S), NEW e \in S
  PROVE  /\ Append(s, e) \in Seq(S) /\ Append(s, e) # <<>> /\ Len(Append(s, e)) = Len(s) + 1
         /\ Last(Append(s, e)) = e /\ Front(Append(s, e)) = s
<1>1. /\ Append(s, e) \in Seq(S) /\ Len(Append(s, e)) = Len(s) + 1 /\ Append(s, e)[Len(s) + 1] = e
      /\ \A i \in 1 .. Len(s) : Append(s, e)[i] = s[i]
  OBVIOUS
<1>2. Append(s, e) # <<>> BY <1>1, EmptySeq
<1>3. Last(Append(s, e)) = e BY <1>1 DEF Last
<1>4. Front(Append(s, e)) = s
  <2>1. /\ Front(Append(s, e)) \in Seq(S) /\ Len(Front(Append(s, e))) = Len(s)
        /\ \A i \in 1 .. Len(s) : Front(Append(s, e))[i] = s[i]
    <3> DEFINE a == Append(s, e)
    <3>1. a \in Seq(S) /\ a # <<>> /\ Len(a) = Len(s) + 1 /\ \A i \in 1 .. Len(s) : a[i] = s[i] BY <1>1, <1>2
    <3> HIDE DEF a
    <3>2. Front(a) \in Seq(S) /\ Len(Front(a)) = Len(a) - 1 /\ \A i \in 1 .. Len(a) - 1 : Front(a)[i] = a[i]
      BY <3>1, FrontLast
    <3>3. Len(s) \in Nat OBVIOUS
    <3> QED BY <3>1, <3>2, <3>3 DEF a
  <2> QED BY <2>1, SeqEqual
<1> QED BY <1>1, <1>2, <1>3, <1>4

\* Inserting a version and splitting it off again.
LEMMA SplitInserted ==
  ASSUME NEW S, NEW path \in Seq(S), path # <<>>, Last(path) \in Parts,
         Last(path).stem # Empty \/ Last(path).versions # <<>>, NEW content \in STRING
  PROVE  LET link == insertContentVersion(path, Hash(content))
         IN  /\ link # <<>> /\ CanSplit(link)
             /\ splitContentVersion(link).base = path
             /\ splitContentVersion(link).requested = Hash(content)
<1> DEFINE last == Last(path)
           Hashes == [of : STRING, digits : Nat]
           hash == Hash(content)
           versions == Append(last.versions, hash)
           named == [last EXCEPT !.versions = versions]
           link == insertContentVersion(path, hash)
           all == S \cup {named}
<1>1. last.versions \in Seq(Hashes) /\ hash \in Hashes /\ hash.digits >= minContentVersionLength
  <2>1. last.versions \in Seq(Hashes) BY DEF Parts
  <2>2. hash = [of |-> content, digits |-> 64] BY DEF Hash, HashLength
  <2>3. hash \in Hashes BY <2>2
  <2>4. hash.digits >= minContentVersionLength BY <2>2 DEF minContentVersionLength
  <2> QED BY <2>1, <2>3, <2>4
<1> HIDE DEF Hashes, hash
<1>2. /\ versions \in Seq(Hashes) /\ Len(versions) = Len(last.versions) + 1 /\ versions # <<>>
      /\ Last(versions) = hash /\ Front(versions) = last.versions
  BY <1>1, AppendLast
<1>3. Len(last.versions) \in Nat /\ (last.versions # <<>> => Len(last.versions) > 0) BY <1>1, Lengths
<1> HIDE DEF versions
<1>4. named.versions = versions /\ named.stem = last.stem /\ [named EXCEPT !.versions = last.versions] = last
  BY <1>2 DEF Parts
<1>5. link = Append(Front(path), named) BY DEF insertContentVersion, versions
<1>6. Front(path) \in Seq(all) /\ named \in all /\ Append(Front(path), last) = path
  <2>1. Front(path) \in Seq(S) /\ Append(Front(path), last) = path BY FrontLast
  <2> HIDE DEF named, last
  <2> QED BY <2>1, Wider
<1> HIDE DEF named, last, link, all
<1>7. link # <<>> /\ Last(link) = named /\ Front(link) = Front(path) BY <1>5, <1>6, AppendLast
<1>8. CanSplit(link)
  <2>1. Len(versions) > 1 \/ named.stem # Empty BY <1>2, <1>3, <1>4 DEF last
  <2> QED BY <1>1, <1>2, <1>4, <1>7, <2>1 DEF CanSplit
<1>9. splitContentVersion(link) = [base |-> path, requested |-> hash]
  BY <1>2, <1>4, <1>6, <1>7 DEF splitContentVersion
<1> QED BY <1>7, <1>8, <1>9 DEF link, hash

\* A fixed version is a directory, put before the path and taken away again.
LEMMA Directory ==
  ASSUME NEW S, NEW path \in Seq(S), path # <<>>, NEW version
  PROVE  LET under == FixedVersionPath(version, path)
         IN  /\ under \in Seq(S \cup {Segment(version, Empty)}) /\ under # <<>> /\ Last(under) = Last(path)
             /\ \A hash : FixedVersionPath(version, insertContentVersion(path, hash)) = insertContentVersion(under, hash)
             /\ Len(under) > 1 /\ Head(under) = Segment(version, Empty) /\ Tail(under) = path
<1> DEFINE first == Segment(version, Empty)
           under == FixedVersionPath(version, path)
           NamedBy == S \cup {first}
<1>1. path \in Seq(NamedBy) /\ first \in NamedBy BY Wider
<1>2. Len(path) \in Nat \ {0} BY EmptySeq
<1>3. under = <<first>> \o path BY DEF FixedVersionPath
<1> HIDE DEF first, under, NamedBy
<1>4. <<first>> \in Seq(NamedBy) /\ Len(<<first>>) = 1 /\ <<first>>[1] = first BY <1>1
<1>5. /\ under \in Seq(NamedBy) /\ Len(under) = Len(path) + 1
      /\ \A i \in 1 .. Len(path) + 1 : under[i] = IF i = 1 THEN first ELSE path[i - 1]
  <2>1. path \in Seq(NamedBy) BY <1>1
  <2>2. /\ <<first>> \o path \in Seq(NamedBy) /\ Len(<<first>> \o path) = 1 + Len(path)
        /\ \A i \in 1 .. 1 + Len(path) : (<<first>> \o path)[i] = IF i <= 1 THEN <<first>>[i] ELSE path[i - 1]
    BY <1>4, <2>1, ConcatProperties
  <2> QED BY <1>2, <1>3, <1>4, <2>2
<1>6. Last(under) = Last(path) /\ Head(under) = first /\ Len(under) > 1 /\ under # <<>>
  BY <1>2, <1>5, EmptySeq DEF Last
<1>7. Tail(under) = path
  <2>1. /\ Tail(under) \in Seq(NamedBy) /\ Len(Tail(under)) = Len(path)
        /\ \A i \in 1 .. Len(path) : Tail(under)[i] = path[i]
    BY <1>2, <1>5, <1>6
  <2> QED BY <2>1, SeqEqual
<1>8. ASSUME NEW hash
      PROVE  FixedVersionPath(version, insertContentVersion(path, hash)) = insertContentVersion(under, hash)
  <2> DEFINE named == [Last(path) EXCEPT !.versions = Append(@, hash)]
             all == NamedBy \cup {named}
  <2>1. Front(under) = <<first>> \o Front(path)
    <3>1. /\ Front(path) \in Seq(NamedBy) /\ Len(Front(path)) = Len(path) - 1
          /\ \A i \in 1 .. Len(path) - 1 : Front(path)[i] = path[i]
      BY <1>1, FrontLast
    <3>2. /\ Front(under) \in Seq(NamedBy) /\ Len(Front(under)) = Len(path)
          /\ \A i \in 1 .. Len(path) : Front(under)[i] = under[i]
      <4>1. Len(under) - 1 = Len(path) BY <1>2, <1>5
      <4> QED BY <1>5, <1>6, <4>1, FrontLast
    <3>3. /\ <<first>> \o Front(path) \in Seq(NamedBy) /\ Len(<<first>> \o Front(path)) = Len(path)
          /\ \A i \in 1 .. Len(path) : (<<first>> \o Front(path))[i] = IF i = 1 THEN first ELSE Front(path)[i - 1]
      BY <1>2, <1>4, <3>1, ConcatProperties
    <3>4. ASSUME NEW i \in 1 .. Len(path) PROVE Front(under)[i] = (<<first>> \o Front(path))[i]
      <4>1. CASE i = 1 BY <1>2, <1>5, <3>2, <3>3, <4>1
      <4>2. CASE i # 1
        <5>1. i - 1 \in 1 .. Len(path) - 1 BY <1>2, <4>2
        <5> QED BY <1>2, <1>5, <3>1, <3>2, <3>3, <4>2, <5>1
      <4> QED BY <4>1, <4>2
    <3> QED BY <3>2, <3>3, <3>4, SeqEqual
  <2> HIDE DEF named
  <2>2. named \in all /\ Front(path) \in Seq(all) /\ <<first>> \in Seq(all)
    BY <1>1, <1>4, FrontLast, Wider
  <2>3. Append(<<first>> \o Front(path), named) = <<first>> \o Append(Front(path), named)
    BY <2>2
  <2> QED BY <1>6, <2>1, <2>3 DEF insertContentVersion, FixedVersionPath, named, first
<1> QED BY <1>5, <1>6, <1>7, <1>8 DEF first, under, NamedBy

\* What is true of the links to a file: they name no file, and are read as
\* they were written.
LEMMA Links ==
  ASSUME Disk, NEW path \in Files, NEW content \in Contents
  PROVE  LET link == insertContentVersion(path, Hash(content))
             Fixed(name) == FixedVersionPath(served.fixed, name)
         IN  /\ path # <<>> /\ link # <<>> /\ link \notin Files /\ cleanVersionPath(link) = link /\ CanSplit(link)
             /\ splitContentVersion(link).base = path /\ splitContentVersion(link).requested = Hash(content)
             /\ served.fixed # Empty =>
                  /\ Fixed(path) \notin Files /\ stripVersion(Fixed(path)) = path
                  /\ Fixed(link) \notin Files /\ stripVersion(Fixed(link)) = link
                  /\ cleanVersionPath(Fixed(link)) = Fixed(link) /\ CanSplit(Fixed(link))
                  /\ splitContentVersion(Fixed(link)).base = Fixed(path)
                  /\ splitContentVersion(Fixed(link)).requested = Hash(content)
<1> DEFINE link == insertContentVersion(path, Hash(content))
           Fixed(name) == FixedVersionPath(served.fixed, name)
           versioned == {insertContentVersion(path, Hash(c)) : c \in Contents}
           fixed == {k.fixed : k \in Configurations} \ {Empty}
           links == versioned \cup {FixedVersionPath(version, other) : version \in fixed, other \in {path} \cup versioned}
<1>1. /\ content \in STRING /\ path # <<>> /\ path \in Seq(Parts)
      /\ Last(path).stem # Empty \/ Last(path).versions # <<>>
      /\ links \cap Files = {} /\ \A name \in links : cleanVersionPath(name) = name
  BY StaticAssumption DEF Parts
<1>2. link \in links /\ (served.fixed # Empty => served.fixed \in fixed) BY DEF Disk
<1>3. served.fixed # Empty => Fixed(path) \in links /\ Fixed(link) \in links BY <1>2
<1>4. Last(path) \in Parts BY <1>1, FrontLast
<1>5. /\ link # <<>> /\ CanSplit(link)
      /\ splitContentVersion(link).base = path /\ splitContentVersion(link).requested = Hash(content)
  BY <1>1, <1>4, SplitInserted
<1>6. ASSUME served.fixed # Empty
      PROVE  /\ stripVersion(Fixed(path)) = path /\ stripVersion(Fixed(link)) = link /\ CanSplit(Fixed(link))
             /\ splitContentVersion(Fixed(link)).base = Fixed(path)
             /\ splitContentVersion(Fixed(link)).requested = Hash(content)
  <2> DEFINE all == Parts \cup {Segment(served.fixed, Empty)}
  <2>1. /\ Fixed(path) \in Seq(all) /\ Fixed(path) # <<>> /\ Last(Fixed(path)) = Last(path)
        /\ Fixed(link) = insertContentVersion(Fixed(path), Hash(content))
        /\ Len(Fixed(path)) > 1 /\ Head(Fixed(path)) = Segment(served.fixed, Empty) /\ Tail(Fixed(path)) = path
    <3>1. path \in Seq(Parts) /\ path # <<>> BY <1>1
    <3> HIDE DEF link
    <3> QED BY ONLY <3>1, Directory DEF link
  <2>2. /\ CanSplit(Fixed(link)) /\ splitContentVersion(Fixed(link)).base = Fixed(path)
        /\ splitContentVersion(Fixed(link)).requested = Hash(content)
    <3> HIDE DEF all
    <3> QED BY <1>1, <1>4, <2>1, SplitInserted
  <2>3. Len(Fixed(link)) > 1 /\ Head(Fixed(link)) = Segment(served.fixed, Empty) /\ Tail(Fixed(link)) = link
    <3> DEFINE named == [Last(path) EXCEPT !.versions = Append(@, Hash(content))]
               wide == Parts \cup {named}
    <3>1. link = Append(Front(path), named) BY DEF insertContentVersion
    <3>2. Front(path) \in Seq(wide) /\ named \in wide
      <4>1. Front(path) \in Seq(Parts) BY <1>1, FrontLast
      <4> HIDE DEF named
      <4> QED BY <4>1, Wider
    <3> HIDE DEF named, wide, link
    <3>3. link \in Seq(wide) BY <3>1, <3>2, AppendLast
    <3> QED BY <1>5, <3>3, Directory
  <2> QED BY <1>6, <2>1, <2>2, <2>3 DEF stripVersion
<1> HIDE DEF links
<1> QED BY <1>1, <1>2, <1>3, <1>5, <1>6

\* The same for the name a reader tries, of a link to a path.
LEMMA Tried ==
  ASSUME Disk, NEW r, NEW path \in Files, NEW content \in Contents
  PROVE  LET name == Under(r, Versioned(path, content))
         IN  /\ Under(r, path) \in Files => Under(r, path) = path
             /\ served.content =>
                  /\ name \notin Files /\ cleanVersionPath(name) = name /\ CanSplit(name)
                  /\ splitContentVersion(name).base = Under(r, path)
                  /\ splitContentVersion(name).requested = Hash(content)
             /\ ~served.content => name = Under(r, path)
             /\ reader[r].stripped \/ served.fixed = Empty => Under(r, path) = path
<1>1. CASE reader[r].stripped \/ served.fixed = Empty
  BY <1>1, Links DEF Under, Versioned, stripVersion
<1>2. CASE ~reader[r].stripped /\ served.fixed # Empty
  <2>1. \A any : Under(r, any) = FixedVersionPath(served.fixed, any) BY <1>2 DEF Under
  <2> QED BY <1>2, <2>1, Links DEF Versioned
<1> QED BY <1>1, <1>2

\* At first no file was rewritten and nobody follows a link.
LEMMA InitFollow == InitStatic => StaticInv
<1> SUFFICES ASSUME InitStatic PROVE StaticInv OBVIOUS
<1>1. (CHOOSE c \in Contents : TRUE) \in Contents BY StaticAssumption
<1>2. Disk BY <1>1 DEF InitStatic, Disk
<1>3. Cache BY DEF InitStatic, Cache
<1>4. ReaderShape /\ \A r \in Readers : ReaderInv(r)
  BY DEF InitStatic, NoReader, ReaderShape, ReaderFields, ReaderInv, Places, Hashing, Comparing
<1> QED BY <1>2, <1>3, <1>4 DEF StaticInv

\* A file is written or removed: its next time is later than all before, and
\* whoever follows a link is late.
LEMMA Rewritten ==
  ASSUME StaticInv, NEW path \in Files,
         Delete(path) \/ \E content \in Contents : Deploy(path, content)
  PROVE  StaticInv'
<1>1. Disk /\ Cache /\ ReaderShape /\ \A r \in Readers : ReaderInv(r) BY DEF StaticInv
<1>2. /\ writes' = writes + 1 /\ writes \in Nat /\ writes' \in Nat /\ cache' = cache /\ served' = served
      /\ Disturb
  BY <1>1 DEF Delete, Deploy, Disk
<1>9. /\ DOMAIN reader' = Readers
      /\ \A r \in Readers : reader'[r] = [reader[r] EXCEPT !.late = @ \/ reader[r].at # "idle",
                                                          !.raced = @ \/ reader[r].at \in {"hash", "compare"}]
  BY <1>2 DEF Disturb
<1>3. /\ DOMAIN disk' \subseteq DOMAIN disk \cup {path}
      /\ \A p \in DOMAIN disk' \ {path} : disk'[p] = disk[p]
      /\ path \in DOMAIN disk' => disk'[path].time = writes + 1 /\ disk'[path].content \in Contents
  <2>1. CASE Delete(path) BY <2>1 DEF Delete
  <2>2. CASE \E content \in Contents : Deploy(path, content) BY <2>2 DEF Deploy
  <2> QED BY <2>1, <2>2
<1>4. Disk'
  <2>1. ASSUME NEW p \in DOMAIN disk'
        PROVE  disk'[p].content \in Contents /\ disk'[p].time \in Nat /\ disk'[p].time <= writes'
    <3>1. CASE p = path BY <1>2, <1>3, <2>1, <3>1
    <3>2. CASE p # path
      <4>1. p \in DOMAIN disk /\ disk'[p] = disk[p] BY <1>3, <2>1, <3>2
      <4>2. disk[p].content \in Contents /\ disk[p].time \in Nat /\ disk[p].time <= writes BY <1>1, <4>1 DEF Disk
      <4> QED BY <1>2, <4>1, <4>2
    <3> QED BY <3>1, <3>2
  <2> QED BY <1>1, <1>2, <1>3, <2>1 DEF Disk
<1>5. \A p, time : time \in Nat /\ time <= writes /\ p \in DOMAIN disk' /\ disk'[p].time = time =>
        p \in DOMAIN disk /\ disk'[p] = disk[p]
  <2> SUFFICES ASSUME NEW p \in DOMAIN disk', NEW time \in Nat, time <= writes, disk'[p].time = time
               PROVE  p \in DOMAIN disk /\ disk'[p] = disk[p]
    OBVIOUS
  <2>1. p # path
    <3> SUFFICES ASSUME p = path PROVE FALSE OBVIOUS
    <3>1. time = writes + 1 BY <1>3
    <3> QED BY <1>2, <3>1
  <2> QED BY <1>3, <2>1
<1>6. Cache'
  <2> SUFFICES ASSUME NEW p \in DOMAIN cache
               PROVE  /\ cache[p].signature.time \in Nat /\ cache[p].signature.time <= writes'
                      /\ p \in DOMAIN disk' /\ disk'[p].time = cache[p].signature.time =>
                           cache[p].version = Hash(disk'[p].content)
    BY <1>2 DEF Cache
  <2>1. cache[p].signature.time \in Nat /\ cache[p].signature.time <= writes BY <1>1 DEF Cache
  <2> QED BY <1>1, <1>2, <1>5, <2>1 DEF Cache
<1>7. ReaderShape' BY <1>1, <1>9 DEF ReaderShape, ReaderFields
<1>8. ASSUME NEW r \in Readers PROVE ReaderInv(r)'
  <2>1. ReaderInv(r) BY <1>1
  <2>2. /\ \A f \in ReaderFields \ {"late", "raced"} : reader'[r][f] = reader[r][f]
        /\ reader'[r].late <=> (reader[r].late \/ reader[r].at # "idle")
        /\ reader'[r].raced <=> (reader[r].raced \/ reader[r].at \in {"hash", "compare"})
    BY <1>1, <1>9 DEF ReaderShape, ReaderFields
  <2>3. /\ reader'[r].at = reader[r].at /\ reader'[r].name = reader[r].name /\ reader'[r].stripped = reader[r].stripped
        /\ reader'[r].base = reader[r].base /\ reader'[r].requested = reader[r].requested
        /\ reader'[r].signature = reader[r].signature /\ reader'[r].handle = reader[r].handle
        /\ reader'[r].status = reader[r].status /\ reader'[r].got = reader[r].got /\ reader'[r].wanted = reader[r].wanted
    BY <2>2 DEF ReaderFields
  <2>4. ASSUME reader[r].at \in Places PROVE \E p \in Files : Follows(r, p)'
    <3>1. PICK p \in Files : Follows(r, p) BY <2>1, <2>4 DEF ReaderInv
    <3>2. reader'[r].late BY <2>2, <2>4 DEF Places
    <3> QED BY <1>2, <2>3, <3>1, <3>2 DEF Follows, Under, Versioned
  <2>5. Hashing(r)'
    <3> SUFFICES ASSUME reader[r].at = "hash"
                 PROVE  /\ reader[r].signature.time \in Nat /\ reader[r].signature.time <= writes'
                        /\ reader'[r].raced
                        /\ reader[r].base \in DOMAIN disk' /\ disk'[reader[r].base].time = reader[r].signature.time =>
                             reader[r].handle = disk'[reader[r].base].content
      BY <2>3 DEF Hashing
    <3>1. reader[r].signature.time \in Nat /\ reader[r].signature.time <= writes BY <2>1 DEF ReaderInv, Hashing
    <3>2. reader[r].base \in DOMAIN disk' /\ disk'[reader[r].base].time = reader[r].signature.time =>
            reader[r].base \in DOMAIN disk /\ disk'[reader[r].base] = disk[reader[r].base]
      BY <1>5, <3>1
    <3> QED BY <1>2, <2>1, <2>2, <3>1, <3>2 DEF ReaderInv, Hashing
  <2>6. Comparing(r)' BY <2>2, <2>3 DEF Comparing
  <2>7. reader[r].at = "done" => Arrived(r)' BY <1>2, <2>1, <2>2, <2>3 DEF ReaderInv, Arrived
  <2> QED BY <2>1, <2>3, <2>4, <2>5, <2>6, <2>7 DEF ReaderInv
<1> QED BY <1>4, <1>6, <1>7, <1>8 DEF StaticInv

\* A step of one reader leaves the files alone.
LEMMA Others ==
  ASSUME StaticInv, NEW r \in Readers, disk' = disk, served' = served, writes' = writes,
         ReaderShape', \A o \in Readers \ {r} : reader'[o] = reader[o], Cache', ReaderInv(r)'
  PROVE  StaticInv'
<1>1. Disk /\ \A o \in Readers : ReaderInv(o) BY DEF StaticInv
<1>2. Disk' BY <1>1 DEF Disk
<1>3. ASSUME NEW o \in Readers PROVE ReaderInv(o)'
  <2>1. CASE o = r BY <2>1
  <2>2. CASE o # r
    <3>1. reader'[o] = reader[o] /\ ReaderInv(o) BY <1>1, <2>2
    <3> QED BY <3>1 DEF ReaderInv, Follows, Under, Versioned, Hashing, Comparing, Arrived
  <2> QED BY <2>1, <2>2
<1> QED BY <1>2, <1>3 DEF StaticInv

\* Without its fixed version, a link is what it was before.
LEMMA Stripped ==
  ASSUME Disk, NEW path \in Files, NEW content \in Contents, served.fixed # Empty
  PROVE  /\ stripVersion(FixedVersionPath(served.fixed, Versioned(path, content))) = Versioned(path, content)
         /\ Versioned(path, content) # <<>>
<1>1. CASE served.content BY <1>1, Links DEF Versioned
<1>2. CASE ~served.content BY <1>2, Links DEF Versioned
<1> QED BY <1>1, <1>2

\* A name that could not be opened.  That of the file itself, with its
\* version, is not there only when files have changed.
LEMMA Failed ==
  ASSUME StaticInv, NEW r \in Readers, NEW path \in Files, reader[r].at \in Places, Follows(r, path),
         reader[r].stripped \/ served.fixed = Empty => reader[r].late,
         disk' = disk, served' = served, writes' = writes, cache' = cache, Fails(r)
  PROVE  StaticInv'
<1>1. Disk /\ Cache /\ ReaderShape BY DEF StaticInv
<1> DEFINE rest == stripVersion(reader[r].name)
<1>2. reader' = [reader EXCEPT ![r] =
        IF reader[r].stripped \/ rest = <<>> THEN [@ EXCEPT !.at = "done", !.status = 404]
        ELSE [@ EXCEPT !.at = "exact", !.name = rest, !.stripped = TRUE]]
  BY DEF Fails
<1> HIDE DEF rest
<1>3. ReaderShape' /\ \A o \in Readers \ {r} : reader'[o] = reader[o] BY <1>1, <1>2 DEF ReaderShape, ReaderFields
<1>4. Cache' BY <1>1 DEF Cache
<1>5. /\ reader[r].name = Under(r, Versioned(path, reader[r].wanted)) /\ reader[r].wanted \in Contents
  BY DEF Follows
<1>8. /\ served.fixed = Empty => rest = <<>>
      /\ ~reader[r].stripped /\ served.fixed # Empty =>
           rest = Versioned(path, reader[r].wanted) /\ rest # <<>>
  <2> DEFINE content == reader[r].wanted
             name == reader[r].name
  <2>1. name = Under(r, Versioned(path, content)) /\ content \in Contents BY <1>5
  <2> HIDE DEF content
  <2>2. /\ served.fixed = Empty => stripVersion(name) = <<>>
        /\ ~reader[r].stripped /\ served.fixed # Empty =>
             stripVersion(name) = Versioned(path, content) /\ Versioned(path, content) # <<>>
    <3>1. CASE served.fixed = Empty BY <3>1 DEF stripVersion
    <3>2. CASE served.fixed # Empty
      <4>1. ~reader[r].stripped => name = FixedVersionPath(served.fixed, Versioned(path, content))
        BY <2>1, <3>2 DEF Under
      <4>2. /\ stripVersion(FixedVersionPath(served.fixed, Versioned(path, content))) = Versioned(path, content)
            /\ Versioned(path, content) # <<>>
        BY ONLY <1>1, <2>1, <3>2, Stripped
      <4> HIDE DEF name
      <4> QED BY ONLY <3>2, <4>1, <4>2
    <3> QED BY <3>1, <3>2
  <2> QED BY <2>2 DEF content, rest
<1>6. CASE reader[r].stripped \/ served.fixed = Empty
  <2>1. /\ reader'[r].at = "done" /\ reader'[r].status = 404 /\ reader'[r].late = reader[r].late
    BY <1>1, <1>2, <1>8, <1>6 DEF ReaderShape, ReaderFields
  <2>2. ReaderInv(r)'
    BY <1>6, <2>1 DEF ReaderInv, Places, Hashing, Comparing, Arrived, isStaticCacheStatus
  <2> QED BY <1>3, <1>4, <2>2, Others
<1>7. CASE ~reader[r].stripped /\ served.fixed # Empty
  <2>1. /\ reader'[r].at = "exact" /\ reader'[r].name = Versioned(path, reader[r].wanted) /\ reader'[r].stripped
        /\ reader'[r].wanted = reader[r].wanted /\ reader'[r].late = reader[r].late /\ reader'[r].raced = reader[r].raced
    BY <1>1, <1>2, <1>8, <1>7 DEF ReaderShape, ReaderFields
  <2>2. Follows(r, path)' BY <2>1 DEF Follows, Under, Versioned
  <2>3. ReaderInv(r)' BY <2>1, <2>2 DEF ReaderInv, Places, Hashing, Comparing
  <2> QED BY <1>3, <1>4, <2>3, Others
<1> QED BY <1>6, <1>7

\* A page renders a link.
LEMMA LinkFollows ==
  ASSUME StaticInv, NEW r \in Readers, NEW path \in Files, Link(r, path)
  PROVE  StaticInv'
<1>1. Disk /\ Cache /\ ReaderShape BY DEF StaticInv
<1>2. /\ path \in DOMAIN disk /\ disk' = disk /\ cache' = cache /\ served' = served /\ writes' = writes
      /\ reader' = [reader EXCEPT ![r] = [NoReader EXCEPT !.at = "exact", !.name = URL(path),
                                                          !.wanted = disk[path].content]]
  BY DEF Link
<1>3. ReaderShape' /\ \A o \in Readers \ {r} : reader'[o] = reader[o]
  BY <1>1, <1>2 DEF ReaderShape, ReaderFields, NoReader
<1>4. /\ reader'[r].at = "exact" /\ reader'[r].name = URL(path) /\ reader'[r].wanted = disk[path].content
      /\ ~reader'[r].stripped /\ ~reader'[r].late /\ ~reader'[r].raced
  BY <1>1, <1>2 DEF ReaderShape, NoReader
<1>5. Follows(r, path)'
  <2>1. disk[path].content \in Contents BY <1>1, <1>2 DEF Disk
  <2>2. URL(path) = Under(r, Versioned(path, disk[path].content))'
    BY <1>2, <1>4 DEF URL, ContentVersionPath, Under, Versioned
  <2>3. Under(r, Versioned(path, disk[path].content))' = Under(r, Versioned(path, reader[r].wanted))'
    BY <1>2, <1>4
  <2> QED BY <1>2, <1>4, <2>1, <2>2, <2>3 DEF Follows
<1>6. ReaderInv(r)' BY <1>4, <1>5 DEF ReaderInv, Places, Hashing, Comparing
<1>7. Cache' BY <1>1, <1>2 DEF Cache
<1> QED BY <1>2, <1>3, <1>6, <1>7, Others

\* The name as it is, or else the file without the version.
LEMMA ExactFollows ==
  ASSUME StaticInv, NEW r \in Readers, OpenExact(r)
  PROVE  StaticInv'
<1>1. Disk /\ Cache /\ ReaderShape /\ ReaderInv(r) BY DEF StaticInv
<1>2. /\ disk' = disk /\ cache' = cache /\ served' = served /\ writes' = writes /\ reader[r].at = "exact"
  BY DEF OpenExact
<1>3. PICK path \in Files : Follows(r, path) BY <1>1, <1>2 DEF ReaderInv, Places
<1> DEFINE name == reader[r].name
           content == reader[r].wanted
           clean == cleanVersionPath(name)
           base == splitContentVersion(clean).base
           requested == splitContentVersion(clean).requested
<1>4. /\ IF name \in DOMAIN disk
         THEN reader' = [reader EXCEPT ![r].at = "done", ![r].status = 200, ![r].got = disk[name].content]
         ELSE IF served.content /\ CanSplit(clean)
         THEN reader' = [reader EXCEPT ![r].at = "stat", ![r].base = base, ![r].requested = requested]
         ELSE Fails(r)
  BY DEF OpenExact
<1>5. /\ name = Under(r, Versioned(path, content)) /\ content \in Contents
      /\ ~reader[r].late => ~reader[r].raced /\ path \in DOMAIN disk /\ disk[path].content = content
  BY <1>3 DEF Follows
<1> HIDE DEF content
<1>6. /\ Under(r, path) \in Files => Under(r, path) = path
      /\ served.content => /\ name \notin Files /\ CanSplit(clean)
                           /\ base = Under(r, path) /\ requested = Hash(content)
      /\ ~served.content => name = Under(r, path)
      /\ reader[r].stripped \/ served.fixed = Empty => Under(r, path) = path
  BY <1>1, <1>5, Tried
<1> HIDE DEF name, clean, base, requested
<1>7. Cache' BY <1>1, <1>2 DEF Cache
<1>8. CASE name \in DOMAIN disk
  <2>1. reader' = [reader EXCEPT ![r].at = "done", ![r].status = 200, ![r].got = disk[name].content]
    BY <1>4, <1>8
  <2>2. /\ ReaderShape' /\ \A o \in Readers \ {r} : reader'[o] = reader[o]
        /\ reader'[r].at = "done" /\ reader'[r].got = disk[name].content
        /\ reader'[r].late = reader[r].late /\ reader'[r].wanted = content
    BY <1>1, <2>1 DEF ReaderShape, ReaderFields, content
  <2>3. ~served.content /\ name = path BY <1>1, <1>6, <1>8 DEF Disk
  <2>4. Arrived(r)' BY <1>2, <1>5, <2>2, <2>3 DEF Arrived
  <2>5. ReaderInv(r)' BY <2>2, <2>4 DEF ReaderInv, Places, Hashing, Comparing
  <2> QED BY <1>2, <1>7, <2>2, <2>5, Others
<1>9. CASE name \notin DOMAIN disk /\ served.content
  <2>1. reader' = [reader EXCEPT ![r].at = "stat", ![r].base = base, ![r].requested = requested]
    BY <1>4, <1>6, <1>9
  <2>2. /\ ReaderShape' /\ \A o \in Readers \ {r} : reader'[o] = reader[o]
        /\ reader'[r].at = "stat" /\ reader'[r].base = base /\ reader'[r].requested = requested
        /\ reader'[r].name = name /\ reader'[r].stripped = reader[r].stripped
        /\ reader'[r].late = reader[r].late /\ reader'[r].raced = reader[r].raced /\ reader'[r].wanted = content
    BY <1>1, <2>1 DEF ReaderShape, ReaderFields, content, name
  <2>3. Follows(r, path)'
    <3>1. Under(r, Versioned(path, reader[r].wanted))' = name /\ Under(r, path)' = Under(r, path)
      BY <1>2, <1>5, <2>2 DEF Under, Versioned, content
    <3> QED BY <1>2, <1>5, <1>6, <1>9, <2>2, <3>1 DEF Follows
  <2>4. ReaderInv(r)' BY <2>2, <2>3 DEF ReaderInv, Places, Hashing, Comparing
  <2> QED BY <1>2, <1>7, <2>2, <2>4, Others
<1>10. CASE name \notin DOMAIN disk /\ ~served.content
  <2>1. Fails(r) BY <1>4, <1>10
  <2>2. reader[r].stripped \/ served.fixed = Empty => reader[r].late BY <1>5, <1>6, <1>10
  <2> QED BY <1>2, <1>3, <2>1, <2>2, Failed DEF Places
<1> QED BY <1>8, <1>9, <1>10

\* What the file is, asked of the cache.
LEMMA StatFollows ==
  ASSUME StaticInv, NEW r \in Readers, StatBase(r)
  PROVE  StaticInv'
<1>1. Disk /\ Cache /\ ReaderShape /\ ReaderInv(r) BY DEF StaticInv
<1>2. /\ disk' = disk /\ cache' = cache /\ served' = served /\ writes' = writes /\ reader[r].at = "stat"
  BY DEF StatBase
<1>3. PICK path \in Files : Follows(r, path) BY <1>1, <1>2 DEF ReaderInv, Places
<1> DEFINE base == reader[r].base
<1>4. IF base \notin DOMAIN disk THEN Fails(r)
      ELSE reader' = [reader EXCEPT ![r] =
             IF Cached(base) THEN [@ EXCEPT !.at = "compare", !.version = cache[base].version]
             ELSE [@ EXCEPT !.at = "hash", !.signature = signature(base), !.handle = disk[base].content]]
  BY DEF StatBase
<1>5. /\ base = Under(r, path) /\ reader[r].wanted \in Contents
      /\ ~reader[r].late => path \in DOMAIN disk
  BY <1>2, <1>3 DEF Follows
<1>6. /\ base \in Files => base = path
      /\ reader[r].stripped \/ served.fixed = Empty => base = path
  BY <1>1, <1>5, Tried
<1>7. Cache' BY <1>1, <1>2 DEF Cache
<1> HIDE DEF base
<1>8. CASE base \notin DOMAIN disk
  <2>1. reader[r].stripped \/ served.fixed = Empty => reader[r].late BY <1>5, <1>6, <1>8
  <2> QED BY <1>2, <1>3, <1>4, <1>8, <2>1, Failed DEF Places
<1>9. CASE base \in DOMAIN disk
  <2>1. base = path /\ disk[base].time \in Nat /\ disk[base].time <= writes BY <1>1, <1>6, <1>9 DEF Disk
  <2>2. ASSUME reader'[r].at \in {"hash", "compare"}, reader'[r].name = reader[r].name,
               reader'[r].stripped = reader[r].stripped, reader'[r].base = base,
               reader'[r].requested = reader[r].requested, reader'[r].wanted = reader[r].wanted,
               reader'[r].late = reader[r].late, reader'[r].raced = reader[r].raced
        PROVE  Follows(r, path)'
    BY <1>2, <1>3, <2>1, <2>2 DEF Follows, Under, Versioned, base
  <2>3. CASE Cached(base)
    <3>1. reader' = [reader EXCEPT ![r].at = "compare", ![r].version = cache[base].version]
      BY <1>1, <1>4, <1>9, <2>3 DEF ReaderShape
    <3>2. /\ ReaderShape' /\ \A o \in Readers \ {r} : reader'[o] = reader[o]
          /\ reader'[r].at = "compare" /\ reader'[r].version = cache[base].version
          /\ reader'[r].name = reader[r].name /\ reader'[r].stripped = reader[r].stripped /\ reader'[r].base = base
          /\ reader'[r].requested = reader[r].requested /\ reader'[r].wanted = reader[r].wanted
          /\ reader'[r].late = reader[r].late /\ reader'[r].raced = reader[r].raced
      BY <1>1, <3>1 DEF ReaderShape, ReaderFields, base
    <3>3. cache[base].version = Hash(disk[base].content)
      <4>1. base \in DOMAIN cache /\ cache[base].signature = signature(base) BY <2>3 DEF Cached
      <4>2. cache[base].signature.time = disk[base].time BY <4>1 DEF signature
      <4> QED BY <1>1, <1>9, <4>1, <4>2 DEF Cache
    <3>4. Comparing(r)' /\ Hashing(r)' BY <1>2, <1>9, <3>2, <3>3 DEF Comparing, Hashing
    <3>5. ReaderInv(r)' BY <2>2, <3>2, <3>4 DEF ReaderInv, Places
    <3> QED BY <1>2, <1>7, <3>2, <3>5, Others
  <2>4. CASE ~Cached(base)
    <3>1. reader' = [reader EXCEPT ![r].at = "hash", ![r].signature = signature(base), ![r].handle = disk[base].content]
      BY <1>1, <1>4, <1>9, <2>4 DEF ReaderShape
    <3>2. /\ ReaderShape' /\ \A o \in Readers \ {r} : reader'[o] = reader[o]
          /\ reader'[r].at = "hash" /\ reader'[r].signature = signature(base) /\ reader'[r].handle = disk[base].content
          /\ reader'[r].name = reader[r].name /\ reader'[r].stripped = reader[r].stripped /\ reader'[r].base = base
          /\ reader'[r].requested = reader[r].requested /\ reader'[r].wanted = reader[r].wanted
          /\ reader'[r].late = reader[r].late /\ reader'[r].raced = reader[r].raced
      BY <1>1, <3>1 DEF ReaderShape, ReaderFields, base
    <3>3. signature(base).time = disk[base].time BY DEF signature
    <3>4. Comparing(r)' /\ Hashing(r)' BY <1>2, <1>9, <2>1, <3>2, <3>3 DEF Comparing, Hashing
    <3>5. ReaderInv(r)' BY <2>2, <3>2, <3>4 DEF ReaderInv, Places
    <3> QED BY <1>2, <1>7, <3>2, <3>5, Others
  <2> QED BY <2>3, <2>4
<1> QED BY <1>8, <1>9

\* The file is hashed, perhaps after it was rewritten under the reader.
LEMMA HashFollows ==
  ASSUME StaticInv, NEW r \in Readers, HashBase(r)
  PROVE  StaticInv'
<1>1. Disk /\ Cache /\ ReaderShape /\ ReaderInv(r) BY DEF StaticInv
<1>2. disk' = disk /\ served' = served /\ writes' = writes /\ reader[r].at = "hash" BY DEF HashBase
<1>3. PICK path \in Files : Follows(r, path) BY <1>1, <1>2 DEF ReaderInv, Places
<1> DEFINE base == reader[r].base
<1>4. PICK content \in {reader[r].handle} \cup {disk[p].content : p \in DOMAIN disk \cap {base}} :
        /\ reader' = [reader EXCEPT ![r].at = "compare", ![r].version = Hash(content)]
        /\ cache' = [p \in DOMAIN cache \cup {base} |->
                       IF p = base THEN [signature |-> reader[r].signature, version |-> Hash(content)]
                       ELSE cache[p]]
  BY DEF HashBase
<1>5. /\ reader[r].signature.time \in Nat /\ reader[r].signature.time <= writes
      /\ ~reader[r].raced => base \in DOMAIN disk /\ disk[base].time = reader[r].signature.time
      /\ base \in DOMAIN disk /\ disk[base].time = reader[r].signature.time => content = disk[base].content
  BY <1>1, <1>2, <1>4 DEF ReaderInv, Hashing
<1>6. /\ ReaderShape' /\ \A o \in Readers \ {r} : reader'[o] = reader[o]
      /\ reader'[r].at = "compare" /\ reader'[r].version = Hash(content)
      /\ reader'[r].name = reader[r].name /\ reader'[r].stripped = reader[r].stripped /\ reader'[r].base = base
      /\ reader'[r].requested = reader[r].requested /\ reader'[r].wanted = reader[r].wanted
      /\ reader'[r].late = reader[r].late /\ reader'[r].raced = reader[r].raced
  BY <1>1, <1>4 DEF ReaderShape, ReaderFields
<1>7. Follows(r, path)' BY <1>2, <1>3, <1>6 DEF Follows, Under, Versioned
<1> HIDE DEF base
<1>8. Cache'
  <2>1. ASSUME NEW p \in DOMAIN cache'
        PROVE  /\ cache'[p].signature.time \in Nat /\ cache'[p].signature.time <= writes
               /\ p \in DOMAIN disk /\ disk[p].time = cache'[p].signature.time =>
                    cache'[p].version = Hash(disk[p].content)
    <3>1. CASE p = base
      <4>1. cache'[p].signature = reader[r].signature /\ cache'[p].version = Hash(content) BY <1>4, <3>1
      <4> QED BY <1>5, <3>1, <4>1
    <3>2. CASE p # base
      <4>1. p \in DOMAIN cache /\ cache'[p] = cache[p] BY <1>4, <2>1, <3>2
      <4> QED BY <1>1, <4>1 DEF Cache
    <3> QED BY <3>1, <3>2
  <2> QED BY <1>2, <2>1 DEF Cache
<1>9. Comparing(r)' /\ Hashing(r)' BY <1>2, <1>5, <1>6 DEF Comparing, Hashing
<1>10. ReaderInv(r)' BY <1>6, <1>7, <1>9 DEF ReaderInv, Places
<1> QED BY <1>2, <1>6, <1>8, <1>10, Others

\* The file is opened when its version is the one asked for.
LEMMA OpenFollows ==
  ASSUME StaticInv, NEW r \in Readers, OpenBase(r)
  PROVE  StaticInv'
<1>1. Disk /\ Cache /\ ReaderShape /\ ReaderInv(r) BY DEF StaticInv
<1>2. /\ disk' = disk /\ cache' = cache /\ served' = served /\ writes' = writes /\ reader[r].at = "compare"
  BY DEF OpenBase
<1>3. PICK path \in Files : Follows(r, path) BY <1>1, <1>2 DEF ReaderInv, Places
<1> DEFINE base == reader[r].base
           content == reader[r].wanted
           same == contentVersionMatches(reader[r].requested, reader[r].version)
<1>4. IF same /\ base \in DOMAIN disk
      THEN reader' = [reader EXCEPT ![r].at = "done", ![r].status = 200, ![r].got = disk[base].content]
      ELSE Fails(r)
  BY DEF OpenBase
<1>5. /\ base = path /\ reader[r].requested = Hash(content)
      /\ ~reader[r].late => ~reader[r].raced /\ path \in DOMAIN disk /\ disk[path].content = content
      /\ ~reader[r].raced => base \in DOMAIN disk /\ reader[r].version = Hash(disk[base].content)
  BY <1>1, <1>2, <1>3 DEF Follows, ReaderInv, Comparing
<1>6. Cache' BY <1>1, <1>2 DEF Cache
<1>7. ASSUME NEW one, NEW other
      PROVE  contentVersionMatches(Hash(one), Hash(other)) <=> one = other
  <2>1. HashLength \in minContentVersionLength .. HashLength BY DEF minContentVersionLength, HashLength
  <2>2. Hash(one).of = one /\ Hash(other).of = other /\ Hash(one).digits = HashLength /\ Hash(other).digits = HashLength
    BY DEF Hash
  <2> QED BY <2>1, <2>2 DEF contentVersionMatches
<1>8. CASE same /\ base \in DOMAIN disk
  <2>1. reader' = [reader EXCEPT ![r].at = "done", ![r].status = 200, ![r].got = disk[base].content]
    BY <1>4, <1>8
  <2>2. /\ ReaderShape' /\ \A o \in Readers \ {r} : reader'[o] = reader[o]
        /\ reader'[r].at = "done" /\ reader'[r].got = disk[base].content
        /\ reader'[r].late = reader[r].late /\ reader'[r].raced = reader[r].raced /\ reader'[r].wanted = content
    BY <1>1, <2>1 DEF ReaderShape, ReaderFields
  <2>3. ~reader[r].raced => disk[base].content = content BY <1>5, <1>7, <1>8
  <2>4. Arrived(r)' BY <1>5, <2>2, <2>3 DEF Arrived
  <2>5. ReaderInv(r)' BY <2>2, <2>4 DEF ReaderInv, Places, Hashing, Comparing
  <2> QED BY <1>2, <1>6, <2>2, <2>5, Others
<1>9. CASE ~(same /\ base \in DOMAIN disk)
  <2>1. reader[r].late BY <1>5, <1>7, <1>9
  <2>2. Fails(r) BY <1>4, <1>9
  <2> QED BY <1>2, <1>3, <2>1, <2>2, Failed DEF Places
<1> QED BY <1>8, <1>9

\* Every step keeps the invariant.
LEMMA StepFollow == StaticInv /\ [NextStatic]_svvars => StaticInv'
<1> SUFFICES ASSUME StaticInv, [NextStatic]_svvars PROVE StaticInv' OBVIOUS
<1>1. CASE NextStatic
  <2>1. CASE \E path \in Files : Delete(path) \/ \E content \in Contents : Deploy(path, content)
    BY <2>1, Rewritten
  <2>2. CASE \E r \in Readers : \E path \in Files : Link(r, path) BY <2>2, LinkFollows
  <2>3. CASE \E r \in Readers : OpenExact(r) BY <2>3, ExactFollows
  <2>4. CASE \E r \in Readers : StatBase(r) BY <2>4, StatFollows
  <2>5. CASE \E r \in Readers : HashBase(r) BY <2>5, HashFollows
  <2>6. CASE \E r \in Readers : OpenBase(r) BY <2>6, OpenFollows
  <2> QED BY <1>1, <2>1, <2>2, <2>3, <2>4, <2>5, <2>6 DEF NextStatic
<1>2. CASE UNCHANGED svvars
  BY <1>2 DEF svvars, StaticInv, Disk, Cache, ReaderShape, ReaderInv, Follows, Under, Versioned, Hashing,
              Comparing, Arrived
<1> QED BY <1>1, <1>2

\* A link leads to the file it was rendered for while no file changes; and
\* what is answered as found under a content version has the content whose
\* hash is in the name, unless the file changed between the check of its
\* version and its opening (version.go: version, Open).
THEOREM LinksLeadToTheirContent == SpecStatic => []LinksKeepTheirContent
<1>1. StaticInv => LinksKeepTheirContent BY DEF StaticInv, ReaderInv, Arrived, LinksKeepTheirContent
<1> QED BY <1>1, InitFollow, StepFollow, PTL DEF SpecStatic

-----------------------------------------------------------------------------
\* Bodies of a client.  Until it fails, the goroutine has put the parts into the
\* pipe in turn, and what the transport has not read waits there.
UpTo(n) == [i \in 1 .. n |-> i]
Whole == got = UpTo(MB!Trailer) /\ broken = 0
BodyType ==
  /\ parts \in Nat /\ broken \in 0 .. parts /\ next \in 1 .. MB!Trailer
  /\ writer \in {"unstarted", "writing", "trailer", "finishing", "done"}
  /\ err \in {"none", "file", "closed pipe"}
  /\ transport \in {"reading", "closing", "waiting", "closed"}
Sent ==
  /\ writer \in {"unstarted", "writing"} =>
       /\ err = "none" /\ broken \notin 1 .. next - 1
       /\ \/ offered = 0 /\ got = UpTo(next - 1)
          \/ next > 1 /\ offered = next - 1 /\ got = UpTo(next - 2)
  /\ writer = "unstarted" => next = 1
  /\ writer = "trailer" => offered = 0 /\ (err = "none" => broken = 0 /\ got = UpTo(parts))
  /\ writer = "finishing" =>
       /\ offered \in {0, MB!Trailer}
       /\ err = "none" => broken = 0 /\ got = UpTo(IF offered = 0 THEN MB!Trailer ELSE parts)
  /\ writer = "done" => offered = 0 /\ (err = "none" => Whole)
\* Only a reader that closed its end breaks the pipe; how reading ends and what
\* Close returns is the error of a goroutine that is done.
Ended ==
  /\ err = "closed pipe" => ~MB!Open
  /\ ending \in {"none", "eof", "error"}
  /\ ending # "none" => writer = "done" /\ err = IF ending = "eof" THEN "none" ELSE "file"
  /\ transport = "closed" => writer = "done" /\ result = IF err = "closed pipe" THEN "none" ELSE err
BodyInv == BodyType /\ Sent /\ Ended

\* One more part is the next.
LEMMA OneMorePart ==
  ASSUME NEW n \in Nat
  PROVE  Append(UpTo(n), n + 1) = UpTo(n + 1) /\ UpTo(0) = <<>>
<1> DEFINE s == UpTo(n)
           t == Append(s, n + 1)
<1>1. s \in Seq(Nat) /\ Len(s) = n /\ DOMAIN s = 1 .. n
  <2>1. s \in [1 .. n -> Nat] BY DEF UpTo
  <2> HIDE DEF s
  <2> QED BY <2>1, LenProperties, IsASeq
<1>2. \A i \in 1 .. n : s[i] = i BY DEF UpTo
<1> HIDE DEF s
<1>3. /\ t \in Seq(Nat) /\ Len(t) = n + 1 /\ t[n + 1] = n + 1
      /\ \A i \in 1 .. n : t[i] = s[i]
  BY <1>1, AppendProperties
<1> HIDE DEF t
<1>4. t = [i \in 1 .. n + 1 |-> t[i]] BY <1>3, LenProperties
<1>5. \A i \in 1 .. n + 1 : t[i] = i BY <1>2, <1>3
<1>6. t = UpTo(n + 1) BY <1>4, <1>5 DEF UpTo
<1>7. UpTo(0) = <<>> BY EmptySeq DEF UpTo
<1> QED BY <1>6, <1>7 DEF s, t

\* The invariant of a body holds before its first part,
LEMMA BodyBegins == MB!Init => BodyInv
<1> SUFFICES ASSUME MB!Init PROVE BodyInv OBVIOUS
<1>1. parts \in Nat /\ broken \in 0 .. parts BY DEF MB!Init
<1>2. got = UpTo(0) BY OneMorePart DEF MB!Init
<1>3. BodyType BY <1>1 DEF MB!Init, BodyType, MB!Trailer
<1>4. Sent BY <1>1, <1>2 DEF MB!Init, Sent
<1>5. Ended BY DEF MB!Init, Ended
<1> QED BY <1>3, <1>4, <1>5 DEF BodyInv

\* and after each step of the goroutine or of the transport.
LEMMA BodyMoves == BodyInv /\ [MB!Next]_MB!vars => BodyInv'
<1> SUFFICES ASSUME BodyInv, [MB!Next]_MB!vars PROVE BodyInv' OBVIOUS
<1> USE DEF MB!Trailer
<1>0. parts \in Nat /\ next \in Nat \ {0} /\ next <= parts + 1 /\ broken \in Nat /\ broken <= parts
  <2>1. parts \in Nat /\ broken \in 0 .. parts /\ next \in 1 .. parts + 1 BY DEF BodyInv, BodyType
  <2> QED BY <2>1
<1>1. CASE MB!start
  BY <1>1 DEF BodyInv, BodyType, Sent, Whole, Ended, MB!start, MB!Open
<1>2. CASE MB!WritePart
  <2>1. /\ writer = "writing" /\ offered = 0 /\ UNCHANGED <<parts, broken, transport, got, ending, result>>
        /\ err = "none" /\ broken \notin 1 .. next - 1 /\ got = UpTo(next - 1)
    <3>1. writer = "writing" /\ offered = 0 /\ UNCHANGED <<parts, broken, transport, got, ending, result>>
      BY <1>2 DEF MB!WritePart
    <3>2. next - 1 # 0 \/ ~(next > 1) BY <1>0
    <3> QED BY <3>1, <3>2 DEF BodyInv, Sent
  <2>2. CASE next = parts + 1 /\ writer' = "trailer" /\ UNCHANGED <<next, offered, err>>
    <3>1. broken = 0 /\ got = UpTo(parts) BY <1>0, <2>1, <2>2
    <3> QED BY <2>1, <2>2, <3>1 DEF BodyInv, BodyType, Sent, Ended, MB!Open
  <2>3. CASE writer' = "trailer" /\ err' = (IF MB!Open THEN "file" ELSE "closed pipe") /\ UNCHANGED <<next, offered>>
    BY <2>1, <2>3 DEF BodyInv, BodyType, Sent, Ended, MB!Open
  <2>4. CASE next # parts + 1 /\ next # broken /\ offered' = next /\ next' = next + 1 /\ UNCHANGED <<writer, err>>
    <3>1. next' \in 1 .. parts + 1 /\ next' > 1 /\ offered' = next' - 1 /\ got' = UpTo(next' - 2) /\ broken' \notin 1 .. next' - 1
      BY <1>0, <2>1, <2>4
    <3> QED BY <2>1, <2>4, <3>1 DEF BodyInv, BodyType, Sent, Ended, MB!Open
  <2> QED BY <1>2, <2>2, <2>3, <2>4 DEF MB!WritePart
<1>3. CASE MB!CloseForm
  <2>1. /\ writer = "trailer" /\ offered = 0 /\ writer' = "finishing"
        /\ UNCHANGED <<parts, broken, next, transport, got, ending, result>>
        /\ \/ MB!Open /\ offered' = parts + 1 /\ err' = err
           \/ ~MB!Open /\ err' = (IF err = "none" THEN "closed pipe" ELSE err) /\ offered' = offered
    BY <1>3 DEF MB!CloseForm, BodyInv, Ended
  <2>2. parts + 1 # 0 BY <1>0
  <2>3. BodyType' BY <2>1 DEF BodyInv, BodyType
  <2>4. Sent' BY <2>1, <2>2 DEF BodyInv, BodyType, Sent
  <2>5. Ended' BY <2>1 DEF BodyInv, Ended, MB!Open
  <2> QED BY <2>3, <2>4, <2>5 DEF BodyInv
<1>4. CASE MB!WriteFails
  <2>1. /\ offered # 0 /\ ~MB!Open /\ offered' = 0 /\ err' = (IF err = "none" THEN "closed pipe" ELSE err)
        /\ writer' = (IF writer = "writing" THEN "trailer" ELSE writer)
        /\ UNCHANGED <<parts, broken, next, transport, got, ending, result>>
    BY <1>4 DEF MB!WriteFails
  <2>2. BodyType' BY <2>1 DEF BodyInv, BodyType
  <2>3. writer \in {"unstarted", "writing", "finishing"} BY <2>1 DEF BodyInv, BodyType, Sent
  <2>4. Sent'
    <3>1. err' # "none" BY <2>1
    <3>2. CASE writer = "unstarted"
      <4>1. ~(next > 1) BY <3>2 DEF BodyInv, Sent
      <4> QED BY <2>1, <3>2, <4>1 DEF BodyInv, Sent
    <3>3. CASE writer \in {"writing", "finishing"} BY <2>1, <3>1, <3>3 DEF Sent
    <3> QED BY <2>3, <3>2, <3>3
  <2>5. Ended' BY <2>1, <2>3 DEF BodyInv, Ended, MB!Open
  <2> QED BY <2>2, <2>4, <2>5 DEF BodyInv
<1>5. CASE MB!Finish
  BY <1>5 DEF BodyInv, BodyType, Sent, Whole, Ended, MB!Finish, MB!Open
<1>6. CASE MB!Read
  <2>1. /\ transport = "reading" /\ ending = "none" /\ writer # "unstarted"
        /\ UNCHANGED <<parts, broken, writer, next, err, transport, result>>
    BY <1>6 DEF MB!Read
  <2>2. CASE offered # 0 /\ got' = Append(got, offered) /\ offered' = 0 /\ ending' = ending
    <3>1. CASE writer = "writing"
      <4>1. next > 1 /\ offered = next - 1 /\ got = UpTo(next - 2) BY <2>2, <3>1 DEF BodyInv, Sent
      <4>2. Append(UpTo(next - 2), (next - 2) + 1) = UpTo((next - 2) + 1)
        <5>1. next - 2 \in Nat BY <1>0, <4>1
        <5> QED BY <5>1, OneMorePart
      <4>3. (next - 2) + 1 = next - 1 BY <1>0
      <4>4. got' = UpTo(next - 1) BY <2>2, <4>1, <4>2, <4>3
      <4> QED BY <2>1, <2>2, <3>1, <4>4 DEF BodyInv, BodyType, Sent, Ended, MB!Open
    <3>2. CASE writer = "finishing"
      <4>1. offered = parts + 1 /\ (err = "none" => broken = 0 /\ got = UpTo(parts)) BY <2>2, <3>2 DEF BodyInv, Sent
      <4>2. err = "none" => got' = UpTo(parts + 1) BY <1>0, <2>2, <4>1, OneMorePart
      <4> QED BY <2>1, <2>2, <3>2, <4>1, <4>2 DEF BodyInv, BodyType, Sent, Ended, MB!Open
    <3> QED BY <2>1, <2>2, <3>1, <3>2 DEF BodyInv, BodyType, Sent
  <2>3. CASE offered = 0 /\ writer = "done" /\ ending' = (IF err = "none" THEN "eof" ELSE "error") /\ UNCHANGED <<got, offered>>
    <3>1. err # "closed pipe" BY <2>1 DEF BodyInv, Ended, MB!Open
    <3>2. Ended' BY <2>1, <2>3, <3>1 DEF BodyInv, BodyType, Ended, MB!Open
    <3> QED BY <2>1, <2>3, <3>2 DEF BodyInv, BodyType, Sent, Whole
  <2> QED BY <1>6, <2>2, <2>3 DEF MB!Read
<1>7. CASE MB!Close \/ MB!CloseReader
  BY <1>7 DEF BodyInv, BodyType, Sent, Whole, Ended, MB!Close, MB!CloseReader, MB!Open
<1>8. CASE MB!AwaitWriter
  BY <1>8 DEF BodyInv, BodyType, Sent, Whole, Ended, MB!AwaitWriter, MB!Open
<1>9. CASE UNCHANGED MB!vars
  BY <1>9 DEF BodyInv, BodyType, Sent, Whole, Ended, MB!vars, MB!Open
<1> QED BY <1>1, <1>2, <1>3, <1>4, <1>5, <1>6, <1>7, <1>8, <1>9 DEF MB!Next, MB!Writer, MB!Transport

\* A body that the transport took to its end is the whole form, every file in it
\* read; one whose file failed, or whose writer was stopped, never ends that way,
\* and Close tells of the failure (web/client/multipart.go), for any form.
THEOREM BodiesAreWholeOrFail == MB!Spec => []MB!WholeOrError
<1>1. BodyInv => MB!WholeOrError
  BY DEF BodyInv, Sent, Whole, Ended, MB!WholeOrError, UpTo
<1> QED BY <1>1, BodyBegins, BodyMoves, PTL DEF MB!Spec

-----------------------------------------------------------------------------
\* The candidates of a key are the routes registered for it.
LEMMA CandidatesAreRoutes ==
  ASSUME NEW known, NEW q, NEW S, known.routes \in Seq(S)
  PROVE  RM!Candidates(known, q) \in Seq({r \in S : RM!Key(r) = <<q.pattern, q.method>>})
<1> DEFINE s == known.routes
           Mine == {r \in S : RM!Key(r) = <<q.pattern, q.method>>}
           n == Len(s)
           X == Seq(Mine)
           Turn(x, e) == IF RM!Key(e) = <<q.pattern, q.method>> THEN Append(x, e) ELSE x
           Fits(h) == h = [T \in SUBSET DOMAIN s |->
                             IF T = {} THEN <<>> ELSE Turn(h[T \ {Max(T)}], s[Max(T)])]
           step == [p \in X \X (1 .. n) |-> Turn(p[1], s[p[2]])]
<1>1. n \in Nat /\ DOMAIN s = 1 .. n /\ \A i \in 1 .. n : s[i] \in S OBVIOUS
<1>2. <<>> \in X OBVIOUS
<1>3. ASSUME NEW x \in X, NEW i \in 1 .. n PROVE Turn(x, s[i]) \in X
  <2>1. s[i] \in S BY <1>1
  <2> HIDE DEF s, n
  <2>2. CASE RM!Key(s[i]) = <<q.pattern, q.method>>
    <3>1. s[i] \in Mine BY <2>1, <2>2
    <3> HIDE DEF Mine
    <3> QED BY <2>2, <3>1
  <2>3. CASE RM!Key(s[i]) # <<q.pattern, q.method>> BY <2>3
  <2> QED BY <2>2, <2>3
<1>4. step \in [X \X (1 .. n) -> X]
  <2> HIDE DEF Turn, s, n, X
  <2> QED BY <1>3
<1>5. \E f : Fits(f)
  <2> HIDE DEF X, n, step, Fits
  <2>1. PICK f : /\ f = [T \in SUBSET (1 .. n) |-> f[T]] /\ Solves(f, n, X, <<>>, step)
                 /\ \A T \in SUBSET (1 .. n) : T # {} => f[T \ {Max(T)}] \in X /\ Max(T) \in 1 .. n
    BY <1>1, <1>2, <1>4, FoldSolved
  <2> HIDE DEF Turn, s
  <2>2. \A x \in X, i \in 1 .. n : step[<<x, i>>] = Turn(x, s[i]) BY DEF step
  <2>3. ASSUME NEW T \in SUBSET (1 .. n), T # {} PROVE f[T] = Turn(f[T \ {Max(T)}], s[Max(T)])
    BY <2>1, <2>2, <2>3 DEF Solves
  <2>4. f[{}] = <<>> BY <2>1 DEF Solves
  <2> QED BY <1>1, <2>1, <2>3, <2>4 DEF Fits
<1> DEFINE c == CHOOSE h : Fits(h)
<1>6. Fits(c)
  <2> HIDE DEF Fits
  <2> QED BY <1>5
<1>7. RM!Candidates(known, q) = c[DOMAIN s]
  BY Zenon DEF RM!Candidates, RM!FoldLeft, RM!MapThenFoldSet, RM!Max, Max
<1> HIDE DEF c
<1>8. Solves(c, n, X, <<>>, step)
  <2> HIDE DEF Turn, s, n, X
  <2>1. c[{}] = <<>> BY <1>6
  <2>2. ASSUME NEW T \in SUBSET (1 .. n), T # {}, c[T \ {Max(T)}] \in X
        PROVE  c[T] = step[<<c[T \ {Max(T)}], Max(T)>>]
    <3>1. Max(T) \in 1 .. n BY <1>1, <2>2, Greatest
    <3> QED BY <1>1, <1>6, <2>2, <3>1
  <2> HIDE DEF step
  <2> QED BY <2>1, <2>2 DEF Solves
<1>9. PICK run : Loop(run, n, X, <<>>, step) /\ c[1 .. n] = run[n]
  <2> HIDE DEF X, n, step
  <2>1. n \in Nat BY <1>1
  <2>2. RunsThrough(c, n, X, <<>>, step) BY <1>2, <1>4, <1>8, <2>1, FoldRuns
  <2> QED BY <2>2 DEF RunsThrough
<1>10. run[n] \in X
  <2> HIDE DEF X, n, step
  <2> QED BY <1>1, <1>9 DEF Loop
<1> QED BY <1>1, <1>7, <1>9, <1>10

\* Leaving out what has been met, or what is nothing, leaves a list.
LEMMA DistinctOfList ==
  ASSUME NEW S, NEW s \in Seq(S)
  PROVE  RM!Distinct(s) \in Seq(S)
<1> DEFINE n == Len(s)
           X == Seq(S)
           Turn(x, e) == IF RM!Contains(x, e) THEN x ELSE Append(x, e)
           Fits(h) == h = [T \in SUBSET DOMAIN s |->
                             IF T = {} THEN <<>> ELSE Turn(h[T \ {Max(T)}], s[Max(T)])]
           step == [p \in X \X (1 .. n) |-> Turn(p[1], s[p[2]])]
<1>1. n \in Nat /\ DOMAIN s = 1 .. n /\ \A i \in 1 .. n : s[i] \in S OBVIOUS
<1>2. <<>> \in X OBVIOUS
<1>3. ASSUME NEW x \in X, NEW i \in 1 .. n PROVE Turn(x, s[i]) \in X
  <2>1. s[i] \in S BY <1>1
  <2> HIDE DEF n
  <2> QED BY <2>1
<1>4. step \in [X \X (1 .. n) -> X]
  <2> HIDE DEF Turn, n, X
  <2> QED BY <1>3
<1>5. \E f : Fits(f)
  <2> HIDE DEF X, n, step, Fits
  <2>1. PICK f : /\ f = [T \in SUBSET (1 .. n) |-> f[T]] /\ Solves(f, n, X, <<>>, step)
                 /\ \A T \in SUBSET (1 .. n) : T # {} => f[T \ {Max(T)}] \in X /\ Max(T) \in 1 .. n
    BY <1>1, <1>2, <1>4, FoldSolved
  <2> HIDE DEF Turn
  <2>2. \A x \in X, i \in 1 .. n : step[<<x, i>>] = Turn(x, s[i]) BY DEF step
  <2>3. ASSUME NEW T \in SUBSET (1 .. n), T # {} PROVE f[T] = Turn(f[T \ {Max(T)}], s[Max(T)])
    BY <2>1, <2>2, <2>3 DEF Solves
  <2>4. f[{}] = <<>> BY <2>1 DEF Solves
  <2> QED BY <1>1, <2>1, <2>3, <2>4 DEF Fits
<1> DEFINE c == CHOOSE h : Fits(h)
<1>6. Fits(c)
  <2> HIDE DEF Fits
  <2> QED BY <1>5
<1>7. RM!Distinct(s) = c[DOMAIN s]
  BY Zenon DEF RM!Distinct, RM!FoldLeft, RM!MapThenFoldSet, RM!Max, Max
<1> HIDE DEF c
<1>8. Solves(c, n, X, <<>>, step)
  <2> HIDE DEF Turn, n, X
  <2>1. c[{}] = <<>> BY <1>6
  <2>2. ASSUME NEW T \in SUBSET (1 .. n), T # {}, c[T \ {Max(T)}] \in X
        PROVE  c[T] = step[<<c[T \ {Max(T)}], Max(T)>>]
    <3>1. Max(T) \in 1 .. n BY <1>1, <2>2, Greatest
    <3> QED BY <1>1, <1>6, <2>2, <3>1
  <2> HIDE DEF step
  <2> QED BY <2>1, <2>2 DEF Solves
<1>9. PICK run : Loop(run, n, X, <<>>, step) /\ c[1 .. n] = run[n]
  <2> HIDE DEF X, n, step
  <2>1. n \in Nat BY <1>1
  <2>2. RunsThrough(c, n, X, <<>>, step) BY <1>2, <1>4, <1>8, <2>1, FoldRuns
  <2> QED BY <2>2 DEF RunsThrough
<1>10. run[n] \in X
  <2> HIDE DEF X, n, step
  <2> QED BY <1>1, <1>9 DEF Loop
<1> QED BY <1>1, <1>7, <1>9, <1>10

\* Methods are a list of those that were given.
LEMMA ExplicitMethods ==
  ASSUME NEW S, NEW s \in Seq(S)
  PROVE  RM!normalizeExplicitRequestMethods(s) \in Seq(S)
<1> DEFINE n == Len(s)
           X == Seq(S)
           Turn(x, e) == IF e = "" \/ RM!Contains(x, e) THEN x ELSE Append(x, e)
           Fits(h) == h = [T \in SUBSET DOMAIN s |->
                             IF T = {} THEN <<>> ELSE Turn(h[T \ {Max(T)}], s[Max(T)])]
           step == [p \in X \X (1 .. n) |-> Turn(p[1], s[p[2]])]
<1>1. n \in Nat /\ DOMAIN s = 1 .. n /\ \A i \in 1 .. n : s[i] \in S OBVIOUS
<1>2. <<>> \in X OBVIOUS
<1>3. ASSUME NEW x \in X, NEW i \in 1 .. n PROVE Turn(x, s[i]) \in X
  <2>1. s[i] \in S BY <1>1
  <2>2. Turn(x, s[i]) = x \/ Turn(x, s[i]) = Append(x, s[i]) BY Zenon
  <2> HIDE DEF n, Turn
  <2> QED BY <2>1, <2>2
<1>4. step \in [X \X (1 .. n) -> X]
  <2> HIDE DEF Turn, n, X
  <2> QED BY <1>3
<1>5. \E f : Fits(f)
  <2> HIDE DEF X, n, step, Fits
  <2>1. PICK f : /\ f = [T \in SUBSET (1 .. n) |-> f[T]] /\ Solves(f, n, X, <<>>, step)
                 /\ \A T \in SUBSET (1 .. n) : T # {} => f[T \ {Max(T)}] \in X /\ Max(T) \in 1 .. n
    BY <1>1, <1>2, <1>4, FoldSolved
  <2> HIDE DEF Turn
  <2>2. \A x \in X, i \in 1 .. n : step[<<x, i>>] = Turn(x, s[i]) BY DEF step
  <2>3. ASSUME NEW T \in SUBSET (1 .. n), T # {} PROVE f[T] = Turn(f[T \ {Max(T)}], s[Max(T)])
    BY <2>1, <2>2, <2>3 DEF Solves
  <2>4. f[{}] = <<>> BY <2>1 DEF Solves
  <2> QED BY <1>1, <2>1, <2>3, <2>4 DEF Fits
<1> DEFINE c == CHOOSE h : Fits(h)
<1>6. Fits(c)
  <2> HIDE DEF Fits
  <2> QED BY <1>5
<1>7. RM!normalizeExplicitRequestMethods(s) = c[DOMAIN s]
  BY Zenon DEF RM!normalizeExplicitRequestMethods, RM!FoldLeft, RM!MapThenFoldSet, RM!Max, Max
<1> HIDE DEF c
<1>8. Solves(c, n, X, <<>>, step)
  <2> HIDE DEF Turn, n, X
  <2>1. c[{}] = <<>> BY <1>6
  <2>2. ASSUME NEW T \in SUBSET (1 .. n), T # {}, c[T \ {Max(T)}] \in X
        PROVE  c[T] = step[<<c[T \ {Max(T)}], Max(T)>>]
    <3>1. Max(T) \in 1 .. n BY <1>1, <2>2, Greatest
    <3> QED BY <1>1, <1>6, <2>2, <3>1
  <2> HIDE DEF step
  <2> QED BY <2>1, <2>2 DEF Solves
<1>9. PICK run : Loop(run, n, X, <<>>, step) /\ c[1 .. n] = run[n]
  <2> HIDE DEF X, n, step
  <2>1. n \in Nat BY <1>1
  <2>2. RunsThrough(c, n, X, <<>>, step) BY <1>2, <1>4, <1>8, <2>1, FoldRuns
  <2> QED BY <2>2 DEF RunsThrough
<1>10. run[n] \in X
  <2> HIDE DEF X, n, step
  <2> QED BY <1>1, <1>9 DEF Loop
<1> QED BY <1>1, <1>7, <1>9, <1>10

MappingOf(r) ==
  [[pattern |-> r.pattern, config |-> r.cors, methods |-> RM!crossOriginMethods(r.method)]
     EXCEPT !.config = RM!normalizeCORSConfig(r.cors, RM!crossOriginMethods(r.method))]
\* Every mapping that was registered is for a method.
LEMMA MappingsHaveMethods ==
  ASSUME NEW S, NEW all \in Seq(S)
  PROVE  RM!FoldLeft(RM!registerRouteCORS, <<>>, all) \in Seq({MappingOf(r) : r \in {r \in S : RM!crossOriginMethods(r.method) # {}}})
<1> DEFINE s == all
           M == {MappingOf(r) : r \in {r \in S : RM!crossOriginMethods(r.method) # {}}}
           n == Len(s)
           X == Seq(M)
           Turn(x, e) == RM!registerRouteCORS(x, e)
           Fits(h) == h = [T \in SUBSET DOMAIN s |->
                             IF T = {} THEN <<>> ELSE Turn(h[T \ {Max(T)}], s[Max(T)])]
           step == [p \in X \X (1 .. n) |-> Turn(p[1], s[p[2]])]
<1>1. n \in Nat /\ DOMAIN s = 1 .. n /\ \A i \in 1 .. n : s[i] \in S OBVIOUS
<1>2. <<>> \in X OBVIOUS
<1>3. ASSUME NEW x \in X, NEW i \in 1 .. n PROVE Turn(x, s[i]) \in X
  <2>1. s[i] \in S BY <1>1
  <2>2. CASE RM!registerRouteCORS(x, s[i]) = x BY <2>2
  <2>3. CASE RM!registerRouteCORS(x, s[i]) # x
    <3>1. RM!crossOriginMethods(s[i].method) # {} /\ RM!registerRouteCORS(x, s[i]) = Append(x, MappingOf(s[i]))
      BY <2>3 DEF RM!registerRouteCORS, RM!AddCORSMapping, MappingOf
    <3>2. MappingOf(s[i]) \in M BY <2>1, <3>1
    <3> HIDE DEF M
    <3> QED BY <3>1, <3>2
  <2> QED BY <2>2, <2>3
<1>4. step \in [X \X (1 .. n) -> X]
  <2> HIDE DEF Turn, s, n, X
  <2> QED BY <1>3
<1>5. \E f : Fits(f)
  <2> HIDE DEF X, n, step, Fits
  <2>1. PICK f : /\ f = [T \in SUBSET (1 .. n) |-> f[T]] /\ Solves(f, n, X, <<>>, step)
                 /\ \A T \in SUBSET (1 .. n) : T # {} => f[T \ {Max(T)}] \in X /\ Max(T) \in 1 .. n
    BY <1>1, <1>2, <1>4, FoldSolved
  <2> HIDE DEF Turn, s
  <2>2. \A x \in X, i \in 1 .. n : step[<<x, i>>] = Turn(x, s[i]) BY DEF step
  <2>3. ASSUME NEW T \in SUBSET (1 .. n), T # {} PROVE f[T] = Turn(f[T \ {Max(T)}], s[Max(T)])
    BY <2>1, <2>2, <2>3 DEF Solves
  <2>4. f[{}] = <<>> BY <2>1 DEF Solves
  <2> QED BY <1>1, <2>1, <2>3, <2>4 DEF Fits
<1> DEFINE c == CHOOSE h : Fits(h)
<1>6. Fits(c)
  <2> HIDE DEF Fits
  <2> QED BY <1>5
<1>7. RM!FoldLeft(RM!registerRouteCORS, <<>>, all) = c[DOMAIN s]
  BY Zenon DEF RM!FoldLeft, RM!MapThenFoldSet, RM!Max, Max
<1> HIDE DEF c
<1>8. Solves(c, n, X, <<>>, step)
  <2> HIDE DEF Turn, s, n, X
  <2>1. c[{}] = <<>> BY <1>6
  <2>2. ASSUME NEW T \in SUBSET (1 .. n), T # {}, c[T \ {Max(T)}] \in X
        PROVE  c[T] = step[<<c[T \ {Max(T)}], Max(T)>>]
    <3>1. Max(T) \in 1 .. n BY <1>1, <2>2, Greatest
    <3> QED BY <1>1, <1>6, <2>2, <3>1
  <2> HIDE DEF step
  <2> QED BY <2>1, <2>2 DEF Solves
<1>9. PICK run : Loop(run, n, X, <<>>, step) /\ c[1 .. n] = run[n]
  <2> HIDE DEF X, n, step
  <2>1. n \in Nat BY <1>1
  <2>2. RunsThrough(c, n, X, <<>>, step) BY <1>2, <1>4, <1>8, <2>1, FoldRuns
  <2> QED BY <2>2 DEF RunsThrough
<1>10. run[n] \in X
  <2> HIDE DEF X, n, step
  <2> QED BY <1>1, <1>9 DEF Loop
<1> QED BY <1>1, <1>7, <1>9, <1>10

\* Lists in a row are a list.
LEMMA FlattenedIsList ==
  ASSUME NEW S, NEW ss \in Seq(Seq(S))
  PROVE  RM!FlattenSeq(ss) \in Seq(S)
<1> DEFINE n == Len(ss)
           Row(h, i) == IF i = 1 THEN ss[i] ELSE h[i - 1] \o ss[i]
           Fits(h) == h = [i \in 1 .. n |-> Row(h, i)]
           Upto_(h, m) == h \in [1 .. m -> Seq(S)] /\ \A i \in 1 .. m : h[i] = Row(h, i)
           Reached == {m \in 0 .. n : \E h : Upto_(h, m)}
<1>1. n \in Nat /\ \A i \in 1 .. n : ss[i] \in Seq(S) OBVIOUS
<1>2. CASE n = 0
  <2>1. ss = <<>> BY <1>2
  <2>2. RM!FlattenSeq(ss) = ss BY <1>2 DEF RM!FlattenSeq
  <2>3. ss \in Seq(S)
    <3>1. <<>> \in Seq(S) OBVIOUS
    <3> QED BY <2>1, <3>1, Zenon
  <2> QED BY <2>2, <2>3, Zenon
<1>3. CASE n # 0
  <2>1. 0 \in Reached
    <3>1. Upto_([i \in 1 .. 0 |-> <<>>], 0) OBVIOUS
    <3> HIDE DEF Upto_
    <3> QED BY <1>1, <3>1
  <2>2. ASSUME NEW m \in 1 .. n, m - 1 \in Reached PROVE m \in Reached
    <3>1. PICK h : Upto_(h, m - 1) BY <2>2
    <3> DEFINE g == [i \in 1 .. m |-> IF i = m THEN Row(h, m) ELSE h[i]]
    <3>2. Row(h, m) \in Seq(S)
      <4>1. ss[m] \in Seq(S) BY <1>1
      <4>2. m # 1 => h[m - 1] \in Seq(S)
        <5> SUFFICES ASSUME m # 1 PROVE h[m - 1] \in Seq(S) OBVIOUS
        <5>1. m - 1 \in 1 .. (m - 1) OBVIOUS
        <5> QED BY <3>1, <5>1
      <4> HIDE DEF n, Upto_
      <4> QED BY <4>1, <4>2
    <3>3. g \in [1 .. m -> Seq(S)]
      <4>1. \A i \in 1 .. m : i # m => i \in 1 .. (m - 1) OBVIOUS
      <4> HIDE DEF Row, n
      <4> QED BY <3>1, <3>2, <4>1
    <3>4. ASSUME NEW i \in 1 .. m PROVE g[i] = Row(g, i)
      <4>1. CASE i = m
        <5>1. m # 1 => g[m - 1] = h[m - 1] OBVIOUS
        <5> QED BY <4>1, <5>1
      <4>2. CASE i # m
        <5>0. i \in 1 .. (m - 1) BY <1>1, <4>2
        <5>1. i \in 1 .. (m - 1) /\ g[i] = h[i] /\ h[i] = Row(h, i)
          <6> HIDE DEF Row, n
          <6> QED BY <3>1, <4>2, <5>0
        <5>2. i # 1 => g[i - 1] = h[i - 1] BY <5>1
        <5> HIDE DEF g
        <5> QED BY <5>1, <5>2
      <4> QED BY <4>1, <4>2
    <3>5. Upto_(g, m)
      <4> HIDE DEF g, Row
      <4> QED BY <3>3, <3>4
    <3> HIDE DEF Upto_, g
    <3> QED BY <3>5
  <2>3. n \in Reached
    <3>1. n \in 0 .. n BY <1>1
    <3> HIDE DEF Reached, n
    <3> QED BY <1>1, <2>1, <2>2, <3>1, Turns
  <2>4. PICK f : Upto_(f, n)
    <3> HIDE DEF Upto_
    <3> QED BY <2>3
  <2>5. Fits(f)
    <3> HIDE DEF n, Row
    <3> QED BY <2>4
  <2> DEFINE c == CHOOSE h : Fits(h)
  <2>6. Fits(c)
    <3> HIDE DEF Fits
    <3> QED BY <2>5
  <2>7. RM!FlattenSeq(ss) = c[n] BY <1>3, Zenon DEF RM!FlattenSeq
  <2> HIDE DEF c
  <2> DEFINE Good == {i \in 0 .. n : i = 0 \/ c[i] \in Seq(S)}
  <2>8. 0 \in Good BY <1>1
  <2>9. ASSUME NEW i \in 1 .. n, i - 1 \in Good PROVE i \in Good
    <3>1. c[i] = Row(c, i)
      <4> HIDE DEF Row, n
      <4> QED BY <2>6
    <3>2. ss[i] \in Seq(S) BY <1>1
    <3>3. i # 1 => c[i - 1] \in Seq(S) BY <2>9
    <3>4. c[i] \in Seq(S)
      <4>1. CASE i = 1 BY <3>1, <3>2, <4>1
      <4>2. CASE i # 1
        <5>1. c[i] = c[i - 1] \o ss[i] BY <3>1, <4>2
        <5> QED BY <3>2, <3>3, <4>2, <5>1
      <4> QED BY <4>1, <4>2
    <3> QED BY <1>1, <3>4
  <2>10. \A i \in 0 .. n : i \in Good
    <3> HIDE DEF Good, n
    <3> QED BY <1>1, <2>8, <2>9, Turns
  <2> HIDE DEF n
  <2> QED BY <1>1, <1>3, <2>7, <2>10
<1> QED BY <1>2, <1>3

\* What a list is of is what is in it.
LEMMA OwnList ==
  ASSUME NEW U, NEW s \in Seq(U)
  PROVE  s \in Seq(ToSet(s)) /\ s \in Seq(RM!ToSet(s)) /\ ToSet(s) \subseteq U
<1>1. \A i \in 1 .. Len(s) : s[i] \in ToSet(s) BY DEF ToSet
<1>2. ToSet(s) = RM!ToSet(s) BY DEF ToSet, RM!ToSet
<1> QED BY <1>1, <1>2 DEF ToSet

\* A registration joins a controller with one of its routes.
Registered(c, route, prefix, method) ==
  [method |-> method, pattern |-> RM!joinControllerRoutePattern(prefix, route.pattern),
   handler |-> route.handler, cors |-> RM!crossOriginFor(c, route),
   conditions |-> RM!mergeControllerRouteConditions(c.conditions, route.conditions)]
PrefixesOf(c) == ToSet(RM!registrationPathPrefixes(c))
MethodsOf(c) == UNION {ToSet(RM!routeMethods(c, route)) : route \in ToSet(c.routes)}
RegisteredOf(c) ==
  {Registered(c, x[1], x[2], x[3]) : x \in ToSet(c.routes) \X PrefixesOf(c) \X MethodsOf(c)}
IsController(c) ==
  /\ IsList(c.methods) /\ IsList(c.prefixes) /\ IsList(c.routes) /\ Listed(c.conditions)
  /\ \A route \in ToSet(c.routes) : Listed(route.conditions) /\ route.handler # "none"

\* A controller registers a list of such routes.
LEMMA RegistrationsOfController ==
  ASSUME NEW c, IsController(c)
  PROVE  RM!appendControllerRegistrations(c) \in Seq(RegisteredOf(c))
<1> DEFINE prefixes == RM!registrationPathPrefixes(c)
           Mine(route) == RM!FlattenSeq([p \in DOMAIN prefixes |-> [m \in DOMAIN RM!routeMethods(c, route) |->
                           Registered(c, route, prefixes[p], RM!routeMethods(c, route)[m])]])
           all == [i \in DOMAIN c.routes |->
                     IF RM!skipImplicitRoute(c, i) THEN <<>> ELSE Mine(c.routes[i])]
<1>1. prefixes \in Seq(PrefixesOf(c))
  <2>1. CASE c.prefixes = <<>>
    <3>1. prefixes = << <<>> >> BY <2>1 DEF RM!registrationPathPrefixes
    <3>2. << <<>> >> \in Seq({<<>>}) OBVIOUS
    <3> QED BY <3>1, <3>2, OwnList DEF PrefixesOf
  <2>2. CASE c.prefixes # <<>>
    <3>1. prefixes = RM!Distinct(c.prefixes) BY <2>2 DEF RM!registrationPathPrefixes
    <3>2. RM!Distinct(c.prefixes) \in Seq(ToSet(c.prefixes)) BY DistinctOfList DEF IsController, IsList
    <3> QED BY <3>1, <3>2, OwnList DEF PrefixesOf
  <2> QED BY <2>1, <2>2
<1>2. ASSUME NEW route \in ToSet(c.routes) PROVE RM!routeMethods(c, route) \in Seq(MethodsOf(c))
  <2> DEFINE U == ToSet(c.methods) \cup {route.method}
  <2>1. <<route.method>> \in Seq(U) /\ c.methods \in Seq(U)
    <3>1. route.method \in U OBVIOUS
    <3>2. c.methods \in Seq(ToSet(c.methods)) BY DEF IsController, IsList
    <3> HIDE DEF U
    <3>3. <<route.method>> \in Seq(U) BY <3>1
    <3>4. c.methods \in Seq(U)
      <4>1. ToSet(c.methods) \subseteq U BY DEF U
      <4> QED BY <3>2, <4>1
    <3> QED BY <3>3, <3>4
  <2> HIDE DEF U
  <2>2. <<route.method>> \o c.methods \in Seq(U) BY <2>1
  <2>3. RM!normalizeExplicitRequestMethods(<<route.method>> \o c.methods) \in Seq(U) BY <2>2, ExplicitMethods
  <2>4. RM!routeMethods(c, route) \in Seq(U) BY <2>1, <2>3 DEF RM!routeMethods
  <2>5. RM!routeMethods(c, route) \in Seq(ToSet(RM!routeMethods(c, route))) BY <2>4, OwnList
  <2>6. ToSet(RM!routeMethods(c, route)) \subseteq MethodsOf(c) BY DEF MethodsOf
  <2> QED BY <2>5, <2>6
<1>3. ASSUME NEW route \in ToSet(c.routes) PROVE Mine(route) \in Seq(RegisteredOf(c))
  <2> DEFINE methods == RM!routeMethods(c, route)
             Row(p) == [m \in DOMAIN methods |-> Registered(c, route, prefixes[p], methods[m])]
             rows == [p \in DOMAIN prefixes |-> Row(p)]
  <2>1. methods \in Seq(MethodsOf(c)) BY <1>2
  <2> HIDE DEF methods, prefixes
  <2>2. ASSUME NEW p \in DOMAIN prefixes PROVE Row(p) \in Seq(RegisteredOf(c))
    <3>1. prefixes[p] \in PrefixesOf(c) BY <1>1
    <3>2. ASSUME NEW m \in DOMAIN methods PROVE Row(p)[m] \in RegisteredOf(c)
      <4>1. methods[m] \in MethodsOf(c) BY <2>1
      <4> DEFINE x == <<route, prefixes[p], methods[m]>>
      <4>2. x \in ToSet(c.routes) \X PrefixesOf(c) \X MethodsOf(c) BY <3>1, <4>1
      <4>3. Row(p)[m] = Registered(c, x[1], x[2], x[3]) OBVIOUS
      <4> HIDE DEF x, Row
      <4> QED BY <4>2, <4>3 DEF RegisteredOf
    <3>3. DOMAIN methods = 1 .. Len(methods) /\ Len(methods) \in Nat BY <2>1
    <3>4. DOMAIN Row(p) = 1 .. Len(methods) /\ Row(p) = [m \in 1 .. Len(methods) |-> Row(p)[m]] BY <3>3
    <3> HIDE DEF Row
    <3> QED BY <3>2, <3>3, <3>4
  <2>3. rows \in Seq(Seq(RegisteredOf(c)))
    <3>1. DOMAIN prefixes = 1 .. Len(prefixes) /\ Len(prefixes) \in Nat BY <1>1
    <3> HIDE DEF Row
    <3> QED BY <2>2, <3>1
  <2>4. RM!FlattenSeq(rows) \in Seq(RegisteredOf(c)) BY <2>3, FlattenedIsList
  <2> QED BY <2>4 DEF methods, prefixes
<1>4. all \in Seq(Seq(RegisteredOf(c)))
  <2>1. c.routes \in Seq(ToSet(c.routes)) BY DEF IsController, IsList
  <2>2. DOMAIN c.routes = 1 .. Len(c.routes) /\ Len(c.routes) \in Nat BY <2>1
  <2>3. ASSUME NEW i \in DOMAIN c.routes PROVE all[i] \in Seq(RegisteredOf(c))
    <3>1. c.routes[i] \in ToSet(c.routes) BY DEF ToSet
    <3>2. Mine(c.routes[i]) \in Seq(RegisteredOf(c)) BY <1>3, <3>1
    <3>3. <<>> \in Seq(RegisteredOf(c)) OBVIOUS
    <3> HIDE DEF Mine
    <3> QED BY <3>2, <3>3
  <2>4. all = [i \in 1 .. Len(c.routes) |-> all[i]]
    <3> HIDE DEF Mine
    <3> QED BY <2>2
  <2> HIDE DEF all
  <2> QED BY <2>2, <2>3, <2>4
<1>5. RM!appendControllerRegistrations(c) = RM!FlattenSeq(all)
  BY Zenon DEF RM!appendControllerRegistrations, Registered
<1> QED BY <1>4, <1>5, FlattenedIsList

\* All routes of a question's controllers.
AllRoutes(controllers) == UNION {RegisteredOf(c) : c \in ToSet(controllers)}

\* So do all controllers; each route has a handler, and lists of conditions.
LEMMA RoutesRegistered ==
  ASSUME NEW controllers, IsList(controllers), \A c \in ToSet(controllers) : IsController(c)
  PROVE  /\ RM!registerControllers(controllers).routes \in Seq(AllRoutes(controllers))
         /\ \A r \in AllRoutes(controllers) : r.handler # "none" /\ Listed(r.conditions)
<1> DEFINE all == [i \in DOMAIN controllers |-> RM!appendControllerRegistrations(controllers[i])]
<1>1. all \in Seq(Seq(AllRoutes(controllers)))
  <2>1. DOMAIN controllers = 1 .. Len(controllers) /\ Len(controllers) \in Nat BY DEF IsList
  <2>2. ASSUME NEW i \in DOMAIN controllers PROVE all[i] \in Seq(AllRoutes(controllers))
    <3>1. controllers[i] \in ToSet(controllers) BY DEF ToSet
    <3>2. all[i] \in Seq(RegisteredOf(controllers[i])) BY <3>1, RegistrationsOfController
    <3>3. RegisteredOf(controllers[i]) \subseteq AllRoutes(controllers) BY <3>1 DEF AllRoutes
    <3> QED BY <3>2, <3>3
  <2>3. all = [i \in 1 .. Len(controllers) |-> all[i]] BY <2>1
  <2> HIDE DEF all
  <2> QED BY <2>1, <2>2, <2>3
<1>2. RM!registerControllers(controllers).routes = RM!FlattenSeq(all) BY DEF RM!registerControllers
<1>3. ASSUME NEW r \in AllRoutes(controllers) PROVE r.handler # "none" /\ Listed(r.conditions)
  <2>0. PICK c \in ToSet(controllers) : r \in RegisteredOf(c) BY DEF AllRoutes
  <2>1. PICK x \in ToSet(c.routes) \X PrefixesOf(c) \X MethodsOf(c) : r = Registered(c, x[1], x[2], x[3])
    BY <2>0 DEF RegisteredOf
  <2>2. PICK route \in ToSet(c.routes) : route = x[1] OBVIOUS
  <2>3. r.handler = route.handler /\ r.conditions = RM!mergeControllerRouteConditions(c.conditions, route.conditions)
    BY <2>1, <2>2 DEF Registered
  <2>4. Listed(c.conditions) /\ Listed(route.conditions) /\ route.handler # "none" BY DEF IsController
  <2> DEFINE k == r.conditions
  <2>5. /\ IsList(c.conditions.consumes) /\ IsList(c.conditions.produces)
        /\ IsList(c.conditions.params) /\ IsList(c.conditions.headers)
        /\ IsList(route.conditions.consumes) /\ IsList(route.conditions.produces)
        /\ IsList(route.conditions.params) /\ IsList(route.conditions.headers)
    BY <2>4 DEF Listed
  <2>6. ASSUME NEW s, NEW t, IsList(s), IsList(t) PROVE IsList(s \o t)
    <3>1. s \in Seq(ToSet(s) \cup ToSet(t)) /\ t \in Seq(ToSet(s) \cup ToSet(t)) BY <2>6 DEF IsList
    <3>2. s \o t \in Seq(ToSet(s) \cup ToSet(t)) BY <3>1
    <3> QED BY <3>2, OwnList DEF IsList
  <2>7. IsList(k.consumes) /\ IsList(k.produces) BY <2>3, <2>5 DEF RM!mergeControllerRouteConditions, RM!OrElse
  <2>8. IsList(k.params) /\ IsList(k.headers) BY <2>3, <2>5, <2>6 DEF RM!mergeControllerRouteConditions
  <2> HIDE DEF k
  <2>9. Listed(k) BY <2>7, <2>8 DEF Listed
  <2> QED BY <2>3, <2>4, <2>9 DEF k
<1> HIDE DEF all
<1> QED BY <1>1, <1>2, <1>3, FlattenedIsList

\* What becomes of one route's conditions does not depend on the routes that
\* were tried before it, and neither does the media type, if it names any.
Statuses == {0, 400, 406, 415, 500}
StatusOf(r, q) == RM!match(r.conditions, q, <<>>).status
ChosenOf(r, q) == RM!NegotiateContentType(q.accept, r.conditions.produces)

\* A match is the same whatever was chosen before it, but for that media type.
LEMMA MatchOfRoute ==
  ASSUME NEW r, NEW q, NEW p
  PROVE  LET found == RM!match(r.conditions, q, p)
         IN  /\ found.status = StatusOf(r, q) /\ found.status \in Statuses
             /\ found.produces = p \/ found.produces = ChosenOf(r, q)
             /\ found.status = 0 /\ r.conditions.produces # <<>> => found.produces = ChosenOf(r, q)
<1> DEFINE c == r.conditions
           chosen == ChosenOf(r, q)
           unreadable == q.broken /\ \E i \in DOMAIN c.params : RM!parseConditionExpression(c.params[i]).name # <<>>
           fits == RM!matchExpressions(c.params, q.params) /\ RM!matchExpressions(c.headers, q.values)
           code == CASE unreadable -> 500 [] ~unreadable /\ ~fits -> 400 [] OTHER -> 0
           Outcome(x) == IF ~RM!matchConsumes(q, c.consumes) THEN [status |-> 415, produces |-> x]
                        ELSE IF c.produces # <<>> /\ chosen = <<>> THEN [status |-> 406, produces |-> x]
                        ELSE [status |-> code, produces |-> IF c.produces = <<>> THEN x ELSE chosen]
<1>1. code \in {0, 400, 500}
  <2> HIDE DEF unreadable, fits
  <2> QED OBVIOUS
<1>2. \A x : RM!match(c, q, x) = Outcome(x) BY Zenon DEF RM!match, ChosenOf
<1> HIDE DEF code, c, chosen
<1>3. Outcome(p).status = Outcome(<<>>).status /\ Outcome(p).status \in Statuses BY <1>1 DEF Statuses
<1>4. Outcome(p).produces = p \/ Outcome(p).produces = chosen OBVIOUS
<1>5. Outcome(p).status = 0 /\ c.produces # <<>> => Outcome(p).produces = chosen OBVIOUS
<1> HIDE DEF Outcome
<1> QED BY <1>2, <1>3, <1>4, <1>5 DEF StatusOf, c, chosen

\* One turn of the loop over the candidates, and what is made of its outcome.
TrialState(S, q) ==
  [best : {<<>>} \cup {<<r>> : r \in S}, score : Nat, err : Statuses,
   produces : {<<>>} \cup {ChosenOf(r, q) : r \in S}]
Untried == [best |-> <<>>, score |-> 0, err |-> 0, produces |-> <<>>]
Trial(q, state, r) ==
  LET Keep(score, found) ==
        CASE found.status # 0 -> [state EXCEPT !.err = RM!selectConditionError(@, found.status), !.produces = found.produces]
          [] found.status = 0 /\ score > state.score ->
               [state EXCEPT !.best = <<r>>, !.score = score, !.produces = found.produces]
          [] OTHER -> [state EXCEPT !.produces = found.produces]
  IN  Keep(RM!specificity(r.conditions) + 1, RM!match(r.conditions, q, state.produces))
Settled(q, tried) ==
  IF tried.best = <<>> THEN [RM!Told EXCEPT !.status = tried.err] ELSE RM!wrap(tried.best[1], q, tried.produces)

\* The conditions of a route are counted.
LEMMA SpecificityIsNumber ==
  ASSUME NEW r, Listed(r.conditions)
  PROVE  RM!specificity(r.conditions) \in Nat
<1> DEFINE c == r.conditions
           a == Len(c.params)
           b == Len(c.headers)
           d == Len(c.consumes)
           e == Len(c.produces)
<1>1. a \in Nat /\ b \in Nat /\ d \in Nat /\ e \in Nat
  BY DEF Listed, IsList
<1>2. RM!specificity(r.conditions) = 8 * a + 8 * b + 4 * d + 4 * e BY Zenon DEF RM!specificity
<1> HIDE DEF a, b, d, e
<1> QED BY <1>1, <1>2

\* A turn leads from one state of the loop to another.
LEMMA TrialKeepsType ==
  ASSUME NEW S, NEW q, NEW x \in TrialState(S, q), NEW r \in S, Listed(r.conditions)
  PROVE  Trial(q, x, r) \in TrialState(S, q)
<1> DEFINE found == RM!match(r.conditions, q, x.produces)
           score == RM!specificity(r.conditions) + 1
<1>1. found.status \in Statuses /\ (found.produces = x.produces \/ found.produces = ChosenOf(r, q)) BY MatchOfRoute
<1>2. score \in Nat BY SpecificityIsNumber
<1>3. RM!selectConditionError(x.err, found.status) \in Statuses BY <1>1 DEF RM!selectConditionError, TrialState
<1>4. found.produces \in {<<>>} \cup {ChosenOf(e, q) : e \in S} BY <1>1 DEF TrialState
<1>5. <<r>> \in {<<>>} \cup {<<e>> : e \in S} OBVIOUS
<1>6. Trial(q, x, r) = CASE found.status # 0 -> [x EXCEPT !.err = RM!selectConditionError(@, found.status), !.produces = found.produces]
          [] found.status = 0 /\ score > x.score ->
               [x EXCEPT !.best = <<r>>, !.score = score, !.produces = found.produces]
          [] OTHER -> [x EXCEPT !.produces = found.produces]
  BY DEF Trial
<1> HIDE DEF found, score
<1> QED BY <1>2, <1>3, <1>4, <1>5, <1>6 DEF TrialState
Dispatches(run, S, cs, q) ==
  /\ run \in [0 .. Len(cs) -> TrialState(S, q)] /\ run[0] = Untried
  /\ \A i \in 1 .. Len(cs) : run[i] = Trial(q, run[i - 1], cs[i])
  /\ RM!conditionDispatch(cs, q) = Settled(q, run[Len(cs)])
\* The dispatch is a run of such turns.
LEMMA DispatchRuns ==
  ASSUME NEW q, NEW S, NEW cs \in Seq(S), \A r \in S : Listed(r.conditions)
  PROVE  \E run : Dispatches(run, S, cs, q)
<1> DEFINE s == cs
           n == Len(s)
           X == TrialState(S, q)
           Turn(x, e) == Trial(q, x, e)
           Fits(h) == h = [T \in SUBSET DOMAIN s |->
                             IF T = {} THEN Untried ELSE Turn(h[T \ {Max(T)}], s[Max(T)])]
           step == [p \in X \X (1 .. n) |-> Turn(p[1], s[p[2]])]
<1>1. n \in Nat /\ DOMAIN s = 1 .. n /\ \A i \in 1 .. n : s[i] \in S OBVIOUS
<1>2. Untried \in X BY DEF Untried, TrialState, Statuses
<1>3. ASSUME NEW x \in X, NEW i \in 1 .. n PROVE Turn(x, s[i]) \in X
  <2>1. s[i] \in S BY <1>1
  <2> QED BY <2>1, TrialKeepsType
<1>4. step \in [X \X (1 .. n) -> X]
  <2> HIDE DEF Turn, s, n, X
  <2> QED BY <1>3
<1>5. \E f : Fits(f)
  <2> HIDE DEF X, n, step, Fits
  <2>1. PICK f : /\ f = [T \in SUBSET (1 .. n) |-> f[T]] /\ Solves(f, n, X, Untried, step)
                 /\ \A T \in SUBSET (1 .. n) : T # {} => f[T \ {Max(T)}] \in X /\ Max(T) \in 1 .. n
    BY <1>1, <1>2, <1>4, FoldSolved
  <2> HIDE DEF Turn, s
  <2>2. \A x \in X, i \in 1 .. n : step[<<x, i>>] = Turn(x, s[i]) BY DEF step
  <2>3. ASSUME NEW T \in SUBSET (1 .. n), T # {} PROVE f[T] = Turn(f[T \ {Max(T)}], s[Max(T)])
    BY <2>1, <2>2, <2>3 DEF Solves
  <2>4. f[{}] = Untried BY <2>1 DEF Solves
  <2> QED BY <1>1, <2>1, <2>3, <2>4 DEF Fits
<1> DEFINE c == CHOOSE h : Fits(h)
<1>6. Fits(c)
  <2> HIDE DEF Fits
  <2> QED BY <1>5
<1>7. RM!conditionDispatch(cs, q) = Settled(q, c[DOMAIN s])
  BY Zenon DEF RM!conditionDispatch, RM!FoldLeft, RM!MapThenFoldSet, RM!Max, Max, Settled, Trial, Untried
<1> HIDE DEF c
<1>8. Solves(c, n, X, Untried, step)
  <2> HIDE DEF Turn, s, n, X
  <2>1. c[{}] = Untried BY <1>6
  <2>2. ASSUME NEW T \in SUBSET (1 .. n), T # {}, c[T \ {Max(T)}] \in X
        PROVE  c[T] = step[<<c[T \ {Max(T)}], Max(T)>>]
    <3>1. Max(T) \in 1 .. n BY <1>1, <2>2, Greatest
    <3> QED BY <1>1, <1>6, <2>2, <3>1
  <2> HIDE DEF step
  <2> QED BY <2>1, <2>2 DEF Solves
<1>9. PICK run : Loop(run, n, X, Untried, step) /\ c[1 .. n] = run[n]
  <2> HIDE DEF X, n, step
  <2>1. n \in Nat BY <1>1
  <2>2. RunsThrough(c, n, X, Untried, step) BY <1>2, <1>4, <1>8, <2>1, FoldRuns
  <2> QED BY <2>2 DEF RunsThrough
<1>10. \A i \in 1 .. n : run[i] = Turn(run[i - 1], s[i])
  <2> HIDE DEF X, n, Turn
  <2> SUFFICES ASSUME NEW i \in 1 .. n PROVE run[i] = Turn(run[i - 1], s[i]) OBVIOUS
  <2>1. run[i] = step[<<run[i - 1], i>>] BY <1>9 DEF Loop
  <2>2. run[i - 1] \in X BY <1>1, <1>9 DEF Loop
  <2> QED BY <2>1, <2>2
<1>11. Dispatches(run, S, cs, q) BY <1>1, <1>7, <1>9, <1>10 DEF Loop, Dispatches
<1> QED BY <1>11

\* What i turns have found: the first of the heaviest routes that fit, and the
\* gravest refusal.
Weight(r) == RM!specificity(r.conditions)
Heavier(cs, q, i, k) ==
  \A j \in 1 .. i : StatusOf(cs[j], q) = 0 =>
    Weight(cs[j]) < Weight(cs[k]) \/ (Weight(cs[j]) = Weight(cs[k]) /\ k <= j)
Fits_(cs, q, i, x, k) ==
  x.best = <<cs[k]>> /\ x.score = Weight(cs[k]) + 1 /\ StatusOf(cs[k], q) = 0 /\ Heavier(cs, q, i, k)
BestIn(cs, q, i, x) ==
  IF x.best = <<>> THEN x.score = 0 /\ \A j \in 1 .. i : StatusOf(cs[j], q) # 0
  ELSE \E k \in 1 .. i : Fits_(cs, q, i, x, k)
Rank(r, q) == RM!conditionErrorRank(StatusOf(r, q))
GravestIn(cs, q, i, x) ==
  /\ \A j \in 1 .. i : Rank(cs[j], q) <= RM!conditionErrorRank(x.err)
  /\ x.err = 0 \/ \E j \in 1 .. i : StatusOf(cs[j], q) = x.err

\* What a turn changes depends on whether its route fits, and how heavy it is.
LEMMA TrialByStatus ==
  ASSUME NEW S, NEW q, NEW x \in TrialState(S, q), NEW r
  PROVE  LET y == Trial(q, x, r)
         IN  /\ StatusOf(r, q) # 0 => y.best = x.best /\ y.score = x.score
                                      /\ y.err = RM!selectConditionError(x.err, StatusOf(r, q))
             /\ StatusOf(r, q) = 0 => y.err = x.err
             /\ StatusOf(r, q) = 0 /\ Weight(r) + 1 > x.score => y.best = <<r>> /\ y.score = Weight(r) + 1
             /\ StatusOf(r, q) = 0 /\ ~ (Weight(r) + 1 > x.score) => y.best = x.best /\ y.score = x.score
<1> DEFINE found == RM!match(r.conditions, q, x.produces)
           score == Weight(r) + 1
           code == StatusOf(r, q)
           y == Trial(q, x, r)
<1>1. found.status = code BY MatchOfRoute
<1>2. y = CASE found.status # 0 -> [x EXCEPT !.err = RM!selectConditionError(@, found.status), !.produces = found.produces]
          [] found.status = 0 /\ score > x.score ->
               [x EXCEPT !.best = <<r>>, !.score = score, !.produces = found.produces]
          [] OTHER -> [x EXCEPT !.produces = found.produces]
  BY DEF Trial, Weight
<1> HIDE DEF found, score, code, y
<1>3. code # 0 => y.best = x.best /\ y.score = x.score /\ y.err = RM!selectConditionError(x.err, code)
  BY <1>1, <1>2 DEF TrialState
<1>4. code = 0 => y.err = x.err BY <1>1, <1>2 DEF TrialState
<1>5. code = 0 /\ score > x.score => y.best = <<r>> /\ y.score = score BY <1>1, <1>2 DEF TrialState
<1>6. code = 0 /\ ~ (score > x.score) => y.best = x.best /\ y.score = x.score BY <1>1, <1>2 DEF TrialState
<1> QED BY <1>3, <1>4, <1>5, <1>6 DEF score, code, y

\* The numbers behind the statuses.
LEMMA RankIsNumber ==
  ASSUME NEW a \in Statuses
  PROVE  RM!conditionErrorRank(a) \in 0 .. 4 /\ (RM!conditionErrorRank(a) = 0 <=> a = 0)
BY DEF Statuses, RM!conditionErrorRank

\* The gravity of a refusal for its client is that of its rank.
LEMMA GravityFollowsRank ==
  ASSUME NEW a \in Statuses, NEW b \in Statuses, RM!conditionErrorRank(a) <= RM!conditionErrorRank(b)
  PROVE  Gravity(a) <= Gravity(b)
BY DEF Statuses, RM!conditionErrorRank, Gravity

\* A turn keeps the gravest refusal.
LEMMA GravestKept ==
  ASSUME NEW S, NEW q, NEW cs \in Seq(S), NEW i \in 1 .. Len(cs), NEW x \in TrialState(S, q),
         GravestIn(cs, q, i - 1, x)
  PROVE  GravestIn(cs, q, i, Trial(q, x, cs[i]))
<1> DEFINE r == cs[i]
           code == StatusOf(r, q)
           y == Trial(q, x, r)
           Worst(a) == \A j \in 1 .. i - 1 : Rank(cs[j], q) <= RM!conditionErrorRank(a)
           Met(a) == a = 0 \/ \E j \in 1 .. i - 1 : StatusOf(cs[j], q) = a
<1>1. code \in Statuses BY MatchOfRoute
<1>2. x.err \in Statuses BY DEF TrialState
<1>3. y.err = IF code = 0 THEN x.err ELSE RM!selectConditionError(x.err, code)
  BY TrialByStatus
<1>4. Rank(r, q) = RM!conditionErrorRank(code) BY DEF Rank
<1>5. \A j \in 1 .. i : j = i \/ j \in 1 .. i - 1 OBVIOUS
<1>6. \A j \in 1 .. i - 1 : Rank(cs[j], q) \in Nat
  <2> SUFFICES ASSUME NEW j \in 1 .. i - 1 PROVE Rank(cs[j], q) \in Nat OBVIOUS
  <2>1. StatusOf(cs[j], q) \in Statuses BY MatchOfRoute
  <2> QED BY <2>1, RankIsNumber DEF Rank
<1>7. Worst(x.err) /\ Met(x.err) BY DEF GravestIn
<1>8. SUFFICES Worst(y.err) /\ RM!conditionErrorRank(code) <= RM!conditionErrorRank(y.err)
               /\ (Met(y.err) \/ y.err = code)
  <2> HIDE DEF code, y, r
  <2>1. \A j \in 1 .. i : Rank(cs[j], q) <= RM!conditionErrorRank(y.err) BY <1>4, <1>5, <1>8 DEF r
  <2>2. y.err = 0 \/ \E j \in 1 .. i : StatusOf(cs[j], q) = y.err
    <3>1. i \in 1 .. i /\ 1 .. i - 1 \subseteq 1 .. i OBVIOUS
    <3> QED BY <1>8, <3>1 DEF r, code
  <2> QED BY <2>1, <2>2 DEF GravestIn, r, y
<1> HIDE DEF r, code, y
<1>9. RM!conditionErrorRank(code) \in 0 .. 4 /\ RM!conditionErrorRank(x.err) \in 0 .. 4
      /\ RM!conditionErrorRank(0) = 0
  BY <1>1, <1>2, RankIsNumber DEF Statuses
<1>10. CASE y.err = x.err /\ RM!conditionErrorRank(code) <= RM!conditionErrorRank(x.err)
  BY <1>7, <1>10
<1>11. CASE y.err = code /\ RM!conditionErrorRank(code) > RM!conditionErrorRank(x.err)
  <2>1. RM!conditionErrorRank(code) \in 0 .. 4 /\ RM!conditionErrorRank(x.err) \in 0 .. 4 BY <1>9
  <2>2. \A j \in 1 .. i - 1 : Rank(cs[j], q) <= RM!conditionErrorRank(code) BY <1>6, <1>7, <1>11, <2>1
  <2> QED BY <1>11, <2>1, <2>2
<1>12. \/ y.err = x.err /\ RM!conditionErrorRank(code) <= RM!conditionErrorRank(x.err)
       \/ y.err = code /\ RM!conditionErrorRank(code) > RM!conditionErrorRank(x.err)
  <2>1. CASE code = 0 BY <1>3, <1>9, <2>1
  <2>2. CASE code # 0 BY <1>3, <1>9, <2>2 DEF RM!selectConditionError
  <2> QED BY <2>1, <2>2
<1> QED BY <1>10, <1>11, <1>12

\* A turn keeps the first of the heaviest routes that fit.
LEMMA BestKept ==
  ASSUME NEW S, NEW q, NEW cs \in Seq(S), \A r \in S : Listed(r.conditions),
         NEW i \in 1 .. Len(cs), NEW x \in TrialState(S, q), BestIn(cs, q, i - 1, x)
  PROVE  BestIn(cs, q, i, Trial(q, x, cs[i]))
<1> DEFINE r == cs[i]
           y == Trial(q, x, r)
<1>1. \A j \in 1 .. i : j = i \/ j \in 1 .. i - 1 OBVIOUS
<1>2. i \in Nat /\ i \in 1 .. i /\ 1 .. i - 1 \subseteq 1 .. i OBVIOUS
<1>3. \A j \in 1 .. i : Weight(cs[j]) \in Nat
  <2> SUFFICES ASSUME NEW j \in 1 .. i PROVE Weight(cs[j]) \in Nat OBVIOUS
  <2>1. cs[j] \in S OBVIOUS
  <2> QED BY <2>1, SpecificityIsNumber DEF Weight
<1>4. <<r>> # <<>> OBVIOUS
<1>5. /\ StatusOf(r, q) # 0 => y.best = x.best /\ y.score = x.score
      /\ StatusOf(r, q) = 0 /\ Weight(r) + 1 > x.score => y.best = <<r>> /\ y.score = Weight(r) + 1
      /\ StatusOf(r, q) = 0 /\ ~ (Weight(r) + 1 > x.score) => y.best = x.best /\ y.score = x.score
  BY TrialByStatus
<1> SUFFICES BestIn(cs, q, i, y) OBVIOUS
<1> HIDE DEF y
<1>6. CASE StatusOf(r, q) # 0
  <2>1. CASE x.best = <<>> BY <1>1, <1>5, <1>6, <2>1 DEF BestIn
  <2>2. CASE x.best # <<>>
    <3>1. PICK k \in 1 .. i - 1 : Fits_(cs, q, i - 1, x, k) BY <2>2 DEF BestIn
    <3>2. Heavier(cs, q, i, k) BY <1>1, <1>6, <3>1 DEF Fits_, Heavier
    <3>3. Fits_(cs, q, i, y, k) BY <1>5, <1>6, <3>1, <3>2 DEF Fits_
    <3> QED BY <1>2, <1>5, <1>6, <2>2, <3>3 DEF BestIn
  <2> QED BY <2>1, <2>2
<1>7. CASE StatusOf(r, q) = 0 /\ Weight(r) + 1 > x.score
  <2>1. ASSUME NEW j \in 1 .. i - 1, StatusOf(cs[j], q) = 0 PROVE Weight(cs[j]) < Weight(r)
    <3>1. CASE x.best = <<>> BY <2>1, <3>1 DEF BestIn
    <3>2. CASE x.best # <<>>
      <4>1. PICK k \in 1 .. i - 1 : Fits_(cs, q, i - 1, x, k) BY <3>2 DEF BestIn
      <4>2. Weight(cs[k]) \in Nat /\ Weight(cs[j]) \in Nat /\ Weight(r) \in Nat BY <1>2, <1>3
      <4>3. Weight(r) + 1 > Weight(cs[k]) + 1 BY <1>7, <4>1 DEF Fits_
      <4>4. Weight(cs[j]) <= Weight(cs[k]) BY <2>1, <4>1, <4>2 DEF Fits_, Heavier
      <4> HIDE DEF r
      <4> QED BY <4>2, <4>3, <4>4
    <3> QED BY <3>1, <3>2
  <2>2. Heavier(cs, q, i, i) BY <1>1, <1>2, <2>1 DEF Heavier
  <2>3. Fits_(cs, q, i, y, i) BY <1>5, <1>7, <2>2 DEF Fits_
  <2> QED BY <1>2, <1>4, <1>5, <1>7, <2>3 DEF BestIn
<1>8. CASE StatusOf(r, q) = 0 /\ ~ (Weight(r) + 1 > x.score)
  <2>1. CASE x.best = <<>>
    <3>1. x.score = 0 BY <2>1 DEF BestIn
    <3>2. Weight(r) \in Nat BY <1>2, <1>3
    <3> HIDE DEF r
    <3> QED BY <1>8, <3>1, <3>2
  <2>2. CASE x.best # <<>>
    <3>1. PICK k \in 1 .. i - 1 : Fits_(cs, q, i - 1, x, k) BY <2>2 DEF BestIn
    <3>2. Weight(cs[k]) \in Nat /\ Weight(cs[i]) \in Nat BY <1>2, <1>3
    <3>3. ~ (Weight(cs[i]) + 1 > Weight(cs[k]) + 1) BY <1>8, <3>1 DEF Fits_
    <3>4. Weight(cs[i]) < Weight(cs[k]) \/ (Weight(cs[i]) = Weight(cs[k]) /\ k <= i)
      <4>1. k <= i OBVIOUS
      <4> HIDE DEF r
      <4> QED BY <3>2, <3>3, <4>1
    <3>5. Heavier(cs, q, i, k) BY <1>1, <3>1, <3>4 DEF Fits_, Heavier
    <3>6. Fits_(cs, q, i, y, k) BY <1>5, <1>8, <3>1, <3>5 DEF Fits_
    <3> QED BY <1>2, <1>5, <1>8, <2>2, <3>6 DEF BestIn
  <2> QED BY <2>1, <2>2
<1> QED BY <1>6, <1>7, <1>8

\* So the last turn knows the best of all.
LEMMA DispatchFinds ==
  ASSUME NEW q, NEW S, NEW cs \in Seq(S), \A r \in S : Listed(r.conditions)
  PROVE  \E x \in TrialState(S, q) : /\ RM!conditionDispatch(cs, q) = Settled(q, x)
                                /\ BestIn(cs, q, Len(cs), x) /\ GravestIn(cs, q, Len(cs), x)
<1> DEFINE n == Len(cs)
<1>1. PICK run : Dispatches(run, S, cs, q) BY DispatchRuns
<1> DEFINE Good == {i \in 0 .. n : BestIn(cs, q, i, run[i]) /\ GravestIn(cs, q, i, run[i])}
<1>2. n \in Nat OBVIOUS
<1>3. 0 \in Good
  <2>1. 1 .. 0 = {} OBVIOUS
  <2>2. BestIn(cs, q, 0, Untried) /\ GravestIn(cs, q, 0, Untried) BY <2>1 DEF BestIn, GravestIn, Untried
  <2> QED BY <1>1, <2>2 DEF Dispatches
<1>4. ASSUME NEW i \in 1 .. n, i - 1 \in Good PROVE i \in Good
  <2>1. run[i - 1] \in TrialState(S, q) BY <1>1 DEF Dispatches
  <2>2. run[i] = Trial(q, run[i - 1], cs[i]) BY <1>1 DEF Dispatches
  <2>3. BestIn(cs, q, i - 1, run[i - 1]) /\ GravestIn(cs, q, i - 1, run[i - 1]) BY <1>4
  <2>4. BestIn(cs, q, i, run[i]) BY <2>1, <2>2, <2>3, BestKept
  <2>5. GravestIn(cs, q, i, run[i]) BY <2>1, <2>2, <2>3, GravestKept
  <2> QED BY <2>4, <2>5
<1>5. n \in Good
  <2>1. n \in 0 .. n BY <1>2
  <2> HIDE DEF Good, n
  <2> QED BY <1>2, <1>3, <1>4, <2>1, Turns
<1>6. run[n] \in TrialState(S, q) BY <1>1, <1>2 DEF Dispatches
<1> QED BY <1>1, <1>5, <1>6 DEF Dispatches

\* What a route answers: its own refusal, or what its handler says.
Answers == {200} \cup (Statuses \ {0})
ToldPlainly(told) ==
  /\ {"status", "origin", "credentials"} \subseteq DOMAIN told
  /\ told.origin = <<>> /\ told.credentials = FALSE /\ told.status \in Answers

\* A single route is refused by its own conditions only.
LEMMA WrapOf ==
  ASSUME NEW r, NEW q, NEW p
  PROVE  LET told == RM!wrap(r, q, p)
         IN  /\ ToldPlainly(told)
             /\ StatusOf(r, q) # 0 => told.handler = "none" /\ told.status = StatusOf(r, q)
             /\ StatusOf(r, q) = 0 => told.handler = r.handler
             /\ StatusOf(r, q) = 0 /\ r.conditions.produces # <<>> => told.produces = ChosenOf(r, q)
<1> DEFINE found == RM!match(r.conditions, q, p)
           told == RM!wrap(r, q, p)
<1>1. /\ found.status = StatusOf(r, q) /\ found.status \in Statuses
      /\ found.status = 0 /\ r.conditions.produces # <<>> => found.produces = ChosenOf(r, q)
  BY MatchOfRoute
<1>2. told = IF found.status = 0 THEN [RM!Told EXCEPT !.handler = r.handler, !.produces = found.produces]
             ELSE [RM!Told EXCEPT !.status = found.status]
  BY DEF RM!wrap, RM!Ran
<1> HIDE DEF found, told
<1>3. CASE found.status = 0
  <2>1. told = [RM!Told EXCEPT !.handler = r.handler, !.produces = found.produces] BY <1>2, <1>3
  <2>2. told.handler = r.handler /\ told.produces = found.produces BY <2>1 DEF RM!Told, RM!Refusal
  <2>3. ToldPlainly(told) BY <2>1 DEF RM!Told, RM!Refusal, ToldPlainly, Answers
  <2> QED BY <1>1, <1>3, <2>2, <2>3 DEF told
<1>4. CASE found.status # 0
  <2>1. told = [RM!Told EXCEPT !.status = found.status] BY <1>2, <1>4
  <2>2. told.handler = "none" /\ told.status = found.status BY <2>1 DEF RM!Told, RM!Refusal
  <2>3. ToldPlainly(told) BY <1>1, <1>4, <2>1 DEF RM!Told, RM!Refusal, ToldPlainly, Answers
  <2> QED BY <1>1, <1>4, <2>2, <2>3 DEF told
<1> QED BY <1>3, <1>4

\* The judgement of the property, of what several routes answered together.
EachAlone(cs, q) == [i \in DOMAIN cs |-> RM!buildRouteRegistrationHandler(<<cs[i]>>, q)]
Refused(told, alone) ==
  /\ \A i \in DOMAIN alone : alone[i].handler = "none" /\ Gravity(alone[i].status) <= Gravity(told.status)
  /\ \E i \in DOMAIN alone : alone[i].status = told.status
FirstOfBest(cs, alone, i) ==
  \A j \in {j \in DOMAIN alone : alone[j].handler # "none"} :
    Weight(cs[i]) - Weight(cs[j]) > 0 \/ (Weight(cs[i]) - Weight(cs[j]) = 0 /\ i <= j)
RanTheBest(told, cs, alone) ==
  \E i \in DOMAIN alone :
    /\ alone[i].handler = told.handler
    /\ cs[i].conditions.produces # <<>> => told.produces = alone[i].produces
    /\ FirstOfBest(cs, alone, i)
JudgedRight(told, cs, alone) ==
  cs = <<>> \/ IF told.handler = "none" THEN Refused(told, alone) ELSE RanTheBest(told, cs, alone)

\* Alone, each candidate answers for itself.
LEMMA AloneAnswers ==
  ASSUME NEW S, NEW cs \in Seq(S), NEW q
  PROVE  /\ DOMAIN EachAlone(cs, q) = 1 .. Len(cs)
         /\ \A i \in 1 .. Len(cs) : EachAlone(cs, q)[i] = RM!wrap(cs[i], q, <<>>)
<1> SUFFICES ASSUME NEW i \in 1 .. Len(cs) PROVE EachAlone(cs, q)[i] = RM!wrap(cs[i], q, <<>>) BY DEF EachAlone
<1>1. Len(<<cs[i]>>) = 1 /\ <<cs[i]>>[1] = cs[i] OBVIOUS
<1> QED BY <1>1 DEF EachAlone, RM!buildRouteRegistrationHandler

\* Together, candidates answer as the best of them does alone.
LEMMA TogetherIsJudgedRight ==
  ASSUME NEW S, NEW cs \in Seq(S), NEW q, \A r \in S : Listed(r.conditions) /\ r.handler # "none"
  PROVE  /\ JudgedRight(RM!buildRouteRegistrationHandler(cs, q), cs, EachAlone(cs, q))
         /\ cs # <<>> => ToldPlainly(RM!buildRouteRegistrationHandler(cs, q))
<1> DEFINE n == Len(cs)
           alone == EachAlone(cs, q)
           told == RM!buildRouteRegistrationHandler(cs, q)
<1>1. DOMAIN alone = 1 .. n /\ \A i \in 1 .. n : alone[i] = RM!wrap(cs[i], q, <<>>) BY AloneAnswers
<1>2. \A i \in 1 .. n : cs[i] \in S OBVIOUS
<1>3. ASSUME NEW i \in 1 .. n
      PROVE  /\ StatusOf(cs[i], q) # 0 => alone[i].handler = "none" /\ alone[i].status = StatusOf(cs[i], q)
             /\ StatusOf(cs[i], q) = 0 => alone[i].handler = cs[i].handler /\ alone[i].handler # "none"
             /\ StatusOf(cs[i], q) = 0 /\ cs[i].conditions.produces # <<>> =>
                  alone[i].produces = ChosenOf(cs[i], q)
             /\ StatusOf(cs[i], q) \in Statuses /\ Weight(cs[i]) \in Nat
  <2>1. alone[i] = RM!wrap(cs[i], q, <<>>) /\ cs[i].handler # "none" /\ Listed(cs[i].conditions) BY <1>1, <1>2
  <2>2. StatusOf(cs[i], q) \in Statuses BY MatchOfRoute
  <2>3. Weight(cs[i]) \in Nat BY <2>1, SpecificityIsNumber DEF Weight
  <2> QED BY <2>1, <2>2, <2>3, WrapOf
<1> SUFFICES ASSUME cs # <<>> PROVE JudgedRight(told, cs, alone) /\ ToldPlainly(told) BY DEF JudgedRight
<1>4. n \in Nat /\ n # 0 OBVIOUS
<1>5. CASE n = 1
  <2>0. 1 \in 1 .. n /\ \A i \in 1 .. n : i = 1 BY <1>5
  <2>1. told = RM!wrap(cs[1], q, <<>>) BY <1>5 DEF RM!buildRouteRegistrationHandler
  <2>2. told = alone[1] BY <1>1, <2>0, <2>1
  <2>3. ToldPlainly(told) BY <2>1, WrapOf
  <2> HIDE DEF alone, told, n
  <2>4. CASE told.handler = "none"
    <3>1. Gravity(told.status) \in Nat BY <2>3 DEF ToldPlainly, Answers, Statuses, Gravity
    <3>2. Gravity(told.status) <= Gravity(told.status) BY <3>1
    <3>3. Refused(told, alone) BY <1>1, <2>0, <2>2, <2>4, <3>2 DEF Refused
    <3> QED BY <2>3, <2>4, <3>3 DEF JudgedRight
  <2>5. CASE told.handler # "none"
    <3>1. Weight(cs[1]) \in Nat BY <1>3, <2>0
    <3>2. Weight(cs[1]) - Weight(cs[1]) = 0 BY <3>1
    <3>3. FirstOfBest(cs, alone, 1) BY <1>1, <2>0, <3>2 DEF FirstOfBest
    <3>4. RanTheBest(told, cs, alone) BY <1>1, <2>0, <2>2, <3>3 DEF RanTheBest
    <3> QED BY <2>3, <2>5, <3>4 DEF JudgedRight
  <2> QED BY <2>4, <2>5
<1>6. CASE n # 1
  <2>1. PICK x \in TrialState(S, q) : /\ RM!conditionDispatch(cs, q) = Settled(q, x)
                                 /\ BestIn(cs, q, Len(cs), x) /\ GravestIn(cs, q, Len(cs), x)
    BY DispatchFinds
  <2>2. told = Settled(q, x) BY <1>6, <2>1 DEF RM!buildRouteRegistrationHandler
  <2>3. BestIn(cs, q, n, x) /\ GravestIn(cs, q, n, x) BY <2>1
  <2> HIDE DEF alone, told, n
  <2>4. CASE x.best = <<>>
    <3>1. \A j \in 1 .. n : StatusOf(cs[j], q) # 0 BY <2>3, <2>4 DEF BestIn
    <3>2. x.err \in Statuses BY <2>1 DEF TrialState
    <3>3. x.err # 0
      <4>1. 1 \in 1 .. n BY <1>4
      <4>2. StatusOf(cs[1], q) # 0 /\ StatusOf(cs[1], q) \in Statuses BY <1>3, <3>1, <4>1
      <4>3. Rank(cs[1], q) \in 0 .. 4 /\ Rank(cs[1], q) # 0 BY <4>2, RankIsNumber DEF Rank
      <4>4. Rank(cs[1], q) <= RM!conditionErrorRank(x.err) BY <2>3, <4>1 DEF GravestIn
      <4>5. RM!conditionErrorRank(x.err) \in 0 .. 4 BY <3>2, RankIsNumber
      <4>6. RM!conditionErrorRank(x.err) # 0 BY <4>3, <4>4, <4>5
      <4> QED BY <3>2, <4>6, RankIsNumber
    <3>4. told = [RM!Told EXCEPT !.status = x.err] BY <2>2, <2>4 DEF Settled
    <3>5. told.handler = "none" /\ told.status = x.err BY <3>4 DEF RM!Told, RM!Refusal
    <3>6. ToldPlainly(told) BY <3>2, <3>3, <3>4 DEF RM!Told, RM!Refusal, ToldPlainly, Answers
    <3>7. PICK k \in 1 .. n : StatusOf(cs[k], q) = x.err BY <2>3, <3>3 DEF GravestIn
    <3>8. ASSUME NEW i \in 1 .. n
          PROVE  alone[i].handler = "none" /\ Gravity(alone[i].status) <= Gravity(told.status)
      <4>1. alone[i].handler = "none" /\ alone[i].status = StatusOf(cs[i], q) /\ StatusOf(cs[i], q) \in Statuses
        BY <1>3, <3>1
      <4>2. RM!conditionErrorRank(StatusOf(cs[i], q)) <= RM!conditionErrorRank(x.err)
        BY <2>3 DEF GravestIn, Rank
      <4> QED BY <3>2, <3>5, <4>1, <4>2, GravityFollowsRank
    <3>9. alone[k].status = told.status BY <1>3, <3>1, <3>5, <3>7
    <3>10. Refused(told, alone) BY <1>1, <3>8, <3>9 DEF Refused
    <3> QED BY <3>5, <3>6, <3>10 DEF JudgedRight
  <2>5. CASE x.best # <<>>
    <3>1. PICK k \in 1 .. n : Fits_(cs, q, n, x, k) BY <2>3, <2>5 DEF BestIn
    <3>2. x.best[1] = cs[k] /\ StatusOf(cs[k], q) = 0 /\ Heavier(cs, q, n, k) BY <3>1 DEF Fits_
    <3>3. told = RM!wrap(cs[k], q, x.produces) BY <2>2, <2>5, <3>2 DEF Settled
    <3>4. /\ ToldPlainly(told) /\ told.handler = cs[k].handler
          /\ cs[k].conditions.produces # <<>> => told.produces = ChosenOf(cs[k], q)
      BY <3>2, <3>3, WrapOf
    <3>5. told.handler = alone[k].handler /\ told.handler # "none"
          /\ (cs[k].conditions.produces # <<>> => told.produces = alone[k].produces)
      BY <1>3, <3>2, <3>4
    <3>6. FirstOfBest(cs, alone, k)
      <4> SUFFICES ASSUME NEW j \in 1 .. n, alone[j].handler # "none"
                   PROVE  Weight(cs[k]) - Weight(cs[j]) > 0 \/ (Weight(cs[k]) - Weight(cs[j]) = 0 /\ k <= j)
        BY <1>1 DEF FirstOfBest
      <4>1. StatusOf(cs[j], q) = 0 BY <1>3
      <4>2. Weight(cs[j]) \in Nat /\ Weight(cs[k]) \in Nat BY <1>3
      <4>3. Weight(cs[j]) < Weight(cs[k]) \/ (Weight(cs[j]) = Weight(cs[k]) /\ k <= j)
        BY <3>2, <4>1 DEF Heavier
      <4> QED BY <4>2, <4>3
    <3>7. RanTheBest(told, cs, alone) BY <1>1, <3>5, <3>6 DEF RanTheBest
    <3> QED BY <3>4, <3>5, <3>7 DEF JudgedRight
  <2> QED BY <2>4, <2>5
<1> QED BY <1>5, <1>6

\* The routes of a question and those that are candidates.
CandidatesOf(q) == RM!Candidates(Mapped_(q), q.request)

\* The routes of its controllers, under the assumption about questions.
LEMMA RoutesOfQuestion ==
  ASSUME NEW q \in Questions, q.kind = "mapping"
  PROVE  /\ Mapped_(q).routes \in Seq(AllRoutes(q.controllers))
         /\ \A r \in AllRoutes(q.controllers) : Listed(r.conditions) /\ r.handler # "none"
         /\ AsksOfControllers(q)
<1>1. AsksOfControllers(q) BY WebAssumption
<1>2. IsList(q.controllers) /\ \A c \in ToSet(q.controllers) : IsController(c)
  BY <1>1 DEF AsksOfControllers, IsController
<1> QED BY <1>1, <1>2, RoutesRegistered DEF Mapped_

\* Candidates are registered, so their pattern and method are known.
LEMMA CandidatesOfQuestion ==
  ASSUME NEW known, NEW q, NEW S, known.routes \in Seq(S)
  PROVE  /\ RM!Candidates(known, q) \in Seq(S)
         /\ RM!Candidates(known, q) # <<>> =>
              <<q.pattern, q.method>> \in {RM!Key(r) : r \in RM!ToSet(known.routes)}
<1> DEFINE cs == RM!Candidates(known, q)
           Mine == {r \in S : RM!Key(r) = <<q.pattern, q.method>>}
           routes == RM!ToSet(known.routes)
           Known == {r \in routes : RM!Key(r) = <<q.pattern, q.method>>}
<1>1. cs \in Seq(Mine) BY CandidatesAreRoutes
<1>2. known.routes \in Seq(routes) BY OwnList
<1>3. cs \in Seq(Known) BY <1>2, CandidatesAreRoutes
<1>4. cs \in Seq(S)
  <2> HIDE DEF cs
  <2>1. Mine \subseteq S OBVIOUS
  <2> HIDE DEF Mine
  <2> QED BY <1>1, <2>1
<1>5. ASSUME cs # <<>> PROVE <<q.pattern, q.method>> \in {RM!Key(r) : r \in routes}
  <2>1. cs[1] \in Known
    <3> HIDE DEF cs, Known
    <3> QED BY <1>3, <1>5
  <2> QED BY <2>1
<1> QED BY <1>4, <1>5

\* A request that comes from no other origin meets no policy.
LEMMA WithoutOrigin ==
  ASSUME NEW routes, NEW mappings, NEW q, NEW target, q.origin = <<>>,
         <<q.pattern, q.method>> \in routes
  PROVE  RM!applyCORSMappings(routes, mappings, q, target) = target
BY DEF RM!applyCORSMappings, RM!Preflight, RM!isCORSPreflight, RM!Filter

\* A request from no other origin is answered by its candidates, and rightly.
LEMMA TogetherIsRight ==
  ASSUME NEW q \in Questions, q.kind = "mapping", q.request.origin = <<>>
  PROVE  JudgedRight(RM!Serve(Mapped_(q), q.request), CandidatesOf(q), EachAlone(CandidatesOf(q), q.request))
<1> DEFINE cs == CandidatesOf(q)
<1>1. Mapped_(q).routes \in Seq(AllRoutes(q.controllers)) BY RoutesOfQuestion
<1>2. \A r \in AllRoutes(q.controllers) : Listed(r.conditions) /\ r.handler # "none" BY RoutesOfQuestion
<1>3. /\ cs \in Seq(AllRoutes(q.controllers))
      /\ cs # <<>> => <<q.request.pattern, q.request.method>> \in {RM!Key(r) : r \in RM!ToSet(Mapped_(q).routes)}
  BY <1>1, CandidatesOfQuestion DEF CandidatesOf
<1>4. cs # <<>> => RM!Serve(Mapped_(q), q.request) = RM!buildRouteRegistrationHandler(cs, q.request)
  BY <1>3, WithoutOrigin DEF RM!Serve, CandidatesOf
<1>5. JudgedRight(RM!buildRouteRegistrationHandler(cs, q.request), cs, EachAlone(cs, q.request))
  BY <1>2, <1>3, TogetherIsJudgedRight
<1> QED BY <1>4, <1>5 DEF JudgedRight

\* The judgement is that of the property.
LEMMA JudgedAlone ==
  ASSUME AnswerInv,
         \A q \in Questions : q.kind = "mapping" /\ q.request.origin = <<>> =>
           JudgedRight(RM!Serve(Mapped_(q), q.request), CandidatesOf(q), EachAlone(CandidatesOf(q), q.request))
  PROVE  AloneOrTogether
<1> SUFFICES ASSUME Asked("mapping"), question.request.origin = <<>>
             PROVE  JudgedRight(answer.value, CandidatesOf(question), EachAlone(CandidatesOf(question), question.request))
  BY DEF AloneOrTogether, JudgedRight, Refused, RanTheBest, FirstOfBest, EachAlone, CandidatesOf, Weight
<1>1. question \in Questions /\ question.kind = "mapping" /\ answer = Answered(Reply(question))
  BY DEF AnswerInv, Asked, Asks
<1>2. answer.value = Reply(question) BY <1>1 DEF Answered
<1>3. Reply(question) = RM!Serve(Mapped_(question), question.request) BY <1>1 DEF Reply
<1> QED BY <1>1, <1>2, <1>3

\* Several routes of one pattern and method answer as the best of them would
\* alone (controller_part5.go: conditionDispatchHandler.Handle).
THEOREM TogetherAsAlone == SpecAll => []AloneOrTogether
<1>1. AnswerInv => AloneOrTogether BY TogetherIsRight, JudgedAlone
<1> QED BY <1>1, AnswersAreReplies, PTL

\* What a request is answered before its policies speak.
TargetOf(known, q) ==
  LET candidates == RM!Candidates(known, q)
  IN  IF candidates = <<>> THEN RM!Told ELSE RM!buildRouteRegistrationHandler(candidates, q)

\* It says nothing of origins, and is all that Serve hands to the policies.
LEMMA TargetIsPlain ==
  ASSUME NEW q \in Questions, q.kind = "mapping", NEW r
  PROVE  /\ ToldPlainly(TargetOf(Mapped_(q), r))
         /\ RM!Serve(Mapped_(q), r) =
              RM!applyCORSMappings({RM!Key(e) : e \in RM!ToSet(Mapped_(q).routes)}, Mapped_(q).mappings, r,
                                   TargetOf(Mapped_(q), r))
<1> DEFINE cs == RM!Candidates(Mapped_(q), r)
<1>1. Mapped_(q).routes \in Seq(AllRoutes(q.controllers)) BY RoutesOfQuestion
<1>2. \A e \in AllRoutes(q.controllers) : Listed(e.conditions) /\ e.handler # "none" BY RoutesOfQuestion
<1>3. cs \in Seq(AllRoutes(q.controllers)) BY <1>1, CandidatesOfQuestion
<1>4. cs # <<>> => ToldPlainly(RM!buildRouteRegistrationHandler(cs, r))
  <2> HIDE DEF cs
  <2> QED BY <1>2, <1>3, TogetherIsJudgedRight
<1>5. ToldPlainly(RM!Told) BY DEF ToldPlainly, RM!Told, RM!Refusal, Answers
<1>6. ToldPlainly(TargetOf(Mapped_(q), r)) BY <1>4, <1>5 DEF TargetOf
<1>7. RM!Serve(Mapped_(q), r) =
        RM!applyCORSMappings({RM!Key(e) : e \in RM!ToSet(Mapped_(q).routes)}, Mapped_(q).mappings, r,
                             TargetOf(Mapped_(q), r))
  BY Zenon DEF RM!Serve, TargetOf
<1> QED BY <1>6, <1>7

\* A pattern with a mapping has a policy for some method.
LEMMA CrossedIsMapped ==
  ASSUME NEW q \in Questions, q.kind = "mapping", NEW pattern,
         \E i \in DOMAIN Mapped_(q).mappings : Mapped_(q).mappings[i].pattern = pattern
  PROVE  RM!preflightMethods(RM!newCORSRouteTable(Mapped_(q).mappings), pattern) # {}
<1> DEFINE S == AllRoutes(q.controllers)
           all == Mapped_(q).routes
           mappings == Mapped_(q).mappings
           M == {MappingOf(r) : r \in {r \in S : RM!crossOriginMethods(r.method) # {}}}
           Keys == UNION {{<<mappings[i].pattern, m>> : m \in mappings[i].methods} : i \in DOMAIN mappings}
<1>1. mappings = RM!FoldLeft(RM!registerRouteCORS, <<>>, all)
  BY Zenon DEF Mapped_, RM!registerControllers
<1>2. all \in Seq(S) BY RoutesOfQuestion
<1>3. mappings \in Seq(M) BY <1>1, <1>2, MappingsHaveMethods
<1>4. PICK i \in DOMAIN mappings : mappings[i].pattern = pattern OBVIOUS
<1>5. mappings[i] \in M
  <2> HIDE DEF M, mappings
  <2> QED BY <1>3
<1>6. PICK r \in S : RM!crossOriginMethods(r.method) # {} /\ mappings[i] = MappingOf(r) BY <1>5
<1>7. mappings[i].methods = RM!crossOriginMethods(r.method)
  <2>1. MappingOf(r).methods = RM!crossOriginMethods(r.method) BY DEF MappingOf
  <2> QED BY <1>6, <2>1
<1>8. PICK m : m \in mappings[i].methods BY <1>6, <1>7
<1>9. <<pattern, m>> \in Keys
  <2> HIDE DEF mappings
  <2> QED BY <1>4, <1>8
<1>10. DOMAIN RM!newCORSRouteTable(mappings) = Keys
  <2> HIDE DEF mappings
  <2> QED BY DEF RM!newCORSRouteTable
<1>11. m \in RM!preflightMethods(RM!newCORSRouteTable(mappings), pattern)
  <2> HIDE DEF mappings, Keys
  <2>1. <<pattern, m>> \in {k \in DOMAIN RM!newCORSRouteTable(mappings) : k[1] = pattern} BY <1>9, <1>10
  <2>2. <<pattern, m>>[2] = m OBVIOUS
  <2> QED BY <2>1, <2>2 DEF RM!preflightMethods
<1> QED BY <1>11

\* What a preflight that is accepted is told.
LEMMA AcceptedPreflight ==
  ASSUME NEW c, NEW q
  PROVE  LET told == RM!handlePreflight(c, q)
             accepted == /\ RM!originAllowed(c, q.origin) /\ RM!methodAllowed(c, q.wants)
                         /\ RM!headersAllowed(c, q.headers)
         IN  \/ told = RM!Refusal /\ ~accepted
             \/ /\ accepted
                /\ told.handler = "none" /\ told.status = 204 /\ told.credentials = c.credentials
                /\ told.origin = RM!writeAllowOrigin(c, q.origin)
<1> DEFINE Says(origin, credentials, methods, headers, maxAge, vary) ==
             [RM!Told EXCEPT !.status = 204, !.origin = origin, !.credentials = credentials,
                             !.methods = methods, !.headers = headers, !.maxAge = maxAge, !.vary = vary]
<1>1. \A a, b, d, e, f, g : /\ Says(a, b, d, e, f, g).handler = "none" /\ Says(a, b, d, e, f, g).status = 204
                           /\ Says(a, b, d, e, f, g).origin = a /\ Says(a, b, d, e, f, g).credentials = b
  BY DEF RM!Told, RM!Refusal
<1>2. RM!handlePreflight(c, q) =
        IF ~RM!originAllowed(c, q.origin) \/ ~RM!methodAllowed(c, q.wants) \/ ~RM!headersAllowed(c, q.headers)
        THEN RM!Refusal
        ELSE Says(RM!writeAllowOrigin(c, q.origin), c.credentials, RM!writeAllowMethods(c, q.wants),
                  RM!writeAllowHeaders(c, q.headers), c.maxAge, {"origin", "method", "headers"})
  BY Zenon DEF RM!handlePreflight
<1> HIDE DEF Says
<1> QED BY <1>1, <1>2

\* What the policies answer never joins credentials with every origin.
Cautious(told) == ~(told.credentials /\ told.origin = RM!AllOrigins)

\* One policy does not.
LEMMA FilterIsCautious ==
  ASSUME NEW c, NEW q, NEW target, ToldPlainly(target), q.origin # RM!AllOrigins
  PROVE  Cautious(RM!Filter(c, q, target))
<1>1. CASE q.origin = <<>> BY <1>1 DEF RM!Filter, ToldPlainly, Cautious
<1>2. RM!writeAllowOrigin(c, q.origin) = RM!AllOrigins => ~c.credentials BY DEF RM!writeAllowOrigin
<1>3. Cautious(RM!Refusal) BY DEF RM!Refusal, Cautious
<1>4. Cautious(RM!handlePreflight(c, q))
  <2>1. CASE RM!handlePreflight(c, q) = RM!Refusal BY <1>3, <2>1
  <2>2. CASE RM!handlePreflight(c, q) # RM!Refusal
    <3> DEFINE told == RM!handlePreflight(c, q)
    <3>1. told.origin = RM!writeAllowOrigin(c, q.origin) /\ told.credentials = c.credentials
      BY <2>2, AcceptedPreflight
    <3> QED BY <1>2, <3>1 DEF Cautious
  <2> QED BY <2>1, <2>2
<1>5. Cautious(RM!handleActual(c, q, target))
  <2>1. CASE RM!handleActual(c, q, target) = RM!Refusal BY <1>3, <2>1
  <2>2. CASE RM!handleActual(c, q, target) # RM!Refusal
    <3> DEFINE told == RM!handleActual(c, q, target)
    <3>1. told.origin = RM!writeAllowOrigin(c, q.origin) /\ told.credentials = c.credentials
      BY <2>2 DEF RM!handleActual, ToldPlainly
    <3> QED BY <1>2, <3>1 DEF Cautious
  <2> QED BY <2>1, <2>2
<1> QED BY <1>1, <1>4, <1>5 DEF RM!Filter

\* Neither do all of them.
LEMMA PoliciesAreCautious ==
  ASSUME NEW routes, NEW mappings, NEW q, NEW target, ToldPlainly(target), q.origin # RM!AllOrigins
  PROVE  Cautious(RM!applyCORSMappings(routes, mappings, q, target))
<1> DEFINE table == RM!newCORSRouteTable(mappings)
           told == RM!applyCORSMappings(routes, mappings, q, target)
<1>1. ToldPlainly(RM!Told) BY DEF ToldPlainly, RM!Told, RM!Refusal, Answers
<1>2. \A key : Cautious(RM!Filter(table[key], q, RM!Told)) /\ Cautious(RM!Filter(table[key], q, target))
  BY <1>1, FilterIsCautious
<1>3. Cautious(target) BY DEF ToldPlainly, Cautious
<1>4. Cautious(RM!Refusal) BY DEF RM!Refusal, Cautious
<1>5. \A methods : Cautious([RM!Told EXCEPT !.status = 204, !.methods = methods])
  BY DEF RM!Told, RM!Refusal, Cautious
<1>6. Cautious([RM!Told EXCEPT !.status = 405]) BY DEF RM!Told, RM!Refusal, Cautious
<1> HIDE DEF table
<1>7. \A known : Cautious(RM!Preflight(table, q, known, target)) BY <1>2, <1>3, <1>4, <1>5 DEF RM!Preflight
<1> QED BY <1>2, <1>3, <1>6, <1>7 DEF RM!applyCORSMappings, table

\* A preflight and the request it is for are judged by one policy.
Wanted(q) == [q EXCEPT !.method = q.wants]
Foretells(told, actual, q) ==
  /\ told.handler = "none"
  /\ told.status = 204 /\ actual.status # 405 =>
       actual.status # 403 /\ actual.origin = told.origin /\ actual.credentials = told.credentials
  /\ told.status = 403 /\ q.headers = {} => actual.status = 403 \/ actual.origin = <<>>

\* Which is why one foretells the other, whatever the policies are.
LEMMA PreflightForetells ==
  ASSUME NEW routes, NEW mappings, NEW q, NEW target, NEW later,
         q = [f \in RequestFields |-> q[f]], ToldPlainly(later), RM!isCORSPreflight(q),
         q.wants = RM!MethodOptions => later = target,
         RM!preflightMethods(RM!newCORSRouteTable(mappings), q.pattern) # {}
  PROVE  Foretells(RM!applyCORSMappings(routes, mappings, q, target),
                   RM!applyCORSMappings(routes, mappings, Wanted(q), later), q)
<1> DEFINE table == RM!newCORSRouteTable(mappings)
           told == RM!applyCORSMappings(routes, mappings, q, target)
           w == Wanted(q)
           actual == RM!applyCORSMappings(routes, mappings, w, later)
           key == <<q.pattern, q.wants>>
           c == table[key]
           Open == RM!originAllowed(c, q.origin) /\ RM!methodAllowed(c, q.wants)
<1>1. q.method = RM!MethodOptions /\ q.wants # "" /\ q.origin # <<>>
  BY Zenon DEF RM!isCORSPreflight, RM!isPreflight
<1>2. w.method = q.wants /\ w.pattern = q.pattern /\ w.origin = q.origin
  BY DEF Wanted, RequestFields
<1>3. told = IF key \notin DOMAIN table THEN RM!Refusal ELSE RM!handlePreflight(c, q)
  <2>1. told = RM!Preflight(table, q, <<q.pattern, q.method>> \in routes, target)
    BY <1>1 DEF RM!applyCORSMappings
  <2>2. RM!isPreflight(q) BY Zenon DEF RM!isCORSPreflight
  <2>3. RM!Filter(c, q, RM!Told) = RM!handlePreflight(c, q) BY <1>1, <2>2 DEF RM!Filter
  <2> HIDE DEF told, table
  <2> QED BY <2>1, <2>3 DEF RM!Preflight
<1>4. q.wants # RM!MethodOptions =>
        actual = CASE key \notin routes -> [RM!Told EXCEPT !.status = 405]
                   [] key \in routes /\ key \in DOMAIN table -> RM!handleActual(c, w, later)
                   [] OTHER -> later
  <2> SUFFICES ASSUME q.wants # RM!MethodOptions
               PROVE  actual = CASE key \notin routes -> [RM!Told EXCEPT !.status = 405]
                                 [] key \in routes /\ key \in DOMAIN table -> RM!handleActual(c, w, later)
                                 [] OTHER -> later
    OBVIOUS
  <2>1. ~RM!isPreflight(w) BY <1>2 DEF RM!isPreflight
  <2>2. RM!Filter(c, w, later) = RM!handleActual(c, w, later) BY <1>1, <1>2, <2>1 DEF RM!Filter
  <2>3. key = <<w.pattern, w.method>> /\ w.method # RM!MethodOptions BY <1>2
  <2> HIDE DEF w
  <2> QED BY <2>2, <2>3 DEF RM!applyCORSMappings
<1>5. q.wants = RM!MethodOptions => actual = told
  <2> SUFFICES ASSUME q.wants = RM!MethodOptions PROVE actual = told OBVIOUS
  <2>1. w = q BY <1>1 DEF Wanted, RequestFields
  <2> QED BY <2>1
<1> SUFFICES Foretells(told, actual, q) OBVIOUS
<1> HIDE DEF told, actual, table, w, c, key
<1>6. RM!Refusal.handler = "none" /\ RM!Refusal.status = 403 /\ RM!Refusal.origin = <<>> BY DEF RM!Refusal
<1>7. \/ told = RM!Refusal
      \/ /\ Open /\ key \in DOMAIN table
         /\ told.handler = "none" /\ told.status = 204 /\ told.credentials = c.credentials
         /\ told.origin = RM!writeAllowOrigin(c, q.origin)
  BY <1>3, AcceptedPreflight
<1>8. RM!handleActual(c, w, later) =
        IF Open THEN [later EXCEPT !.origin = RM!writeAllowOrigin(c, q.origin), !.credentials = c.credentials,
                                   !.exposed = c.exposed, !.vary = @ \cup {"origin"}]
        ELSE RM!Refusal
  BY <1>2 DEF RM!handleActual
<1>9. later.status \notin {403, 405} /\ later.origin = <<>> BY DEF ToldPlainly, Answers, Statuses
<1>10. Open => /\ RM!handleActual(c, w, later).status = later.status
               /\ RM!handleActual(c, w, later).origin = RM!writeAllowOrigin(c, q.origin)
               /\ RM!handleActual(c, w, later).credentials = c.credentials
  BY <1>8 DEF ToldPlainly
<1>11. q.headers = {} /\ told = RM!Refusal => key \notin DOMAIN table \/ ~Open
  <2>1. q.headers = {} => RM!headersAllowed(c, q.headers) BY Zenon DEF RM!headersAllowed
  <2>2. RM!handlePreflight(c, q) = RM!Refusal
          => ~(Open /\ RM!headersAllowed(c, q.headers))
    <3> DEFINE answered == RM!handlePreflight(c, q)
    <3>1. \/ answered = RM!Refusal /\ ~(Open /\ RM!headersAllowed(c, q.headers))
          \/ answered.status = 204
      BY AcceptedPreflight
    <3> HIDE DEF answered, Open
    <3>2. answered = RM!Refusal => answered.status = 403 BY <1>6
    <3> QED BY <3>1, <3>2 DEF answered
  <2> HIDE DEF Open
  <2> QED BY <1>3, <2>1, <2>2
<1>12. [RM!Told EXCEPT !.status = 405].status = 405 /\ [RM!Told EXCEPT !.status = 405].origin = <<>>
  BY DEF RM!Told, RM!Refusal
<1> HIDE DEF Open
<1>13. CASE q.wants = RM!MethodOptions
  <2>1. actual = told BY <1>5, <1>13
  <2>2. told.handler = "none" BY <1>6, <1>7
  <2>3. told.status = 204 \/ told.status = 403 BY <1>6, <1>7
  <2>4. told.status = 204 => actual.status # 403 BY <2>1
  <2>5. told.status = 403 => actual.status = 403 BY <2>1
  <2> QED BY <2>1, <2>2, <2>4, <2>5 DEF Foretells
<1>14. CASE q.wants # RM!MethodOptions
  <2>0. told.handler = "none" BY <1>6, <1>7
  <2>1. CASE key \notin routes
    <3>1. actual.status = 405 /\ actual.origin = <<>> BY <1>4, <1>12, <1>14, <2>1
    <3> QED BY <2>0, <3>1 DEF Foretells
  <2>2. CASE key \in routes /\ key \in DOMAIN table
    <3>1. actual = RM!handleActual(c, w, later) BY <1>4, <1>14, <2>2
    <3>2. CASE told = RM!Refusal
      <4>1. q.headers = {} => ~Open BY <1>11, <2>2, <3>2
      <4>2. q.headers = {} => actual.status = 403 BY <1>6, <1>8, <3>1, <4>1
      <4>3. told.status = 403 BY <1>6, <3>2
      <4> QED BY <2>0, <4>2, <4>3 DEF Foretells
    <3>3. CASE told # RM!Refusal
      <4>1. Open /\ told.status = 204 BY <1>7, <3>3
      <4>2. actual.status = later.status BY <1>10, <3>1, <4>1
      <4>3. actual.origin = told.origin BY <1>7, <1>10, <3>1, <3>3, <4>1
      <4>4. actual.credentials = told.credentials BY <1>7, <1>10, <3>1, <3>3, <4>1
      <4> QED BY <1>9, <2>0, <4>1, <4>2, <4>3, <4>4 DEF Foretells
    <3> QED BY <3>2, <3>3
  <2>3. CASE key \in routes /\ key \notin DOMAIN table
    BY <1>4, <1>6, <1>7, <1>9, <1>14, <2>3 DEF Foretells
  <2> QED BY <2>1, <2>2, <2>3
<1> QED BY <1>13, <1>14

\* So of the answer of every question.
LEMMA ServesCautiously ==
  ASSUME NEW q \in Questions, q.kind = "mapping"
  PROVE  Cautious(RM!Serve(Mapped_(q), q.request))
<1> DEFINE routes == {RM!Key(e) : e \in RM!ToSet(Mapped_(q).routes)}
           target == TargetOf(Mapped_(q), q.request)
<1>1. ToldPlainly(target) /\ RM!Serve(Mapped_(q), q.request) =
                         RM!applyCORSMappings(routes, Mapped_(q).mappings, q.request, target)
  BY TargetIsPlain
<1>2. q.request.origin # RM!AllOrigins BY RoutesOfQuestion DEF AsksOfControllers
<1> HIDE DEF routes, target
<1> QED BY <1>1, <1>2, PoliciesAreCautious

\* So of every preflight that is asked.
LEMMA ServesAsForetold ==
  ASSUME NEW q \in Questions, q.kind = "mapping", RM!isCORSPreflight(q.request),
         \E i \in DOMAIN Mapped_(q).mappings : Mapped_(q).mappings[i].pattern = q.request.pattern
  PROVE  Foretells(RM!Serve(Mapped_(q), q.request), RM!Serve(Mapped_(q), Wanted(q.request)), q.request)
<1> DEFINE known == Mapped_(q)
           r == q.request
           routes == {RM!Key(e) : e \in RM!ToSet(known.routes)}
           target == TargetOf(known, r)
           later == TargetOf(known, Wanted(r))
<1>1. RM!Serve(known, r) = RM!applyCORSMappings(routes, known.mappings, r, target) BY TargetIsPlain
<1>2. /\ ToldPlainly(later)
      /\ RM!Serve(known, Wanted(r)) = RM!applyCORSMappings(routes, known.mappings, Wanted(r), later)
  BY TargetIsPlain
<1>3. r = [f \in RequestFields |-> r[f]] BY RoutesOfQuestion DEF AsksOfControllers
<1>4. r.wants = RM!MethodOptions => later = target
  <2> SUFFICES ASSUME r.wants = RM!MethodOptions PROVE Wanted(r) = r OBVIOUS
  <2>1. r.method = RM!MethodOptions BY Zenon DEF RM!isCORSPreflight, RM!isPreflight
  <2> HIDE DEF r
  <2> QED BY <1>3, <2>1 DEF Wanted, RequestFields
<1>5. RM!preflightMethods(RM!newCORSRouteTable(known.mappings), r.pattern) # {} BY CrossedIsMapped
<1>6. RM!isCORSPreflight(r) OBVIOUS
<1> HIDE DEF routes, target, later, known, r
<1>7. Foretells(RM!applyCORSMappings(routes, known.mappings, r, target),
                RM!applyCORSMappings(routes, known.mappings, Wanted(r), later), r)
  BY <1>2, <1>3, <1>4, <1>5, <1>6, PreflightForetells
<1> QED BY <1>1, <1>2, <1>7 DEF known, r

\* A preflight runs no handler and tells what the request itself will meet;
\* credentials never go with "*" (cors_mapping.go).
THEOREM PreflightForetold == SpecAll => []PreflightPredictsActual
<1>1. AnswerInv => PreflightPredictsActual
  <2> SUFFICES ASSUME AnswerInv, Asked("mapping")
               PROVE  /\ Cautious(answer.value)
                      /\ RM!isCORSPreflight(question.request)
                         /\ (\E i \in DOMAIN Mapped_(question).mappings :
                               Mapped_(question).mappings[i].pattern = question.request.pattern) =>
                           Foretells(answer.value, RM!Serve(Mapped_(question), Wanted(question.request)),
                                     question.request)
    BY DEF PreflightPredictsActual, Cautious, Foretells, Wanted
  <2>1. question \in Questions /\ question.kind = "mapping" /\ answer = Answered(Reply(question))
    BY DEF AnswerInv, Asked, Asks
  <2>2. answer.value = RM!Serve(Mapped_(question), question.request) BY <2>1 DEF Answered, Reply
  <2> QED BY <2>1, <2>2, ServesCautiously, ServesAsForetold
<1> QED BY <1>1, AnswersAreReplies, PTL

\* What a call of the rest of the interceptors can bring: the requests sent so
\* far, and an error, the reply an interceptor made, or the last one that came.
Logs(r) == Seq({r.body, "empty"})
Replies(server) == ToSet(server) \cup {HC!OwnReply, HC!Failed("transport"), HC!Failed("length")}
Traffic(r, server) == [sent : Logs(r), reply : Replies(server)]
SentRight(r, log) ==
  /\ log # <<>> => log[1] = r.body
  /\ r.stream \/ \A i \in DOMAIN log : log[i] = r.body
CameFrom(server, is, t) ==
  \/ HC!IsFailed(t.reply)
  \/ t.reply = HC!OwnReply /\ Contains(is, "reply")
  \/ t.sent # <<>> /\ Len(t.sent) \in 1 .. Len(server) /\ t.reply = server[Len(t.sent)]
Ahead(r, server, is) ==
  {g \in [Logs(r) -> Traffic(r, server)] :
     \A log \in Logs(r) : SentRight(r, log) => SentRight(r, g[log].sent) /\ CameFrom(server, is, g[log])}

\* A send keeps that.
LEMMA SendIsRight ==
  ASSUME NEW r, NEW server, IsList(server), NEW is
  PROVE  [log \in Logs(r) |-> HC!Send(r, server, log)] \in Ahead(r, server, is)
<1> DEFINE g == [log \in Logs(r) |-> HC!Send(r, server, log)]
<1>1. ASSUME NEW log \in Logs(r)
      PROVE  /\ HC!Send(r, server, log) \in Traffic(r, server)
             /\ SentRight(r, log) => /\ SentRight(r, HC!Send(r, server, log).sent)
                                     /\ CameFrom(server, is, HC!Send(r, server, log))
  <2> DEFINE again == log # <<>> /\ r.body # "none"
             more == Append(log, IF again THEN "empty" ELSE r.body)
             reply == IF Len(log) < Len(server) THEN server[Len(log) + 1] ELSE HC!Failed("transport")
             t == HC!Send(r, server, log)
  <2>1. t = IF again /\ ~r.stream THEN [sent |-> log, reply |-> HC!Failed("length")]
            ELSE [sent |-> more, reply |-> reply]
    BY DEF HC!Send
  <2>2. Len(log) \in Nat /\ Len(server) \in Nat /\ DOMAIN server = 1 .. Len(server) BY DEF Logs, IsList
  <2>3. more \in Logs(r) /\ Len(more) = Len(log) + 1 /\ more # <<>> /\ more[Len(more)] = (IF again THEN "empty" ELSE r.body)
        /\ \A i \in 1 .. Len(log) : more[i] = log[i]
    <3> DEFINE e == IF again THEN "empty" ELSE r.body
    <3>1. e \in {r.body, "empty"} OBVIOUS
    <3> HIDE DEF again, e
    <3> QED BY <3>1 DEF Logs
  <2>4. Len(log) < Len(server) => Len(log) + 1 \in 1 .. Len(server) /\ server[Len(log) + 1] \in ToSet(server)
    BY <2>2 DEF ToSet
  <2>5. reply \in Replies(server) BY <2>4 DEF Replies
  <2>6. HC!IsFailed(HC!Failed("transport")) /\ HC!IsFailed(HC!Failed("length")) BY DEF HC!IsFailed, HC!Failed
  <2>7. CASE again /\ ~r.stream
    <3>1. t = [sent |-> log, reply |-> HC!Failed("length")] BY <2>1, <2>7
    <3>2. t \in Traffic(r, server) BY <3>1 DEF Traffic, Replies
    <3> HIDE DEF t
    <3> QED BY <2>6, <3>1, <3>2 DEF CameFrom, t
  <2>8. CASE ~(again /\ ~r.stream)
    <3>1. t = [sent |-> more, reply |-> reply] BY <2>1, <2>8
    <3> HIDE DEF t, more, reply
    <3>2. t \in Traffic(r, server) BY <2>3, <2>5, <3>1 DEF Traffic
    <3>3. CameFrom(server, is, t)
      <4>1. CASE Len(log) < Len(server) BY <2>3, <2>4, <3>1, <4>1 DEF CameFrom, reply
      <4>2. CASE ~(Len(log) < Len(server)) BY <2>6, <3>1, <4>2 DEF CameFrom, reply
      <4> QED BY <4>1, <4>2
    <3>4. ASSUME SentRight(r, log) PROVE SentRight(r, more)
      <4>1. more[1] = r.body
        <5>1. CASE log = <<>>
          <6>1. Len(log) = 0 BY <5>1
          <6> QED BY <2>3, <5>1, <6>1
        <5>2. CASE log # <<>>
          <6>1. 1 \in 1 .. Len(log) BY <5>2 DEF Logs
          <6> QED BY <2>3, <3>4, <5>2, <6>1 DEF SentRight
        <5> QED BY <5>1, <5>2
      <4>2. ASSUME ~r.stream PROVE \A i \in DOMAIN more : more[i] = r.body
        <5>1. \A i \in 1 .. Len(log) : log[i] = r.body BY <3>4, <4>2 DEF SentRight, Logs
        <5>2. more[Len(more)] = r.body BY <2>3, <2>8, <4>2
        <5>3. DOMAIN more = 1 .. Len(log) + 1 BY <2>3 DEF Logs
        <5>4. \A i \in DOMAIN more : i \in 1 .. Len(log) \/ i = Len(more) BY <2>2, <2>3, <5>3
        <5> QED BY <2>3, <5>1, <5>2, <5>4
      <4> QED BY <4>1, <4>2 DEF SentRight
    <3> QED BY <3>1, <3>2, <3>3, <3>4 DEF t
  <2> QED BY <2>7, <2>8
<1>2. g \in [Logs(r) -> Traffic(r, server)] BY <1>1
<1> QED BY <1>1, <1>2 DEF Ahead

\* An interceptor around what keeps it does, too.
LEMMA AroundIsRight ==
  ASSUME NEW r, NEW server, NEW is, NEW x, x = "reply" => Contains(is, "reply"),
         NEW onward \in Ahead(r, server, is)
  PROVE  [log \in Logs(r) |-> HC!Around(x, onward, log)] \in Ahead(r, server, is)
<1> DEFINE g == [log \in Logs(r) |-> HC!Around(x, onward, log)]
<1>1. ASSUME NEW log \in Logs(r)
      PROVE  /\ onward[log] \in Traffic(r, server) /\ onward[log].sent \in Logs(r)
             /\ SentRight(r, log) => SentRight(r, onward[log].sent) /\ CameFrom(server, is, onward[log])
  BY DEF Ahead, Traffic
<1>2. ASSUME NEW log \in Logs(r)
      PROVE  /\ HC!Around(x, onward, log) \in Traffic(r, server)
             /\ SentRight(r, log) => /\ SentRight(r, HC!Around(x, onward, log).sent)
                                     /\ CameFrom(server, is, HC!Around(x, onward, log))
  <2>1. \/ x = "reply" /\ HC!Around(x, onward, log) = [sent |-> log, reply |-> HC!OwnReply]
        \/ HC!Around(x, onward, log) = onward[onward[log].sent]
        \/ HC!Around(x, onward, log) = onward[log]
    BY DEF HC!Around
  <2>2. CASE x = "reply" /\ HC!Around(x, onward, log) = [sent |-> log, reply |-> HC!OwnReply]
    <3>1. [sent |-> log, reply |-> HC!OwnReply] \in Traffic(r, server) BY DEF Traffic, Replies
    <3> QED BY <2>2, <3>1 DEF CameFrom
  <2>3. CASE HC!Around(x, onward, log) = onward[onward[log].sent] BY <1>1, <2>3
  <2>4. CASE HC!Around(x, onward, log) = onward[log] BY <1>1, <2>4
  <2> QED BY <2>1, <2>2, <2>3, <2>4
<1>3. g \in [Logs(r) -> Traffic(r, server)] BY <1>2
<1> QED BY <1>2, <1>3 DEF Ahead

\* The interceptors, innermost first, around the send.
LEMMA ExchangeIsRight ==
  ASSUME NEW r, NEW server, IsList(server), NEW is, IsList(is)
  PROVE  /\ HC!exchange(is, r, server, <<>>) \in Traffic(r, server)
         /\ SentRight(r, HC!exchange(is, r, server, <<>>).sent)
         /\ CameFrom(server, is, HC!exchange(is, r, server, <<>>))
<1> DEFINE n == Len(is)
           X == Ahead(r, server, is)
           start == [log \in Logs(r) |-> HC!Send(r, server, log)]
           Turn(g, i) == [log \in Logs(r) |-> HC!Around(is[n + 1 - i], g, log)]
           step == [p \in X \X (1 .. n) |-> Turn(p[1], p[2])]
           Row(h, i) == [log \in Logs(r) |-> IF i = 0 THEN HC!Send(r, server, log)
                                             ELSE HC!Around(is[n + 1 - i], h[i - 1], log)]
           Fits(h) == h = [i \in 0 .. n |-> Row(h, i)]
           c == CHOOSE h : Fits(h)
<1>1. n \in Nat BY DEF IsList
<1>2. start \in X BY SendIsRight
<1>3. ASSUME NEW g \in X, NEW i \in 1 .. n PROVE Turn(g, i) \in X
  <2>1. n + 1 - i \in 1 .. n BY <1>1
  <2>2. is[n + 1 - i] = "reply" => Contains(is, "reply") BY <2>1 DEF Contains
  <2> QED BY <2>2, AroundIsRight
<1>4. step \in [X \X (1 .. n) -> X]
  <2> HIDE DEF X, Turn, n
  <2> QED BY <1>3
<1>5. \E h : Fits(h)
  <2> HIDE DEF X, start, step, Turn, n, Fits
  <2>1. PICK f : /\ f = [T \in SUBSET (1 .. n) |-> f[T]] /\ Solves(f, n, X, start, step)
                 /\ \A T \in SUBSET (1 .. n) : T # {} => f[T \ {Max(T)}] \in X /\ Max(T) \in 1 .. n
    BY <1>1, <1>2, <1>4, FoldSolved
  <2>2. RunsThrough(f, n, X, start, step) BY <1>1, <1>2, <1>4, <2>1, FoldRuns
  <2>3. PICK run : Loop(run, n, X, start, step) BY <2>2 DEF RunsThrough
  <2>4. run[0] = Row(run, 0) BY <2>3 DEF Loop, start
  <2>5. ASSUME NEW i \in 1 .. n PROVE run[i] = Row(run, i)
    <3>1. run[i - 1] \in X /\ run[i] = step[<<run[i - 1], i>>] BY <1>1, <2>3 DEF Loop
    <3>2. run[i] = Turn(run[i - 1], i) BY <3>1 DEF step
    <3>3. i # 0 OBVIOUS
    <3> QED BY <3>2, <3>3 DEF Turn
  <2>6. \A i \in 0 .. n : i = 0 \/ i \in 1 .. n BY <1>1
  <2>7. run = [i \in 0 .. n |-> Row(run, i)]
    <3> HIDE DEF Row
    <3> QED BY <2>3, <2>4, <2>5, <2>6 DEF Loop
  <2> QED BY <2>7 DEF Fits
<1>6. Fits(c)
  <2> HIDE DEF Fits
  <2> QED BY <1>5
<1>7. HC!exchange(is, r, server, <<>>) = c[n][<<>>] BY Zenon DEF HC!exchange, Logs
<1> HIDE DEF c
<1> DEFINE Good == {i \in 0 .. n : c[i] \in X}
<1>8. 0 \in Good
  <2>1. c[0] = Row(c, 0) /\ 0 \in 0 .. n
    <3> HIDE DEF Row, n
    <3> QED BY <1>1, <1>6
  <2>2. Row(c, 0) = start OBVIOUS
  <2> HIDE DEF X, start, Row, n
  <2> QED BY <1>2, <2>1, <2>2
<1>9. ASSUME NEW i \in 1 .. n, i - 1 \in Good PROVE i \in Good
  <2>1. c[i] = Row(c, i) /\ i \in 0 .. n
    <3> HIDE DEF Row, n
    <3> QED BY <1>1, <1>6
  <2>2. Row(c, i) = Turn(c[i - 1], i)
    <3>1. i # 0 OBVIOUS
    <3> QED BY <3>1
  <2>3. Turn(c[i - 1], i) \in X BY <1>3, <1>9
  <2> HIDE DEF X, Turn, Row, n
  <2> QED BY <2>1, <2>2, <2>3
<1>10. c[n] \in X
  <2>1. n \in 0 .. n BY <1>1
  <2> HIDE DEF Good, n
  <2>2. n \in Good BY <1>1, <1>8, <1>9, <2>1, Turns
  <2> QED BY <2>2 DEF Good
<1>11. <<>> \in Logs(r) /\ SentRight(r, <<>>) BY DEF Logs, SentRight
<1> HIDE DEF n
<1> QED BY <1>7, <1>10, <1>11 DEF Ahead

\* A body that fits is read to its end, a longer one is an error.
LEMMA WrapInRange ==
  ASSUME NEW n \in Nat, n <= MaxInt
  PROVE  HC!Wrap(n) = n
<1>1. MaxInt \in Nat BY WebAssumption
<1> DEFINE a == n + MaxInt + 1
           b == 2 * MaxInt + 2
<1>2. a \in Nat /\ b \in Nat \ {0} /\ a < b BY <1>1
<1>3. a % b = a
  <2> HIDE DEF a, b
  <2> QED BY <1>2
<1>4. HC!Wrap(n) = (a % b) - MaxInt - 1 BY DEF HC!Wrap
<1>5. HC!Wrap(n) = a - MaxInt - 1 BY <1>3, <1>4
<1> QED BY <1>1, <1>5

\* One byte more than the limit tells the two apart.
LEMMA BodyIsRead ==
  ASSUME NEW length \in Nat, NEW limit \in -MaxInt - 1 .. MaxInt, limit # MaxInt
  PROVE  LET body == HC!readResponseBody(length, limit)
         IN  IF HC!IsFailed(body) THEN body.err = "too large" /\ limit >= 0 /\ length > limit
             ELSE body.length = length /\ (limit < 0 \/ length <= limit)
<1>1. MaxInt \in Nat BY WebAssumption
<1> DEFINE asked_ == HC!Wrap(limit + 1)
           some == IF asked_ <= 0 THEN 0 ELSE IF length < asked_ THEN length ELSE asked_
           body == HC!readResponseBody(length, limit)
<1>2. body = CASE limit < 0 -> [err |-> "none", length |-> length]
               [] limit >= 0 /\ some > limit -> HC!Failed("too large")
               [] OTHER -> [err |-> "none", length |-> some]
  BY DEF HC!readResponseBody
<1>3. HC!IsFailed(HC!Failed("too large")) /\ HC!Failed("too large").err = "too large"
  BY DEF HC!IsFailed, HC!Failed
<1>4. \A k : ~HC!IsFailed([err |-> "none", length |-> k]) BY DEF HC!IsFailed
<1> SUFFICES IF HC!IsFailed(body) THEN body.err = "too large" /\ limit >= 0 /\ length > limit
             ELSE body.length = length /\ (limit < 0 \/ length <= limit)
  OBVIOUS
<1>5. CASE limit < 0
  <2>0. ~(limit >= 0) BY <1>1, <1>5
  <2> HIDE DEF body, some
  <2>1. body = [err |-> "none", length |-> length] BY <1>2, <1>5, <2>0
  <2> QED BY <1>4, <1>5, <2>1
<1>6. CASE limit >= 0
  <2>1. limit \in Nat /\ limit + 1 \in Nat /\ limit + 1 <= MaxInt BY <1>1, <1>6
  <2>2. asked_ = limit + 1 BY <2>1, WrapInRange
  <2> HIDE DEF asked_
  <2>3. some = IF length < limit + 1 THEN length ELSE limit + 1 BY <2>1, <2>2
  <2> HIDE DEF some, body
  <2>4. CASE length <= limit
    <3>1. some = length /\ ~(some > limit) /\ ~(limit < 0) BY <2>1, <2>3, <2>4
    <3>2. body = [err |-> "none", length |-> length] BY <1>2, <3>1
    <3> QED BY <1>4, <2>4, <3>2
  <2>5. CASE length > limit
    <3>1. some > limit /\ ~(limit < 0) BY <2>1, <2>3, <2>5
    <3>2. body = HC!Failed("too large") BY <1>2, <1>6, <3>1
    <3> QED BY <1>3, <1>6, <2>5, <3>2
  <2>6. length <= limit \/ length > limit BY <2>1
  <2> QED BY <2>4, <2>5, <2>6
<1>7. limit < 0 \/ limit >= 0 BY <1>1
<1> QED BY <1>5, <1>6, <1>7

\* What a client is told of a call that sent something.
TookWhole(client, server, r, took) ==
  took.sent # <<>> =>
    /\ took.sent[1] = r.body
    /\ r.stream \/ \A i \in DOMAIN took.sent : took.sent[i] = r.body
    /\ took.response = "too large" => client.limit >= 0 /\ server[Len(took.sent)].length > client.limit
    /\ took.response \in {"none", "status"} /\ ~Contains(client.interceptors, "reply") =>
         /\ took.status = server[Len(took.sent)].status /\ took.length = server[Len(took.sent)].length
         /\ client.limit < 0 \/ took.length <= client.limit

\* It is told the length it was sent, or an error.
LEMMA CallsAreWhole ==
  ASSUME NEW q, AsksOfServer(q), q.client.limit # MaxInt
  PROVE  TookWhole(q.client, q.server, HC!newRequest(q.client, q.target, q.options),
                   HC!Retrieve(q.client, q.target, q.options, q.server))
<1> DEFINE client == q.client
           server == q.server
           limit == client.limit
           r == HC!newRequest(client, q.target, q.options)
           took == HC!Retrieve(client, q.target, q.options, server)
           t == HC!exchange(client.interceptors, r, server, <<>>)
           body == HC!readResponseBody(t.reply.length, limit)
           told == HC!applyStatusHandlers(t.reply.status, client.handlers \o r.handlers)
<1>1. /\ limit \in -MaxInt - 1 .. MaxInt /\ IsList(client.interceptors) /\ IsList(server)
      /\ \A reply \in ToSet(server) :
           IF HC!IsFailed(reply) THEN reply.err \notin {"too large", "status"} ELSE reply.length \in Nat
  BY DEF AsksOfServer
<1>2. took = IF HC!IsFailed(r) THEN [HC!Nothing EXCEPT !.response = r.err]
             ELSE IF HC!IsFailed(t.reply) THEN [HC!Nothing EXCEPT !.response = t.reply.err, !.sent = t.sent]
             ELSE IF HC!IsFailed(body) THEN [HC!Nothing EXCEPT !.response = body.err, !.sent = t.sent]
             ELSE [sent |-> t.sent, response |-> told.err, status |-> t.reply.status,
                   length |-> body.length, called |-> told.called]
  BY Zenon DEF HC!Retrieve
<1>3. t \in Traffic(r, server) /\ SentRight(r, t.sent) /\ CameFrom(server, client.interceptors, t)
  BY <1>1, ExchangeIsRight
<1>4. told.err \in {"none", "status"} BY DEF HC!applyStatusHandlers
<1>5. \A e, s : /\ [HC!Nothing EXCEPT !.response = e, !.sent = s].sent = s
                /\ [HC!Nothing EXCEPT !.response = e, !.sent = s].response = e
                /\ [HC!Nothing EXCEPT !.response = e].sent = <<>>
  BY DEF HC!Nothing
<1> SUFFICES TookWhole(client, server, r, took) OBVIOUS
<1> HIDE DEF client, server, limit, r, took, t, body, told
<1>9. limit \in Int
  <2>1. MaxInt \in Nat BY WebAssumption
  <2>2. limit \in -MaxInt - 1 .. MaxInt BY <1>1
  <2> QED BY <2>1, <2>2
<1>10. Len(server) \in Nat /\ DOMAIN server = 1 .. Len(server)
  <2>1. IsList(server) BY <1>1
  <2> QED BY <2>1 DEF IsList
<1>6. CASE HC!IsFailed(r) BY <1>2, <1>5, <1>6 DEF TookWhole
<1>7. CASE ~HC!IsFailed(r) /\ HC!IsFailed(t.reply)
  <2>1. took.sent = t.sent /\ took.response = t.reply.err BY <1>2, <1>5, <1>7
  <2>2. t.reply.err \notin {"too large", "status", "none"}
    <3>1. t.reply \in Replies(server) BY <1>3 DEF Traffic
    <3>2. ~HC!IsFailed(HC!OwnReply) BY DEF HC!IsFailed, HC!OwnReply
    <3>3. HC!Failed("transport").err = "transport" /\ HC!Failed("length").err = "length" BY DEF HC!Failed
    <3>4. t.reply.err # "none" BY <1>7 DEF HC!IsFailed
    <3>5. t.reply \in ToSet(server) => t.reply.err \notin {"too large", "status"} BY <1>1, <1>7
    <3> QED BY <1>7, <3>1, <3>2, <3>3, <3>4, <3>5 DEF Replies
  <2> QED BY <1>3, <2>1, <2>2 DEF TookWhole, SentRight
<1>8. CASE ~HC!IsFailed(r) /\ ~HC!IsFailed(t.reply)
  <2> DEFINE Mine == t.reply = HC!OwnReply /\ Contains(client.interceptors, "reply")
             Came == t.sent # <<>> /\ Len(t.sent) \in 1 .. Len(server) /\ t.reply = server[Len(t.sent)]
  <2>1. Mine \/ Came BY <1>3, <1>8 DEF CameFrom
  <2>2. t.reply.length \in Nat
    <3>1. CASE Mine BY <3>1 DEF HC!OwnReply
    <3>2. CASE Came
      <4>1. t.reply \in ToSet(server)
        <5>1. t.reply = server[Len(t.sent)] /\ Len(t.sent) \in DOMAIN server BY <1>10, <3>2
        <5> HIDE DEF Came
        <5> QED BY <5>1 DEF ToSet
      <4> QED BY <1>1, <1>8, <4>1
    <3> QED BY <2>1, <3>1, <3>2
  <2>3. IF HC!IsFailed(body) THEN body.err = "too large" /\ limit >= 0 /\ t.reply.length > limit
        ELSE body.length = t.reply.length /\ (limit < 0 \/ t.reply.length <= limit)
    <3>1. limit # MaxInt BY DEF limit, client
    <3> QED BY <1>1, <2>2, <3>1, BodyIsRead DEF body
  <2>4. CASE HC!IsFailed(body)
    <3>1. took.sent = t.sent /\ took.response = "too large" BY <1>2, <1>5, <1>8, <2>3, <2>4
    <3>2. limit >= 0 /\ t.reply.length > limit BY <2>3, <2>4
    <3>3. Came
      <4>1. ~Mine
        <5> SUFFICES ASSUME Mine PROVE FALSE OBVIOUS
        <5>1. t.reply.length = 0 BY DEF HC!OwnReply
        <5> HIDE DEF Mine
        <5> QED BY <1>9, <3>2, <5>1
      <4> QED BY <2>1, <4>1
    <3>4. "too large" \notin {"none", "status"} OBVIOUS
    <3> QED BY <1>3, <3>1, <3>2, <3>3, <3>4 DEF TookWhole, SentRight, limit
  <2>5. CASE ~HC!IsFailed(body)
    <3>1. /\ took.sent = t.sent /\ took.response \in {"none", "status"} /\ took.status = t.reply.status
          /\ took.length = t.reply.length /\ (limit < 0 \/ took.length <= limit)
      BY <1>2, <1>4, <1>8, <2>3, <2>5
    <3>2. took.response # "too large" BY <3>1
    <3>3. ~Contains(client.interceptors, "reply") => t.reply = server[Len(t.sent)] BY <2>1
    <3> QED BY <1>3, <3>1, <3>2, <3>3 DEF TookWhole, SentRight, limit
  <2> QED BY <2>4, <2>5
<1> QED BY <1>6, <1>7, <1>8

\* What is asked of a body holds whatever else a behaviour is about.
LEMMA BodiesThroughout == SpecAll => []BodyInv
<1>1. InitAll => BodyInv BY BodyBegins DEF InitAll, InitBody
<1>2. BodyInv /\ [NextAll]_webvars => BodyInv'
  <2> SUFFICES ASSUME BodyInv, [NextAll]_webvars PROVE BodyInv' OBVIOUS
  <2>1. MB!Next \/ UNCHANGED mbvars
    BY DEF NextAll, webvars, Pipeline, Session, Static, Writing, Reading, Closing, Answer, MB!Next
  <2>2. UNCHANGED mbvars => UNCHANGED MB!vars BY DEF mbvars, MB!vars
  <2> QED BY <2>1, <2>2, BodyMoves
<1> QED BY <1>1, <1>2, PTL DEF SpecAll

\* What a client takes for a whole body is one, on the way out and on the way
\* back (multipart.go: CloseWithError, response.go: readResponseBody).
THEOREM WholeBodiesArrive == SpecAll => []BodiesArriveWhole
<1>1. BodyInv /\ AnswerInv => BodiesArriveWhole
  <2> SUFFICES ASSUME BodyInv, AnswerInv PROVE BodiesArriveWhole OBVIOUS
  <2>1. MB!WholeOrError BY DEF BodyInv, Sent, Whole, Ended, MB!WholeOrError, UpTo
  <2> SUFFICES ASSUME Asked("exchange"), question.client.limit # MaxInt
               PROVE  TookWhole(question.client, question.server,
                                HC!newRequest(question.client, question.target, question.options), answer.value)
    BY <2>1 DEF BodiesArriveWhole, TookWhole, Replied
  <2>2. question \in Questions /\ question.kind = "exchange" /\ answer = Answered(Reply(question))
    BY DEF AnswerInv, Asked, Asks
  <2>3. answer.value = HC!Retrieve(question.client, question.target, question.options, question.server)
    BY <2>2 DEF Answered, Reply
  <2>4. AsksOfServer(question) BY <2>2, WebAssumption
  <2> QED BY <2>3, <2>4, CallsAreWhole
<1> QED BY <1>1, BodiesThroughout, AnswersAreReplies, PTL

-----------------------------------------------------------------------------
\* The first of some numbers.
LEMMA FirstOfNumbers ==
  ASSUME NEW fit \in SUBSET Nat, fit # {}
  PROVE  RS!First(fit) \in fit /\ \A j \in fit : RS!First(fit) <= j
<1>1. \E m \in fit : \A k \in fit : m <= k BY LeastNumber
<1> QED BY <1>1 DEF RS!First

\* A search finds the first that can, if there is one.
LEMMA FirstConverter ==
  ASSUME NEW S, NEW s \in Seq(S), NEW use, NEW x, NEW m
  PROVE  LET c == RS!converterFor(s, use, x, m)
         IN  \/ c = "none" /\ \A i \in 1 .. Len(s) : ~RS!Can(use, s[i], x, m)
             \/ \E i \in 1 .. Len(s) : /\ c = s[i] /\ RS!Can(use, s[i], x, m)
                                       /\ \A j \in 1 .. Len(s) : j < i => ~RS!Can(use, s[j], x, m)
<1> DEFINE fit == {i \in DOMAIN s : RS!Can(use, s[i], x, m)}
<1>1. DOMAIN s = 1 .. Len(s) /\ Len(s) \in Nat OBVIOUS
<1>2. RS!converterFor(s, use, x, m) = IF fit = {} THEN "none" ELSE s[RS!First(fit)]
  BY DEF RS!converterFor
<1>3. CASE fit = {} BY <1>1, <1>2, <1>3
<1>4. CASE fit # {}
  <2>1. fit \in SUBSET Nat BY <1>1
  <2>2. RS!First(fit) \in fit /\ \A j \in fit : RS!First(fit) <= j
    <3> HIDE DEF fit
    <3> QED BY <1>4, <2>1, FirstOfNumbers
  <2> DEFINE i == RS!First(fit)
  <2>3. i \in 1 .. Len(s) /\ RS!Can(use, s[i], x, m) BY <1>1, <2>2
  <2>4. ASSUME NEW j \in 1 .. Len(s), j < i, RS!Can(use, s[j], x, m) PROVE FALSE
    <3>1. j \in fit BY <1>1, <2>4
    <3>2. i <= j BY <2>2, <3>1
    <3> HIDE DEF i
    <3> QED BY <2>3, <2>4, <3>2
  <2>5. RS!converterFor(s, use, x, m) = s[i] BY <1>2, <1>4
  <2> HIDE DEF i, fit
  <2> QED BY <2>3, <2>4, <2>5
<1> QED BY <1>3, <1>4

\* Behind other converters a search finds one of those first, if one of them can.
LEMMA FirstBehind ==
  ASSUME NEW S, NEW s \in Seq(S), NEW t \in Seq(S), NEW use, NEW x, NEW m
  PROVE  LET c == RS!converterFor(s \o t, use, x, m)
             Fits(d) == RS!Can(use, d, x, m)
         IN  \/ c = "none" /\ \A d \in ToSet(s) \cup ToSet(t) : ~Fits(d)
             \/ c \in ToSet(s) /\ Fits(c)
             \/ c \in ToSet(t) /\ Fits(c) /\ \A d \in ToSet(s) : ~Fits(d)
<1> DEFINE u == s \o t
           c == RS!converterFor(u, use, x, m)
<1>1. u \in Seq(S) /\ Len(u) = Len(s) + Len(t) /\ Len(s) \in Nat /\ Len(t) \in Nat OBVIOUS
<1>2. /\ \A i \in 1 .. Len(s) : u[i] = s[i] /\ i \in 1 .. Len(u) /\ s[i] \in ToSet(s)
      /\ \A i \in 1 .. Len(t) : u[i + Len(s)] = t[i] /\ i + Len(s) \in 1 .. Len(u)
      /\ \A i \in 1 .. Len(u) : i <= Len(s) \/ u[i] \in ToSet(t)
  BY DEF ToSet
<1>3. /\ \A d \in ToSet(s) : \E i \in 1 .. Len(s) : d = s[i]
      /\ \A d \in ToSet(t) : \E i \in 1 .. Len(t) : d = t[i]
  BY DEF ToSet
<1>4. \/ c = "none" /\ \A i \in 1 .. Len(u) : ~RS!Can(use, u[i], x, m)
      \/ \E i \in 1 .. Len(u) : /\ c = u[i] /\ RS!Can(use, u[i], x, m)
                                /\ \A j \in 1 .. Len(u) : j < i => ~RS!Can(use, u[j], x, m)
  <2> HIDE DEF u
  <2> QED BY <1>1, FirstConverter
<1> HIDE DEF u, c
<1>5. CASE c = "none" /\ \A i \in 1 .. Len(u) : ~RS!Can(use, u[i], x, m)
  <2>1. \A d \in ToSet(s) : ~RS!Can(use, d, x, m) BY <1>2, <1>3, <1>5
  <2>2. \A d \in ToSet(t) : ~RS!Can(use, d, x, m)
    <3> SUFFICES ASSUME NEW d \in ToSet(t) PROVE ~RS!Can(use, d, x, m) OBVIOUS
    <3>1. PICK i \in 1 .. Len(t) : d = t[i] BY <1>3
    <3> QED BY <1>2, <1>5, <3>1
  <2> QED BY <1>5, <2>1, <2>2 DEF c, u
<1>6. ASSUME NEW i \in 1 .. Len(u), c = u[i], RS!Can(use, u[i], x, m),
             \A j \in 1 .. Len(u) : j < i => ~RS!Can(use, u[j], x, m)
      PROVE  \/ c \in ToSet(s) /\ RS!Can(use, c, x, m)
             \/ c \in ToSet(t) /\ RS!Can(use, c, x, m) /\ \A d \in ToSet(s) : ~RS!Can(use, d, x, m)
  <2>1. CASE i <= Len(s)
    <3>1. i \in 1 .. Len(s) BY <1>1, <2>1
    <3> QED BY <1>2, <1>6, <3>1
  <2>2. CASE ~(i <= Len(s))
    <3>1. c \in ToSet(t) BY <1>2, <1>6, <2>2
    <3>2. ASSUME NEW d \in ToSet(s) PROVE ~RS!Can(use, d, x, m)
      <4>1. PICK j \in 1 .. Len(s) : d = s[j] BY <1>3
      <4>2. j \in 1 .. Len(u) /\ u[j] = d BY <1>2, <4>1
      <4>3. j < i BY <1>1, <2>2
      <4> QED BY <1>6, <4>2, <4>3
    <3> QED BY <1>6, <3>1, <3>2
  <2> QED BY <2>1, <2>2
<1>7. CASE \E i \in 1 .. Len(u) : /\ c = u[i] /\ RS!Can(use, u[i], x, m)
                                  /\ \A j \in 1 .. Len(u) : j < i => ~RS!Can(use, u[j], x, m)
  BY <1>6, <1>7 DEF c, u
<1> QED BY <1>4, <1>5, <1>7

OffersOwn(s, use, x) ==
  \A i \in 1 .. Len(s) : RS!Can(use, s[i], x, RS!MediaType(s[i])) =>
    \E k \in DOMAIN RS!candidateMediaTypes(s, use, x, <<>>) :
      RS!candidateMediaTypes(s, use, x, <<>>)[k] = RS!MediaType(s[i])

\* Without declared types, whatever a converter can take of its own is a candidate.
LEMMA OwnTypesAreCandidates ==
  ASSUME NEW S, NEW s \in Seq(S), NEW use, NEW x,
         \A c \in S : RS!Can(use, c, x, RS!MediaType(c)) => RS!MediaType(c) \in RS!Known
  PROVE  OffersOwn(s, use, x)
<1> DEFINE n == Len(s)
           X == Seq(RS!Known)
           Fit(c) == RS!Can(use, c, x, RS!MediaType(c))
           Turn(out, c) == IF Fit(c) THEN RS!Meet(out, RS!MediaType(c)) ELSE out
           Fits(h) == h = [T \in SUBSET DOMAIN s |->
                             IF T = {} THEN <<>> ELSE Turn(h[T \ {Max(T)}], s[Max(T)])]
           step == [p \in X \X (1 .. n) |-> Turn(p[1], s[p[2]])]
           Has(out, m) == \E k \in DOMAIN out : out[k] = m
<1>1. n \in Nat /\ DOMAIN s = 1 .. n /\ \A i \in 1 .. n : s[i] \in S OBVIOUS
<1>2. <<>> \in X OBVIOUS
<1>3. ASSUME NEW out \in X, NEW m \in RS!Known
      PROVE  /\ RS!Meet(out, m) \in X /\ Has(RS!Meet(out, m), m)
             /\ \A o \in RS!Known : Has(out, o) => Has(RS!Meet(out, m), o)
  <2>1. m # ""
    BY DEF RS!Known, RS!Json, RS!Problem, RS!Text, RS!Html, RS!Octets, RS!FormData, RS!Xml
  <2>2. CASE RS!Contains(out, m)
    <3>1. Has(out, m) BY <2>2 DEF RS!Contains
    <3> QED BY <2>2, <3>1 DEF RS!Meet
  <2>3. CASE ~RS!Contains(out, m)
    <3>1. RS!Meet(out, m) = Append(out, m) BY <2>1, <2>3 DEF RS!Meet
    <3> HIDE DEF RS!Known
    <3>2. Append(out, m) \in X OBVIOUS
    <3>3. Has(Append(out, m), m)
      <4>1. Len(out) + 1 \in DOMAIN Append(out, m) /\ Append(out, m)[Len(out) + 1] = m OBVIOUS
      <4> QED BY <4>1
    <3>4. ASSUME NEW o \in RS!Known, Has(out, o) PROVE Has(Append(out, m), o)
      <4>1. PICK k \in DOMAIN out : out[k] = o BY <3>4
      <4>2. k \in DOMAIN Append(out, m) /\ Append(out, m)[k] = o BY <4>1
      <4> QED BY <4>2
    <3> HIDE DEF Has
    <3> QED BY <3>1, <3>2, <3>3, <3>4
  <2> QED BY <2>2, <2>3
<1>4. ASSUME NEW out \in X, NEW i \in 1 .. n PROVE Turn(out, s[i]) \in X
  <2>1. s[i] \in S BY <1>1
  <2> HIDE DEF n, X, Has
  <2> QED BY <1>3, <2>1
<1>5. step \in [X \X (1 .. n) -> X]
  <2> HIDE DEF Turn, n, X
  <2> QED BY <1>4
<1>6. \E f : Fits(f)
  <2> HIDE DEF X, n, step, Fits
  <2>1. PICK f : /\ f = [T \in SUBSET (1 .. n) |-> f[T]] /\ Solves(f, n, X, <<>>, step)
                 /\ \A T \in SUBSET (1 .. n) : T # {} => f[T \ {Max(T)}] \in X /\ Max(T) \in 1 .. n
    BY <1>1, <1>2, <1>5, FoldSolved
  <2> HIDE DEF Turn
  <2>2. \A out \in X, i \in 1 .. n : step[<<out, i>>] = Turn(out, s[i]) BY DEF step
  <2>3. ASSUME NEW T \in SUBSET (1 .. n), T # {} PROVE f[T] = Turn(f[T \ {Max(T)}], s[Max(T)])
    BY <2>1, <2>2, <2>3 DEF Solves
  <2>4. f[{}] = <<>> BY <2>1 DEF Solves
  <2> QED BY <1>1, <2>1, <2>3, <2>4 DEF Fits
<1> DEFINE c == CHOOSE h : Fits(h)
<1>7. Fits(c)
  <2> HIDE DEF Fits
  <2> QED BY <1>6
<1>8. RS!candidateMediaTypes(s, use, x, <<>>) = c[DOMAIN s]
  <2>1. RS!cleanMediaTypes(<<>>) = <<>>
    <3> DEFINE Clean(h) == h = [T \in SUBSET DOMAIN (<<>>) |->
                                  IF T = {} THEN <<>> ELSE RS!Meet(h[T \ {Max(T)}], <<>>[Max(T)])]
    <3>1. DOMAIN (<<>>) = {} OBVIOUS
    <3>2. \A T \in SUBSET {} : T = {} OBVIOUS
    <3>3. Clean([T \in SUBSET {} |-> <<>>]) BY <3>1, <3>2
    <3>4. Clean(CHOOSE h : Clean(h))
      <4> HIDE DEF Clean
      <4> QED BY <3>3
    <3>5. RS!cleanMediaTypes(<<>>) = (CHOOSE h : Clean(h))[DOMAIN (<<>>)]
      BY Zenon DEF RS!cleanMediaTypes, RS!FoldLeft, RS!MapThenFoldSet, RS!Max, Max
    <3> DEFINE d == CHOOSE h : Clean(h)
    <3> HIDE DEF d
    <3>6. d[{}] = <<>> BY <3>1, <3>4 DEF d
    <3> QED BY <3>1, <3>5, <3>6 DEF d
  <2>2. RS!candidateMediaTypes(s, use, x, <<>>) =
          RS!FoldLeft(LAMBDA out, e : IF RS!Can(use, e, x, RS!MediaType(e)) THEN RS!Meet(out, RS!MediaType(e)) ELSE out, <<>>, s)
    BY <2>1, Zenon DEF RS!candidateMediaTypes
  <2> QED BY <2>2, Zenon DEF RS!FoldLeft, RS!MapThenFoldSet, RS!Max, Max
<1> HIDE DEF c
<1>9. Solves(c, n, X, <<>>, step)
  <2> HIDE DEF Turn, n, X
  <2>1. c[{}] = <<>> BY <1>7
  <2>2. ASSUME NEW T \in SUBSET (1 .. n), T # {}, c[T \ {Max(T)}] \in X
        PROVE  c[T] = step[<<c[T \ {Max(T)}], Max(T)>>]
    <3>1. Max(T) \in 1 .. n BY <1>1, <2>2, Greatest
    <3> QED BY <1>1, <1>7, <2>2, <3>1
  <2> HIDE DEF step
  <2> QED BY <2>1, <2>2 DEF Solves
<1>10. PICK run : Loop(run, n, X, <<>>, step) /\ c[1 .. n] = run[n]
  <2> HIDE DEF X, n, step
  <2>1. n \in Nat BY <1>1
  <2>2. RunsThrough(c, n, X, <<>>, step) BY <1>2, <1>5, <1>9, <2>1, FoldRuns
  <2> QED BY <2>2 DEF RunsThrough
<1> DEFINE Good == {i \in 0 .. n : \A j \in 1 .. i : Fit(s[j]) => Has(run[i], RS!MediaType(s[j]))}
<1>11. 0 \in Good BY <1>1
<1>12. ASSUME NEW i \in 1 .. n, i - 1 \in Good PROVE i \in Good
  <2>1. run[i - 1] \in X /\ run[i] = Turn(run[i - 1], s[i])
    <3> HIDE DEF Turn, X, n, Good
    <3>1. i - 1 \in 0 .. n BY <1>1
    <3>2. run[i - 1] \in X BY <1>10, <3>1 DEF Loop
    <3>3. run[i] = step[<<run[i - 1], i>>] BY <1>10 DEF Loop
    <3> QED BY <3>2, <3>3
  <2>2. ASSUME NEW j \in 1 .. i, Fit(s[j]) PROVE Has(run[i], RS!MediaType(s[j]))
    <3>1. s[j] \in S /\ s[i] \in S BY <1>1
    <3>2. RS!MediaType(s[j]) \in RS!Known BY <2>2, <3>1
    <3>3. j # i => Has(run[i - 1], RS!MediaType(s[j]))
      <4> SUFFICES ASSUME j # i PROVE Has(run[i - 1], RS!MediaType(s[j])) OBVIOUS
      <4>1. j \in 1 .. (i - 1) OBVIOUS
      <4> QED BY <1>12, <2>2, <4>1
    <3> HIDE DEF Has, X, n, Good
    <3>4. CASE Fit(s[i])
      <4>1. RS!MediaType(s[i]) \in RS!Known BY <3>1, <3>4
      <4>2. run[i] = RS!Meet(run[i - 1], RS!MediaType(s[i])) BY <2>1, <3>4
      <4>3. CASE j = i BY <1>3, <2>1, <4>1, <4>2, <4>3
      <4>4. CASE j # i BY <1>3, <2>1, <3>2, <3>3, <4>1, <4>2, <4>4
      <4> QED BY <4>3, <4>4
    <3>5. CASE ~Fit(s[i])
      <4>1. run[i] = run[i - 1] /\ j # i BY <2>1, <2>2, <3>5
      <4> QED BY <3>3, <4>1
    <3> QED BY <3>4, <3>5
  <2> HIDE DEF n, Has
  <2> QED BY <1>1, <2>2
<1>13. n \in Good
  <2>1. n \in 0 .. n BY <1>1
  <2> HIDE DEF Good, n
  <2> QED BY <1>1, <1>11, <1>12, <2>1, Turns
<1> HIDE DEF X, step
<1> QED BY <1>1, <1>8, <1>10, <1>13 DEF OffersOwn

OwnConverters == {"ownJson", "xml"}
ReadersOfPackage == {"string", "bytes", "form", "json"}
WritersOfPackage == {"bytes", "string", "reader", "form", "json"}
ValueKinds == {"object", "string", "bytes", "form"}

\* A converter that a search finds, among those of an application or behind them.
Found(use, c, own, package, x, m) ==
  /\ RS!Can(use, c, x, m)
  /\ \/ c \in own
     \/ c \in package /\ \A d \in own : ~RS!Can(use, d, x, m)
Agreed(own, x, m, w) ==
  /\ m \in RS!Known
  /\ \E r \in ReadersOfPackage \cup own : RS!Can("read", r, x, m)
  /\ \A r : Found("read", r, own, ReadersOfPackage, x, m) =>
         RS!Codec(r) = RS!Codec(w) /\ RS!Can("read", r, x, RS!MediaType(r))

\* The converter that writes a value for a type and the one that reads it agree,
\* when the ones of an application go before the others on both sides.
LEMMA ConvertersAgree ==
  ASSUME NEW own \in SUBSET OwnConverters, NEW x \in ValueKinds, NEW m,
         ~(x = "bytes" /\ m \in RS!JsonTypes),
         NEW w, Found("write", w, own, WritersOfPackage, x, m)
  PROVE  Agreed(own, x, m, w)
<1> USE DEF RS!JsonTypes, RS!textMediaTypes, RS!Known, RS!Json, RS!Problem, RS!Text, RS!Html, RS!Octets, RS!FormData, RS!Xml
<1>0. /\ \A c, y, t : RS!Can("write", c, y, t) = RS!CanWrite(c, y, t)
      /\ \A c, y, t : RS!Can("read", c, y, t) = RS!CanRead(c, y, t)
  BY DEF RS!Can
<1>1. w \in {"ownJson", "xml", "bytes", "string", "reader", "form", "json"}
  BY DEF Found, OwnConverters, WritersOfPackage
<1>2. /\ w = "json" => m \in {RS!Json, RS!Problem}
      /\ w = "string" => x = "string" /\ m = RS!Text
      /\ w = "bytes" => x = "bytes" /\ m = RS!Octets
      /\ w # "reader"
      /\ w = "form" => x = "form" /\ m = RS!FormData
      /\ w = "ownJson" => x = "object" /\ m = RS!Json
      /\ w = "xml" => x = "object" /\ m = RS!Xml
  <2>1. RS!CanWrite(w, x, m) BY <1>0 DEF Found
  <2> QED BY <1>1, <2>1 DEF RS!CanWrite, ValueKinds
<1>3. m \in RS!Known BY <1>1, <1>2
<1>4. \E r \in ReadersOfPackage \cup own : RS!CanRead(r, x, m)
  <2>1. CASE w = "json"
    <3>1. RS!CanRead("json", x, m) BY <1>2, <2>1 DEF RS!CanRead, ValueKinds
    <3> QED BY <3>1 DEF ReadersOfPackage
  <2>2. CASE w \in {"string", "bytes", "form"}
    <3>1. RS!CanRead(w, x, m) BY <1>2, <2>2 DEF RS!CanRead
    <3> QED BY <2>2, <3>1 DEF ReadersOfPackage
  <2>3. CASE w \in {"ownJson", "xml"}
    <3>1. RS!CanRead(w, x, m) BY <1>2, <2>3 DEF RS!CanRead
    <3> QED BY <2>3, <3>1 DEF Found, WritersOfPackage
  <2> QED BY <1>1, <1>2, <2>1, <2>2, <2>3
<1>5. ASSUME NEW r, Found("read", r, own, ReadersOfPackage, x, m)
      PROVE  RS!Codec(r) = RS!Codec(w) /\ RS!CanRead(r, x, RS!MediaType(r))
  <2>1. r \in {"ownJson", "xml", "bytes", "string", "form", "json"}
    BY <1>5 DEF Found, OwnConverters, ReadersOfPackage
  <2>2. /\ r = "json" => m \in {RS!Json, RS!Problem}
        /\ r = "string" => x = "string" /\ m \in {RS!Text, RS!Html}
        /\ r = "bytes" => x = "bytes"
        /\ r = "form" => x = "form" /\ m = RS!FormData
        /\ r = "ownJson" => x = "object" /\ m = RS!Json
        /\ r = "xml" => x = "object" /\ m = RS!Xml
    <3>1. RS!CanRead(r, x, m) BY <1>0, <1>5 DEF Found
    <3> QED BY <2>1, <3>1 DEF RS!CanRead
  <2>3. RS!CanRead(r, x, RS!MediaType(r)) BY <2>1, <2>2 DEF RS!CanRead, RS!MediaType, ValueKinds
  <2>4. x = "object" /\ m = RS!Json /\ "ownJson" \in own => r = "ownJson" /\ w = "ownJson"
    <3> SUFFICES ASSUME x = "object", m = RS!Json, "ownJson" \in own PROVE r = "ownJson" /\ w = "ownJson"
      OBVIOUS
    <3>1. RS!CanRead("ownJson", x, m) /\ RS!CanWrite("ownJson", x, m) BY DEF RS!CanRead, RS!CanWrite
    <3>2. r \in own /\ w \in own BY <1>0, <1>5, <3>1 DEF Found
    <3> QED BY <1>2, <2>2, <3>2 DEF OwnConverters
  <2>5. "ownJson" \notin own => r # "ownJson" /\ w # "ownJson"
    BY <1>5 DEF Found, WritersOfPackage, ReadersOfPackage
  <2>6. CASE r = "ownJson" BY <2>2, <2>3, <2>4, <2>5, <2>6
  <2>7. CASE w = "ownJson" BY <1>2, <2>3, <2>4, <2>5, <2>7
  <2>8. CASE r # "ownJson" /\ w # "ownJson"
    <3>1. r = w BY <1>1, <1>2, <2>1, <2>2, <2>8
    <3> QED BY <2>3, <3>1
  <2> QED BY <2>3, <2>6, <2>7, <2>8
<1> HIDE DEF RS!JsonTypes, RS!textMediaTypes, RS!Known, RS!Json, RS!Problem, RS!Text, RS!Html, RS!Octets, RS!FormData, RS!Xml
<1> QED BY <1>0, <1>3, <1>4, <1>5 DEF Agreed

Registered_(q) == ApplyConfigurers(q.configurers)
BodyOf(w, q) == [codec |-> RS!Codec(w), value |-> q.value, size |-> q.size]
Back(q, m, w) ==
  RS!Read(currentMessageReader(Registered_(q)),
          [target |-> q.value, declared |-> <<>>, type |-> m, body |-> BodyOf(w, q), failing |-> {}])

\* The lists of the package.
LEMMA ConvertersOfPackage ==
  /\ DefaultWriter \in Seq(WritersOfPackage) /\ ToSet(DefaultWriter) = WritersOfPackage
  /\ DefaultReader.converters \in Seq(ReadersOfPackage) /\ ToSet(DefaultReader.converters) = ReadersOfPackage
<1>1. /\ DefaultWriter \in Seq(WritersOfPackage)
      /\ \A i \in DOMAIN DefaultWriter : DefaultWriter[i] \in WritersOfPackage
      /\ DefaultWriter[1] = "bytes" /\ DefaultWriter[2] = "string" /\ DefaultWriter[3] = "reader"
      /\ DefaultWriter[4] = "form" /\ DefaultWriter[5] = "json" /\ DOMAIN DefaultWriter = 1 .. 5
  BY DEF DefaultWriter, WritersOfPackage
<1>2. ToSet(DefaultWriter) = WritersOfPackage
  <2>1. {1, 2, 3, 4, 5} \subseteq DOMAIN DefaultWriter BY <1>1
  <2> HIDE DEF DefaultWriter
  <2> QED BY <1>1, <2>1 DEF ToSet, WritersOfPackage
<1> DEFINE d == DefaultReader.converters
<1>3. /\ d \in Seq(ReadersOfPackage)
      /\ \A i \in DOMAIN d : d[i] \in ReadersOfPackage
      /\ d[1] = "string" /\ d[2] = "bytes" /\ d[3] = "form" /\ d[4] = "json" /\ DOMAIN d = 1 .. 4
  BY DEF DefaultReader, ReadersOfPackage
<1>4. ToSet(d) = ReadersOfPackage
  <2>1. {1, 2, 3, 4} \subseteq DOMAIN d BY <1>3
  <2> HIDE DEF d
  <2> QED BY <1>3, <2>1 DEF ToSet, ReadersOfPackage
<1> QED BY <1>1, <1>2, <1>3, <1>4

\* Who reads and who writes for a question, registered converters first.
LEMMA ConvertersOfQuestion ==
  ASSUME NEW q, AsksOfConverters(q)
  PROVE  \E read, written \in Seq(OwnConverters) :
           /\ ToSet(read) = ToSet(written) /\ ToSet(read) \in SUBSET OwnConverters
           /\ currentMessageWriter(Registered_(q)) = written \o DefaultWriter
           /\ currentMessageReader(Registered_(q)).converters = read \o DefaultReader.converters
<1> DEFINE r == Registered_(q)
           read == Ids(r.readConverters)
           written == Ids(r.writeConverters)
<1>1. /\ r.reader = None /\ r.writer = None /\ read \in Seq(ToSet(read)) /\ written \in Seq(ToSet(written))
      /\ ToSet(read) = ToSet(written) /\ ToSet(read) \in SUBSET OwnConverters
  BY DEF AsksOfConverters, IsList, Registered_, OwnConverters
<1>2. currentMessageWriter(r) = written \o DefaultWriter BY <1>1 DEF currentMessageWriter
<1>3. currentMessageReader(r).converters = read \o DefaultReader.converters
  <2>1. CASE r.readConverters = <<>>
    <3>1. read = <<>> BY <2>1 DEF Ids
    <3>2. DefaultReader.converters \in Seq(ReadersOfPackage) BY ConvertersOfPackage
    <3>3. currentMessageReader(r).converters = DefaultReader.converters
      BY <1>1, <2>1 DEF currentMessageReader, DefaultReader
    <3> QED BY <3>1, <3>2, <3>3
  <2>2. CASE r.readConverters # <<>> BY <1>1, <2>2 DEF currentMessageReader
  <2> QED BY <2>1, <2>2
<1>4. read \in Seq(OwnConverters) /\ written \in Seq(OwnConverters)
  <2> HIDE DEF read, written, OwnConverters
  <2> QED BY <1>1
<1> HIDE DEF read, written
<1> QED BY <1>1, <1>2, <1>3, <1>4 DEF r

\* A body that was written for a type is read back as the value it was written for.
LEMMA ReadsBack ==
  ASSUME NEW q, AsksOfConverters(q), q.value # "reader", q.size <= DefaultMaxBytes,
         NEW m, ~(q.value = "bytes" /\ m \in RS!JsonTypes), NEW w,
         w = RS!converterFor(currentMessageWriter(Registered_(q)), "write", q.value, m), w # "none"
  PROVE  Back(q, m, w).value = q.value
<1> DEFINE x == q.value
           reads == currentMessageReader(Registered_(q))
           converters == reads.converters
           body == BodyOf(w, q)
           asked_ == [target |-> x, declared |-> <<>>, type |-> m, body |-> body, failing |-> {}]
           r == RS!converterFor(converters, "read", x, m)
           candidates == RS!candidateMediaTypes(converters, "read", x, <<>>)
<1>1. x \in ValueKinds /\ q.size \in Nat /\ DefaultMaxBytes \in Nat
  BY WebAssumption DEF AsksOfConverters, ValueKinds
<1>2. PICK read \in Seq(OwnConverters), written \in Seq(OwnConverters) :
        /\ ToSet(read) = ToSet(written) /\ ToSet(read) \in SUBSET OwnConverters
        /\ currentMessageWriter(Registered_(q)) = written \o DefaultWriter
        /\ converters = read \o DefaultReader.converters
  BY ConvertersOfQuestion
<1> DEFINE own == ToSet(read)
           All == OwnConverters \cup WritersOfPackage \cup ReadersOfPackage
<1> HIDE DEF x, reads, converters, own
<1>3. Found("write", w, own, WritersOfPackage, x, m)
  <2>1. written \in Seq(All) /\ DefaultWriter \in Seq(All) BY ConvertersOfPackage
  <2> HIDE DEF All
  <2>2. \/ w \in ToSet(written) /\ RS!Can("write", w, x, m)
        \/ /\ w \in ToSet(DefaultWriter) /\ RS!Can("write", w, x, m)
           /\ \A d \in ToSet(written) : ~RS!Can("write", d, x, m)
    BY <1>2, <2>1, FirstBehind DEF x
  <2> QED BY <1>2, <2>2, ConvertersOfPackage DEF own, Found
<1>4. Agreed(own, x, m, w)
  <2>1. own \in SUBSET OwnConverters BY <1>2 DEF own
  <2>2. ~(x = "bytes" /\ m \in RS!JsonTypes) BY DEF x
  <2> QED BY <1>1, <1>3, <2>1, <2>2, ConvertersAgree
<1>5. \A d, t : RS!Can("read", d, x, t) = RS!CanRead(d, x, t) BY DEF RS!Can
<1>6. Found("read", r, own, ReadersOfPackage, x, m) /\ r # "none"
  <2>1. read \in Seq(All) /\ DefaultReader.converters \in Seq(All) BY ConvertersOfPackage
  <2> HIDE DEF All, r
  <2>2. \/ r = "none" /\ \A d \in ToSet(read) \cup ToSet(DefaultReader.converters) : ~RS!Can("read", d, x, m)
        \/ r \in ToSet(read) /\ RS!Can("read", r, x, m)
        \/ /\ r \in ToSet(DefaultReader.converters) /\ RS!Can("read", r, x, m)
           /\ \A d \in ToSet(read) : ~RS!Can("read", d, x, m)
    BY <1>2, <2>1, FirstBehind DEF r
  <2>3. r \in own \cup ReadersOfPackage => r # "none"
    BY <1>2 DEF own, OwnConverters, ReadersOfPackage
  <2>4. \E c \in ReadersOfPackage \cup own : RS!Can("read", c, x, m) BY <1>4 DEF Agreed
  <2> QED BY <2>2, <2>3, <2>4, ConvertersOfPackage DEF own, Found
<1>7. RS!Codec(r) = RS!Codec(w) /\ RS!Can("read", r, x, RS!MediaType(r))
  <2> HIDE DEF r
  <2> QED BY <1>4, <1>6 DEF Agreed
<1>8. RS!contentTypeAllowed(converters, x, m, candidates)
  <2> DEFINE S == OwnConverters \cup ReadersOfPackage
  <2>1. converters \in Seq(S) BY <1>2, ConvertersOfPackage
  <2>2. \A c \in S : RS!MediaType(c) \in RS!Known
    BY DEF OwnConverters, ReadersOfPackage, RS!MediaType, RS!Known, RS!Json, RS!Text, RS!Octets, RS!FormData, RS!Xml
  <2>3. OffersOwn(converters, "read", x)
    <3>1. \A c \in S : RS!Can("read", c, x, RS!MediaType(c)) => RS!MediaType(c) \in RS!Known BY <2>2
    <3> HIDE DEF S
    <3> QED BY <2>1, <3>1, OwnTypesAreCandidates
  <2>4. PICK i \in 1 .. Len(converters) : converters[i] = r
    <3> HIDE DEF S
    <3>1. \/ r = "none" /\ \A i \in 1 .. Len(converters) : ~RS!Can("read", converters[i], x, m)
          \/ \E i \in 1 .. Len(converters) : r = converters[i]
      BY <2>1, FirstConverter
    <3> QED BY <1>6, <3>1
  <2> HIDE DEF candidates, r
  <2>6. PICK k \in DOMAIN candidates : candidates[k] = RS!MediaType(r)
    BY <1>7, <2>3, <2>4 DEF OffersOwn, candidates
  <2>7. i \in DOMAIN converters BY <2>1, <2>4
  <2>8. RS!CanRead(r, x, m) /\ RS!CanRead(r, x, RS!MediaType(r)) BY <1>5, <1>6, <1>7 DEF Found
  <2> QED BY <2>4, <2>6, <2>7, <2>8 DEF RS!contentTypeAllowed
<1>9. RS!Read(reads, asked_) = RS!readWith(reads, asked_, m)
  <2>1. x # "nil" BY <1>1 DEF ValueKinds
  <2>2. m # ""
    BY <1>4 DEF Agreed, RS!Known, RS!Json, RS!Problem, RS!Text, RS!Html, RS!Octets, RS!FormData, RS!Xml
  <2> HIDE DEF r, candidates
  <2> QED BY <1>8, <2>1, <2>2 DEF RS!Read, converters, candidates
<1>10. RS!ReadBody(r, x, body) = x
  <2>1. RS!readBoundedBody(body) = "ok" BY <1>1 DEF RS!readBoundedBody, BodyOf
  <2>2. body.codec = RS!Codec(r) /\ body.value = x BY <1>7 DEF BodyOf, x
  <2> HIDE DEF r, body
  <2> QED BY <2>1, <2>2 DEF RS!ReadBody
<1>11. RS!readWith(reads, asked_, m).value = x
  <2>1. RS!Advised(reads.advices, {}).ok BY DEF RS!Advised
  <2>2. x \notin {"large", "broken"} BY <1>1 DEF ValueKinds
  <2>3. RS!converterFor(reads.converters, "read", asked_.target, m) = r BY DEF converters
  <2>4. RS!ReadBody(r, asked_.target, asked_.body) = x BY <1>10
  <2>5. asked_.failing = {} OBVIOUS
  <2> HIDE DEF r, asked_
  <2> QED BY <1>6, <2>1, <2>2, <2>3, <2>4, <2>5 DEF RS!readWith
<1> QED BY <1>9, <1>11 DEF Back, x, reads

\* So is every answer about a value that is written and read.
LEMMA MessagesComeBack ==
  ASSUME NEW q, AsksOfConverters(q), q.value # "reader", q.size <= DefaultMaxBytes
  PROVE  \A m \in AskMessage(q) :
           m.status = 200 /\ ~(q.value = "bytes" /\ m.type \in RS!JsonTypes) => m.back = q.value
<1> DEFINE r == Registered_(q)
           found(t) == RS!converterFor(currentMessageWriter(r), "write", q.value, t)
<1>1. ASSUME NEW w \in RS!Write(currentMessageWriter(r), q), w.status = 200
      PROVE  found(w.type) # "none" /\ w.body = BodyOf(found(w.type), q)
  <2>1. \/ w = RS!Written(406) \/ w = RS!Written(415)
        \/ \E t : /\ found(t) # "none"
                 /\ w = [status |-> RS!normalizeStatus(q.status, 200), type |-> t, body |-> BodyOf(found(t), q)]
    BY DEF RS!Write, BodyOf
  <2>2. RS!Written(406).status = 406 /\ RS!Written(415).status = 415 BY DEF RS!Written
  <2>3. PICK t : /\ found(t) # "none"
                 /\ w = [status |-> RS!normalizeStatus(q.status, 200), type |-> t, body |-> BodyOf(found(t), q)]
    BY <1>1, <2>1, <2>2
  <2>4. w.type = t /\ w.body = BodyOf(found(t), q) BY <2>3
  <2> QED BY <2>3, <2>4
<1>2. SUFFICES ASSUME NEW m \in AskMessage(q), m.status = 200,
                      ~(q.value = "bytes" /\ m.type \in RS!JsonTypes)
               PROVE  m.back = q.value
  OBVIOUS
<1>3. PICK w \in RS!Write(currentMessageWriter(r), q) :
        m = [status |-> w.status, type |-> w.type,
             back |-> RS!Read(currentMessageReader(r),
                        [target |-> q.value, declared |-> <<>>, type |-> w.type, body |-> w.body, failing |-> {}]).value]
  BY DEF AskMessage, Registered_
<1>4. w.status = 200 /\ m.type = w.type BY <1>2, <1>3
<1>5. found(w.type) # "none" /\ w.body = BodyOf(found(w.type), q) BY <1>1, <1>4
<1>6. m.back = Back(q, w.type, found(w.type)).value BY <1>3, <1>5 DEF Back
<1>7. ~(q.value = "bytes" /\ w.type \in RS!JsonTypes) BY <1>2, <1>4
<1> QED BY <1>5, <1>6, <1>7, ReadsBack

\* What one program wrote for a value another reads back as it, whatever type
\* was negotiated (registry_runtime.go: currentMessageReader and -Writer).
THEOREM ValuesComeBack == SpecAll => []WrittenIsReadBack
<1>1. AnswerInv => WrittenIsReadBack
  <2> SUFFICES ASSUME AnswerInv, Asked("message"), question.value # "reader", question.size <= DefaultMaxBytes
               PROVE  \A m \in answer.value :
                        m.status = 200 /\ ~(question.value = "bytes" /\ m.type \in RS!JsonTypes) => m.back = question.value
    BY DEF WrittenIsReadBack
  <2>1. question \in Questions /\ question.kind = "message" /\ answer = Answered(Reply(question))
    BY DEF AnswerInv, Asked, Asks
  <2>2. answer.value = AskMessage(question) BY <2>1 DEF Answered, Reply
  <2>3. AsksOfConverters(question) BY <2>1, WebAssumption
  <2> QED BY <2>2, <2>3, MessagesComeBack
<1> QED BY <1>1, AnswersAreReplies, PTL
=================================================================================
