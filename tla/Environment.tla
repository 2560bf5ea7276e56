----------------------------- MODULE Environment -----------------------------
(* The standard environment of core/env: its list of property sources, its    *)
(* profiles, and a Merge of a parent environment, whose calls each take their *)
(* lock on their own while other goroutines change the same environment.      *)
EXTENDS Integers, Sequences, FiniteSets

CONSTANTS Sources,             \* sources a caller may add
          Parent,              \* the parent: [sources, active, default]
          Profiles,            \* profile names
          Keys, EnvironmentNames

VARIABLES sources, activeProfiles, defaultProfiles, merge

vars == <<sources, activeProfiles, defaultProfiles, merge>>

PS == INSTANCE PropertySources

(* The system environment has a name of its own, and what is merged is an     *)
(* environment: a list of sources and two sets of profiles.                   *)
ASSUME EnvironmentAssumption ==
  /\ \A s \in Sources : s.system => s.name # "systemProperties"
  /\ Parent.sources \in Seq({Parent.sources[i] : i \in DOMAIN Parent.sources})

Properties == PS!Visible(sources, Keys)
(* Without an active profile the default ones count as active.                *)
activeProfileSet == IF activeProfiles = {} THEN defaultProfiles ELSE activeProfiles
(* Any of the asked profiles suffices; a negated one holds when it is absent. *)
AcceptsProfiles(asked) ==
  \E p \in asked : IF p.negated THEN p.name \notin activeProfileSet ELSE p.name \in activeProfileSet

Idle == [stage |-> "idle", sources |-> <<>>, profiles |-> {}]

Init ==
  /\ sources \in {<<PS!Source("systemProperties", <<>>), s>> : s \in {s \in Sources : s.system}}
  /\ activeProfiles = {}
  /\ defaultProfiles = {"default"}
  /\ merge = Idle

Edit(edited) == sources' = edited /\ UNCHANGED <<activeProfiles, defaultProfiles, merge>>

DoAddFirst == \E s \in Sources : Edit(PS!AddFirst(sources, s))
DoAddLast == \E s \in Sources : Edit(PS!AddLast(sources, s))
DoAddRelative == \E s \in Sources, r \in PS!Names(sources) :
                   Edit(PS!AddBefore(sources, r, s)) \/ Edit(PS!AddAfter(sources, r, s))
DoReplace == \E s \in Sources, r \in PS!Names(sources) : Edit(PS!Replace(sources, r, s))
DoRemove == \E r \in PS!Names(sources) : Edit(PS!Remove(sources, r))

SetActiveProfiles(ps) ==
  activeProfiles' = ps /\ UNCHANGED <<sources, defaultProfiles, merge>>
AddActiveProfile(p) ==
  activeProfiles' = activeProfiles \cup {p} /\ UNCHANGED <<sources, defaultProfiles, merge>>
SetDefaultProfiles(ps) ==
  defaultProfiles' = ps /\ UNCHANGED <<sources, activeProfiles, merge>>

(* Merge: a snapshot of the parent's sources, then for each one a question    *)
(* and an addition, then its profiles.                                        *)
MergeStart ==
  /\ merge.stage = "idle"
  /\ merge' = [stage |-> "ask", sources |-> Parent.sources, profiles |-> Parent.active]
  /\ UNCHANGED <<sources, activeProfiles, defaultProfiles>>
MergeAsk ==
  /\ merge.stage = "ask" /\ merge.sources # <<>>
  /\ merge' = IF PS!Contains(sources, Head(merge.sources).name)
              THEN [merge EXCEPT !.sources = Tail(@)] ELSE [merge EXCEPT !.stage = "add"]
  /\ UNCHANGED <<sources, activeProfiles, defaultProfiles>>
MergeAddFirst ==          \* mutant: the parent's sources go first
  /\ merge.stage = "add"
  /\ sources' = PS!AddFirst(sources, Head(merge.sources))
  /\ merge' = [merge EXCEPT !.stage = "ask", !.sources = Tail(@)]
  /\ UNCHANGED <<activeProfiles, defaultProfiles>>
MergeAdd ==
  /\ merge.stage = "add"
  /\ sources' = PS!AddLast(sources, Head(merge.sources))
  /\ merge' = IF PS!Contains(sources, Head(merge.sources).name)
              THEN [Idle EXCEPT !.stage = "failed"]
              ELSE [merge EXCEPT !.stage = "ask", !.sources = Tail(@)]
  /\ UNCHANGED <<activeProfiles, defaultProfiles>>
MergeActive ==
  /\ merge.stage = "ask" /\ merge.sources = <<>> /\ merge.profiles # {}
  /\ \E p \in merge.profiles :
       /\ activeProfiles' = activeProfiles \cup {p}
       /\ merge' = [merge EXCEPT !.profiles = @ \ {p}]
  /\ UNCHANGED <<sources, defaultProfiles>>
MergeDefault ==
  /\ merge.stage = "ask" /\ merge.sources = <<>> /\ merge.profiles = {}
  /\ defaultProfiles' = defaultProfiles \cup Parent.default
  /\ merge' = [merge EXCEPT !.stage = "done"]
  /\ UNCHANGED <<sources, activeProfiles>>

Merge == MergeStart \/ MergeAsk \/ MergeAdd \/ MergeActive \/ MergeDefault
Next ==
  \/ DoAddFirst \/ DoAddLast \/ DoAddRelative \/ DoReplace \/ DoRemove
  \/ \E ps \in SUBSET Profiles : SetActiveProfiles(ps) \/ SetDefaultProfiles(ps)
  \/ \E p \in Profiles : AddActiveProfile(p)
  \/ Merge

Spec == Init /\ [][Next]_vars
-----------------------------------------------------------------------------
(* A merge fills gaps: whatever the environment answered for a key before a   *)
(* step of Merge it answers after it, and an active profile is still accepted *)
(* (environment_part1.go: every parent source goes last).                     *)
MergeOverridesNothing ==
  [][Merge => /\ \A k \in DOMAIN Properties : k \in DOMAIN Properties' /\ Properties'[k] = Properties[k]
              /\ \A p \in activeProfiles : AcceptsProfiles({[name |-> p, negated |-> FALSE]})']_vars

(* The order of two sources that both stay never turns around, and no name is *)
(* there twice, whoever adds, replaces or removes meanwhile: precedence is    *)
(* what callers rely on (property_sources.go).                                *)
Before(list, a, b) == \E i, j \in DOMAIN list : i < j /\ list[i].name = a /\ list[j].name = b
PrecedenceKept ==
  [][\A a, b \in PS!Names(sources) \cap PS!Names(sources') :
       a = b \/ Before(sources, a, b) => ~Before(sources', b, a)]_vars
=============================================================================
