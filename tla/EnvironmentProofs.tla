-------------------------- MODULE EnvironmentProofs --------------------------
(***************************************************************************)
(* Theorems about Environment for any sources, keys, profiles and parent:  *)
(* no name is listed twice, precedence never turns around, and a merge     *)
(* overrides nothing.                                                      *)
(***************************************************************************)
EXTENDS Environment, WellFoundedInduction, TLAPS

-----------------------------------------------------------------------------
\* Lists of sources.

\* No name is in a list twice.
Distinct(list) == \A i, j \in DOMAIN list : list[i].name = list[j].name => i = j

\* Of two sources that were there, the first in the new list was the first.
KeepsOrder(old, new) == \A a, b \in PS!Names(old) : Before(new, a, b) => Before(old, a, b)

\* What every operation on a list promises.
Sound(old, new, S) == new \in Seq(S) /\ Distinct(new) /\ KeepsOrder(old, new)

\* A list that an operation leaves alone keeps everything.
LEMMA SameList ==
  ASSUME NEW S, NEW list \in Seq(S), Distinct(list)
  PROVE  Sound(list, list, S)
BY DEF Sound, KeepsOrder

\* Two lists, one behind the other.
LEMMA Joined ==
  ASSUME NEW S, NEW s \in Seq(S), NEW t \in Seq(S)
  PROVE  /\ s \o t \in Seq(S)
         /\ Len(s \o t) = Len(s) + Len(t)
         /\ \A i \in 1 .. Len(s) : (s \o t)[i] = s[i]
         /\ \A i \in 1 .. Len(t) : (s \o t)[Len(s) + i] = t[i]
OBVIOUS

\* Putting a new name at a place shifts what was there and behind it.
LEMMA InsertKeeps ==
  ASSUME NEW S, NEW list \in Seq(S), Distinct(list), NEW e \in S, ~PS!Contains(list, e.name),
         NEW at \in 1 .. (Len(list) + 1)
  PROVE  Sound(list, PS!SE!InsertAt(list, at, e), S)
<1> DEFINE n == Len(list)
           front == SubSeq(list, 1, at - 1)
           back == SubSeq(list, at, n)
           new == PS!SE!InsertAt(list, at, e)
<1>1. front \in Seq(S) /\ Len(front) = at - 1 /\ \A i \in 1 .. (at - 1) : front[i] = list[i]
  OBVIOUS
<1>2. back \in Seq(S) /\ Len(back) = n + 1 - at /\ \A i \in 1 .. (n + 1 - at) : back[i] = list[at + i - 1]
  OBVIOUS
<1>3. new = front \o <<e>> \o back BY DEF PS!SE!InsertAt
<1>4. n \in Nat /\ DOMAIN list = 1 .. n OBVIOUS
<1> HIDE DEF n, front, back, new
<1> DEFINE most == front \o <<e>>
<1>31. <<e>> \in Seq(S) /\ Len(<<e>>) = 1 /\ <<e>>[1] = e OBVIOUS
<1>32. most \in Seq(S) /\ Len(most) = at /\ most[at] = e /\ \A i \in 1 .. (at - 1) : most[i] = list[i]
  <2> HIDE DEF most
  <2>1. /\ most \in Seq(S) /\ Len(most) = Len(front) + Len(<<e>>)
        /\ \A i \in 1 .. Len(front) : most[i] = front[i]
        /\ \A i \in 1 .. Len(<<e>>) : most[Len(front) + i] = <<e>>[i]
    BY ONLY <1>1, <1>31, Joined DEF most
  <2> HIDE DEF front
  <2>2. most \in Seq(S) /\ Len(most) = (at - 1) + 1 BY <1>1, <1>31, <2>1
  <2>3. most[(at - 1) + 1] = e BY <1>1, <1>31, <2>1
  <2>4. (at - 1) + 1 = at OBVIOUS
  <2> QED BY <1>1, <2>1, <2>2, <2>3, <2>4
<1>33. new = most \o back BY <1>3
<1> HIDE DEF most
<1>34. /\ new \in Seq(S) /\ Len(new) = Len(most) + Len(back)
       /\ \A i \in 1 .. Len(most) : new[i] = most[i]
       /\ \A i \in 1 .. Len(back) : new[Len(most) + i] = back[i]
  <2>1. most \in Seq(S) /\ back \in Seq(S) BY <1>2, <1>32
  <2>2. /\ most \o back \in Seq(S) /\ Len(most \o back) = Len(most) + Len(back)
        /\ \A i \in 1 .. Len(most) : (most \o back)[i] = most[i]
        /\ \A i \in 1 .. Len(back) : (most \o back)[Len(most) + i] = back[i]
    BY ONLY <2>1, Joined
  <2> QED BY <2>2, <1>33, Zenon
<1>5. new \in Seq(S) /\ Len(new) = n + 1 BY <1>2, <1>4, <1>32, <1>34
<1>6. \A i \in 1 .. (n + 1) :
        new[i] = IF i < at THEN list[i] ELSE IF i = at THEN e ELSE list[i - 1]
  <2> TAKE i \in 1 .. (n + 1)
  <2>1. CASE i < at BY <1>32, <1>34, <1>4, <2>1
  <2>2. CASE i = at BY <1>32, <1>34, <1>4, <2>2
  <2>3. CASE i > at
    <3>1. i - at \in 1 .. (n + 1 - at) BY <1>4, <2>3
    <3>2. new[at + (i - at)] = back[i - at] BY <1>2, <1>32, <1>34, <3>1
    <3>3. at + (i - at) = i BY <1>4
    <3> QED BY <1>2, <1>4, <2>3, <3>1, <3>2, <3>3
  <2> QED BY <1>4, <2>1, <2>2, <2>3
<1>7. \A i \in 1 .. n : list[i].name # e.name BY <1>4 DEF PS!Contains, PS!Names
<1> DEFINE From(i) == IF i < at THEN i ELSE i - 1
<1>8. \A i \in 1 .. (n + 1) : i # at => From(i) \in 1 .. n /\ new[i] = list[From(i)]
  BY <1>4, <1>6
<1>9. \A i, j \in 1 .. (n + 1) : i < j /\ i # at /\ j # at => From(i) < From(j)
  BY <1>4
<1>10. DOMAIN new = 1 .. (n + 1) /\ new[at] = e BY <1>4, <1>5, <1>6
<1> HIDE DEF From
<1>11. Distinct(new)
  <2> SUFFICES ASSUME NEW i \in 1 .. (n + 1), NEW j \in 1 .. (n + 1), i < j
               PROVE  new[i].name # new[j].name
    BY <1>4, <1>10 DEF Distinct
  <2>1. CASE i = at \/ j = at BY <1>7, <1>8, <1>10, <2>1
  <2>2. CASE i # at /\ j # at BY <1>4, <1>8, <1>9, <2>2 DEF Distinct
  <2> QED BY <2>1, <2>2
<1>12. KeepsOrder(list, new)
  <2> SUFFICES ASSUME NEW a \in PS!Names(list), NEW b \in PS!Names(list), Before(new, a, b)
               PROVE  Before(list, a, b)
    BY DEF KeepsOrder
  <2>1. PICK i \in 1 .. (n + 1), j \in 1 .. (n + 1) : i < j /\ new[i].name = a /\ new[j].name = b
    BY <1>10 DEF Before
  <2>2. i # at /\ j # at BY <1>10, <2>1 DEF PS!Contains
  <2> QED BY <1>4, <1>8, <1>9, <2>1, <2>2 DEF Before
<1> QED BY <1>5, <1>11, <1>12 DEF Sound, new

\* Taking a source out moves up what was behind it.
LEMMA RemoveKeeps ==
  ASSUME NEW S, NEW list \in Seq(S), Distinct(list), NEW at \in DOMAIN list
  PROVE  Sound(list, PS!SE!RemoveAt(list, at), S)
<1> DEFINE n == Len(list)
           front == SubSeq(list, 1, at - 1)
           back == SubSeq(list, at + 1, n)
           new == PS!SE!RemoveAt(list, at)
<1>1. front \in Seq(S) /\ Len(front) = at - 1 /\ \A i \in 1 .. (at - 1) : front[i] = list[i]
  OBVIOUS
<1>2. back \in Seq(S) /\ Len(back) = n - at /\ \A i \in 1 .. (n - at) : back[i] = list[at + i]
  OBVIOUS
<1>3. new = front \o back BY DEF PS!SE!RemoveAt
<1>4. n \in Nat \ {0} /\ DOMAIN list = 1 .. n /\ at \in 1 .. n OBVIOUS
<1> HIDE DEF n, front, back, new
<1>34. /\ new \in Seq(S) /\ Len(new) = Len(front) + Len(back)
       /\ \A i \in 1 .. Len(front) : new[i] = front[i]
       /\ \A i \in 1 .. Len(back) : new[Len(front) + i] = back[i]
  <2>1. front \in Seq(S) /\ back \in Seq(S) BY <1>1, <1>2
  <2>2. /\ front \o back \in Seq(S) /\ Len(front \o back) = Len(front) + Len(back)
        /\ \A i \in 1 .. Len(front) : (front \o back)[i] = front[i]
        /\ \A i \in 1 .. Len(back) : (front \o back)[Len(front) + i] = back[i]
    BY ONLY <2>1, Joined
  <2> QED BY <2>2, <1>3, Zenon
<1>5. new \in Seq(S) /\ Len(new) = n - 1 BY <1>1, <1>2, <1>4, <1>34
<1>6. DOMAIN new = 1 .. (n - 1) BY <1>4, <1>5
<1> DEFINE From(i) == IF i < at THEN i ELSE i + 1
<1>7. \A i \in 1 .. (n - 1) : From(i) \in 1 .. n /\ new[i] = list[From(i)]
  <2> TAKE i \in 1 .. (n - 1)
  <2>1. CASE i < at BY <1>1, <1>34, <1>4, <2>1
  <2>2. CASE i >= at
    <3>1. i - at + 1 \in 1 .. (n - at) BY <1>4, <2>2
    <3>2. new[(at - 1) + (i - at + 1)] = back[i - at + 1] BY <1>1, <1>2, <1>34, <3>1
    <3>3. (at - 1) + (i - at + 1) = i /\ at + (i - at + 1) = i + 1 BY <1>4
    <3>4. back[i - at + 1] = list[i + 1] BY <1>2, <3>1, <3>3
    <3> QED BY <1>4, <2>2, <3>2, <3>3, <3>4
  <2> QED BY <1>4, <2>1, <2>2
<1>8. \A i, j \in 1 .. (n - 1) : i < j => From(i) < From(j) BY <1>4
<1> HIDE DEF From
<1>9. Distinct(new)
  <2> SUFFICES ASSUME NEW i \in 1 .. (n - 1), NEW j \in 1 .. (n - 1), i < j
               PROVE  new[i].name # new[j].name
    BY <1>4, <1>6 DEF Distinct
  <2> QED BY <1>4, <1>7, <1>8 DEF Distinct
<1>10. KeepsOrder(list, new)
  BY <1>4, <1>6, <1>7, <1>8 DEF KeepsOrder, Before
<1> QED BY <1>5, <1>9, <1>10 DEF Sound, new

\* A source that replaces another has its place, and its name or a new one.
LEMMA ReplaceKeeps ==
  ASSUME NEW S, NEW list \in Seq(S), Distinct(list), NEW at \in DOMAIN list, NEW e \in S,
         e.name = list[at].name \/ ~PS!Contains(list, e.name)
  PROVE  Sound(list, PS!SE!ReplaceAt(list, at, e), S)
<1> DEFINE new == PS!SE!ReplaceAt(list, at, e)
<1>1. /\ new \in Seq(S) /\ DOMAIN new = DOMAIN list /\ new[at] = e
      /\ \A i \in DOMAIN list : i # at => new[i] = list[i]
  BY DEF PS!SE!ReplaceAt
<1> HIDE DEF new
<1>2. \A i \in DOMAIN list : i # at => list[i].name # e.name
  BY DEF Distinct, PS!Contains, PS!Names
<1>3. Distinct(new) BY <1>1, <1>2 DEF Distinct
<1>4. KeepsOrder(list, new)
  BY <1>1, <1>2 DEF KeepsOrder, Before, PS!Contains
<1> QED BY <1>1, <1>3, <1>4 DEF Sound, new

\* The place of a name that is there.
LEMMA IndexFound ==
  ASSUME NEW list, NEW name, PS!Contains(list, name)
  PROVE  /\ PS!indexOfLocked(list, name) \in DOMAIN list
         /\ list[PS!indexOfLocked(list, name)].name = name
BY DEF PS!Contains, PS!Names, PS!indexOfLocked

\* The calls of MutablePropertySources.
LEMMA CallsAreSound ==
  ASSUME NEW S, NEW list \in Seq(S), Distinct(list), NEW e \in S, NEW name
  PROVE  /\ Sound(list, PS!AddFirst(list, e), S)
         /\ Sound(list, PS!AddLast(list, e), S)
         /\ Sound(list, PS!AddBefore(list, name, e), S)
         /\ Sound(list, PS!AddAfter(list, name, e), S)
         /\ Sound(list, PS!Replace(list, name, e), S)
         /\ Sound(list, PS!Remove(list, name), S)
<1>1. Sound(list, list, S) BY SameList
<1>2. Sound(list, PS!AddFirst(list, e), S)
  <2>1. SubSeq(list, 1, 0) = <<>> /\ SubSeq(list, 1, Len(list)) = list OBVIOUS
  <2>2. PS!SE!InsertAt(list, 1, e) = <<e>> \o list BY <2>1 DEF PS!SE!InsertAt
  <2>3. 1 \in 1 .. (Len(list) + 1) OBVIOUS
  <2>4. CASE PS!Contains(list, e.name) BY <1>1, <2>4 DEF PS!AddFirst
  <2>5. CASE ~PS!Contains(list, e.name)
    <3>1. Sound(list, PS!SE!InsertAt(list, 1, e), S) BY <2>3, <2>5, InsertKeeps
    <3> QED BY <2>2, <2>5, <3>1 DEF PS!AddFirst
  <2> QED BY <2>4, <2>5
<1>3. Sound(list, PS!AddLast(list, e), S)
  <2>1. SubSeq(list, Len(list) + 1, Len(list)) = <<>> /\ SubSeq(list, 1, Len(list)) = list OBVIOUS
  <2>2. PS!SE!InsertAt(list, Len(list) + 1, e) = Append(list, e)
    <3>1. PS!SE!InsertAt(list, Len(list) + 1, e)
            = SubSeq(list, 1, (Len(list) + 1) - 1) \o <<e>> \o SubSeq(list, Len(list) + 1, Len(list))
      BY DEF PS!SE!InsertAt
    <3>2. (Len(list) + 1) - 1 = Len(list) OBVIOUS
    <3>3. list \o <<e>> = Append(list, e) OBVIOUS
    <3>4. Append(list, e) \o <<>> = Append(list, e) OBVIOUS
    <3> QED BY <2>1, <3>1, <3>2, <3>3, <3>4, Zenon
  <2>3. Len(list) + 1 \in 1 .. (Len(list) + 1) OBVIOUS
  <2>4. CASE PS!Contains(list, e.name) BY <1>1, <2>4 DEF PS!AddLast
  <2>5. CASE ~PS!Contains(list, e.name)
    <3>1. Sound(list, PS!SE!InsertAt(list, Len(list) + 1, e), S) BY <2>3, <2>5, InsertKeeps
    <3> QED BY <2>2, <2>5, <3>1 DEF PS!AddLast
  <2> QED BY <2>4, <2>5
<1>4. ASSUME NEW offset \in {0, 1} PROVE Sound(list, PS!addRelative(list, name, e, offset), S)
  <2>1. CASE PS!Contains(list, e.name) \/ ~PS!Contains(list, name)
    BY <1>1, <2>1 DEF PS!addRelative
  <2>2. CASE ~PS!Contains(list, e.name) /\ PS!Contains(list, name)
    <3> DEFINE at == PS!indexOfLocked(list, name) + offset
    <3>1. at \in 1 .. (Len(list) + 1) BY <2>2, IndexFound
    <3>2. PS!addRelative(list, name, e, offset) = PS!SE!InsertAt(list, at, e)
      BY <2>2 DEF PS!addRelative
    <3> HIDE DEF at
    <3> QED BY <2>2, <3>1, <3>2, InsertKeeps
  <2> QED BY <2>1, <2>2
<1>5. Sound(list, PS!Replace(list, name, e), S)
  BY <1>1, ReplaceKeeps, IndexFound DEF PS!Replace
<1>6. Sound(list, PS!Remove(list, name), S)
  BY <1>1, RemoveKeeps, IndexFound DEF PS!Remove
<1> QED BY <1>2, <1>3, <1>4, <1>5, <1>6 DEF PS!AddBefore, PS!AddAfter

-----------------------------------------------------------------------------
\* What always holds: the list and what is left to merge are lists of sources,
\* and no name is listed twice.
SourceSet == Sources \cup {PS!Source("systemProperties", <<>>)}
             \cup {Parent.sources[i] : i \in DOMAIN Parent.sources}

EnvironmentInv ==
  /\ sources \in Seq(SourceSet)
  /\ Distinct(sources)
  /\ merge.sources \in Seq(SourceSet)
  /\ merge = [stage |-> merge.stage, sources |-> merge.sources, profiles |-> merge.profiles]
  /\ merge.stage = "add" => merge.sources # <<>>

\* The environment starts with the two sources of the system.
LEMMA EnvironmentStarts ==
  ASSUME Init PROVE EnvironmentInv
<1> DEFINE props == PS!Source("systemProperties", <<>>)
<1>1. PICK s \in Sources : s.system /\ sources = <<props, s>> BY DEF Init
<1>2. s.name # props.name BY <1>1, EnvironmentAssumption DEF PS!Source
<1>3. props \in SourceSet /\ s \in SourceSet BY DEF SourceSet
<1>4. sources \in Seq(SourceSet) /\ DOMAIN sources = {1, 2} /\ sources[1] = props /\ sources[2] = s
  BY <1>1, <1>3
<1>5. Distinct(sources) BY <1>2, <1>4 DEF Distinct
<1>6. merge = Idle BY DEF Init
<1> QED BY <1>4, <1>5, <1>6 DEF EnvironmentInv, Idle

\* Every step is an operation on the list, and what is left of a merge is the
\* end of what was left.
LEMMA EnvironmentSteps ==
  ASSUME EnvironmentInv, [Next]_vars
  PROVE  EnvironmentInv' /\ Sound(sources, sources', SourceSet)
<1> USE DEF EnvironmentInv
<1>1. Sound(sources, sources, SourceSet) BY SameList
<1>2. ASSUME Sound(sources, sources', SourceSet), UNCHANGED merge
      PROVE  EnvironmentInv'
  BY <1>2 DEF Sound
<1>3. \A s \in Sources : s \in SourceSet BY DEF SourceSet
<1>4. CASE DoAddFirst BY <1>2, <1>3, <1>4, CallsAreSound DEF DoAddFirst, Edit
<1>5. CASE DoAddLast BY <1>2, <1>3, <1>5, CallsAreSound DEF DoAddLast, Edit
<1>6. CASE DoAddRelative BY <1>2, <1>3, <1>6, CallsAreSound DEF DoAddRelative, Edit
<1>7. CASE DoReplace BY <1>2, <1>3, <1>7, CallsAreSound DEF DoReplace, Edit
<1>8. CASE DoRemove
  <2>1. PICK r \in PS!Names(sources) : sources' = PS!Remove(sources, r) /\ UNCHANGED merge
    BY <1>8 DEF DoRemove, Edit
  <2>2. PICK e \in SourceSet : TRUE BY DEF SourceSet
  <2> QED BY <1>2, <2>1, <2>2, CallsAreSound
<1>9. CASE MergeStart
  <2>1. merge' = [stage |-> "ask", sources |-> Parent.sources, profiles |-> Parent.active] /\ sources' = sources
    BY <1>9 DEF MergeStart
  <2>2. Parent.sources \in Seq(SourceSet)
    <3>1. {Parent.sources[i] : i \in DOMAIN Parent.sources} \subseteq SourceSet BY DEF SourceSet
    <3> QED BY <3>1, EnvironmentAssumption
  <2> QED BY <1>1, <2>1, <2>2
<1>10. CASE MergeAsk
  <2>1. /\ merge.sources # <<>> /\ merge.stage = "ask" /\ sources' = sources
        /\ merge' = IF PS!Contains(sources, Head(merge.sources).name)
                    THEN [merge EXCEPT !.sources = Tail(@)] ELSE [merge EXCEPT !.stage = "add"]
    BY <1>10 DEF MergeAsk
  <2>2. Tail(merge.sources) \in Seq(SourceSet) BY <2>1
  <2>3. CASE PS!Contains(sources, Head(merge.sources).name)
    <3>1. merge'.sources = Tail(merge.sources) /\ merge'.stage = "ask" /\ merge'.profiles = merge.profiles
      BY <2>1, <2>3
    <3>2. merge' = [stage |-> merge'.stage, sources |-> merge'.sources, profiles |-> merge'.profiles]
      BY <2>1, <2>3
    <3> QED BY <1>1, <2>1, <2>2, <3>1, <3>2
  <2>4. CASE ~PS!Contains(sources, Head(merge.sources).name)
    <3>1. merge'.sources = merge.sources /\ merge'.stage = "add" /\ merge'.profiles = merge.profiles
      BY <2>1, <2>4
    <3>2. merge' = [stage |-> merge'.stage, sources |-> merge'.sources, profiles |-> merge'.profiles]
      BY <2>1, <2>4
    <3> QED BY <1>1, <2>1, <3>1, <3>2
  <2> QED BY <2>3, <2>4
<1>11. CASE MergeAdd
  <2> DEFINE e == Head(merge.sources)
  <2>1. /\ merge.sources # <<>> /\ sources' = PS!AddLast(sources, e)
        /\ merge' = IF PS!Contains(sources, e.name) THEN [Idle EXCEPT !.stage = "failed"]
                    ELSE [merge EXCEPT !.stage = "ask", !.sources = Tail(@)]
    BY <1>11 DEF MergeAdd
  <2>2. Tail(merge.sources) \in Seq(SourceSet) /\ e \in SourceSet BY <2>1
  <2>3. Sound(sources, sources', SourceSet) BY <2>1, <2>2, CallsAreSound
  <2> HIDE DEF e
  <2>4. CASE PS!Contains(sources, e.name)
    <3>1. merge' = [stage |-> "failed", sources |-> <<>>, profiles |-> {}] BY <2>1, <2>4 DEF Idle
    <3>2. <<>> \in Seq(SourceSet) OBVIOUS
    <3> QED BY <2>3, <3>1, <3>2 DEF Sound
  <2>5. CASE ~PS!Contains(sources, e.name)
    <3>1. merge'.sources = Tail(merge.sources) /\ merge'.stage = "ask"
      BY <2>1, <2>5
    <3>2. merge' = [stage |-> merge'.stage, sources |-> merge'.sources, profiles |-> merge'.profiles]
      BY <2>1, <2>5
    <3> QED BY <2>2, <2>3, <3>1, <3>2 DEF Sound
  <2> QED BY <2>3, <2>4, <2>5
<1>12. CASE MergeActive
  <2>1. PICK p \in merge.profiles : merge' = [merge EXCEPT !.profiles = @ \ {p}] /\ sources' = sources
    BY <1>12 DEF MergeActive
  <2>2. merge'.sources = merge.sources /\ merge'.stage = merge.stage
        /\ merge' = [stage |-> merge'.stage, sources |-> merge'.sources, profiles |-> merge'.profiles]
    BY <2>1
  <2> QED BY <1>1, <2>1, <2>2
<1>13. CASE MergeDefault
  <2>1. merge' = [merge EXCEPT !.stage = "done"] /\ sources' = sources
    BY <1>13 DEF MergeDefault
  <2>2. merge'.sources = merge.sources /\ merge'.stage = "done"
        /\ merge' = [stage |-> merge'.stage, sources |-> merge'.sources, profiles |-> merge'.profiles]
    BY <2>1
  <2> QED BY <1>1, <2>1, <2>2
<1>14. CASE \/ \E ps \in SUBSET Profiles : SetActiveProfiles(ps) \/ SetDefaultProfiles(ps)
            \/ \E p \in Profiles : AddActiveProfile(p)
            \/ UNCHANGED vars
  <2>1. UNCHANGED <<sources, merge>>
    BY <1>14 DEF SetActiveProfiles, SetDefaultProfiles, AddActiveProfile, vars
  <2> QED BY <1>1, <2>1
<1> QED BY <1>4, <1>5, <1>6, <1>7, <1>8, <1>9, <1>10, <1>11, <1>12, <1>13, <1>14 DEF Next, Merge

\* However goroutines edit and merge, the lists stay lists of sources and no
\* name is in the environment twice (property_sources.go: containsLocked
\* under the lock that adds).
THEOREM NamesAreUnique == Spec => []EnvironmentInv
<1>1. Init => EnvironmentInv BY EnvironmentStarts
<1>2. EnvironmentInv /\ [Next]_vars => EnvironmentInv' BY EnvironmentSteps
<1> QED BY <1>1, <1>2, PTL DEF Spec

\* The order of two sources that both stay never turns around, whoever adds,
\* replaces, removes or merges meanwhile (property_sources.go).
THEOREM PrecedenceNeverTurns == Spec => PrecedenceKept
<1>1. ASSUME EnvironmentInv, [Next]_vars,
             NEW a \in PS!Names(sources), NEW b \in PS!Names(sources),
             a = b \/ Before(sources, a, b)
      PROVE  ~Before(sources', b, a)
  <2>1. Distinct(sources) /\ sources \in Seq(SourceSet) BY <1>1 DEF EnvironmentInv
  <2>2. Sound(sources, sources', SourceSet) BY <1>1, EnvironmentSteps
  <2>3. Before(sources', b, a) => Before(sources, b, a) BY <1>1, <2>2 DEF Sound, KeepsOrder
  <2> HIDE DEF Before
  <2>4. ~(Before(sources, a, b) /\ Before(sources, b, a))
    BY <2>1 DEF Before, Distinct
  <2>5. a = b => ~Before(sources, a, b)
    BY <2>1 DEF Before, Distinct
  <2> QED BY <1>1, <2>3, <2>4, <2>5
<1>2. EnvironmentInv /\ [Next]_vars
        => [\A a, b \in PS!Names(sources) \cap PS!Names(sources') :
              a = b \/ Before(sources, a, b) => ~Before(sources', b, a)]_vars
  BY <1>1
<1> QED BY <1>2, NamesAreUnique, PTL DEF Spec, PrecedenceKept

-----------------------------------------------------------------------------
\* Every set of numbers that is not empty has a least one.
LEMMA LeastNumber ==
  ASSUME NEW S \in SUBSET Nat, S # {}
  PROVE  \E m \in S : \A k \in S : m <= k
<1>1. PICK m \in S : \A k \in S : <<k, m>> \notin OpToRel(<, Nat)
  BY WFMin, NatLessThanWellFounded, Zenon
<1>2. \A k \in S : ~ (k < m) BY <1>1, Zenon DEF OpToRel
<1> QED BY <1>2

\* A source behind all others answers for no key that had an answer.
LEMMA LastAnswersLast ==
  ASSUME NEW S, NEW list \in Seq(S), NEW e, NEW k, PS!findProperty(list, k) # {}
  PROVE  PS!findProperty(Append(list, e), k) = PS!findProperty(list, k)
<1> DEFINE Having(l) == {i \in DOMAIN l : PS!SourceGetProperty(l[i], k) # {}}
           First(l) == CHOOSE i \in Having(l) : \A j \in Having(l) : i <= j
           new == Append(list, e)
<1>1. Having(list) # {} BY DEF PS!findProperty
<1>2. Having(list) \in SUBSET Nat OBVIOUS
<1>3. PICK m \in Having(list) : \A j \in Having(list) : m <= j
  <2> HIDE DEF Having
  <2> QED BY <1>1, <1>2, LeastNumber
<1>4. /\ DOMAIN list = 1 .. Len(list) /\ DOMAIN new = 1 .. (Len(list) + 1) /\ Len(list) \in Nat
      /\ \A i \in DOMAIN list : new[i] = list[i]
  OBVIOUS
<1> HIDE DEF new
<1>5. m \in Having(new) /\ \A j \in Having(new) : m <= j BY <1>3, <1>4
<1>6. m \in Nat BY <1>2
<1>7. Having(new) \in SUBSET Nat BY <1>4
<1> HIDE DEF Having
<1>8. First(list) = m BY <1>2, <1>3, <1>6
<1>9. First(new) = m BY <1>5, <1>6, <1>7
<1>10. PS!findProperty(list, k) = PS!SourceGetProperty(list[m], k)
  BY <1>1, <1>8 DEF PS!findProperty, Having
<1>11. PS!findProperty(new, k) = PS!SourceGetProperty(new[m], k)
  BY <1>5, <1>9 DEF PS!findProperty, Having
<1>12. new[m] = list[m] BY <1>3, <1>4 DEF Having
<1> QED BY <1>10, <1>11, <1>12 DEF new

\* A merge fills gaps: what the environment answered for a key it answers
\* after every step of Merge, and an active profile stays accepted
\* (environment_part1.go: every parent source goes last).
THEOREM MergeFillsGaps == Spec => MergeOverridesNothing
<1>1. ASSUME EnvironmentInv, Merge
      PROVE  /\ \A k \in DOMAIN Properties : k \in DOMAIN Properties' /\ Properties'[k] = Properties[k]
             /\ \A p \in activeProfiles : AcceptsProfiles({[name |-> p, negated |-> FALSE]})'
  <2>1. \/ sources' = sources
        \/ sources' = Append(sources, Head(merge.sources))
    BY <1>1 DEF Merge, MergeStart, MergeAsk, MergeAdd, MergeActive, MergeDefault, PS!AddLast
  <2>2. activeProfiles \subseteq activeProfiles'
    BY <1>1 DEF Merge, MergeStart, MergeAsk, MergeAdd, MergeActive, MergeDefault
  <2>3. ASSUME NEW k, PS!findProperty(sources, k) # {}
        PROVE  PS!findProperty(sources', k) = PS!findProperty(sources, k)
    <3>1. sources \in Seq(SourceSet) BY <1>1 DEF EnvironmentInv
    <3>2. PS!findProperty(Append(sources, Head(merge.sources)), k) = PS!findProperty(sources, k)
      BY <2>3, <3>1, LastAnswersLast
    <3> QED BY <2>1, <3>2
  <2>4. Properties = PS!Visible(sources, Keys) /\ Properties' = PS!Visible(sources', Keys)
    BY DEF Properties
  <2>5. ASSUME NEW k \in DOMAIN Properties
        PROVE  k \in DOMAIN Properties' /\ Properties'[k] = Properties[k]
    <3>1. k \in Keys /\ PS!findProperty(sources, k) # {} BY <2>4, <2>5 DEF PS!Visible
    <3>2. PS!findProperty(sources', k) = PS!findProperty(sources, k) BY <2>3, <3>1
    <3> QED BY <2>4, <3>1, <3>2 DEF PS!Visible
  <2>6. ASSUME NEW p \in activeProfiles PROVE AcceptsProfiles({[name |-> p, negated |-> FALSE]})'
    BY <2>2, <2>6 DEF AcceptsProfiles, activeProfileSet
  <2> QED BY <2>5, <2>6
<1>2. EnvironmentInv /\ [Next]_vars
        => [Merge => /\ \A k \in DOMAIN Properties : k \in DOMAIN Properties' /\ Properties'[k] = Properties[k]
                     /\ \A p \in activeProfiles : AcceptsProfiles({[name |-> p, negated |-> FALSE]})']_vars
  BY <1>1
<1> QED BY <1>2, NamesAreUnique, PTL DEF Spec, MergeOverridesNothing
=============================================================================
