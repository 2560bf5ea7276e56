--------------------------- MODULE PropertySources ---------------------------
(* The ordered list of property sources of core/env: the first source that    *)
(* has a key decides its value.  A source is its name and its properties; the *)
(* source of the system environment also answers to canonical names.          *)
EXTENDS Integers, Sequences

SE == INSTANCE SequencesExt

CONSTANT EnvironmentNames  \* the upper-case underscore form of each key that has another form

canonicalEnvironmentKey(k) == IF k \in DOMAIN EnvironmentNames THEN EnvironmentNames[k] ELSE k

Source(name, props) == [name |-> name, props |-> props, system |-> FALSE]
(* Of several variables with one canonical name the last one listed answers.  *)
NewSystemEnvironmentPropertySource(name, environ) ==
  [name |-> name, system |-> TRUE,
   props |-> [k \in {environ[i].key : i \in DOMAIN environ} |->
                environ[CHOOSE i \in DOMAIN environ :
                          environ[i].key = k /\ \A j \in DOMAIN environ : environ[j].key = k => j <= i].value],
   environ |-> environ]

(* The value of a key in one source, as the set of at most one value.         *)
SystemGetProperty(source, k) ==
  LET aliases == {i \in DOMAIN source.environ :
                    canonicalEnvironmentKey(source.environ[i].key) = canonicalEnvironmentKey(k)}
  IN  IF k \in DOMAIN source.props THEN {source.props[k]}
      ELSE {source.props[source.environ[i].key] : i \in {i \in aliases : \A j \in aliases : j <= i}}
SourceGetProperty(source, k) ==
  IF source.system THEN SystemGetProperty(source, k)
  ELSE IF k \in DOMAIN source.props THEN {source.props[k]} ELSE {}

Names(sources) == {sources[i].name : i \in DOMAIN sources}
Contains(sources, name) == name \in Names(sources)
indexOfLocked(sources, name) == CHOOSE i \in DOMAIN sources : sources[i].name = name

(* Each operation yields the new list; an error leaves the list as it was.    *)
AddFirst(sources, source) ==
  IF Contains(sources, source.name) THEN sources ELSE <<source>> \o sources
AddLast(sources, source) ==
  IF Contains(sources, source.name) THEN sources ELSE Append(sources, source)
addRelative(sources, relative, source, offset) ==
  IF Contains(sources, source.name) \/ ~Contains(sources, relative) THEN sources
  ELSE SE!InsertAt(sources, indexOfLocked(sources, relative) + offset, source)
AddBefore(sources, relative, source) == addRelative(sources, relative, source, 0)
AddAfter(sources, relative, source) == addRelative(sources, relative, source, 1)
ReplaceAtTheEnd(sources, name, source) ==   \* mutant: the old source goes, the new one is appended
  IF ~Contains(sources, name) \/ (source.name # name /\ Contains(sources, source.name)) THEN sources
  ELSE Append(SE!RemoveAt(sources, indexOfLocked(sources, name)), source)
Replace(sources, name, source) ==
  IF ~Contains(sources, name) \/ (source.name # name /\ Contains(sources, source.name)) THEN sources
  ELSE SE!ReplaceAt(sources, indexOfLocked(sources, name), source)
Remove(sources, name) ==
  IF ~Contains(sources, name) THEN sources ELSE SE!RemoveAt(sources, indexOfLocked(sources, name))

(* What the resolver sees: the first source with a value for the key wins.    *)
findProperty(sources, k) ==
  LET having == {i \in DOMAIN sources : SourceGetProperty(sources[i], k) # {}}
  IN  IF having = {} THEN {}
      ELSE SourceGetProperty(sources[CHOOSE i \in having : \A j \in having : i <= j], k)
Visible(sources, keys) ==
  [k \in {k \in keys : findProperty(sources, k) # {}} |-> CHOOSE v \in findProperty(sources, k) : TRUE]
PropertyNames(sources) == UNION {DOMAIN sources[i].props : i \in DOMAIN sources}
=============================================================================
