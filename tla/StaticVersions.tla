---------------------------- MODULE StaticVersions ----------------------------
(* web/static: files served under names that carry a version.  A content      *)
(* version is a prefix of the hash of the file, kept in a cache keyed by the  *)
(* file's size and time; a fixed version is a leading directory.  Requests    *)
(* look a file up in several steps while a deployment rewrites it.            *)
EXTENDS Naturals, Sequences, FiniteSets, SequencesExt

CONSTANTS Files,       \* paths a deployment may write, as sequences of segments
          Contents, Size,
          Readers,
          Configurations, \* how the resources are served: [content, fixed]
          MaxWrites    \* bound: how often files are written

(* A segment is a stem, the versions written after it and the extension; a    *)
(* version is a hash, of which some first digits are given.                   *)
Empty == ""
Segment(stem, ext) == [stem |-> stem, versions |-> <<>>, ext |-> ext]
SP == INSTANCE Paths WITH Here <- Segment(".", Empty), Up <- Segment("..", Empty)
minContentVersionLength == 8
HashLength == 64
Hash(content) == [of |-> content, digits |-> HashLength]

VARIABLES disk,      \* what is where: a function from paths to [content, time]
          cache,     \* a function from paths to [signature, version]
          served,    \* the configuration of this behaviour
          reader,    \* per reader: the URL it follows and how far it got
          writes     \* writes so far, the clock of the files

svvars == <<disk, cache, served, reader, writes>>

signature(path) == [size |-> Size[disk[path].content], time |-> disk[path].time]
NoReader == [at |-> "idle", name |-> <<>>, stripped |-> FALSE, base |-> <<>>, requested |-> Hash("none"),
             signature |-> [size |-> 0, time |-> 0], version |-> Hash("none"), handle |-> "none",
             status |-> 0, got |-> "none", wanted |-> "none", late |-> FALSE, raced |-> FALSE]
-----------------------------------------------------------------------------
cleanVersionPath(path) ==
  LET clean == SP!Clean(path, FALSE)
  IN  IF clean = <<>> \/ SP!Escapes(clean) THEN <<>> ELSE clean
insertContentVersion(path, version) ==
  Append(Front(path), [Last(path) EXCEPT !.versions = Append(@, version)])
ContentVersionPath(path) == insertContentVersion(path, Hash(disk[path].content))
FixedVersionPath(version, path) == <<Segment(version, Empty)>> \o path

(* A version counts when something precedes it and it is long enough.         *)
CanSplit(path) ==
  /\ path # <<>> /\ Last(path).versions # <<>>
  /\ Len(Last(path).versions) > 1 \/ Last(path).stem # Empty
  /\ Last(Last(path).versions).digits >= minContentVersionLength
splitContentVersion(path) ==
  [base |-> Append(Front(path), [Last(path) EXCEPT !.versions = Front(@)]),
   requested |-> Last(Last(path).versions)]
contentVersionMatches(requested, actual) ==
  /\ requested.digits \in minContentVersionLength .. actual.digits
  /\ requested.of = actual.of

(* ResourceURLProvider.URL: the content version first, the fixed one before   *)
(* the whole path.                                                            *)
URL(path) ==
  LET versioned == IF served.content THEN ContentVersionPath(path) ELSE path
  IN  IF served.fixed = Empty THEN versioned ELSE FixedVersionPath(served.fixed, versioned)
stripVersion(path) ==
  IF served.fixed # Empty /\ Len(path) > 1 /\ Head(path) = Segment(served.fixed, Empty) THEN Tail(path) ELSE <<>>
isStaticCacheStatus(code) == code \in {200, 206, 304}

(* Files have clean paths and names that begin with more than an extension,   *)
(* and none has the name of a link to another: a whole hash in its own name,  *)
(* or a directory of a fixed version.                                         *)
ASSUME StaticAssumption ==
  /\ Contents # {} /\ Contents \subseteq STRING /\ {k.fixed : k \in Configurations} \subseteq STRING
  /\ \A path \in Files :
       LET versioned == {insertContentVersion(path, Hash(c)) : c \in Contents}
           fixed == {k.fixed : k \in Configurations} \ {Empty}
           links == versioned \cup {FixedVersionPath(version, link) : version \in fixed, link \in {path} \cup versioned}
       IN  /\ path # <<>>
           /\ path \in Seq([stem : STRING, versions : Seq([of : STRING, digits : Nat]), ext : STRING])
           /\ Last(path).stem # Empty \/ Last(path).versions # <<>>
           /\ links \cap Files = {}
           /\ \A link \in links : cleanVersionPath(link) = link
-----------------------------------------------------------------------------
InitStatic ==
  /\ served \in Configurations
  /\ disk = [path \in Files |-> [content |-> CHOOSE c \in Contents : TRUE, time |-> 0]]
  /\ cache = [path \in {} |-> Hash("none")]
  /\ reader = [r \in Readers |-> NoReader]
  /\ writes = 0

(* A deployment writes or removes a file; every write has a time of its own.  *)
Disturb ==
  reader' = [r \in Readers |-> [reader[r] EXCEPT !.late = @ \/ reader[r].at # "idle",
                                                 !.raced = @ \/ reader[r].at \in {"hash", "compare"}]]
Deploy(path, content) ==
  /\ writes < MaxWrites
  /\ writes' = writes + 1
  /\ disk' = [p \in DOMAIN disk \cup {path} |->
                IF p = path THEN [content |-> content, time |-> writes + 1] ELSE disk[p]]
  /\ Disturb
  /\ UNCHANGED <<cache, served>>
Delete(path) ==
  /\ writes < MaxWrites /\ path \in DOMAIN disk
  /\ writes' = writes + 1
  /\ disk' = [p \in DOMAIN disk \ {path} |-> disk[p]]
  /\ Disturb
  /\ UNCHANGED <<cache, served>>

(* A page renders a link to a file and its reader follows it later.           *)
Link(r, path) ==
  /\ reader[r].at = "idle" /\ path \in DOMAIN disk
  /\ reader' = [reader EXCEPT ![r] = [NoReader EXCEPT !.at = "exact", !.name = URL(path),
                                                      !.wanted = disk[path].content]]
  /\ UNCHANGED <<disk, cache, served, writes>>

(* contentVersionFS.Open: the name as it is, or else the file without the     *)
(* version, when the version is that of its content now.  fixedVersionFS      *)
(* tries once more, without its directory, what could not be opened with it.  *)
Fails(r) ==
  LET rest == stripVersion(reader[r].name)
  IN  reader' = [reader EXCEPT ![r] =
        IF reader[r].stripped \/ rest = <<>> THEN [@ EXCEPT !.at = "done", !.status = 404]
        ELSE [@ EXCEPT !.at = "exact", !.name = rest, !.stripped = TRUE]]
OpenExact(r) ==
  /\ reader[r].at = "exact"
  /\ LET name == reader[r].name
         clean == cleanVersionPath(name)
     IN  IF name \in DOMAIN disk
         THEN reader' = [reader EXCEPT ![r].at = "done", ![r].status = 200, ![r].got = disk[name].content]
         ELSE IF served.content /\ CanSplit(clean)
         THEN reader' = [reader EXCEPT ![r].at = "stat", ![r].base = splitContentVersion(clean).base,
                                       ![r].requested = splitContentVersion(clean).requested]
         ELSE Fails(r)
  /\ UNCHANGED <<disk, cache, served, writes>>
CachedSize(path) == path \in DOMAIN cache /\ cache[path].signature.size = signature(path).size
Cached(path) == path \in DOMAIN cache /\ cache[path].signature = signature(path)
StatBase(r) ==
  /\ reader[r].at = "stat"
  /\ LET base == reader[r].base
     IN  IF base \notin DOMAIN disk THEN Fails(r)
         ELSE reader' = [reader EXCEPT ![r] =
                IF Cached(base) THEN [@ EXCEPT !.at = "compare", !.version = cache[base].version]
                ELSE [@ EXCEPT !.at = "hash", !.signature = signature(base), !.handle = disk[base].content]]
  /\ UNCHANGED <<disk, cache, served, writes>>
(* The open file is the one that was there, or is rewritten under the reader. *)
HashBase(r) ==
  /\ reader[r].at = "hash"
  /\ LET base == reader[r].base
     IN  \E content \in {reader[r].handle} \cup {disk[p].content : p \in DOMAIN disk \cap {base}} :
           /\ reader' = [reader EXCEPT ![r].at = "compare", ![r].version = Hash(content)]
           /\ cache' = [p \in DOMAIN cache \cup {base} |->
                          IF p = base THEN [signature |-> reader[r].signature, version |-> Hash(content)]
                          ELSE cache[p]]
  /\ UNCHANGED <<disk, served, writes>>
OpenBase(r) ==
  /\ reader[r].at = "compare"
  /\ LET base == reader[r].base
     IN  IF contentVersionMatches(reader[r].requested, reader[r].version) /\ base \in DOMAIN disk
         THEN reader' = [reader EXCEPT ![r].at = "done", ![r].status = 200, ![r].got = disk[base].content]
         ELSE Fails(r)
  /\ UNCHANGED <<disk, cache, served, writes>>

NextStatic ==
  \/ \E path \in Files : Delete(path) \/ \E content \in Contents : Deploy(path, content)
  \/ \E r \in Readers : \/ \E path \in Files : Link(r, path)
                        \/ OpenExact(r) \/ StatBase(r) \/ HashBase(r) \/ OpenBase(r)
SpecStatic == InitStatic /\ [][NextStatic]_svvars
-----------------------------------------------------------------------------
(* A link leads to the file it was rendered for as long as no file changes,   *)
(* and what is answered as found, and may therefore be cached for good, has   *)
(* the content whose hash is in the name, even if files changed since, unless *)
(* the file changed between the check of its version and its opening; also    *)
(* when what is cached about the file came from a request that raced a write  *)
(* (version.go: version, Open).                                               *)
LinksKeepTheirContent ==
  \A r \in Readers : reader[r].at = "done" =>
    /\ ~reader[r].late => reader[r].got = reader[r].wanted
    /\ served.content /\ ~reader[r].raced /\ isStaticCacheStatus(reader[r].status) =>
         reader[r].got = reader[r].wanted
=============================================================================
