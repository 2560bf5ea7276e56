------------------------------ MODULE Resources ------------------------------
(* core/resource: a location becomes a resource, and the resource answers     *)
(* Exists, Open, ReadAll and Stat from what the file system, the fs.FS, the   *)
(* memory or the HTTP server behind it says.  A location is a record of the   *)
(* parts the loader looks at: its scheme, whether "//" follows it, and its    *)
(* path as segments.  The stores themselves are external.                     *)
EXTENDS Naturals, Sequences, SequencesExt

P == INSTANCE Paths WITH Here <- ".", Up <- ".."

Failed(code) == [kind |-> "failed", code |-> code]
IsFailed(x) == x.kind = "failed"

FileResource(path, rooted) ==
  IF path = <<>> /\ ~rooted THEN Failed("InvalidArgument")
  ELSE [kind |-> "file", store |-> "disk", rooted |-> rooted, path |-> P!Clean(path, rooted)]
FSResource(name, path) == [kind |-> "fs", store |-> name, rooted |-> FALSE, path |-> P!Clean(path, FALSE)]
MemoryResource(name) == [kind |-> "memory", store |-> "memory", rooted |-> FALSE, path |-> name]
URLResource(scheme, path) ==
  IF scheme \notin {"http", "https"} THEN Failed("InvalidArgument")
  ELSE [kind |-> "url", store |-> scheme, rooted |-> TRUE, path |-> path]

(* What a loader was built with: a base directory, named file systems, memory *)
(* resources and resolvers, each a function from the locations it claims.     *)
resolveFilePath(loader, location) ==
  IF loader.base = <<>> \/ location.rooted THEN FileResource(location.path, location.rooted)
  ELSE FileResource(P!Clean(loader.base \o location.path, TRUE), TRUE)
loadFS(loader, location) ==
  LET name == IF location.path = <<>> THEN "" ELSE Head(location.path)
      path == IF Len(location.path) < 2 THEN <<".">> ELSE Tail(location.path)
  IN  IF name \notin loader.files THEN Failed("NotFound") ELSE FSResource(name, path)
loadMemory(loader, location) ==
  CASE location.path = <<>>               -> Failed("InvalidArgument")
    [] location.path \notin loader.memory -> Failed("NotFound")
    [] OTHER                              -> MemoryResource(location.path)
(* One letter before the colon is a drive, and a scheme has only the          *)
(* characters a scheme may have: anything else is part of a file path.        *)
locationScheme(location) == IF location.drive \/ location.odd THEN "" ELSE location.scheme

Load(loader, location) ==
  LET claimed == SelectSeq(loader.resolvers, LAMBDA resolver : location \in DOMAIN resolver)
  IN  CASE location.blank                        -> Failed("InvalidArgument")
        [] claimed # <<>>                        -> Head(claimed)[location]
        [] location.prefix = "file"              -> FileResource(location.path, location.rooted)
        [] location.prefix = "fs"                -> loadFS(loader, location)
        [] location.prefix = "memory"            -> loadMemory(loader, location)
        [] location.prefix \in {"http", "https"} -> URLResource(location.prefix, location.path)
        [] locationScheme(location) # ""         -> Failed("InvalidArgument")
        [] OTHER                                 -> resolveFilePath(loader, location)

(* Where a resource says it is; that of an fs.FS leaves the name out.         *)
Location(resource) ==
  [prefix |-> IF resource.kind = "url" THEN resource.store ELSE resource.kind,
   scheme |-> "", drive |-> FALSE, odd |-> FALSE, blank |-> FALSE,
   rooted |-> resource.rooted, path |-> resource.path]
=============================================================================
