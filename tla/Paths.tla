-------------------------------- MODULE Paths --------------------------------
(* Slash paths as sequences of segments, and Go's path.Clean on them.         *)
EXTENDS Naturals, Sequences, SequencesExt

CONSTANTS Here, Up   \* the segments "." and ".."

(* path.Clean: "." goes, ".." takes the segment before it, one that has none  *)
(* to take stays, or goes when the path is rooted.                            *)
Clean(path, rooted) ==
  FoldLeft(LAMBDA out, segment :
             IF segment = Here THEN out
             ELSE IF segment # Up THEN Append(out, segment)
             ELSE IF out # <<>> /\ Last(out) # Up THEN Front(out)
             ELSE IF rooted THEN out
             ELSE Append(out, segment),
           <<>>, path)
Escapes(clean) == clean # <<>> /\ Head(clean) = Up
Base(path) == IF path = <<>> THEN Here ELSE Last(path)
=============================================================================
