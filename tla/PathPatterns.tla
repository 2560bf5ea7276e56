----------------------------- MODULE PathPatterns -----------------------------
(* Patterns of the web layer: origins with "*" and "?" (web/cors) and the     *)
(* paths an interceptor or filter is mapped to (web/interceptor.go).  A text  *)
(* is a sequence of characters, a path a sequence of such segments.           *)
EXTENDS Naturals, Sequences, FiniteSets, SequencesExt

Star == "*"
One == "?"
Segments == <<Star, Star>>      \* the segment that stands for any number of segments
P == INSTANCE Paths WITH Here <- <<".">>, Up <- <<".", ".">>

(* What a pattern means, also Go's path.Match on one segment.                 *)
Means(pattern, text) ==
  LET from[p \in 1 .. Len(pattern) + 1, t \in 1 .. Len(text) + 1] ==
        CASE p > Len(pattern)                       -> t > Len(text)
          [] p <= Len(pattern) /\ pattern[p] = Star -> \E n \in t .. Len(text) + 1 : from[p + 1, n]
          [] OTHER -> t <= Len(text) /\ pattern[p] \in {One, text[t]} /\ from[p + 1, t + 1]
  IN  from[1, 1]

(* globMatch walks both texts once and goes back to the last star only.       *)
globMatch(pattern, value) ==
  LET walk[at \in [pattern : Nat, value : Nat, star : Nat, from : Nat]] ==
        LET Fits == at.pattern <= Len(pattern)
        IN  CASE at.value > Len(value) -> \A i \in at.pattern .. Len(pattern) : pattern[i] = Star
              [] at.value <= Len(value) /\ Fits /\ pattern[at.pattern] \in {One, value[at.value]} ->
                   walk[[at EXCEPT !.pattern = @ + 1, !.value = @ + 1]]
              [] at.value <= Len(value) /\ Fits /\ pattern[at.pattern] = Star /\ value[at.value] # Star ->
                   walk[[at EXCEPT !.star = at.pattern, !.from = at.value, !.pattern = @ + 1]]
              [] OTHER -> /\ at.star > 0
                          /\ walk[[at EXCEPT !.pattern = at.star + 1, !.from = @ + 1, !.value = at.from + 1]]
  IN  walk[[pattern |-> 1, value |-> 1, star |-> 0, from |-> 0]]
-----------------------------------------------------------------------------
cleanInterceptorPath(path) == P!Clean(path, TRUE)

(* "**" is a segment of its own.  What path.Match refuses is left out.        *)
validInterceptorPattern(pattern) ==
  \A i \in DOMAIN pattern : pattern[i] = Segments \/ ~\E j \in 2..Len(pattern[i]) :
    pattern[i][j] = Star /\ pattern[i][j - 1] = Star
cleanInterceptorPatterns(patterns) ==
  LET cleaned == [i \in DOMAIN patterns |-> cleanInterceptorPath(patterns[i])]
  IN  IF patterns = <<>> \/ \E i \in DOMAIN cleaned : ~validInterceptorPattern(cleaned[i])
      THEN [err |-> "mapping", patterns |-> <<>>]
      ELSE [err |-> "none", patterns |-> cleaned]
NewInterceptorMapping(includes, excludes) ==
  [err |-> IF \E p \in {includes, excludes} : p # <<>> /\ cleanInterceptorPatterns(p).err # "none"
           THEN "mapping" ELSE "none",
   includes |-> cleanInterceptorPatterns(includes).patterns,
   excludes |-> cleanInterceptorPatterns(excludes).patterns]

matchInterceptorPathSegments(pattern, request) ==
  LET from[p \in 1 .. Len(pattern) + 1, r \in 1 .. Len(request) + 1] ==
        CASE p > Len(pattern) -> r > Len(request)
          [] p <= Len(pattern) /\ pattern[p] = Segments ->
               from[p + 1, r] \/ (r <= Len(request) /\ from[p, r + 1])
          [] OTHER -> r <= Len(request) /\ Means(pattern[p], request[r]) /\ from[p + 1, r + 1]
  IN  from[1, 1]

Deep(pattern) == {i \in DOMAIN pattern : pattern[i] = Segments}
(* Three ways: a trailing "**" alone compares the text before it, a pattern   *)
(* without "**" is one for path.Match, any other is walked by segments.       *)
matchInterceptorPathPattern(pattern, request) ==
  CASE pattern = <<Segments>>                                    -> TRUE
    [] pattern # <<Segments>> /\ Deep(pattern) = {Len(pattern)} /\ pattern # <<>> ->
         IsPrefix(Front(pattern), request)
    [] Deep(pattern) = {}                                   ->
         /\ Len(pattern) = Len(request)
         /\ \A i \in DOMAIN pattern : Means(pattern[i], request[i])
    [] OTHER -> matchInterceptorPathSegments(pattern, request)

Matches(mapping, path) ==
  LET request == cleanInterceptorPath(path)
      Meets(patterns) == \E i \in DOMAIN patterns : matchInterceptorPathPattern(patterns[i], request)
  IN  (mapping.includes = <<>> \/ Meets(mapping.includes)) /\ ~Meets(mapping.excludes)
=============================================================================
