------------------------- MODULE PlaceholderResolver -------------------------
(* The placeholder resolver of core/env.  A text is a sequence of tokens; the *)
(* delimiters "${", "}" and ":" are tokens of their own and every other token *)
(* stands for a run of ordinary characters, so that a key is one such token.  *)
(* A property set is a function from keys to values; a value is a text, or    *)
(* one the conversion service cannot print.                                   *)
EXTENDS Integers, Sequences, SequencesExt, FiniteSetsExt

CONSTANT maxResolveDepth

DepthAssumption == maxResolveDepth \in Nat

Prefix == "${"
Suffix == "}"
Separator == ":"

Text(t) == [error |-> FALSE, found |-> TRUE, text |-> t]
Missing == [error |-> FALSE, found |-> FALSE, text |-> <<>>]
Failed == [error |-> TRUE, found |-> TRUE, text |-> <<>>]

Printable(t) == [printable |-> TRUE, text |-> t]
Opaque == [printable |-> FALSE, text |-> <<>>]

HasPlaceholder(t) == Prefix \in ToSet(t)
IndexOf(t, token) == Min({i \in DOMAIN t : t[i] = token} \cup {Len(t) + 1})
Occurrences(t, token) == Cardinality({i \in DOMAIN t : t[i] = token})

(* The suffix that closes the placeholder opened at start, 0 when none does.  *)
findPlaceholderEnd(t, start) ==
  LET closes == {j \in start + 1 .. Len(t) :
                   /\ t[j] = Suffix
                   /\ LET between == SubSeq(t, start + 1, j - 1)
                      IN  Occurrences(between, Prefix) = Occurrences(between, Suffix)}
  IN  IF closes = {} THEN 0 ELSE Min(closes)

(* Key and fallback: the split is at the first separator, whatever encloses it. *)
splitPlaceholderExpression(e) ==
  LET at == IndexOf(e, Separator)
  IN  [key |-> SubSeq(e, 1, at - 1),
       fallback |-> IF at > Len(e) THEN Missing ELSE Text(SubSeq(e, at + 1, Len(e)))]

KeyOf(e) == splitPlaceholderExpression(e).key
IsKey(props, k) == Len(k) = 1 /\ k[1] \in DOMAIN props

valueToString(value) == IF value.printable THEN Text(value.text) ELSE Failed

RECURSIVE resolvePlaceholders(_, _, _, _), SubstituteFrom(_, _, _, _)

(* The value of one placeholder: Missing leaves it in the text as it was.     *)
resolvePlaceholderExpression(props, e, required, depth) ==
  LET key == KeyOf(e)
      fallback == splitPlaceholderExpression(e).fallback
      Nested(outcome) == IF outcome.error THEN outcome
                         ELSE resolvePlaceholders(props, outcome.text, required, depth + 1)
  IN  CASE key = <<>> -> IF required THEN Failed ELSE Missing
        [] IsKey(props, key) -> Nested(valueToString(props[key[1]]))
        [] key # <<>> /\ ~IsKey(props, key) /\ fallback.found -> Nested(fallback)
        [] OTHER -> IF required THEN Failed ELSE Missing

(* One pass over a text.  An unclosed placeholder ends it: the rest stays and *)
(* what was substituted before it is not looked at again.                     *)
SubstituteFrom(props, t, required, depth) ==
  LET start == IndexOf(t, Prefix)
      end == findPlaceholderEnd(t, start)
      one == resolvePlaceholderExpression(props, SubSeq(t, start + 1, end - 1), required, depth)
      rest == SubstituteFrom(props, SubSeq(t, end + 1, Len(t)), required, depth)
  IN  CASE start > Len(t) -> [error |-> FALSE, text |-> t, unclosed |-> FALSE]
        [] start <= Len(t) /\ end = 0 -> [error |-> required, text |-> t, unclosed |-> TRUE]
        [] OTHER ->
             [error |-> one.error \/ rest.error,
              text |-> SubSeq(t, 1, start - 1)
                         \o (IF one.found THEN one.text ELSE SubSeq(t, start, end)) \o rest.text,
              unclosed |-> rest.unclosed]

resolveOneLess(props, t, required, depth) ==   \* mutant: the limit itself is already too deep
  IF depth >= maxResolveDepth THEN Failed
  ELSE LET pass == SubstituteFrom(props, t, required, depth)
       IN  IF pass.error THEN Failed ELSE Text(pass.text)
resolvePlaceholders(props, t, required, depth) ==
  IF depth > maxResolveDepth THEN Failed
  ELSE LET Again(pass) ==
             CASE pass.error -> Failed
               [] ~pass.error /\ ~pass.unclosed /\ pass.text # t /\ HasPlaceholder(pass.text) ->
                    resolvePlaceholders(props, pass.text, required, depth + 1)
               [] OTHER -> Text(pass.text)
       IN  Again(SubstituteFrom(props, t, required, depth))

ResolvePlaceholders(props, t) == resolvePlaceholders(props, t, FALSE, 0)
ResolveRequiredPlaceholders(props, t) == resolvePlaceholders(props, t, TRUE, 0)

(* Reading one property: every error becomes "not there".                     *)
ContainsProperty(props, k) == k \in DOMAIN props
GetProperty(props, k) ==
  IF ~ContainsProperty(props, k) THEN Missing
  ELSE LET value == valueToString(props[k])
           text == ResolvePlaceholders(props, value.text)
       IN  IF value.error \/ text.error THEN Missing ELSE text
GetPropertyOrDefault(props, k, default) ==
  LET value == GetProperty(props, k) IN IF value.found THEN value ELSE Text(default)
GetRequiredProperty(props, k) ==
  LET value == GetProperty(props, k) IN IF value.found THEN value ELSE Failed
(* With a target type the error is reported.  The conversion is Conversion's. *)
GetPropertyAs(props, k) ==
  IF ~ContainsProperty(props, k) THEN Missing
  ELSE IF props[k].printable THEN ResolvePlaceholders(props, props[k].text) ELSE Text(<<>>)
=============================================================================
