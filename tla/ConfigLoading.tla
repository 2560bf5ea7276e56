---------------------------- MODULE ConfigLoading ----------------------------
(* Loading property sources from files, core/env: which candidate is read,    *)
(* how a .properties text becomes keys and values, how a nested configuration *)
(* is flattened to dotted keys, and which names a bound prefix admits.        *)
EXTENDS Integers, Sequences, FiniteSets, SequencesExt

Error == [error |-> TRUE, value |-> <<>>]
Ok(v) == [error |-> FALSE, value |-> v]

(* Candidates.  A resource is "absent", "unreadable", or has the properties   *)
(* its text parses to; the text that does not parse is "broken".              *)
configSearchOrder == <<"yml", "properties", "toml">>
formats == {"yml", "yaml", "properties", "toml"}

loadAnyCandidate(resource) ==   \* mutant: a file that cannot be read counts as missing
  IF resource \in {"absent", "unreadable"} THEN "notFound"
  ELSE IF resource = "broken" THEN "failed" ELSE "loaded"
loadConfigCandidate(resource) ==
  CASE resource = "absent" -> "notFound"
    [] resource \in {"unreadable", "broken"} -> "failed"
    [] OTHER -> "loaded"

(* With an extension only that file; without one the first candidate that is  *)
(* there, and an error of an earlier one ends the search.                     *)
LoadConfigPropertySource(resources, extension, ignoreNotFound) ==
  LET results == [i \in DOMAIN configSearchOrder |-> loadConfigCandidate(resources[configSearchOrder[i]])]
      decisive == {i \in DOMAIN results : results[i] # "notFound"}
      first == CHOOSE i \in decisive : \A j \in decisive : i <= j
      Missing == IF ignoreNotFound THEN "none" ELSE "notFound"
  IN  CASE extension # "" /\ extension \notin formats -> "unsupported"
        [] extension \in formats ->
             LET one == loadConfigCandidate(resources[extension])
             IN  IF one = "notFound" THEN Missing ELSE IF one = "loaded" THEN extension ELSE one
        [] OTHER -> IF decisive = {} THEN Missing
                    ELSE IF results[first] = "loaded" THEN configSearchOrder[first] ELSE results[first]
-----------------------------------------------------------------------------
(* .properties text: a sequence of raw lines, each a sequence of characters.  *)
Escape == "\\"
Blank == {" ", "TAB"}
Delimiters == {"=", ":"}
Controls == [t |-> "TAB", n |-> "LF", r |-> "CR", f |-> "FF"]

TrimLeft(l) == LET inner == {i \in DOMAIN l : l[i] \notin Blank}
               IN  IF inner = {} THEN <<>> ELSE SubSeq(l, CHOOSE i \in inner : \A j \in inner : i <= j, Len(l))
TrimSpace(l) == Reverse(TrimLeft(Reverse(TrimLeft(l))))
(* The run of escapes that ends just before i; an odd one escapes i.          *)
Escapes(l, i) == Cardinality({j \in 1..i - 1 : \A k \in j..i - 1 : l[k] = Escape})
Escaped(l, i) == Escapes(l, i) % 2 = 1
hasLineContinuation(l) == Escaped(l, Len(l) + 1)

logicalPropertyLines(raw) ==
  LET Line(acc, l) == IF acc.continued THEN TrimLeft(l) ELSE l
      Add(acc, l) ==
        IF hasLineContinuation(Line(acc, l))
        THEN [acc EXCEPT !.open = @ \o Front(Line(acc, l)), !.continued = TRUE]
        ELSE [lines |-> Append(acc.lines, acc.open \o Line(acc, l)), open |-> <<>>, continued |-> FALSE]
      end == FoldLeft(Add, [lines |-> <<>>, open |-> <<>>, continued |-> FALSE], raw)
  IN  IF end.continued THEN Append(end.lines, end.open) ELSE end.lines

(* The key ends at the first delimiter or blank that is not escaped; blanks   *)
(* and one delimiter may still follow before the value.                       *)
splitPropertyLine(l) ==
  LET ends == {i \in DOMAIN l : l[i] \in Delimiters \cup Blank /\ ~Escaped(l, i)}
      at == CHOOSE i \in ends : \A j \in ends : i <= j
      rest == TrimLeft(SubSeq(l, at + 1, Len(l)))
  IN  IF ends = {} THEN <<l, <<>>>>
      ELSE <<SubSeq(l, 1, at - 1), IF rest # <<>> /\ rest[1] \in Delimiters THEN TrimLeft(Tail(rest)) ELSE rest>>

(* A surrogate pair is two escapes; half of one is an error.                  *)
parseUnicodeEscape(t) ==
  CASE t # <<>> /\ t[1] = "BMP" -> Ok(<<1>>)
    [] Len(t) >= 4 /\ SubSeq(t, 1, 4) = <<"HIGH", Escape, "u", "LOW">> -> Ok(<<4>>)
    [] OTHER -> Error
RECURSIVE unescapePropertyText(_)
unescapePropertyText(t) ==
  LET Then(c, rest) == LET more == unescapePropertyText(rest) IN IF more.error THEN Error ELSE Ok(<<c>> \o more.value)
      code == parseUnicodeEscape(SubSeq(t, 3, Len(t)))
  IN  CASE t = <<>> -> Ok(<<>>)
        [] t # <<>> /\ t[1] # Escape -> Then(t[1], Tail(t))
        [] t = <<Escape>> -> Ok(t)
        [] Len(t) > 1 /\ t[1] = Escape /\ t[2] = "u" ->
             IF code.error THEN Error ELSE Then("RUNE", SubSeq(t, 3 + code.value[1], Len(t)))
        [] OTHER -> Then(IF t[2] \in DOMAIN Controls THEN Controls[t[2]] ELSE t[2], SubSeq(t, 3, Len(t)))

(* The entries in the order of their lines: a later line with the key wins.   *)
ParseProperties(raw) ==
  LET lines == SelectSeq(logicalPropertyLines(raw),
                         LAMBDA l : TrimLeft(l) # <<>> /\ TrimLeft(l)[1] \notin {"#", "!"})
      Part(l, i) == unescapePropertyText(TrimSpace(splitPropertyLine(TrimLeft(l))[i]))
      Wrong(l) == Part(l, 1).error \/ Part(l, 2).error \/ Part(l, 1).value = <<>>
  IN  IF \E i \in DOMAIN lines : Wrong(lines[i]) THEN Error
      ELSE LET Key(i) == Part(lines[i], 1).value
           IN  Ok({<<Key(i), Part(lines[i], 2).value>> :
                     i \in {i \in DOMAIN lines : \A j \in i + 1 .. Len(lines) : Key(j) # Key(i)}})
-----------------------------------------------------------------------------
(* A configuration is a scalar, a list, or a map of entries; an entry's key   *)
(* is a name, perhaps padded with blanks, or no text at all.                  *)
Scalar(v) == [kind |-> "scalar", value |-> v]
Listed(items) == [kind |-> "list", items |-> items]
Nested(entries) == [kind |-> "map", entries |-> entries]
Entry(name, value) == [name |-> name, text |-> TRUE, value |-> value]

(* Dotted keys are paths; an index belongs to the segment it follows.  A list *)
(* is kept whole at its own path too.                                         *)
Indexed(path, i) == Append(Front(path), Last(path) \o "[" \o ToString(i - 1) \o "]")
RECURSIVE flattenConfigValue(_, _)
flattenConfigValue(path, tree) ==
  CASE tree.kind = "scalar" -> {<<path, tree>>}
    [] tree.kind = "list" -> {<<path, tree>>} \cup UNION {flattenConfigValue(Indexed(path, i), tree.items[i]) : i \in DOMAIN tree.items}
    [] tree.kind = "map" -> UNION {flattenConfigValue(Append(path, e.name), e.value) : e \in tree.entries}
RECURSIVE ConfigKeysValid(_)
ConfigKeysValid(tree) ==
  CASE tree.kind = "scalar" -> TRUE
    [] tree.kind = "list" -> \A i \in DOMAIN tree.items : ConfigKeysValid(tree.items[i])
    [] tree.kind = "map" -> \A e \in tree.entries : e.text /\ e.name # "" /\ ConfigKeysValid(e.value)
(* Every choice among entries whose trimmed keys collide can be the outcome.  *)
flattenConfigMap(tree) ==
  IF ~ConfigKeysValid(tree) THEN {}
  ELSE LET pairs == flattenConfigValue(<<>>, tree)
           paths == {p[1] : p \in pairs}
       IN  {f \in [paths -> {p[2] : p \in pairs}] : \A k \in paths : <<k, f[k]>> \in pairs}
-----------------------------------------------------------------------------
(* Names under a prefix.  A name is a path; the pattern "x.*" admits all      *)
(* below x.                                                                   *)
propertyHasPrefix(name, prefix) == IF prefix = <<>> THEN name # <<>> ELSE IsStrictPrefix(prefix, name)
configurationPropertyAllowed(name, allowed) ==
  \/ name \in allowed
  \/ \E a \in allowed : a # <<>> /\ Last(a) = "*" /\ propertyHasPrefix(name, Front(a))
ValidateConfigurationPropertyNames(names, prefix, allowed) ==
  \A n \in names : propertyHasPrefix(n, prefix) => configurationPropertyAllowed(n, allowed)
(* A map property: every name below the prefix; read[n] is what reading n      *)
(* gives, and one that cannot be read fails all.                              *)
GetPropertyMapAsValue(names, prefix, read) ==
  LET below == {n \in names : IsStrictPrefix(prefix, n)}
  IN  IF \E n \in below : read[n].error THEN Error
      ELSE Ok({<<SubSeq(n, Len(prefix) + 1, Len(n)), read[n].value>> : n \in {n \in below : read[n].found}})
=============================================================================
