--------------------------- MODULE MCConfiguration ---------------------------
\* Four sources over the keys a, b and d, one of them the system environment,
\* which knows d as D only; a merged parent that shares a name with a caller's
\* source.  Chains reach and pass the depth limit of 2.  The questions: every
\* profile expression of up to four tokens, every GaEL tree of two operators,
\* every key and value of up to two characters, every pair of entries of a
\* nested configuration, every state of three
\* candidate files, and every pair of types with two converters.
EXTENDS Configuration, SequencesExt

P(t) == PR!Printable(t)
Ref(k) == <<"${", k, "}">>
RefOr(k, t) == <<"${", k, ":">> \o t \o <<"}">>
One == <<"1">>

MCNames == [d |-> "D", D |-> "D"]
System == PS!NewSystemEnvironmentPropertySource("env", << [key |-> "D", value |-> P(One)] >>)
File == PS!Source("file", [a |-> P(Ref("b")), b |-> P(RefOr("d", Ref("a")))])
Args == PS!Source("args", [a |-> P(<<"#{", "1", "+", "1", "}">>), d |-> P(Ref("b"))])
Deep == PS!Source("deep", [b |-> PR!Opaque, d |-> P(Ref("a") \o Ref("d"))])
MCSources == {System, File, Args}
MCParent == [sources |-> <<PS!Source("args", [a |-> P(One)]), Deep>>, active |-> {"prod"}, default |-> {"base"}]
MCTexts == {Ref("a"), RefOr("a", One) \o Ref("b"), RefOr("d", <<"x">>), <<"${", "a">>,
            <<"#{", "property", "(", "'d'", ")", "}">>}
MCTargets == {"int", "int64", "string", "ints", "bool", "pint"}

T(kind, elem, named) == [kind |-> kind, elem |-> elem, named |-> named, unmarshals |-> FALSE]
MCTypes ==
  [string |-> T("string", "", FALSE), Name |-> T("string", "", TRUE), int |-> T("int", "", FALSE),
   Count |-> T("int", "", TRUE), int64 |-> T("int64", "", FALSE), float64 |-> T("float", "", FALSE),
   bool |-> T("bool", "", FALSE), Flag |-> T("bool", "", TRUE), any |-> T("interface", "", FALSE),
   ints |-> T("slice", "int", FALSE), strings |-> T("slice", "string", FALSE),
   array |-> T("array", "int", FALSE), pint |-> T("pointer", "int", FALSE),
   pName |-> T("pointer", "Name", FALSE), duration |-> T("duration", "", TRUE),
   object |-> T("struct", "", TRUE), url |-> [T("struct", "", TRUE) EXCEPT !.unmarshals = TRUE]]
AllKinds == {"int", "int64", "float", "bool", "duration", "text"}
MCParses == One :> AllKinds \ {"duration"}
MCConverters == (<<"string", "object">> :> CV!Value("object", {}))
Registered == { [p \in {} |-> 0], MCConverters,
                (<<"any", "object">> :> CV!Value("object", {})) @@ (<<"int", "any">> :> CV!NilValue) }
Content(t) == CASE MCTypes[t].kind = "string" -> AllKinds
                [] MCTypes[t].kind \in {"slice", "array"} -> {CV!Value(MCTypes[t].elem, AllKinds)}
                [] OTHER -> {}

MCDigits == ("1" :> 1)
MCQuoted == ("'d'" :> <<"d">>)
MCVariables == [x |-> [kind |-> "int", num |-> 2, den |-> 1]]
MCFunctions == [f |-> [kind |-> "nil"]]

Tokens == {"a", "b", "!", "&", "|", "(", ")"}
ProfileQuestions ==
  {[kind |-> "profile", tokens |-> t, accepted |-> {"a"}] : t \in UNION {[1..n -> Tokens] : n \in 1..4}}
Leaves == {<<"name", "x">>, <<"literal", GL!Int64(1)>>}
Grow(S) == {<<"binary", o, l, r>> : o \in {"||", "==", "+", "*"}, l \in S, r \in S}
           \cup {<<"unary", o, c>> : o \in {"!", "-"}, c \in S}
           \cup {<<"index", l, r>> : l \in S, r \in Leaves} \cup {<<"call", "f", <<c>> >> : c \in S}
Trees == Grow(Leaves \cup Grow(Leaves)) \cup {<<"call", "f", <<>> >>}
Spell(o) == CASE o = "||" -> <<"|", "|">> [] o = "==" -> <<"=", "=">> [] OTHER -> <<o>>
Spelled(t) == FoldLeft(LAMBDA acc, o : acc \o Spell(o), <<>>, t)
GaelQuestions == {[kind |-> "gael", tree |-> n, source |-> Spelled(Written(n))] : n \in Trees}

Special == {" ", ":", "#", "\\"}
Stored(t) == FoldLeft(LAMBDA acc, c : acc \o (IF c \in Special THEN <<"\\", c>> ELSE <<c>>), <<>>, t)
Line(k, v) == Stored(k) \o <<" ", "=", " ">> \o Stored(v)
Strings(n) == {t \in UNION {[1..m -> {"k", " ", ":", "#", "\\"}] : m \in 1..n} : t[Len(t)] # " "}
Cut(l, at) == IF at = 0 THEN << <<"#", "k">>, l>>
              ELSE << SubSeq(l, 1, at) \o <<"\\">>, <<" ">> \o SubSeq(l, at + 1, Len(l)) >>
PropertiesQuestions ==
  {[kind |-> "properties", key |-> k, value |-> v, raw |-> Cut(Line(k, v), IF cut THEN Len(Stored(k)) ELSE 0)] :
     k \in Strings(2), v \in Strings(2), cut \in BOOLEAN}
States == {"absent", "unreadable", "broken", "good"}
ConfigQuestions ==
  {[kind |-> "config", extension |-> e, ignore |-> i,
    resources |-> [f \in CL!formats |-> CASE f = "toml" -> z [] f = "properties" -> y [] OTHER -> x]] :
     e \in {"", "toml", "ini"}, i \in BOOLEAN, x \in States, y \in States, z \in States}
ConversionQuestions ==
  {[kind |-> "conversion", source |-> s, target |-> t, converters |-> c, content |-> Content(s)] :
     s \in DOMAIN MCTypes, t \in DOMAIN MCTypes, c \in Registered}
Place(prefix, rooted, path) ==
  [prefix |-> prefix, scheme |-> "", drive |-> FALSE, odd |-> FALSE, blank |-> FALSE, rooted |-> rooted, path |-> path]
Places == {Place(p, r, t) : p \in {"", "file", "fs", "memory", "https"}, r \in BOOLEAN,
             t \in { <<>>, <<"a">>, <<"..", "a">>, <<"app", ".", "a", "..", "b">>, <<"..", "..">> }}
          \cup {[Place("", FALSE, <<"a">>) EXCEPT !.scheme = "c", !.drive = d, !.odd = o] : d \in BOOLEAN, o \in BOOLEAN}
          \cup {[Place("", FALSE, <<"a">>) EXCEPT !.blank = TRUE]}
ResourceQuestions ==
  {[kind |-> "resource", location |-> l,
    loader |-> [base |-> b, files |-> {"app"}, memory |-> { <<"a">> }, resolvers |-> IF own THEN << (Place("fs", FALSE, <<"a">>) :> RC!FileResource(<<"z">>, TRUE)) >> ELSE <<>>]] :
     l \in Places, b \in {<<>>, <<"etc", "x">>}, own \in BOOLEAN}
Item == CL!Entry("x", CL!Scalar("1"))
Trees2 == {CL!Scalar("1"), CL!Listed(<<CL!Scalar("2")>>), CL!Listed(<<CL!Nested({Item})>>), CL!Nested({Item}),
           CL!Nested({CL!Entry("x", CL!Nested({Item})), CL!Entry("z", CL!Listed(<<CL!Scalar("1")>>))})}
Entries == {CL!Entry(n, t) : n \in {"a", "b", ""}, t \in Trees2}
           \cup {[CL!Entry("a", CL!Scalar("1")) EXCEPT !.text = FALSE]}
FlattenQuestions == {[kind |-> "flatten", tree |-> CL!Nested({d, e})] : d \in Entries, e \in Entries}
MCQuestions == {[kind |-> "environment"]} \cup ProfileQuestions \cup GaelQuestions \cup PropertiesQuestions
               \cup ConfigQuestions \cup FlattenQuestions \cup ConversionQuestions \cup ResourceQuestions
=============================================================================
