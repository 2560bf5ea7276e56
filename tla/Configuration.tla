---------------------------- MODULE Configuration ----------------------------
(* The configuration side of the program as its callers meet it: either an    *)
(* environment that goroutines change while values are read from it, or one   *)
(* question put to a parser, a loader or the conversion service.              *)
EXTENDS Environment

CONSTANTS Questions, maxResolveDepth, Types, Digits, Quoted, variables, functions,
          Converters, \* the converters of the environment's conversion service
          Parses,     \* the kinds the texts that are more than a text parse as
          Texts,      \* texts a caller resolves
          Targets     \* target types a value is injected as

VARIABLES question, answer

allvars == <<vars, question, answer>>

Pending == [kind |-> "pending"]
Asked(kind) == question.kind = kind /\ answer # Pending

PR == INSTANCE PlaceholderResolver
PE == INSTANCE ProfileExpression
CL == INSTANCE ConfigLoading
CV == INSTANCE Conversion
RC == INSTANCE Resources
GL == INSTANCE Gael

ASSUME ConfigurationAssumption == PR!DepthAssumption

(* ResolveValue of core/env/value.go: what an injected value becomes.  Its    *)
(* text is resolved as a required placeholder text, evaluated when the whole  *)
(* of it is a GaEL expression, and converted to the target type.              *)
(* The evaluator reads properties through the environment.                    *)
Readable == {k \in DOMAIN Properties : PR!GetProperty(Properties, k).found}
PropertyResolver == [contains |-> {<<k>> : k \in DOMAIN Properties},
                     get |-> [k \in {<<r>> : r \in Readable} |-> PR!GetProperty(Properties, k[1]).text]]
ContentOf(text) == IF text \in DOMAIN Parses THEN Parses[text] ELSE {"text"}

(* The Go type of a GaEL value.                                               *)
GoValue(v) ==
  CASE v.kind = "int" -> CV!Value("int64", {})
    [] v.kind = "float" -> CV!Value("float64", {})
    [] v.kind = "bool" -> CV!Value("bool", {})
    [] v.kind = "string" -> CV!Value("string", ContentOf(v.value))
    [] v.kind = "nil" -> CV!NilValue
    [] OTHER -> CV!Value("any", {})

evaluateGaEL(source) ==
  LET parsed == GL!Parse(source) IN IF parsed.ok THEN GL!Evaluate(PropertyResolver, parsed.node) ELSE GL!Error

IsExpression(t) == t # <<>> /\ t[1] = "#{" /\ t[Len(t)] = "}"
HasExpression(t) == \E i \in DOMAIN t : t[i] = "#{"

Expression(t) == SubSeq(t, 2, Len(t) - 1)
ConvertedRaw(value, target) == IF value.kind = "error" THEN {CV!Failure} ELSE {GoValue(value)}   \* mutant: not converted
Converted(value, target) == IF value.kind = "error" THEN {CV!Failure} ELSE CV!Convert(Converters, GoValue(value), target)

Inject(resolved, target) ==
  CASE resolved.error -> {CV!Failure}
    [] ~resolved.error /\ IsExpression(resolved.text) ->
         Converted(evaluateGaEL(Expression(resolved.text)), target)
    [] ~resolved.error /\ ~IsExpression(resolved.text) ->
         IF HasExpression(resolved.text) THEN {CV!Failure}
         ELSE CV!Convert(Converters, CV!Value("string", ContentOf(resolved.text)), target)
ResolveValue(text, target) ==
  Inject(IF PR!HasPlaceholder(text) THEN PR!ResolveRequiredPlaceholders(Properties, text) ELSE PR!Text(text), target)
-----------------------------------------------------------------------------
Answered(v) == [kind |-> "answer", value |-> v]

AskConversion(q) ==
  [can |-> CV!CanConvert(q.converters, q.source, q.target),
   got |-> CV!Convert(q.converters, CV!Value(q.source, q.content), q.target)]
Reply(q) ==
  CASE q.kind = "profile" -> PE!MatchProfileExpression(q.tokens, q.accepted)
    [] q.kind = "gael" -> GL!Parse(q.source)
    [] q.kind = "properties" -> CL!ParseProperties(q.raw)
    [] q.kind = "config" -> CL!LoadConfigPropertySource(q.resources, q.extension, q.ignore)
    [] q.kind = "conversion" -> AskConversion(q)
    [] q.kind = "flatten" -> CL!flattenConfigMap(q.tree)
    [] q.kind = "resource" -> RC!Load(q.loader, q.location)

InitAll ==
  /\ Init
  /\ question \in Questions
  /\ answer = Pending
Live == question.kind = "environment" /\ Next /\ UNCHANGED <<question, answer>>
Answer ==
  /\ question.kind # "environment" /\ answer = Pending
  /\ answer' = Answered(Reply(question))
  /\ UNCHANGED <<vars, question>>
NextAll == Live \/ Answer
SpecAll == InitAll /\ [][NextAll]_allvars
-----------------------------------------------------------------------------
(* A required text resolves exactly when every placeholder in it, and in what *)
(* it stands for, has a value or a fallback, and no chain of them is longer   *)
(* than the limit; what comes out has no placeholder left.  A circular        *)
(* definition is thereby refused and the deepest legal chain is not, and a    *)
(* property whose text resolves is read so by every call that reads it        *)
(* (property_resolver_part1.go: the depth is all that ends the recursion).    *)
Opens(t) == {i \in DOMAIN t : t[i] = PR!Prefix /\ PR!findPlaceholderEnd(t, i) # 0}
Outermost(t) == {i \in Opens(t) : \A j \in Opens(t) : j < i => PR!findPlaceholderEnd(t, j) < i}
Inside(t, i) == SubSeq(t, i + 1, PR!findPlaceholderEnd(t, i) - 1)
RECURSIVE StandsWithin(_, _)
StandsWithin(t, limit) ==
  /\ limit >= 0
  /\ \A i \in DOMAIN t : t[i] = PR!Prefix => i \in Opens(t)
  /\ \A i \in Outermost(t) :
       LET key == PR!KeyOf(Inside(t, i))
           fallback == PR!splitPlaceholderExpression(Inside(t, i)).fallback
       IN  IF PR!IsKey(Properties, key)
           THEN Properties[key[1]].printable /\ StandsWithin(Properties[key[1]].text, limit - 1)
           ELSE key # <<>> /\ fallback.found /\ StandsWithin(fallback.text, limit - 1)
Resolved(out, deep) == (out.error <=> deep) /\ (out.error \/ ~PR!HasPlaceholder(out.text))
ReadsAlike(out, k) ==
  out.error \/ {PR!GetPropertyAs(Properties, k), PR!GetRequiredProperty(Properties, k),
                PR!GetPropertyOrDefault(Properties, k, <<"other">>)} = {out}
ResolvesIffShallow ==
  /\ \A t \in Texts :
       Resolved(PR!ResolveRequiredPlaceholders(Properties, t), ~StandsWithin(t, maxResolveDepth))
  /\ \A k \in {k \in DOMAIN Properties : Properties[k].printable} :
       ReadsAlike(PR!ResolveRequiredPlaceholders(Properties, Properties[k].text), k)

(* An injected value is of the type its target asked for, or is refused: no   *)
(* text, expression result or converter slips through untyped (value.go and   *)
(* normalizeConverted of builtin.go).                                         *)
InjectionTyped ==
  \A t \in Texts, target \in Targets : \A v \in ResolveValue(t, target) :
    v.type \in {"error", "nil"} \/ (v.type # "panic" /\ CV!AssignableTo(v.type, target))

Precedence(n) ==
  CASE n[1] = "binary" -> CHOOSE l \in DOMAIN GL!Levels : n[2] \in GL!Levels[l]
    [] n[1] = "unary" -> Len(GL!Levels) + 1
    [] OTHER -> Len(GL!Levels) + 2
RECURSIVE Written(_)
Written(n) ==
  LET Within(c, least) == IF Precedence(c) < least THEN <<"(">> \o Written(c) \o <<")">> ELSE Written(c)
      level == Precedence(n)
  IN  CASE n[1] = "binary" -> Within(n[3], level) \o <<n[2]>> \o Within(n[4], level + 1)
        [] n[1] = "unary" -> <<n[2]>> \o Within(n[3], level)
        [] n[1] = "index" -> Within(n[2], level) \o <<"[">> \o Written(n[3]) \o <<"]">>
        [] n[1] = "call" -> <<n[2], "(">> \o (IF n[3] = <<>> THEN <<>> ELSE Written(n[3][1])) \o <<")">>
        [] n[1] = "name" -> <<n[2]>>
        [] n[1] = "literal" -> <<"1">>
(* A map property reads what is nested under its prefix, and admits all of it. *)
Bound(f, prefix) ==
  CL!GetPropertyMapAsValue(PS!PropertyNames(<<PS!Source("file", f)>>), prefix,
                           [n \in DOMAIN f |-> [error |-> FALSE, found |-> TRUE, value |-> f[n]]])
Alone(tree, e) == \A d \in tree.entries : d.name = e.name => d = e
BindsNested(tree, f) ==
  \A e \in {e \in tree.entries : e.value.kind = "map" /\ Alone(tree, e)} :
    /\ Bound(f, <<e.name>>) \in {CL!Ok({<<k, g[k]>> : k \in DOMAIN g}) : g \in CL!flattenConfigMap(e.value)}
    /\ CL!ValidateConfigurationPropertyNames(DOMAIN f, <<e.name>>, {<<e.name, "*">>})

(* What is written is read back as what it was: a profile expression means    *)
(* what its operators say, "!" before "&" before "|", and nothing else is     *)
(* accepted (profile_expression.go); a GaEL tree with only the parentheses it *)
(* needs is parsed into itself (parser.go); a key and a value with every      *)
(* special character escaped and the line perhaps continued are loaded        *)
(* (properties_loader.go); a nested configuration is bound under its prefix as *)
(* it would be alone, unless trimmed keys collide (config_flatten.go,         *)
(* configuration_properties.go); the location a resource tells leads the same *)
(* loader back to it (loader.go).  Left out: a .properties value that ends in a*)
(* blank, whose escape is trimmed before it is read, and the resources of an  *)
(* fs.FS, whose location does not say which.                                  *)
TextsReadBack ==
  /\ Asked("profile") => answer.value = PE!Meaning(question.tokens, question.accepted)
  /\ Asked("gael") => answer.value.ok /\ answer.value.node = question.tree
  /\ Asked("properties") => answer.value = CL!Ok({<<question.key, question.value>>})
  /\ Asked("flatten") => \A f \in answer.value : BindsNested(question.tree, f)
  /\ Asked("resource") /\ answer.value.kind \notin {"failed", "fs"} =>
       RC!Load([question.loader EXCEPT !.resolvers = <<>>], RC!Location(answer.value)) = answer.value

(* A configuration file that is there is never passed over: neither for a     *)
(* later candidate nor because missing files are ignored                      *)
(* (config_loader_part1.go: only "not found" continues the search).           *)
ConfigErrorsSurface ==
  Asked("config") /\ question.extension = "" =>
    LET there == {i \in 1..3 : question.resources[CL!configSearchOrder[i]] # "absent"}
        first == CL!configSearchOrder[CHOOSE i \in there : \A j \in there : i <= j]
    IN  IF there = {} THEN answer.value \in {"none", "notFound"}
        ELSE answer.value = (IF question.resources[first] \in {"broken", "unreadable"} THEN "failed" ELSE first)

(* What CanConvert promises of two types Convert does for a value that parses,*)
(* and what it denies Convert refuses (service.go).  Left out: texts and      *)
(* truth values of a declared type, and arrays.                               *)
Plain(t) == \A u \in {t, CV!Elem(t)} \ {""} : ~Types[u].named \/ CV!Kind(u) \notin {"string", "bool"}
ConversionKeepsPromise ==
  Asked("conversion") /\ Plain(question.source) /\ Plain(question.target)
    /\ CV!Kind(question.source) # "array" =>
    LET fine == {v \in answer.value.got : v.type \notin CV!Bad}
    IN  answer.value.can <=> fine = answer.value.got
=============================================================================
