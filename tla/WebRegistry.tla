------------------------------ MODULE WebRegistry ------------------------------
(* What web modules contribute to (web/registry.go) and what is built from it *)
(* (web/registry_runtime.go, web/configuration.go).  A configurer is nil, or  *)
(* fails, or makes contributions [kind, nil, value, mapping]; an element of a *)
(* pipeline is a record with a kind.                                          *)
EXTENDS Naturals, Sequences, FiniteSets, SequencesExt

None == "none"
Everywhere == [includes |-> <<>>, excludes |-> <<>>]
DefaultReader == [converters |-> <<"string", "bytes", "form", "json">>, advices |-> <<>>]
DefaultWriter == <<"bytes", "string", "reader", "form", "json">>

NewRegistry ==
  [interceptors |-> <<>>, advice |-> <<>>, mappers |-> <<>>, fallback |-> None,
   reader |-> None, writer |-> None, readAdvice |-> <<>>, readConverters |-> <<>>,
   writeConverters |-> <<>>, filters |-> <<>>, profiles |-> <<>>, servlets |-> <<>>, err |-> None]

(* A registration with a mapping wraps its target; both kinds of wrapper pass *)
(* a request on when the path is not theirs.                                  *)
Registration(value, mapping) ==
  IF mapping = Everywhere THEN value ELSE [kind |-> "mapped", target |-> value, mapping |-> mapping]

Named(registry, pattern) == \E i \in DOMAIN registry.servlets : registry.servlets[i].pattern = pattern
AddServlet(registry, s) ==
  CASE s.nil                      -> [registry EXCEPT !.err = "servlet"]
    [] ~s.nil /\ Named(registry, s.pattern) -> [registry EXCEPT !.err = "duplicate"]
    [] OTHER -> [registry EXCEPT !.servlets = Append(@,
         [s EXCEPT !.filters = SelectSeq(@, LAMBDA f : f.kind # "nil"),
                   !.name = IF @ = "" THEN s.pattern ELSE @])]

(* Use, UseMapped, AddFilter, UseErrorMapper, ...: nil is passed over.        *)
Lists == {"interceptors", "filters", "mappers", "advice", "readAdvice", "readConverters", "writeConverters"}
Contribute(registry, c) ==
  CASE c.kind = "servlets" -> AddServlet(registry, c.value)
    [] c.kind # "servlets" /\ c.nil -> registry
    [] c.kind \in Lists /\ ~c.nil -> [registry EXCEPT ![c.kind] = Append(@, Registration(c.value, c.mapping))]
    [] c.kind = "profiles" /\ ~c.nil ->
         IF Contains(registry.profiles, c.value) THEN registry ELSE [registry EXCEPT !.profiles = Append(@, c.value)]
    [] OTHER -> [registry EXCEPT ![c.kind] = c.value]
(* The beans that make one contribution; each refuses nil at registration.    *)
Contribution(kind, value) == [kind |-> kind, nil |-> value.kind = "nil", value |-> value, mapping |-> Everywhere]
Register(contributions) ==
  [nil |-> FALSE, err |-> IF \E i \in DOMAIN contributions : contributions[i].nil THEN "nil" ELSE None,
   contributions |-> contributions]
RegisterFilter(value, mapping) == Register(<<[Contribution("filters", value) EXCEPT !.mapping = mapping]>>)
RegisterInterceptor(value, mapping) == Register(<<[Contribution("interceptors", value) EXCEPT !.mapping = mapping]>>)
RegisterErrorMapper(value, fallback) == Register(<<Contribution(IF fallback THEN "fallback" ELSE "mappers", value)>>)
RegisterResponseAdvice(value) == Register(<<Contribution("advice", value)>>)
RegisterMessageConverter(value, kinds) == Register(SetToSeq({Contribution(k, value) : k \in kinds}))

Configure(registry, configurer) ==
  IF configurer.nil \/ registry.err # None THEN registry
  ELSE LET done == FoldLeft(LAMBDA r, c : IF r.err # None THEN r ELSE Contribute(r, c),
                            registry, configurer.contributions)
       IN  IF done.err = None THEN [done EXCEPT !.err = configurer.err] ELSE done
ApplyConfigurers(configurers) == FoldLeft(Configure, NewRegistry, configurers)

(* ControllerAdvice.ConfigureWeb and Configurer.ConfigureWeb of web/mvc.      *)
Each(kind, values) == [i \in DOMAIN values |-> Contribution(kind, values[i])]
AdviceContributions(a) ==
  (IF a.binders = <<>> THEN <<>> ELSE Each("interceptors", <<[kind |-> "binders", initializers |-> a.binders]>>))
  \o (IF a.models = <<>> THEN <<>> ELSE Each("interceptors", <<[kind |-> "models", initializers |-> a.models]>>))
  \o Each("readAdvice", a.readAdvice) \o Each("advice", a.responseAdvice)
  \o Each("mappers", [i \in DOMAIN a.handlers |-> [a.handlers[i] EXCEPT !.advice = a.kind]])
MvcContributions(c) ==
  Each("interceptors", c.interceptors)
  \o [i \in DOMAIN c.mapped |-> [Contribution("interceptors", c.mapped[i].target) EXCEPT !.mapping = c.mapped[i].mapping]]
  \o Each("mappers", c.handlers)
  \o FlattenSeq([i \in DOMAIN c.advices |-> AdviceContributions(c.advices[i])])
-----------------------------------------------------------------------------
hasMessageIO(r) ==
  r.reader # None \/ r.writer # None \/ r.readAdvice # <<>> \/ r.readConverters # <<>> \/ r.writeConverters # <<>>
Ids(s) == [i \in DOMAIN s |-> s[i].id]
currentMessageReaderAppending(r) ==
  LET reader == IF r.reader = None THEN DefaultReader ELSE r.reader
  IN  [converters |-> reader.converters \o Ids(r.readConverters), advices |-> reader.advices \o r.readAdvice]
(* Registered converters go first.  A reader rebuilt with them starts without *)
(* the advice of the reader it was built from.                                *)
currentMessageReader(r) ==
  LET reader == IF r.reader = None THEN DefaultReader ELSE r.reader
      widened == IF r.readConverters = <<>> THEN reader
                 ELSE [converters |-> Ids(r.readConverters) \o reader.converters, advices |-> <<>>]
  IN  [widened EXCEPT !.advices = @ \o r.readAdvice]
currentMessageWriter(r) ==
  Ids(r.writeConverters) \o (IF r.writer = None THEN DefaultWriter ELSE r.writer)

(* NewErrorMapperChain: who answers an error: the first mapper that takes it, *)
(* then the fallback, then the default mapper.                                *)
MapError(r, error) ==
  LET takers == {i \in DOMAIN r.mappers : error \in r.mappers[i].takes}
      first == CHOOSE i \in takers : \A j \in takers : i <= j
      asked == [i \in 1 .. (IF takers = {} THEN Len(r.mappers) ELSE first) |-> r.mappers[i].id]
  IN  [asked |-> asked,
       by |-> CASE takers # {}                      -> r.mappers[first].id
                [] takers = {} /\ r.fallback # None -> r.fallback.id
                [] OTHER                            -> "default"]

(* Router: the message context first, then the interceptors as registered.    *)
Router(r) == (IF hasMessageIO(r) THEN <<[kind |-> "messages"]>> ELSE <<>>) \o r.interceptors

(* BuildDeployment: the router behind the web application's own filter and    *)
(* the global filters, a servlet behind the global filters and its own.       *)
Deployment(r, servlet) ==
  LET named == {i \in DOMAIN r.servlets : r.servlets[i].name = servlet}
  IN  IF named = {} THEN <<[kind |-> "webapp"]>> \o r.filters \o <<[kind |-> "router"]>> \o Router(r)
      ELSE r.filters \o r.servlets[CHOOSE i \in named : TRUE].filters

(* appendControllerRegistrations: what surrounds the handler of a route.      *)
Wraps(controller) ==
  <<[kind |-> "kind", value |-> controller.kind]>>
  \o (IF controller.session THEN <<[kind |-> "session"]>> ELSE <<>>)
  \o (IF controller.binders = <<>> THEN <<>> ELSE <<[kind |-> "binders", initializers |-> controller.binders]>>)
  \o (IF controller.models = <<>> THEN <<>> ELSE <<[kind |-> "models", initializers |-> controller.models]>>)
=============================================================================
