---------------------------- MODULE RequestMapping ----------------------------
(* Controllers of web/mvc become routes, and one of the routes of a pattern   *)
(* and method is chosen by its conditions.  A pattern is a sequence that      *)
(* starts with "/"; a media type is a pair; a condition on a parameter or     *)
(* header is a sequence of tokens, "!" and "=" among them.                    *)
EXTENDS Naturals, Sequences, FiniteSets, SequencesExt, Cors

Unconditional == [consumes |-> <<>>, produces |-> <<>>, params |-> <<>>, headers |-> <<>>]
NoPolicy == [origins |-> {"none"}]
Slash == "/"
defaultRequestMappingMethods == <<"GET", "HEAD", "POST", "PUT", "PATCH", "DELETE", "OPTIONS">>

Distinct(s) == FoldLeft(LAMBDA out, x : IF Contains(out, x) THEN out ELSE Append(out, x), <<>>, s)
normalizeExplicitRequestMethods(methods) ==
  FoldLeft(LAMBDA out, m : IF m = "" \/ Contains(out, m) THEN out ELSE Append(out, m), <<>>, methods)

(* Routes without a method are one group; group 0 is a route with methods.    *)
RequestMappingMethods(methods, route, group) ==
  LET names == IF methods = <<>> THEN defaultRequestMappingMethods ELSE normalizeExplicitRequestMethods(methods)
  IN  [i \in DOMAIN names |->
        [route EXCEPT !.method = names[i], !.group = IF methods = <<>> THEN group ELSE 0]]

(* A controller's own methods replace those of a group, and the group is      *)
(* registered once; to a route with methods they are added.                   *)
routeMethods(controller, route) ==
  CASE controller.methods = <<>> -> <<route.method>>
    [] controller.methods # <<>> /\ route.group # 0 -> controller.methods
    [] OTHER -> normalizeExplicitRequestMethods(<<route.method>> \o controller.methods)
skipImplicitRoute(controller, i) ==
  /\ controller.methods # <<>> /\ controller.routes[i].group # 0
  /\ \E j \in 1 .. i - 1 : controller.routes[j].group = controller.routes[i].group
registrationPathPrefixes(controller) ==
  IF controller.prefixes = <<>> THEN << <<>> >> ELSE Distinct(controller.prefixes)
joinControllerRoutePattern(prefix, pattern) == <<Slash>> \o prefix \o pattern

OrElse(own, inherited) == IF own = <<>> THEN inherited ELSE own
mergeControllerRouteConditions(controller, route) ==
  [consumes |-> OrElse(route.consumes, controller.consumes),
   produces |-> OrElse(route.produces, controller.produces),
   params |-> controller.params \o route.params,
   headers |-> controller.headers \o route.headers]
crossOriginFor(controller, route) == IF route.cors = NoPolicy THEN controller.cors ELSE route.cors
crossOriginMethods(method) ==
  CASE method = "GET" -> {"GET", "HEAD"} [] method = "" -> {} [] OTHER -> {method}

appendControllerRegistrations(controller) ==
  LET prefixes == registrationPathPrefixes(controller)
      Resolved(route, prefix, method) ==
        [method |-> method, pattern |-> joinControllerRoutePattern(prefix, route.pattern),
         handler |-> route.handler, cors |-> crossOriginFor(controller, route),
         conditions |-> mergeControllerRouteConditions(controller.conditions, route.conditions)]
      Registered(route) ==
        LET methods == routeMethods(controller, route)
        IN  FlattenSeq([p \in DOMAIN prefixes |->
              [m \in DOMAIN methods |-> Resolved(route, prefixes[p], methods[m])]])
  IN  FlattenSeq([i \in DOMAIN controller.routes |->
        IF skipImplicitRoute(controller, i) THEN <<>> ELSE Registered(controller.routes[i])])

registerRouteCORS(mappings, registration) ==
  IF registration.cors = NoPolicy THEN mappings
  ELSE AddCORSMapping(mappings, [pattern |-> registration.pattern, config |-> registration.cors,
                                 methods |-> crossOriginMethods(registration.method)])

(* Two routes of one key must not have the same conditions, in any order.     *)
Count(s, x) == Cardinality({i \in DOMAIN s : s[i] = x})
conditionSignature(a, b) ==
  \A part \in DOMAIN a : Len(a[part]) = Len(b[part])
    /\ \A i \in DOMAIN a[part] : Count(a[part], a[part][i]) = Count(b[part], a[part][i])
Key(registration) == <<registration.pattern, registration.method>>
rejectAmbiguousRouteConditions(all) ==
  \E i, j \in DOMAIN all :
    i < j /\ Key(all[i]) = Key(all[j]) /\ conditionSignature(all[i].conditions, all[j].conditions)

registerControllers(controllers) ==
  LET Registry(all, mappings) ==
        [err |-> CASE Len(mappings) # Len(SelectSeq(all, LAMBDA r : r.cors # NoPolicy)) -> "cors"
                   [] Len(mappings) = Len(SelectSeq(all, LAMBDA r : r.cors # NoPolicy))
                        /\ rejectAmbiguousRouteConditions(all) -> "ambiguous"
                   [] OTHER -> "none",
         routes |-> all, mappings |-> mappings]
      Routes == FlattenSeq([i \in DOMAIN controllers |-> appendControllerRegistrations(controllers[i])])
  IN  Registry(Routes, FoldLeft(registerRouteCORS, <<>>, Routes))
-----------------------------------------------------------------------------
(* name, !name, name=value or name!=value; "" is a condition without a name,  *)
(* which is passed over.                                                      *)
At(text, mark) == {i \in DOMAIN text : text[i] = mark}
First(S) == CHOOSE i \in S : \A j \in S : i <= j
parseConditionExpression(text) ==
  LET differs == {i \in At(text, "!") : i < Len(text) /\ text[i + 1] = "="}
      Cut(i, width, op) == [op |-> op, name |-> SubSeq(text, 1, i - 1), value |-> SubSeq(text, i + width, Len(text))]
  IN  CASE differs # {}                            -> Cut(First(differs), 2, "differs")
        [] differs = {} /\ At(text, "=") # {}      -> Cut(First(At(text, "=")), 1, "equals")
        [] At(text, "=") = {} /\ 1 \in At(text, "!") -> [op |-> "absent", name |-> Tail(text), value |-> <<>>]
        [] OTHER                                   -> [op |-> "present", name |-> text, value |-> <<>>]
expressionMatches(e, values) ==
  LET exists == e.name \in DOMAIN values
  IN  CASE e.op = "absent"  -> ~exists
        [] e.op = "present" -> exists
        [] e.op = "equals"  -> exists /\ values[e.name] = e.value
        [] e.op = "differs" -> exists /\ values[e.name] # e.value
matchExpressions(expressions, values) ==
  \A i \in DOMAIN expressions :
    LET e == parseConditionExpression(expressions[i]) IN e.name # <<>> => expressionMatches(e, values)

mediaTypeMatches(range, media) == \A i \in 1..2 : range[i] \in {AllOf, media[i]}
matchConsumes(q, consumes) ==
  \/ consumes = <<>>
  \/ q.type # <<>> /\ \E i \in DOMAIN consumes : mediaTypeMatches(consumes[i], q.type)
(* External: the first range the client prefers that covers an offer.         *)
NegotiateContentType(accept, offers) ==
  LET Covered(i) == {j \in DOMAIN offers : mediaTypeMatches(accept[i], offers[j])}
      fit == {i \in DOMAIN accept : Covered(i) # {}}
  IN  IF fit = {} THEN <<>> ELSE offers[First(Covered(First(fit)))]

(* The media type the client gets is left in the request, whatever becomes of *)
(* the conditions checked after it.  A body that cannot be parsed has no      *)
(* parameters to compare.                                                     *)
match(c, q, produces) ==
  LET chosen == NegotiateContentType(q.accept, c.produces)
      unreadable == q.broken /\ \E i \in DOMAIN c.params : parseConditionExpression(c.params[i]).name # <<>>
      fits == matchExpressions(c.params, q.params) /\ matchExpressions(c.headers, q.values)
      Got(status) == [status |-> status, produces |-> IF c.produces = <<>> THEN produces ELSE chosen]
  IN  IF ~matchConsumes(q, c.consumes)             THEN [status |-> 415, produces |-> produces]
      ELSE IF c.produces # <<>> /\ chosen = <<>>   THEN [status |-> 406, produces |-> produces]
      ELSE Got(CASE unreadable -> 500 [] ~unreadable /\ ~fits -> 400 [] OTHER -> 0)

conditionErrorRank(status) == CASE status = 415 -> 4 [] status = 406 -> 3 [] status = 400 -> 2
                                [] status = 0 -> 0 [] OTHER -> 1
selectLatestError(current, candidate) == candidate
selectConditionError(current, candidate) ==
  IF conditionErrorRank(candidate) > conditionErrorRank(current) THEN candidate ELSE current
specificity(c) == 8 * Len(c.params) + 8 * Len(c.headers) + 4 * Len(c.consumes) + 4 * Len(c.produces)

Ran(registration, produces) == [Told EXCEPT !.handler = registration.handler, !.produces = produces]
wrap(registration, q, produces) ==
  LET Answer(got) == IF got.status = 0 THEN Ran(registration, got.produces) ELSE [Told EXCEPT !.status = got.status]
  IN  Answer(match(registration.conditions, q, produces))
(* Every candidate is matched, then the best of those that matched once more. *)
conditionDispatch(candidates, q) ==
  LET Keep(state, registration, score, got) ==
        CASE got.status # 0 -> [state EXCEPT !.err = selectConditionError(@, got.status), !.produces = got.produces]
          [] got.status = 0 /\ score > state.score ->
               [state EXCEPT !.best = <<registration>>, !.score = score, !.produces = got.produces]
          [] OTHER -> [state EXCEPT !.produces = got.produces]
      Try(state, registration) ==
        Keep(state, registration, specificity(registration.conditions) + 1,
             match(registration.conditions, q, state.produces))
      Dispatch(tried) ==
        IF tried.best = <<>> THEN [Told EXCEPT !.status = tried.err] ELSE wrap(tried.best[1], q, tried.produces)
  IN  Dispatch(FoldLeft(Try, [best |-> <<>>, score |-> 0, err |-> 0, produces |-> <<>>], candidates))
buildRouteRegistrationHandler(candidates, q) ==
  IF Len(candidates) = 1 THEN wrap(candidates[1], q, <<>>) ELSE conditionDispatch(candidates, q)

(* A request against the registered controllers.                              *)
Candidates(registry, q) ==
  FoldLeft(LAMBDA found, r : IF Key(r) = <<q.pattern, q.method>> THEN Append(found, r) ELSE found,
           <<>>, registry.routes)
Serve(registry, q) ==
  LET candidates == Candidates(registry, q)
  IN  applyCORSMappings({Key(r) : r \in ToSet(registry.routes)}, registry.mappings, q,
        IF candidates = <<>> THEN Told ELSE buildRouteRegistrationHandler(candidates, q))
=============================================================================
