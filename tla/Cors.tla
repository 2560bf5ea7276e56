--------------------------------- MODULE Cors ---------------------------------
(* Cross-origin requests: the filter of web/cors and the routes web/          *)
(* cors_mapping.go makes of path mappings.  A request is [method, pattern,    *)
(* origin, wants, headers]: origin <<>> is none, wants and headers are what a *)
(* preflight asks for.  An answer is a status, the handler that ran with the  *)
(* media type chosen for it, and what the client is told.                     *)
EXTENDS Naturals, Sequences, FiniteSets, SequencesExt, PathPatterns

AllOrigins == <<Star>>
AllOf == "*"
Invalid == "invalid"      \* a name that is not an HTTP token
MethodOptions == "OPTIONS"
Simple == {"GET", "HEAD", "POST"}
defaultMaxAge == 30

Refusal == [status |-> 403, handler |-> "none", produces |-> <<>>, origin |-> <<>>, credentials |-> FALSE,
            methods |-> {}, headers |-> {}, exposed |-> {}, maxAge |-> 0, vary |-> {}]
Told == [Refusal EXCEPT !.status = 200]

(* cleanOrigins, cleanMethods, cleanHeaders: an invalid method is an error,   *)
(* an invalid header is dropped; "*" is kept in the list it stands in.        *)
compileConfig(config) ==
  IF Invalid \in config.methods THEN [err |-> "method"]
  ELSE [err |-> "none",
        allowAllOrigins |-> AllOrigins \in config.origins, origins |-> config.origins,
        patterns |-> config.patterns,
        allowAllMethods |-> AllOf \in config.methods, methods |-> config.methods,
        allowAllHeaders |-> AllOf \in config.headers, headers |-> config.headers \ {Invalid},
        exposed |-> config.exposed \ {Invalid},
        credentials |-> config.credentials, maxAge |-> config.maxAge]

originAllowed(c, origin) ==
  /\ origin # <<>>
  /\ \/ c.allowAllOrigins
     \/ origin \in c.origins
     \/ \E pattern \in c.patterns : globMatch(pattern, origin)
methodAllowed(c, method) ==
  /\ method # ""
  /\ \/ c.allowAllMethods
     \/ method \in (IF c.methods = {} THEN Simple ELSE c.methods)
headersAllowed(c, headers) == headers = {} \/ c.allowAllHeaders \/ headers \subseteq c.headers

writeAllowOrigin(c, origin) == IF c.allowAllOrigins /\ ~c.credentials THEN AllOrigins ELSE origin
writeAllowMethods(c, method) == IF c.allowAllMethods THEN {method} ELSE c.methods
writeAllowHeaders(c, headers) ==
  CASE c.allowAllHeaders /\ headers = {} -> {AllOf}
    [] c.allowAllHeaders /\ headers # {} -> headers
    [] OTHER                             -> c.headers

isPreflight(q) == q.method = MethodOptions /\ q.wants # ""
handlePreflight(c, q) ==
  IF ~originAllowed(c, q.origin) \/ ~methodAllowed(c, q.wants) \/ ~headersAllowed(c, q.headers) THEN Refusal
  ELSE [Told EXCEPT !.status = 204,
          !.origin = writeAllowOrigin(c, q.origin), !.credentials = c.credentials,
          !.methods = writeAllowMethods(c, q.wants), !.headers = writeAllowHeaders(c, q.headers),
          !.maxAge = c.maxAge, !.vary = {"origin", "method", "headers"}]
handleActual(c, q, target) ==
  IF ~originAllowed(c, q.origin) \/ ~methodAllowed(c, q.method) THEN Refusal
  ELSE [target EXCEPT !.origin = writeAllowOrigin(c, q.origin), !.credentials = c.credentials,
                      !.exposed = c.exposed, !.vary = @ \cup {"origin"}]
Filter(c, q, target) ==
  CASE q.origin = <<>> -> target
    [] q.origin # <<>> /\ isPreflight(q) -> handlePreflight(c, q)
    [] OTHER -> handleActual(c, q, target)
-----------------------------------------------------------------------------
(* AddCORSMapping fills what a mapping leaves open.                           *)
Or(value, default) == IF value = {} THEN default ELSE value
normalizeCORSConfig(config, methods) ==
  [config EXCEPT !.origins = IF @ = {} /\ config.patterns = {} THEN {AllOrigins} ELSE @,
                 !.methods = Or(@, methods), !.headers = Or(@, {AllOf}),
                 !.maxAge = IF @ = 0 THEN defaultMaxAge ELSE @]
AddCORSMapping(mappings, mapping) ==
  LET normalized == normalizeCORSConfig(mapping.config, mapping.methods)
  IN  IF mapping.pattern = <<>> \/ mapping.methods = {} \/ compileConfig(normalized).err # "none" THEN mappings
      ELSE Append(mappings, [mapping EXCEPT !.config = normalized])

(* newCORSRouteTable: per pattern and method the last mapping's filter.       *)
newCORSRouteTable(mappings) ==
  LET Keys == UNION {{<<mappings[i].pattern, m>> : m \in mappings[i].methods} : i \in DOMAIN mappings}
      Last1(key) == CHOOSE i \in DOMAIN mappings :
        /\ <<mappings[i].pattern, key[2]>> = key /\ key[2] \in mappings[i].methods
        /\ \A j \in i + 1 .. Len(mappings) : ~(mappings[j].pattern = key[1] /\ key[2] \in mappings[j].methods)
  IN  [key \in Keys |-> compileConfig(mappings[Last1(key)].config)]
preflightMethods(table, pattern) == {key[2] : key \in {k \in DOMAIN table : k[1] = pattern}}

PreflightOfPattern(table, q, known, target) ==
  IF isPreflight(q) THEN Filter(table[CHOOSE key \in DOMAIN table : key[1] = q.pattern], q, Told) ELSE target
(* The handler of OPTIONS on a mapped pattern; what is not a preflight goes to *)
(* the route that was registered for OPTIONS, if any.                         *)
isCORSPreflight(q) == isPreflight(q) /\ q.origin # <<>>
Preflight(table, q, known, target) ==
  CASE ~isCORSPreflight(q) /\ known          -> target
    [] ~isCORSPreflight(q) /\ ~known         ->
         [Told EXCEPT !.status = 204, !.methods = preflightMethods(table, q.pattern) \cup {MethodOptions}]
    [] isCORSPreflight(q) /\ <<q.pattern, q.wants>> \notin DOMAIN table -> Refusal
    [] OTHER -> Filter(table[<<q.pattern, q.wants>>], q, Told)

(* applyCORSMappings, then the router (external): 405 without a route.  The   *)
(* routes are a set of <<pattern, method>>, target is what the route answers. *)
applyCORSMappings(routes, mappings, q, target) ==
  LET table == newCORSRouteTable(mappings)
      mapped == preflightMethods(table, q.pattern) # {}
      known == <<q.pattern, q.method>> \in routes
  IN  CASE q.method = MethodOptions /\ mapped           -> Preflight(table, q, known, target)
        [] (q.method # MethodOptions \/ ~mapped) /\ ~known -> [Told EXCEPT !.status = 405]
        [] OTHER -> IF <<q.pattern, q.method>> \in DOMAIN table /\ q.method # MethodOptions
                    THEN Filter(table[<<q.pattern, q.method>>], q, target) ELSE target
=============================================================================
