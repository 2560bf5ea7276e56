--------------------------------- MODULE MCWeb ---------------------------------
EXTENDS Web

\* Applications: one with every kind of filter and wrapper, one whose
\* interceptors come from mapped registrations and advices, one of a servlet,
\* and two that do not start.  Requests: every method and override the filters
\* tell apart, two paths, forms that parse, do not parse or are too large.
User_(id) == [kind |-> "user", id |-> id]
Guarded == [kind |-> "once", delegate |-> User_("guarded")]
Handler(id) == [kind |-> "handler", id |-> id]
Mapper(id, takes) == [id |-> id, takes |-> takes, advice |-> None, kind |-> "mapper"]
Plain(contributions) == [nil |-> FALSE, err |-> None, contributions |-> contributions]
At_(path) == NewInterceptorMapping(<<path>>, <<>>)
Api == [includes |-> At_(<< <<"a">>, Segments>>).includes, excludes |-> << << <<"a">>, <<"x">> >> >>]
Nil(kind) == Contribution(kind, [kind |-> "nil"])
Xml == [kind |-> "converter", id |-> "xml"]
Advice == [kind |-> "rest", binders |-> <<"b1">>, models |-> <<"m1">>, readAdvice |-> <<>>, responseAdvice |-> <<>>,
           handlers |-> <<Mapper("advice", {"E1"})>>]
Mvc(advices, mapped) == Plain(MvcContributions(
  [interceptors |-> <<Handler("h1")>>, mapped |-> mapped, handlers |-> <<Mapper("mvc", {"E2"})>>, advices |-> advices]))
Controller(attributes, binders, models) == [kind |-> "view", session |-> attributes, binders |-> binders, models |-> models]
Nothing == [nil |-> TRUE, err |-> None, contributions |-> <<>>]
Servlet(name, filters) == [kind |-> "servlet", nil |-> FALSE, pattern |-> "/s", name |-> name, filters |-> filters]

Filtered == [configurers |-> <<Plain(<<Contribution("filters", [kind |-> "hidden"]), Contribution("filters", Guarded),
                                      Contribution("filters", [kind |-> "form"]), Nil("filters"),
                                      Contribution("filters", [kind |-> "forwarded"])>>),
                               RegisterFilter(Guarded, Api), Nothing,
                               RegisterMessageConverter(Xml, {"readConverters", "writeConverters"}),
                               RegisterResponseAdvice([kind |-> "advice"]), Mvc(<<>>, <<>>)>>,
             controller |-> Controller(TRUE, <<>>, <<"m2">>)]
Advised == [configurers |-> <<Mvc(<<Advice>>, <<[target |-> Handler("h2"), mapping |-> Api]>>),
                              RegisterErrorMapper(Mapper("fallback", {}), TRUE)>>,
            controller |-> Controller(FALSE, <<"b2">>, <<>>)]
Broken == [Advised EXCEPT !.controller.binders = <<"b2", "nil">>,
                          !.configurers = <<Mvc(<<>>, <<>>), RegisterInterceptor(User_("i"), Api), RegisterErrorMapper(Mapper("late", {"E1", "binder"}), FALSE)>>]
Serving == [Advised EXCEPT !.configurers = <<Plain(<<Contribution("filters", Guarded), Contribution("servlets",
              Servlet("s", <<[kind |-> "nil"], [kind |-> "hidden"], Guarded>>)), Contribution("profiles", [kind |-> "profile", id |-> "web"])>>)>>]
Twice == [Serving EXCEPT !.configurers = @ \o @]
Refused == [Advised EXCEPT !.configurers = <<RegisterFilter([kind |-> "nil"], Everywhere)>>]
MCApplications == {Filtered, Advised, Broken, Serving, Twice, Refused}

MCFilters == {[kind |-> k] : k \in {"hidden", "form", "forwarded"}}
             \cup {User_("guarded"), Guarded, [kind |-> "mapped", target |-> Guarded, mapping |-> Api]}
MCInterceptors == LET handlers == {Handler("h1"), Handler("h2"), User_("i")}
                  IN  handlers \cup {[kind |-> "mapped", target |-> h, mapping |-> Api] : h \in handlers}
                      \cup {[kind |-> k, initializers |-> i] : k \in {"binders", "models"}, i \in { <<"b1">>, <<"m1">> }}

MCRequests ==
  {[method |-> m, override |-> o, form |-> f, proto |-> p, path |-> t, servlet |-> s, scheme |-> "http"] :
     m \in {"GET", "POST", "PUT"}, o \in {"none", "PUT", "TRACE", "unreadable"},
     f \in {"other", "fields", "broken", "large"}, p \in {"https", "ftp"},
     t \in { << <<"a">>, <<"x">> >>, << <<"a">> >> }, s \in {"", "s"}}

\* Three requests of one client: redirects with flash attributes to a path
\* and parameters, failures, the end of a conversation.
Page == [path |-> "form", params |-> {}, redirects |-> FALSE, flash |-> FALSE,
         location |-> [path |-> "none", params |-> {}], fails |-> FALSE, completes |-> FALSE,
         names |-> {"draft"}, writes |-> {}]
Post(to, params) == [Page EXCEPT !.path = "post", !.redirects = TRUE, !.flash = TRUE,
                                 !.location = [path |-> to, params |-> params], !.writes = {"draft", "other"}]
MCScenarios ==
  { <<Post("form", {}), Page, Page>>,
    <<Post("form", {}), Post("form", {}), Page>>,
    <<Post("form", {"id=1"}), Page, [Page EXCEPT !.params = {"id=1", "x=2"}]>>,
    <<Post("form", {}), [Page EXCEPT !.fails = TRUE], Page>>,
    <<Post("form", {}), [Page EXCEPT !.completes = TRUE], [Page EXCEPT !.names = {"draft", "other"}]>>,
    <<[Post("form", {}) EXCEPT !.fails = TRUE], Page, [Page EXCEPT !.writes = {"draft"}]>>,
    <<Post("none", {}), [Post("list", {}) EXCEPT !.path = "form", !.names = {"other"}],
      [Page EXCEPT !.path = "list", !.completes = TRUE, !.names = {"draft", "other"}]>> }

\* A file and one whose own name ends like a version.
Part_(stem, ext, versions) == [stem |-> stem, versions |-> versions, ext |-> ext]
App == <<Part_("js", "", <<>>), Part_("app", ".js", <<>>)>>
Bundled == <<Part_("app", ".js", <<[of |-> "bundle", digits |-> 8]>>)>>
MCFiles == {App, Bundled}
MCSize == [content \in {"a", "b", "long"} |-> IF content = "long" THEN 2 ELSE 1]
MCConfigurations == [content : BOOLEAN, fixed : {"", "v1"}]

\* Routes of one pattern told apart by what they consume, produce and demand,
\* alone, in pairs and in threes; requests that meet some, all or none of them.
Json == <<"application", "json">>
Html == <<"text", "html">>
Given(consumes, produces, params, headers) ==
  [consumes |-> consumes, produces |-> produces, params |-> params, headers |-> headers]
Route(method, handler, conditions) ==
  [method |-> method, pattern |-> <<"p">>, handler |-> handler, conditions |-> conditions, cors |-> RM!NoPolicy, group |-> 0]
Controller_(routes) ==
  [methods |-> <<>>, prefixes |-> <<>>, conditions |-> RM!Unconditional, cors |-> RM!NoPolicy, routes |-> routes]
Gets == { Route("GET", "any", RM!Unconditional), Route("GET", "json", Given(<<>>, <<Json, Html>>, <<>>, <<>>)),
          Route("GET", "html", Given(<<>>, <<Html>>, <<>>, <<>>)), Route("GET", "takes", Given(<<Json>>, <<>>, <<>>, <<>>)),
          Route("GET", "with", Given(<<>>, <<>>, << <<"k", "=", "1">> >>, <<>>)),
          Route("GET", "without", Given(<<>>, <<>>, << <<"!", "k">> >>, << <<"k">> >>)),
          Route("GET", "differs", Given(<<>>, <<Json>>, << <<"k", "!", "=", "1">>, <<>> >>, <<>>)) }
Few == {g \in Gets : g.handler \in {"any", "json", "takes", "with"}}
Tried == { <<a>> : a \in Gets } \cup { <<a, b>> : a \in Gets, b \in Gets } \cup { <<a, b, c>> : a \in Few, b \in Few, c \in Few }
Plain_ == [method |-> "GET", pattern |-> <<"/", "p">>, type |-> <<>>, accept |-> <<Json>>, params |-> <<>>, values |-> <<>>,
           broken |-> FALSE, origin |-> <<>>, wants |-> "", headers |-> {}]
K(v) == (<<"k">> :> <<v>>)
Asking == { [Plain_ EXCEPT !.type = t, !.accept = a, !.params = p] :
              t \in {<<>>, Json}, a \in { <<Html, Json>>, << <<"text", "*">> >>, << <<"image", "png">> >> }, p \in {<<>>, K("1"), K("2")} }
          \cup { [Plain_ EXCEPT !.values = K("1")], [Plain_ EXCEPT !.broken = TRUE], [Plain_ EXCEPT !.method = "POST"] }
\* Policies of controllers and routes, over groups of methods and two prefixes.
Origin == <<"a", ".", "b">>
Policy(origins, patterns, methods, headers, credentials) ==
  [origins |-> origins, patterns |-> patterns, methods |-> methods, headers |-> headers, exposed |-> {"X"},
   credentials |-> credentials, maxAge |-> 0]
Policies == { RM!NoPolicy, Policy({}, {}, {}, {}, FALSE), Policy({RM!AllOrigins}, {}, {"POST"}, {}, TRUE),
              Policy({}, {<<"a", "*">>}, {"*"}, {"X-A", "invalid"}, FALSE), Policy({Origin}, {}, {"invalid"}, {}, TRUE) }
Shared == [Controller_(<<>>) EXCEPT !.prefixes = << <<>>, <<"v">> >>, !.methods = <<"PUT", "GET">>]
Grouped(policy) == RM!RequestMappingMethods(<<>>, [Route("", "all", RM!Unconditional) EXCEPT !.cors = policy], 1)
Deployed == { << [Controller_(<<Route("GET", "get", RM!Unconditional), [Route("POST", "post", RM!Unconditional) EXCEPT !.cors = own]>>)
                    EXCEPT !.cors = policy] >> : own \in Policies, policy \in Policies }
            \cup { << [Shared EXCEPT !.cors = policy, !.routes = Grouped(own)] >> : own \in Policies, policy \in Policies }
Crossing == { [Plain_ EXCEPT !.method = m, !.origin = o, !.wants = w, !.headers = h] :
                m \in {"GET", "POST", "OPTIONS"}, o \in {<<>>, Origin, <<"c">>}, w \in {"", "GET", "POST", "DELETE"}, h \in {{}, {"X-B"}} }
MappingQuestions ==
  {[kind |-> "mapping", controllers |-> <<Controller_(routes)>>, request |-> q] : routes \in Tried, q \in Asking}
  \cup {[kind |-> "mapping", controllers |-> controllers, request |-> q] : controllers \in Deployed, q \in Crossing}

\* Every kind of value, written and read with and without converters of the
\* application, for clients that accept every set of two media types.
Own(id) == RegisterMessageConverter(id, {"readConverters", "writeConverters"})
MessageQuestions ==
  {[kind |-> "message", configurers |-> c, value |-> v, declared |-> <<>>, accept |-> {a, b}, status |-> s, size |-> n] :
     c \in {<<>>} \cup {<<Own([kind |-> "converter", id |-> id])>> : id \in {"xml", "ownJson"}},
     v \in {"object", "string", "bytes", "form", "reader"}, a \in RS!Known, b \in {RS!Json, RS!Text, RS!Xml}, s \in {0, 404}, n \in {1, 3}}

\* A resource asked for twice, unchanged, changed, and changed within a
\* second; answered in every way, through a filter of every size.
Entity(parts_) == [kind |-> "entity", status |-> 0, headers |-> [noStore |-> FALSE], media |-> <<>>, body |-> parts_]
Download(parts_) == [kind |-> "download", status |-> 200, headers |-> <<>>, length |-> Len(parts_), body |-> parts_, broken |-> FALSE]
Direct(ops) == [kind |-> "direct", ops |-> ops]
Ways(v) ==
  << Entity(<<v>>), [Entity(<<v>>) EXCEPT !.media = <<RS!Json>>], [Entity(<<v>>) EXCEPT !.headers = [noStore |-> TRUE], !.status = 201],
     Download(<<v, v, v>>), [Download(<<v, v>>) EXCEPT !.broken = TRUE],
     [kind |-> "redirect", location |-> "/", status |-> 0, headers |-> <<>>], [kind |-> "error", error |-> [kind |-> "validation"]],
     Direct(<<RS!Body(<<v>>), RS!Op("flush", "", 0), RS!Body(<<v>>)>>),
     Direct(<<RS!Status(404), RS!Body(<<"x">>), RS!Op("reset", "", 0), RS!Body(<<v, v>>), RS!Body(<<v>>)>>),
     Direct(<<RS!Body(<<v>>), RS!Status(404)>>) >>
Checks == {[tag |-> t, modified |-> m] : t \in BOOLEAN, m \in {0, 4, 10}}
Check(c, v) == [tag |-> IF c.tag THEN <<"v", v>> ELSE RS!NoTag, modified |-> IF c.modified = 0 THEN RS!Unset ELSE c.modified * v + 10]
Get(filter, check, r) ==
  [method |-> "GET", noneMatch |-> {}, since |-> RS!Unset, check |-> check, filter |-> filter,
   accept |-> {RS!Json, RS!Problem}, result |-> r]
RespondQuestions ==
  {[kind |-> "respond", before |-> Get(f, Check(c, 1), Ways(1)[b]), after |-> Get(f, Check(c, IF a = b /\ v = 1 THEN 1 ELSE 2), Ways(v)[a])] :
     f \in [on : BOOLEAN, weak : {FALSE}, max : {1, 2}] \cup [on : {TRUE}, weak : {TRUE}, max : {9}],
     c \in Checks, b \in {1, 2, 4, 8}, a \in DOMAIN Ways(1), v \in {1, 2}}

\* Calls with interceptors that retry or answer themselves, servers that
\* fail first, replies around the limit, options good and bad.
Header_(values) == [kind |-> "header", name |-> "X", values |-> values]
Posting(stream) == [kind |-> "body", body |-> "data", stream |-> stream, type |-> "t"]
On(handler) == [kind |-> "status", handler |-> handler, statuses |-> {s \in 200 .. 599 : HC!IsErrorStatus(s)}]
Answers(length) == [err |-> "none", status |-> 200, length |-> length]
Broken_ == [err |-> "reset"]
ExchangeQuestions ==
  {[kind |-> "exchange", client |-> [base |-> "http://s", headers |-> <<>>, cookies |-> <<>>, limit |-> l, handlers |-> <<On(h)>>, interceptors |-> i],
    target |-> [blank |-> FALSE, absolute |-> FALSE, path |-> <<"{id}">>, query |-> <<>>], options |-> o, server |-> s] :
     l \in {-1, 0, 2, 7}, h \in {"fails", "sees"}, i \in {<<>>, <<"retry", "nil">>, <<"pass", "reply">>, <<"retry", "pass">>},
     o \in {<<>>, <<Header_(<<"1">>), Posting(FALSE)>>, <<Posting(TRUE)>>, <<Header_(<<"break">>), Posting(FALSE)>>,
            <<[kind |-> "path", name |-> "{id}", values |-> <<"7">>], [kind |-> "query", name |-> "q", values |-> <<"1", "2">>],
              [kind |-> "cookie", name |-> "c", values |-> <<"1">>], On("sees")>>},
     s \in {<<Answers(0)>>, <<Answers(2)>>, <<Answers(3)>>, <<[Answers(7) EXCEPT !.status = 404]>>, <<Broken_, Answers(2)>>, <<Broken_, Broken_>>}}

MCSessions == {[kind |-> "session"]}
MCQuestions == {[kind |-> kind] : kind \in {"pipeline", "session", "static", "body"}}
               \cup MappingQuestions \cup MessageQuestions \cup RespondQuestions \cup ExchangeQuestions

\* The two matchers of patterns mean what patterns mean, on every short pattern
\* and text: globMatch, which goes back to its last star only, accepts what
\* some reading of the stars accepts; the three ways of
\* matchInterceptorPathPattern agree with one: each "**" takes any run of the
\* path and every other segment of the pattern exactly one.  Left out: a
\* wildcard before a trailing "**", which is compared as text.
Upto(S, n) == UNION {[1..m -> S] : m \in 0..n}
Spread(pattern, path) ==
  \E at \in [DOMAIN path -> DOMAIN pattern] :
    /\ \A i, j \in DOMAIN path : i < j => at[i] <= at[j]
    /\ \A k \in DOMAIN pattern : pattern[k] # Segments => Cardinality({i \in DOMAIN path : at[i] = k}) = 1
    /\ \A i \in DOMAIN path : pattern[at[i]] = Segments \/ Means(pattern[at[i]], path[i])
ASSUME PatternsMean ==
  /\ \A pattern \in Upto({"a", "*", "?"}, 4), text \in Upto({"a", "b"}, 4) :
       globMatch(pattern, text) <=> Means(pattern, text)
  /\ \A pattern \in Upto({<<"a">>, <<"*">>, Segments}, 3), path \in Upto({<<"a">>, <<"b">>}, 3) :
       ~(Contains(pattern, <<"*">>) /\ Deep(pattern) = {Len(pattern)}) =>
         (matchInterceptorPathPattern(pattern, path) <=> Spread(pattern, path))
=============================================================================
