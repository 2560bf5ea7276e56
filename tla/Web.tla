---------------------------------- MODULE Web ----------------------------------
(* The web side of the program as its clients meet it.  A behaviour is a      *)
(* request on its way through a deployment, a session that several requests   *)
(* share, static files that a deployment rewrites, the body of a client's     *)
(* request, or one question: which route answers, how a value is written and  *)
(* read, how a conditional request is answered, what a client's call returns. *)
EXTENDS WebPipeline, PathPatterns, SessionState, StaticVersions

CONSTANTS Questions,
          MaxParts,                                                   \* MultipartBody
          DefaultMaxBytes, MaxInt

VARIABLES question, answer,
          parts, broken, writer, next, offered, err, transport, got, ending, result

MB == INSTANCE MultipartBody
RM == INSTANCE RequestMapping
RS == INSTANCE Responses
HC == INSTANCE HttpClient

mbvars == <<parts, broken, writer, next, offered, err, transport, got, ending, result>>
webvars == <<vars, ssvars, svvars, mbvars, question, answer>>

(* What a question is made of: lists where Go has slices, a request with all  *)
(* its fields, an origin that is one (no browser sends "*"), handlers that are *)
(* not mistaken for none, errors of a transport that are none of the client's.*)
IsList(s) == s \in Seq(ToSet(s))
Listed(conditions) == \A part \in {"consumes", "produces", "params", "headers"} : IsList(conditions[part])
RequestFields ==
  {"method", "pattern", "type", "accept", "params", "values", "broken", "origin", "wants", "headers"}
AsksOfControllers(q) ==
  /\ q.request = [f \in RequestFields |-> q.request[f]] /\ q.request.origin # RM!AllOrigins
  /\ IsList(q.controllers)
  /\ \A c \in ToSet(q.controllers) :
       /\ IsList(c.methods) /\ IsList(c.prefixes) /\ IsList(c.routes) /\ Listed(c.conditions)
       /\ \A route \in ToSet(c.routes) : Listed(route.conditions) /\ route.handler # "none"
AsksOfServer(q) ==
  /\ q.client.limit \in -MaxInt - 1 .. MaxInt /\ IsList(q.client.interceptors)
  /\ IsList(q.server)
  /\ \A reply \in ToSet(q.server) :
       IF HC!IsFailed(reply) THEN reply.err \notin {"too large", "status"} ELSE reply.length \in Nat
(* An application registers converters of its own for reading and for writing,*)
(* and leaves the ones of the package behind them.                            *)
AsksOfConverters(q) ==
  LET r == ApplyConfigurers(q.configurers)
      read == Ids(r.readConverters)
      written == Ids(r.writeConverters)
  IN  /\ q.value \in {"object", "string", "bytes", "form", "reader"} /\ q.size \in Nat
      /\ r.reader = None /\ r.writer = None /\ IsList(read) /\ IsList(written)
      /\ ToSet(read) = ToSet(written) /\ ToSet(read) \subseteq {"ownJson", "xml"}
(* A handler gives a tag to one answer only, and none that could be the        *)
(* filter's; its times do not go back.  The client gets, and knows nothing yet.*)
IsHeaders(headers) == DOMAIN headers \subseteq {"noStore", "length", "location"}
IsOp(op) ==
  /\ op = RS!Op(op.op, op.name, op.value) /\ op.op \in {"status", "set", "write", "flush", "reset", "fail"}
  /\ op.op = "set" => op.name \in {"noStore", "length", "location"}
  /\ op.op = "write" => IsList(op.value)
IsRow(s) == Len(s) \in Nat /\ s = [i \in 1 .. Len(s) |-> s[i]]      \* a list, whatever is in it
IsResult(r) ==
  /\ r.kind \in {"entity", "download", "redirect", "error", "direct"}
  /\ r.kind \in {"entity", "download"} => IsList(r.body)
  /\ r.kind \in {"entity", "download", "redirect"} => IsHeaders(r.headers)
  /\ r.kind = "direct" => IsRow(r.ops) /\ \A i \in DOMAIN r.ops : IsOp(r.ops[i])
ResponseFields == {"method", "noneMatch", "since", "check", "filter", "accept", "result"}
AsksHandler(q) ==
  /\ q = [f \in ResponseFields |-> q[f]] /\ q.filter = [f \in {"on", "weak", "max"} |-> q.filter[f]]
  /\ q.method = "GET" /\ q.noneMatch = {} /\ q.since = RS!Unset /\ IsResult(q.result)
  /\ q.check.tag # RS!NoTag => q.check.tag[1] \notin {"*", "sha", "fnv"}
  /\ q.check.modified \in Nat \cup {RS!Unset}
AsksTwice(before, after) ==
  /\ AsksHandler(before) /\ AsksHandler(after) /\ before.accept = after.accept
  /\ before.check.tag # RS!NoTag /\ before.check.tag = after.check.tag => before.result = after.result
  /\ before.check.modified <= after.check.modified \/ RS!Unset \in {before.check.modified, after.check.modified}
ASSUME WebAssumption ==
  /\ MaxInt \in Nat /\ DefaultMaxBytes \in Nat
  /\ \A q \in Questions :
       /\ q.kind = "mapping" => AsksOfControllers(q)
       /\ q.kind = "exchange" => AsksOfServer(q)
       /\ q.kind = "message" => AsksOfConverters(q)
       /\ q.kind = "respond" => AsksTwice(q.before, q.after)

Pending == [kind |-> "pending"]
Answered(v) == [kind |-> "answer", value |-> v]
Asks(kind) == question.kind = kind
Asked(kind) == Asks(kind) /\ answer # Pending
-----------------------------------------------------------------------------
(* A client keeps the validators and the body of what it got, and asks again. *)
Conditional(q, first) ==
  [q EXCEPT !.noneMatch = {first.headers.etag} \ {RS!NoTag}, !.since = first.headers.modified]
AskTwice(q) ==
  UNION {{[first |-> first, second |-> second] : second \in RS!Respond(Conditional(q.after, first))} :
           first \in RS!Respond(q.before)}
(* A value goes out through the registered writers and in through the readers.*)
AskMessage(q) ==
  LET r == ApplyConfigurers(q.configurers)
      Back(w) == RS!Read(currentMessageReader(r),
                   [target |-> q.value, declared |-> <<>>, type |-> w.type, body |-> w.body, failing |-> {}])
  IN  {[status |-> w.status, type |-> w.type, back |-> Back(w).value] :
         w \in RS!Write(currentMessageWriter(r), q)}
Mapped_(q) == RM!registerControllers(q.controllers)
Reply(q) ==
  CASE q.kind = "mapping"  -> RM!Serve(Mapped_(q), q.request)
    [] q.kind = "message"  -> AskMessage(q)
    [] q.kind = "respond"  -> AskTwice(q)
    [] q.kind = "exchange" -> HC!Retrieve(q.client, q.target, q.options, q.server)

(* What a behaviour is not about rests in one of its initial states.          *)
OneOf(S) == CHOOSE x \in S : TRUE
InitPipeline == IF Asks("pipeline") THEN Init ELSE Begin(OneOf(Applications), OneOf(Requests))
InitVisits == InitSession /\ (Asks("session") \/ (serial /\ plan = OneOf(Scenarios)))
InitFiles == InitStatic /\ (Asks("static") \/ served = OneOf(Configurations))
InitBody == MB!Init /\ (Asks("body") \/ parts = 0)
InitAll ==
  /\ question \in Questions /\ answer = Pending
  /\ InitPipeline /\ InitVisits /\ InitFiles /\ InitBody

Rest == UNCHANGED <<question, answer>>
Pipeline == Asks("pipeline") /\ Next /\ UNCHANGED <<ssvars, svvars, mbvars>> /\ Rest
Session == Asks("session") /\ NextSession /\ UNCHANGED <<vars, svvars, mbvars>> /\ Rest
Static == Asks("static") /\ NextStatic /\ UNCHANGED <<vars, ssvars, mbvars>> /\ Rest
Writing == Asks("body") /\ MB!Writer /\ UNCHANGED <<vars, ssvars, svvars>> /\ Rest
Reading == Asks("body") /\ MB!Read /\ UNCHANGED <<vars, ssvars, svvars>> /\ Rest
Closing == Asks("body") /\ MB!Transport /\ UNCHANGED <<vars, ssvars, svvars>> /\ Rest
Answer ==
  /\ ~\E kind \in {"pipeline", "session", "static", "body"} : Asks(kind)
  /\ answer = Pending
  /\ answer' = Answered(Reply(question))
  /\ UNCHANGED <<vars, ssvars, svvars, mbvars, question>>
NextAll == Pipeline \/ Session \/ Static \/ Writing \/ Reading \/ Closing \/ Answer

(* The fairness of MultipartBody, of the behaviours that are about a body.    *)
SpecAll == InitAll /\ [][NextAll]_webvars /\ WF_mbvars(Writing) /\ WF_mbvars(Closing)
-----------------------------------------------------------------------------
(* However the sending of a request is given up, Close of its body returns    *)
(* and the goroutine that wrote it has ended (multipart.go: Close).           *)
BodyReleased == <>[](Asks("body") => transport = "closed" /\ writer = "done")

(* What a client takes for a whole body is one.  Its own form: one whose file *)
(* could not be read, or whose writer was stopped, always ends in an error    *)
(* (multipart.go: CloseWithError).  The reply: the status and the length of   *)
(* the last reply that came, within the limit, and a longer one is an error   *)
(* (response.go: readResponseBody); what was sent for it is the body asked    *)
(* for.  Left out: the largest integer as a limit, and a retried stream.      *)
Replied == question.server[Len(answer.value.sent)]
BodiesArriveWhole ==
  /\ MB!WholeOrError
  /\ Asked("exchange") /\ question.client.limit # MaxInt /\ answer.value.sent # <<>> =>
       LET limit == question.client.limit
           took == answer.value
           asked_ == HC!newRequest(question.client, question.target, question.options)
       IN  /\ took.sent[1] = asked_.body
           /\ asked_.stream \/ \A i \in DOMAIN took.sent : took.sent[i] = asked_.body
           /\ took.response = "too large" => limit >= 0 /\ Replied.length > limit
           /\ took.response \in {"none", "status"} /\ ~Contains(question.client.interceptors, "reply") =>
                /\ took.status = Replied.status /\ took.length = Replied.length
                /\ limit < 0 \/ took.length <= limit

(* Several routes of one pattern and method answer as the best of them would  *)
(* alone: a handler that ran would have run alone and been told the same      *)
(* media type, no matching route has more conditions, and of equals it is the *)
(* first; when none ran, each alone refuses, and the client learns of the     *)
(* gravest refusal: 415, then 406, then 400 (controller_part5.go:             *)
(* conditionDispatchHandler.Handle matches all, then the best again).         *)
Gravity(status) == IF status \in {400, 406, 415} THEN status ELSE 0
AloneOrTogether ==
  LET Conditions(registration) == RM!specificity(registration.conditions)
      Refused(told, alone) ==
        /\ \A i \in DOMAIN alone : alone[i].handler = "none" /\ Gravity(alone[i].status) <= Gravity(told.status)
        /\ \E i \in DOMAIN alone : alone[i].status = told.status
      RanTheBest(told, candidates, alone) ==
        \E i \in DOMAIN alone :
          /\ alone[i].handler = told.handler
          /\ candidates[i].conditions.produces # <<>> => told.produces = alone[i].produces
          /\ \A j \in {j \in DOMAIN alone : alone[j].handler # "none"} :
               LET lead == Conditions(candidates[i]) - Conditions(candidates[j])
               IN  lead > 0 \/ (lead = 0 /\ i <= j)
      Judge(told, candidates, alone) ==
        candidates = <<>> \/ IF told.handler = "none" THEN Refused(told, alone)
                             ELSE RanTheBest(told, candidates, alone)
      Compare(q, candidates) ==
        Judge(answer.value, candidates,
              [i \in DOMAIN candidates |-> RM!buildRouteRegistrationHandler(<<candidates[i]>>, q)])
      Registered(known) ==
        known.err = "none" => Compare(question.request, RM!Candidates(known, question.request))
  IN  Asked("mapping") /\ question.request.origin = <<>> => Registered(Mapped_(question))

(* A preflight runs no handler and tells what the request itself will meet:   *)
(* when it is accepted and there is such a route, the answer can be read by   *)
(* the origin; when it is refused for its origin or method, the answer is     *)
(* refused too or tells the origin nothing.  Credentials never go with "*"    *)
(* (cors_mapping.go: the preflight looks its policy up by the wanted method). *)
PreflightPredictsActual ==
  LET q == question.request
      Crossed(known) == \E i \in DOMAIN known.mappings : known.mappings[i].pattern = q.pattern
      Predicts(told, actual) ==
        /\ told.handler = "none"
        /\ told.status = 204 /\ actual.status # 405 =>
             actual.status # 403 /\ actual.origin = told.origin /\ actual.credentials = told.credentials
        /\ told.status = 403 /\ q.headers = {} => actual.status = 403 \/ actual.origin = <<>>
      Registered(known) ==
        known.err = "none" =>
          /\ ~(answer.value.credentials /\ answer.value.origin = RM!AllOrigins)
          /\ RM!isCORSPreflight(q) /\ Crossed(known) =>
               Predicts(answer.value, RM!Serve(known, [q EXCEPT !.method = q.wants]))
  IN  Asked("mapping") => Registered(Mapped_(question))

(* What was written for a value is read back as the value by a program with   *)
(* the same registrations, whatever media type was negotiated                 *)
(* (registry_runtime.go: registered converters go first on both sides).  Left *)
(* out: bodies over the limit, values without a reader, bytes as JSON text.   *)
WrittenIsReadBack ==
  Asked("message") /\ question.value # "reader" /\ question.size <= DefaultMaxBytes =>
    \A m \in answer.value :
      m.status = 200 /\ ~(question.value = "bytes" /\ m.type \in RS!JsonTypes) => m.back = question.value

(* A client that keeps what it got and asks again with its validators ends    *)
(* with the status and the body it would have got from the handler alone,     *)
(* unconditionally and without the ETag filter (etag.go, conditional.go).     *)
(* Left out: 205, whose body the filter drops, handlers that set the status   *)
(* after the body, and changes within the second of a resource without tag.   *)
Orderly(ops) ==
  \A i, j \in DOMAIN ops : i < j /\ ops[i].op \in {"write", "flush"} => ops[j].op \in {"write", "flush"}
Tells(first) == first.headers.etag # RS!NoTag
SameSecond == RS!truncateHTTPTime(question.before.check.modified) = RS!truncateHTTPTime(question.after.check.modified)
ConditionalIsTransparent ==
  Asked("respond") =>
    \A pair \in answer.value :
      LET first == pair.first
          second == pair.second
          plain == RS!Respond([question.after EXCEPT !.filter.on = FALSE])
          seen == IF second.status = 304 THEN [status |-> first.status, body |-> first.body]
                  ELSE [status |-> second.status, body |-> second.body]
          Keeps(r) == r.err = 0 /\ r.status = 200
          cacheable == \A r \in {first} \cup plain : Keeps(r)
          changed == question.before.result # question.after.result
          orderly == question.after.result.kind = "direct" => Orderly(question.after.result.ops)
      IN  cacheable /\ orderly /\ question.after.method = "GET" /\ (changed /\ SameSecond => Tells(first)) =>
            \E p \in plain : seen = [status |-> p.status, body |-> p.body]
=============================================================================
