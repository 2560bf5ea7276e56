------------------------------ MODULE HttpClient ------------------------------
(* web/client: building a request from the client's defaults and the options  *)
(* of a call, sending it through the interceptors, and taking a snapshot of   *)
(* the response.  net/http is external: a send is the server's next answer.   *)
EXTENDS Integers, Sequences, SequencesExt, FiniteSets

CONSTANT MaxInt   \* the largest int64, scaled down

Wrap(n) == ((n + MaxInt + 1) % (2 * MaxInt + 2)) - MaxInt - 1

Failed(err) == [err |-> err]
IsFailed(x) == "err" \in DOMAIN x /\ x.err # "none"
-----------------------------------------------------------------------------
(* Options of one call, applied in order; the first that is invalid ends it.  *)
(* Headers are sequences of <<name, value>>; a value with a line break or an  *)
(* empty name is refused.                                                     *)
newRequestConfig ==
  [err |-> "none", headers |-> <<>>, cookies |-> <<>>, query |-> <<>>, variables |-> <<>>,
   body |-> "none", stream |-> FALSE, handlers |-> <<>>]
HasHeader(headers, name) == \E i \in DOMAIN headers : headers[i][1] = name
cleanHeader(option) == option.name # "" /\ option.values # <<>> /\ "break" \notin Range(option.values)
WithHeader(config, option) ==
  IF ~cleanHeader(option) THEN Failed("header")
  ELSE [config EXCEPT !.headers = @ \o [i \in DOMAIN option.values |-> <<option.name, option.values[i]>>]]
WithQueryParam(config, option) ==
  IF option.name = "" THEN Failed("request")
  ELSE [config EXCEPT !.query = @ \o [i \in DOMAIN option.values |-> <<option.name, option.values[i]>>]]
WithPathParam(config, option) ==
  IF option.name = "" THEN Failed("request")
  ELSE [config EXCEPT !.variables =
          [n \in DOMAIN @ \cup {option.name} |-> IF n = option.name THEN option.values[1] ELSE @[n]]]
WithCookie(config, option) ==
  IF option.name = "" \/ "break" \in Range(option.values) THEN Failed("cookie")
  ELSE [config EXCEPT !.cookies = Append(@, <<option.name, option.values[1]>>)]
(* A body sets the content type unless an option before it did; a multipart   *)
(* body is a stream that can be sent once.                                    *)
WithBody(config, option) ==
  IF option.body = "invalid" THEN Failed("request")
  ELSE [config EXCEPT !.body = option.body, !.stream = option.stream,
          !.headers = IF option.type = "" \/ HasHeader(@, "Content-Type") THEN @
                      ELSE Append(@, <<"Content-Type", option.type>>)]
OnStatus(config, option) ==
  IF option.handler = "nil" THEN Failed("status handler")
  ELSE [config EXCEPT !.handlers = Append(@, option)]
Apply(config, option) ==
  IF IsFailed(config) THEN config
  ELSE CASE option.kind = "header" -> WithHeader(config, option)
         [] option.kind = "query"  -> WithQueryParam(config, option)
         [] option.kind = "path"   -> WithPathParam(config, option)
         [] option.kind = "cookie" -> WithCookie(config, option)
         [] option.kind = "body"   -> WithBody(config, option)
         [] option.kind = "status" -> OnStatus(config, option)

(* A target is absolute or joined to the base, its template variables         *)
(* replaced where they have a value; query parameters add to its own.         *)
expandPathVariables(path, variables) ==
  [i \in DOMAIN path |-> IF path[i] \in DOMAIN variables THEN variables[path[i]] ELSE path[i]]
joinPath(base, path) == base \o path
resolveURL(base, target, config) ==
  CASE target.blank                      -> Failed("request")
    [] ~target.absolute /\ base = "none" -> Failed("base url")
    [] OTHER ->
         [err |-> "none", query |-> target.query \o config.query,
          path |-> LET path == expandPathVariables(target.path, config.variables)
                   IN  IF target.absolute THEN path ELSE joinPath(<<base>>, path)]
newRequest(client, target, options) ==
  LET Built(config, url) ==
        CASE IsFailed(config) -> config
          [] ~IsFailed(config) /\ IsFailed(url) -> url
          [] OTHER -> [err |-> "none", url |-> url, body |-> config.body, stream |-> config.stream,
                       headers |-> client.headers \o config.headers,
                       cookies |-> client.cookies \o config.cookies,
                       handlers |-> config.handlers]
      Configured(config) == Built(config, resolveURL(client.base, target, config))
  IN  Configured(FoldLeft(Apply, newRequestConfig, options))
-----------------------------------------------------------------------------
(* exchangeFunc: the interceptors around the send, the first outermost; nil   *)
(* ones are left out.  One that retries calls on until an answer comes, twice *)
(* at most; one that replies does not call on.  The exchange is what was sent *)
(* so far and what came back: a body of known length that was read already    *)
(* cannot be sent again, a stream is then empty.                              *)
Send(request, server, sent) ==
  LET again == sent # <<>> /\ request.body # "none"
      reply == IF Len(sent) < Len(server) THEN server[Len(sent) + 1] ELSE Failed("transport")
  IN  IF again /\ ~request.stream THEN [sent |-> sent, reply |-> Failed("length")]
      ELSE [sent |-> Append(sent, IF again THEN "empty" ELSE request.body), reply |-> reply]
OwnReply == [err |-> "none", status |-> 203, length |-> 0]
Around(interceptor, onward, log) ==
  CASE interceptor = "reply" -> [sent |-> log, reply |-> OwnReply]
    [] interceptor = "retry" -> IF IsFailed(onward[log].reply) THEN onward[onward[log].sent] ELSE onward[log]
    [] OTHER -> onward[log]
exchange(interceptors, request, server, sent) ==
  LET last == Len(interceptors)
      chain[i \in 0 .. last] ==
        [log \in Seq({request.body, "empty"}) |->
           IF i = 0 THEN Send(request, server, log) ELSE Around(interceptors[last + 1 - i], chain[i - 1], log)]
  IN  chain[last][sent]

readResponseBodyCut(length, limit) ==
  IF limit < 0 THEN [err |-> "none", length |-> length]
  ELSE [err |-> "none", length |-> IF length < limit THEN length ELSE limit]
(* A negative limit is none.  One byte more than the limit is asked for, to   *)
(* tell a body that fits from one that was cut: a limit of the largest        *)
(* integer wraps, and nothing is read.                                        *)
readResponseBody(length, limit) ==
  LET asked == Wrap(limit + 1)
      read == IF asked <= 0 THEN 0 ELSE IF length < asked THEN length ELSE asked
  IN  CASE limit < 0                  -> [err |-> "none", length |-> length]
        [] limit >= 0 /\ read > limit -> Failed("too large")
        [] OTHER                      -> [err |-> "none", length |-> read]

(* Handlers of the client, then those of the call, in order; the first error  *)
(* is returned with the response.                                             *)
IsErrorStatus(status) == status \in 400..599
Concerns(handler, status) == status \in handler.statuses
applyStatusHandlers(status, handlers) ==
  LET called == SelectSeq(handlers, LAMBDA h : Concerns(h, status))
      wrong == {i \in DOMAIN called : called[i].handler = "fails"}
      last == IF wrong = {} THEN Len(called) ELSE CHOOSE i \in wrong : \A j \in wrong : i <= j
  IN  [called |-> SubSeq(called, 1, last), err |-> IF wrong = {} THEN "none" ELSE "status"]

Nothing == [sent |-> <<>>, response |-> "none", status |-> 0, length |-> 0, called |-> <<>>]
Retrieve(client, target, options, server) ==
  LET Snapshot(sent, reply, body, status) ==
        IF IsFailed(body) THEN [Nothing EXCEPT !.response = body.err, !.sent = sent]
        ELSE [sent |-> sent, response |-> status.err, status |-> reply.status,
              length |-> body.length, called |-> status.called]
      Receive(request, traffic) ==
        IF IsFailed(traffic.reply) THEN [Nothing EXCEPT !.response = traffic.reply.err, !.sent = traffic.sent]
        ELSE Snapshot(traffic.sent, traffic.reply, readResponseBody(traffic.reply.length, client.limit),
                      applyStatusHandlers(traffic.reply.status, client.handlers \o request.handlers))
      Exchange(request) ==
        IF IsFailed(request) THEN [Nothing EXCEPT !.response = request.err]
        ELSE Receive(request, exchange(client.interceptors, request, server, <<>>))
  IN  Exchange(newRequest(client, target, options))
=============================================================================
