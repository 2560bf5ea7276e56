------------------------------- MODULE Responses -------------------------------
(* How bodies are read and results become responses.  web/message: a chain of *)
(* converters, asked in order, reads a body into a target and writes a value; *)
(* such a body is [codec, value, size]: what wrote it and what was written.   *)
(* The results of package web and problem details write to the response,      *)
(* directly or through the ETag filter, which holds a body back until it is   *)
(* whole or too large; such a body is a sequence of parts, a tag              *)
(* <<kind, content>>, <<>> for none; a time is in tenths of a second.         *)
EXTENDS Naturals, Sequences, FiniteSets, SequencesExt

CONSTANT DefaultMaxBytes     \* of package arkarta/json

Json == "application/json"
Problem == "application/problem+json"
Text == "text/plain"
Html == "text/html"
Octets == "application/octet-stream"
FormData == "application/x-www-form-urlencoded"
Xml == "application/xml"
Known == {Json, Problem, Text, Html, Octets, FormData, Xml}   \* anything else does not parse

(* The converters of the package, and two of an application: one for a type   *)
(* of its own, one that writes JSON in another way.                           *)
MediaType(converter) ==
  CASE converter \in {"json", "ownJson"} -> Json
    [] converter = "string"              -> Text
    [] converter \in {"bytes", "reader"} -> Octets
    [] converter = "form"                -> FormData
    [] converter = "xml"                 -> Xml
JsonTypes == {Json, Problem}             \* mediaTypeMatches or structuredJSONType
textMediaTypes == {Text, Html}

CanWrite(converter, value, media) ==
  CASE converter = "json"    -> media \in JsonTypes
    [] converter = "string"  -> value = "string" /\ media = Text
    [] converter = "bytes"   -> value = "bytes" /\ media = Octets
    [] converter = "reader"  -> value = "reader" /\ media = Octets
    [] converter = "form"    -> value = "form" /\ media = FormData
    [] converter = "ownJson" -> value = "object" /\ media = Json
    [] converter = "xml"     -> value = "object" /\ media = Xml
CanRead(converter, target, media) ==
  CASE converter = "json"    -> target # "nil" /\ media \in JsonTypes
    [] converter = "string"  -> target = "string" /\ media \in textMediaTypes
    [] converter = "bytes"   -> target = "bytes" /\ media \in Known
    [] converter = "form"    -> target = "form" /\ media = FormData
    [] converter = "ownJson" -> target = "object" /\ media = Json
    [] converter = "xml"     -> target = "object" /\ media = Xml

Codec(converter) == IF converter \in {"string", "bytes", "reader"} THEN "raw" ELSE converter

(* One search serves writers and readers: use is "write" or "read".           *)
Can(use, converter, x, media) == IF use = "write" THEN CanWrite(converter, x, media) ELSE CanRead(converter, x, media)

(* Every type once, in the order it is met: those declared, or else those of  *)
(* the converters that can; the first converter that can is asked.            *)
Meet(out, t) == IF t = "" \/ Contains(out, t) THEN out ELSE Append(out, t)
cleanMediaTypes(types) == FoldLeft(Meet, <<>>, types)
candidateMediaTypes(converters, use, x, declared) ==
  IF cleanMediaTypes(declared) # <<>> THEN cleanMediaTypes(declared)
  ELSE FoldLeft(LAMBDA out, c : IF Can(use, c, x, MediaType(c)) THEN Meet(out, MediaType(c)) ELSE out, <<>>, converters)
First(fit) == CHOOSE i \in fit : \A j \in fit : i <= j
converterFor(converters, use, x, media) ==
  LET fit == {i \in DOMAIN converters : Can(use, converters[i], x, media)}
  IN  IF fit = {} THEN "none" ELSE converters[First(fit)]
-----------------------------------------------------------------------------
(* Writer.Write: any acceptable candidate may win the negotiation (external). *)
NegotiateContentType(accept, candidates) == ToSet(candidates) \cap accept
normalizeStatus(status, fallback) ==
  CASE status = 0          -> fallback
    [] status \in 100..999 -> status
    [] OTHER               -> 500
Written(status) == [status |-> status, type |-> "", body |-> [codec |-> "none", value |-> "none", size |-> 0]]
Write(converters, q) ==
  LET candidates == candidateMediaTypes(converters, "write", q.value, q.declared)
      acceptable == NegotiateContentType(q.accept, candidates)
      As(media) ==
        LET converter == converterFor(converters, "write", q.value, media)
        IN  IF converter = "none" THEN Written(415)
            ELSE [status |-> normalizeStatus(q.status, 200), type |-> media,
                  body |-> [codec |-> Codec(converter), value |-> q.value, size |-> q.size]]
  IN  IF acceptable = {} THEN {Written(406)} ELSE {As(media) : media \in acceptable}
-----------------------------------------------------------------------------
(* What converter.Read makes of a body: raw bytes are whatever they are, any  *)
(* other body must have been written the way it is read.                      *)
readBoundedBody(body) == IF body.size > DefaultMaxBytes THEN "large" ELSE "ok"
ReadBody(converter, target, body) ==
  CASE converter \in {"string", "bytes", "form"} /\ readBoundedBody(body) = "large" -> "large"
    [] Codec(converter) = "raw" /\ readBoundedBody(body) = "ok" ->
         IF body.codec = "raw" THEN body.value ELSE "undecoded"
    [] OTHER -> IF body.codec # Codec(converter) THEN "broken" ELSE body.value

(* beforeRead and afterRead call the advices in order, up to one that fails;  *)
(* a body that could not be read has no "after".                              *)
Advised(advices, failing) ==
  LET bad == {i \in DOMAIN advices : advices[i] \in failing}
  IN  [called |-> IF bad = {} THEN advices ELSE SubSeq(advices, 1, First(bad)),
       ok |-> bad = {}]
readWith(reader, q, media) ==
  LET converter == converterFor(reader.converters, "read", q.target, media)
      before == Advised(reader.advices, q.failing)
      got == ReadBody(converter, q.target, q.body)
      Got(value, after) == [value |-> value, before |-> before.called, after |-> after]
      Bad == {"large", "broken"}
  IN  CASE converter = "none"                                   -> [value |-> "415", before |-> <<>>, after |-> <<>>]
        [] converter # "none" /\ ~before.ok                     -> Got("advice", <<>>)
        [] converter # "none" /\ before.ok /\ got \in Bad       -> Got(got, <<>>)
        [] OTHER                                                -> Got(got, Advised(reader.advices, {}).called)

contentTypeAllowed(converters, target, contentType, candidates) ==
  \E i \in DOMAIN candidates, j \in DOMAIN converters :
    CanRead(converters[j], target, candidates[i]) /\ CanRead(converters[j], target, contentType)
Read(reader, q) ==
  LET converters == reader.converters
      candidates == candidateMediaTypes(converters, "read", q.target, q.declared)
      usable == {i \in DOMAIN candidates : converterFor(converters, "read", q.target, candidates[i]) # "none"}
      Refused(why) == [value |-> why, before |-> <<>>, after |-> <<>>]
  IN  CASE q.target = "nil"                                       -> Refused("nil")
        [] q.target # "nil" /\ q.type = ""                        ->
             IF usable = {} THEN Refused("415") ELSE readWith(reader, q, candidates[First(usable)])
        [] q.target # "nil" /\ q.type # "" /\ candidates # <<>>
             /\ ~contentTypeAllowed(converters, q.target, q.type, candidates) -> Refused("415")
        [] OTHER                                                  -> readWith(reader, q, q.type)
-----------------------------------------------------------------------------
NoTag == <<>>
AnyTag == <<"*", <<>> >>
Unset == -1

(* What is done to a response, in order.                                      *)
Op(op, name, value) == [op |-> op, name |-> name, value |-> value]
Status(code) == Op("status", "", code)
Body(parts) == Op("write", "", parts)
Header(name, value) == Op("set", name, value)
Fail(status) == Op("fail", "", status)
applyEntityHeaders(headers) == SetToSeq({Header(n, headers[n]) : n \in DOMAIN headers})
-----------------------------------------------------------------------------
(* The response of package arkarta/servlet: what was sent cannot be undone.   *)
NoHeaders == [etag |-> NoTag, noStore |-> FALSE, length |-> Unset, location |-> "", modified |-> Unset]
Fresh == [committed |-> FALSE, status |-> 200, body |-> <<>>, headers |-> NoHeaders, err |-> 0]
Do(r, op) ==
  CASE op.op = "status" -> IF r.committed THEN r ELSE [r EXCEPT !.status = op.value]
    [] op.op = "set"    -> IF r.committed THEN r ELSE [r EXCEPT !.headers[op.name] = op.value]
    [] op.op = "write"  -> [r EXCEPT !.committed = TRUE, !.body = @ \o op.value]
    [] op.op = "flush"  -> [r EXCEPT !.committed = TRUE]
    [] op.op = "reset"  -> IF r.committed THEN [r EXCEPT !.err = 500] ELSE Fresh
    [] op.op = "fail"   -> [r EXCEPT !.err = op.value]
Bare(ops) == FoldLeft(LAMBDA r, op : IF r.err # 0 THEN r ELSE Do(r, op), Fresh, ops)

conditionalMethodAllowed(method) == method \in {"GET", "HEAD"}
captureAllowsBody(status) == status \notin {204, 205, 304}
etagStatusAllowed(status) == status \in 200..299 /\ captureAllowsBody(status)
makeETag(body, weak) == <<IF weak THEN "fnv" ELSE "sha", body>>
ifNoneMatch(tags, tag) == tag # NoTag /\ \E t \in tags : t \in {AnyTag, tag}

(* captureResponse: status and body stay here, headers go through; a body of  *)
(* more than the limit, or a flush, sends what was held back.                 *)
newCaptureResponse == [parent |-> Fresh, status |-> 200, body |-> <<>>, passthrough |-> FALSE]
Hand(c, op) == [c EXCEPT !.parent = Do(@, op)]
switchWithoutBody(c) == Hand([c EXCEPT !.passthrough = TRUE, !.body = <<>>], Status(c.status))
switchToPassthrough(c) ==
  LET begun == Hand([c EXCEPT !.passthrough = TRUE, !.body = <<>>], Status(c.status))
  IN  IF c.body = <<>> THEN begun ELSE Hand(begun, Body(c.body))
Capture(max, c, op) ==
  LET held == ~c.passthrough
  IN  CASE op.op = "reset"                -> IF c.parent.committed THEN Hand(c, Fail(500)) ELSE newCaptureResponse
        [] op.op = "status" /\ held       -> [c EXCEPT !.status = normalizeStatus(op.value, 500)]
        [] op.op = "write" /\ held /\ Len(c.body \o op.value) <= max -> [c EXCEPT !.body = @ \o op.value]
        [] op.op \in {"write", "flush"} /\ held /\ ~(op.op = "write" /\ Len(c.body \o op.value) <= max) ->
             Hand(switchToPassthrough(c), op)
        [] OTHER                          -> Hand(c, op)
writeCaptured(c, method) ==
  LET begun == Do(c.parent, Status(c.status))
  IN  IF ~captureAllowsBody(c.status) \/ method = "HEAD" THEN begun ELSE Do(begun, Body(c.body))
finish(c, q) ==
  LET tag == makeETag(c.body, q.filter.weak)
      tagged == [c EXCEPT !.parent.headers.etag = tag]
      sized == [tagged EXCEPT !.parent.headers.length = Len(c.body)]
  IN  CASE c.passthrough \/ c.parent.committed -> c.parent
        [] ~(c.passthrough \/ c.parent.committed)
             /\ (~etagStatusAllowed(c.status) \/ c.parent.headers.noStore \/ c.parent.headers.etag # NoTag) ->
             writeCaptured(c, q.method)
        [] OTHER ->
             IF ifNoneMatch(q.noneMatch, tag)
             THEN [tagged.parent EXCEPT !.headers.length = Unset, !.status = 304]
             ELSE writeCaptured(sized, q.method)
ShallowETag(ops, q) ==
  LET c == FoldLeft(LAMBDA s, op : IF s.parent.err # 0 THEN s ELSE Capture(q.filter.max, s, op),
                    newCaptureResponse, ops)
  IN  IF c.parent.err # 0 THEN c.parent ELSE finish(c, q)
-----------------------------------------------------------------------------
(* CheckNotModified, called by a handler before it answers: a tag decides     *)
(* where the client sent one, else the second of the last change.             *)
truncateHTTPTime(time) == IF time = Unset THEN Unset ELSE time \div 10
conditionalModifiedSince(since, modified) == since # Unset /\ modified # Unset /\ modified <= since
notModified(q, tag, modified) ==
  IF q.noneMatch # {} THEN ifNoneMatch(q.noneMatch, tag) ELSE conditionalModifiedSince(q.since, modified)
CheckNotModified(q, check) ==
  LET modified == truncateHTTPTime(check.modified)
      validators == (IF check.tag = NoTag THEN <<>> ELSE <<Header("etag", check.tag)>>)
                    \o (IF modified = Unset THEN <<>> ELSE <<Header("modified", modified)>>)
      same == validators # <<>> /\ notModified(q, check.tag, modified)
  IN  IF ~conditionalMethodAllowed(q.method) THEN [same |-> FALSE, ops |-> <<>>]
      ELSE [same |-> same, ops |-> validators \o (IF same THEN <<Header("length", Unset), Status(304)>> ELSE <<>>)]

(* ResponseEntity.Write, DownloadResult.Write, redirectResult.Write.  Only an *)
(* entity without media types of its own is refused before it wrote a thing.  *)
entityStatusAllowsBody(status) == status >= 200 /\ status \notin {204, 304}
normalizeEntityStatus(status, fallback) == normalizeStatus(status, fallback)
ensureEntityAccepted(q) == Json \in q.accept
EntityWrite(e, q) ==
  LET status == normalizeEntityStatus(e.status, 200)
      writes == e.body # <<>> /\ entityStatusAllowsBody(status)
      begun == applyEntityHeaders(e.headers) \o <<Status(status)>>
      written == Write(<<"bytes", "string", "reader", "form", "json">>,
                       [value |-> "object", declared |-> e.media, accept |-> q.accept, status |-> status, size |-> 1])
  IN  CASE ~writes                   -> {begun}
        [] writes /\ e.media = <<>>  -> IF ensureEntityAccepted(q) THEN {begun \o <<Body(e.body)>>} ELSE {<<Fail(406)>>}
        [] writes /\ e.media # <<>>  ->
             {begun \o (IF w.status = status THEN <<Body(e.body)>> ELSE <<Fail(w.status)>>) : w \in written}
DownloadWrite(d, q) ==
  LET status == normalizeEntityStatus(d.status, 200)
      begun == (IF d.length # Unset /\ entityStatusAllowsBody(status) THEN <<Header("length", d.length)>> ELSE <<>>)
               \o applyEntityHeaders(d.headers) \o <<Status(status)>>
  IN  IF ~entityStatusAllowsBody(status) \/ q.method = "HEAD" THEN begun
      ELSE begun \o [i \in DOMAIN d.body |-> Body(<<d.body[i]>>)] \o (IF d.broken THEN <<Fail(500)>> ELSE <<>>)
RedirectWrite(r) ==
  IF r.location = "" THEN <<Fail(500)>>
  ELSE applyEntityHeaders(r.headers) \o <<Header("location", r.location), Status(normalizeEntityStatus(r.status, 302))>>

(* FromError and Detail.Write: an error as problem details.                   *)
classifyError(error) ==
  CASE error.kind = "validation"             -> 422
    [] error.kind = "too large"              -> 413
    [] error.kind = "media type"             -> 415
    [] error.kind \in {"parameter", "binding"} -> 400
    [] error.kind = "status"                 -> normalizeStatus(error.status, 500)
    [] error.kind = "other"                  -> 500
ProblemWrite(error, q) ==
  IF Problem \notin q.accept THEN <<Fail(406)>> ELSE <<Status(classifyError(error)), Body(<<"problem">>)>>

ResultWrite(result, q) ==
  CASE result.kind = "entity"   -> EntityWrite(result, q)
    [] result.kind = "download" -> {DownloadWrite(result, q)}
    [] result.kind = "redirect" -> {RedirectWrite(result)}
    [] result.kind = "error"    -> {ProblemWrite(result.error, q)}
    [] result.kind = "direct"   -> {result.ops}
Respond(q) ==
  LET checked == CheckNotModified(q, q.check)
      all == IF checked.same THEN {checked.ops} ELSE {checked.ops \o ops : ops \in ResultWrite(q.result, q)}
  IN  {IF q.filter.on /\ conditionalMethodAllowed(q.method) THEN ShallowETag(ops, q) ELSE Bare(ops) : ops \in all}
=============================================================================
