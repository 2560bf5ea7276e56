------------------------------ MODULE WebPipeline ------------------------------
(* One request on its way through filters, interceptors and the wrappers of a *)
(* controller to its handler and back.  What is still ahead is "todo", what   *)
(* was entered is "stack"; a Go call is an element entered, its return or its *)
(* defers the element left.  User code chooses freely to go on, stop, fail or *)
(* panic.                                                                     *)
EXTENDS WebRegistry

CONSTANTS Applications,  \* [configurers, controller]: what was deployed
          Requests,      \* [method, override, form, proto, path, servlet, scheme]
          Filters,       \* the values an application has of type Filter,
          Interceptors,  \* and of type Interceptor
          Admits(_, _)   \* whether a mapping is one for a path (PathPatterns)

VARIABLES registry, request, todo, stack, outcome,
          passed, completed,  \* history: who let the request pass, who was told of its end
          saved,              \* history: what became of the session attributes
          asked               \* history: the errors mappers were asked about

history == <<passed, completed, saved>>
vars == <<registry, request, todo, stack, outcome, history, asked>>

(* Filters and interceptors are of different types: a filter is never called  *)
(* after a handler, and what wraps one of them is one itself.                 *)
FilterKinds == {"mapped", "once", "hidden", "form", "forwarded", "user"}
InterceptorKinds == {"mapped", "handler", "user", "binders", "models"}
ASSUME PipelineAssumption ==
  /\ \A f \in Filters :
       /\ f.kind \in FilterKinds
       /\ f.kind = "mapped" => f.target \in Filters
       /\ f.kind = "once" => f.delegate \in Filters
  /\ \A i \in Interceptors :
       /\ i.kind \in InterceptorKinds
       /\ i.kind = "mapped" => i.target \in Interceptors
  /\ \A application \in Applications :
       LET r == ApplyConfigurers(application.configurers)
       IN  r.err = None =>
             /\ r.filters \in Seq(Filters) /\ r.interceptors \in Seq(Interceptors)
             /\ \A i \in DOMAIN r.servlets : r.servlets[i].filters \in Seq(Filters)

Absent == <<"absent">>   \* every attribute is a sequence
Attributes == {"webApp", "binder", "kind", "adviceKind", "once", "originalMethod",
               "formContent", "originalScheme", "model"}
Going == [kind |-> "none"]
Result(by) == [kind |-> "result", by |-> by]
Error(e) == [kind |-> "error", by |-> e]
Panicking == [kind |-> "panic", by |-> "panic"]

allowedMethods == {"PUT", "PATCH", "DELETE"}     \* defaultHiddenMethods
FormMethods == {"PUT", "PATCH", "DELETE"}        \* defaultFormContentMethods

Begin(application, q) ==
  LET r == ApplyConfigurers(application.configurers)
      inner == IF q.servlet = "" THEN Wraps(application.controller) ELSE <<>>
  IN  /\ registry = r
      /\ request = [method |-> q.method, override |-> q.override, form |-> q.form, proto |-> q.proto,
                    path |-> q.path, scheme |-> q.scheme, asked |-> q.method,
                    attributes |-> [a \in Attributes |-> Absent]]
      /\ todo = IF r.err # None THEN <<>> ELSE Deployment(r, q.servlet) \o inner \o <<[kind |-> "target"]>>
      /\ outcome = IF r.err # None THEN Error("startup") ELSE Going
      /\ stack = <<>> /\ passed = <<>> /\ completed = <<>> /\ saved = "none" /\ asked = <<>>
Init == \E application \in Applications, q \in Requests : Begin(application, q)

At(kind) == outcome = Going /\ todo # <<>> /\ Head(todo).kind = kind
Attribute(name) == request.attributes[name]
With(name, value) == [request EXCEPT !.attributes[name] = value]
Push(element) == stack' = <<element>> \o stack
GoOn == todo' = Tail(todo) /\ UNCHANGED outcome
Stop(o) == outcome' = o /\ todo' = <<>>
-----------------------------------------------------------------------------
(* mappedFilter, mappedInterceptor: look at the path, then be the target.     *)
Mapped ==
  /\ At("mapped")
  /\ todo' = (IF Admits(Head(todo).mapping, request.path) THEN <<Head(todo).target>> ELSE <<>>) \o Tail(todo)
  /\ UNCHANGED <<registry, request, stack, outcome, history, asked>>

WebApp ==
  /\ At("webapp")
  /\ Push([kind |-> "restore", attribute |-> "webApp", value |-> Attribute("webApp")])
  /\ request' = With("webApp", <<"app">>)
  /\ GoOn /\ UNCHANGED <<registry, history, asked>>

(* Once: a filter that runs already in this request is passed over.           *)
Once ==
  /\ At("once")
  /\ IF Attribute("once") # Absent THEN GoOn /\ UNCHANGED <<request, stack>>
     ELSE /\ request' = With("once", <<"running">>)
          /\ Push([kind |-> "restore", attribute |-> "once", value |-> Absent])
          /\ todo' = <<Head(todo).delegate>> \o Tail(todo) /\ UNCHANGED outcome
  /\ UNCHANGED <<registry, history, asked>>

(* HiddenHTTPMethod: the method of a POST may be overridden by a parameter.   *)
HiddenMethod ==
  /\ At("hidden")
  /\ CASE request.method = "POST" /\ request.override = "unreadable" ->
            Stop(Error("parameter")) /\ UNCHANGED <<request, stack>>
       [] request.method = "POST" /\ request.override \in allowedMethods ->
            /\ Push([kind |-> "method", value |-> request.method])
            /\ request' = [With("originalMethod", <<request.method>>) EXCEPT !.method = request.override]
            /\ GoOn
       [] OTHER -> GoOn /\ UNCHANGED <<request, stack>>
  /\ UNCHANGED <<registry, history, asked>>

(* FormContent: the form of a PUT, PATCH or DELETE, read and put back.        *)
FormContent ==
  /\ At("form")
  /\ CASE request.method \notin FormMethods \/ request.form \in {"other", "empty"} -> GoOn /\ UNCHANGED request
       [] request.method \in FormMethods /\ request.form = "large" -> Stop(Error("413")) /\ UNCHANGED request
       [] request.method \in FormMethods /\ request.form = "broken" -> Stop(Error("400")) /\ UNCHANGED request
       [] OTHER -> request' = With("formContent", <<request.form>>) /\ GoOn
  /\ UNCHANGED <<registry, stack, history, asked>>

(* ForwardedHeaders: keeps what it overwrites as an attribute, for good.      *)
Forwarded ==
  /\ At("forwarded")
  /\ request' = [With("originalScheme", <<request.scheme>>) EXCEPT
                   !.scheme = IF request.proto \in {"http", "https"} THEN request.proto ELSE @]
  /\ GoOn /\ UNCHANGED <<registry, stack, history, asked>>

(* A filter or interceptor of the application.                                *)
User ==
  /\ At("user")
  /\ \/ GoOn
     \/ Stop(Result(Head(todo).id))
     \/ Stop(Error("E1"))
  /\ UNCHANGED <<registry, request, stack, history, asked>>

Messages ==
  /\ At("messages")
  /\ GoOn /\ UNCHANGED <<registry, request, stack, history, asked>>

(* The router (external) calls its interceptors and hands errors to mappers.  *)
EnterRouter ==
  /\ At("router")
  /\ Push([kind |-> "router"])
  /\ GoOn /\ UNCHANGED <<registry, request, history, asked>>

(* HandlerInterceptorAdapter: only who let the request pass is called after.  *)
PreHandle ==
  /\ At("handler")
  /\ \/ /\ GoOn /\ Push(Head(todo))
        /\ passed' = Append(passed, Head(todo).id)
     \/ Stop(Result("nil")) /\ UNCHANGED <<stack, passed>>
     \/ Stop(Error("E1")) /\ UNCHANGED <<stack, passed>>
  /\ UNCHANGED <<registry, request, completed, saved, asked>>

InitBindersLate ==
  /\ At("binders")
  /\ request' = With("binder", Head(todo).initializers)
  /\ IF Contains(Head(todo).initializers, "nil") THEN Stop(Error("binder")) /\ UNCHANGED stack
     ELSE GoOn /\ Push([kind |-> "restore", attribute |-> "binder", value |-> Attribute("binder")])
  /\ UNCHANGED <<registry, history, asked>>
(* handleWithInitBinders: a binder of its own that starts with the outer      *)
(* binder's rules; an initializer may be nil.                                 *)
InitBinders ==
  /\ At("binders")
  /\ Push([kind |-> "restore", attribute |-> "binder", value |-> Attribute("binder")])
  /\ LET initializers == Head(todo).initializers
         outer == IF Attribute("binder") = Absent THEN <<>> ELSE Attribute("binder")
         bad == {i \in DOMAIN initializers : initializers[i] = "nil"}
         n == IF bad = {} THEN Len(initializers) ELSE (CHOOSE i \in bad : \A j \in bad : i <= j) - 1
     IN  /\ request' = With("binder", outer \o SubSeq(initializers, 1, n))
         /\ IF bad = {} THEN GoOn ELSE Stop(Error("binder"))
  /\ UNCHANGED <<registry, history, asked>>

ModelAttributes ==
  /\ At("models")
  /\ LET model == IF Attribute("model") = Absent THEN <<>> ELSE Attribute("model")
     IN  request' = With("model", model \o Head(todo).initializers)
  /\ GoOn \/ Stop(Error("E1"))
  /\ UNCHANGED <<registry, stack, history, asked>>

(* wrapSessionAttributes: what the handler left is saved only if it did well. *)
LoadSessionAttributes ==
  /\ At("session")
  /\ Push([kind |-> "session"])
  /\ request' = With("model", (IF Attribute("model") = Absent THEN <<>> ELSE Attribute("model")) \o <<"session">>)
  /\ GoOn /\ UNCHANGED <<registry, history, asked>>

bindControllerKind ==
  /\ At("kind")
  /\ Push([kind |-> "restore", attribute |-> "kind", value |-> Attribute("kind")])
  /\ request' = With("kind", <<Head(todo).value>>)
  /\ GoOn /\ UNCHANGED <<registry, history, asked>>

Handle ==
  /\ At("target")
  /\ \E o \in {Result("target"), Result("complete"), Error("E1"), Error("E2"), Panicking} : Stop(o)
  /\ UNCHANGED <<registry, request, stack, history, asked>>
-----------------------------------------------------------------------------
Leaving(kind) == outcome # Going /\ stack # <<>> /\ Head(stack).kind = kind
Pop == stack' = Tail(stack)

Restore ==
  /\ Leaving("restore")
  /\ request' = With(Head(stack).attribute, Head(stack).value)
  /\ Pop /\ UNCHANGED <<registry, todo, outcome, history, asked>>

RestoreMethod ==
  /\ Leaving("method")
  /\ request' = [With("originalMethod", Absent) EXCEPT !.method = Head(stack).value]
  /\ Pop /\ UNCHANGED <<registry, todo, outcome, history, asked>>

(* PostHandle after a result only; AfterCompletion is deferred, and reads the *)
(* error the call returns: nil while a panic unwinds.                         *)
Seen(o) == IF o.kind = "error" THEN o.by ELSE None
Complete(o) ==
  /\ outcome' = o
  /\ completed' = Append(completed, [id |-> Head(stack).id, error |-> Seen(o)])
  /\ Pop /\ UNCHANGED <<registry, request, todo, passed, saved, asked>>
PostHandle ==
  /\ Leaving("handler") /\ outcome.kind = "result"
  /\ Complete(outcome) \/ Complete(Error("E2"))
AfterCompletionEager ==
  /\ Leaving("handler") /\ outcome.kind # "result"
  /\ completed' = Append(completed, [id |-> Head(stack).id, error |-> None])
  /\ Pop /\ UNCHANGED <<registry, request, todo, passed, saved, asked, outcome>>
AfterCompletion ==
  /\ Leaving("handler") /\ outcome.kind # "result"
  /\ Complete(outcome)

SaveSessionAttributes ==
  /\ Leaving("session")
  /\ saved' = CASE outcome.kind # "result"                              -> saved
                [] outcome.kind = "result" /\ outcome.by = "complete" -> "removed"
                [] OTHER                                               -> "saved"
  /\ Pop /\ UNCHANGED <<registry, request, todo, outcome, passed, completed, asked>>

(* The router answers an error with what the mappers make of it; the wrapper  *)
(* of an advice's handler binds its kind for the call and restores it.        *)
LeaveRouter ==
  /\ Leaving("router")
  /\ IF outcome.kind = "error"
     THEN LET mapped == MapError(registry, outcome.by)
          IN  asked' = Append(asked, [error |-> outcome.by, mappers |-> mapped.asked]) /\ outcome' = Result(mapped.by)
     ELSE UNCHANGED <<asked, outcome>>
  /\ Pop /\ UNCHANGED <<registry, request, todo, history>>

Next ==
  \/ Mapped \/ WebApp \/ Once \/ HiddenMethod \/ FormContent \/ Forwarded \/ User \/ Messages
  \/ EnterRouter \/ PreHandle \/ InitBinders \/ ModelAttributes \/ LoadSessionAttributes
  \/ bindControllerKind \/ Handle
  \/ Restore \/ RestoreMethod \/ PostHandle \/ AfterCompletion \/ SaveSessionAttributes \/ LeaveRouter

Spec == Init /\ [][Next]_vars
-----------------------------------------------------------------------------
Done == outcome # Going /\ stack = <<>>

(* However a request ends, every handler interceptor that let it pass is      *)
(* called once after it, the last one first; an error one of them sees is     *)
(* seen by all outside it, and the outermost is told the error the mappers    *)
(* are asked about, or none (controller_part3.go: the deferred                *)
(* AfterCompletion).                                                          *)
CompletedInReverse ==
  Done => /\ Ids(completed) = Reverse(passed)
          /\ \A i, j \in DOMAIN completed : i < j /\ completed[i].error # None =>
               completed[j].error = completed[i].error
          /\ completed # <<>> =>
               Last(completed).error = IF asked = <<>> THEN None ELSE asked[1].error

(* A request that is answered, refused or given up has the method it came     *)
(* with, and nothing bound for the time of a call is left on it, so that who  *)
(* forwards or reuses it finds it as it was (hidden_method.go, once.go,       *)
(* configuration.go, the wrappers of web/mvc).                                *)
RequestRestored ==
  Done => /\ request.method = request.asked
          /\ \A a \in {"webApp", "binder", "kind", "adviceKind", "once", "originalMethod"} : Attribute(a) = Absent
=============================================================================
