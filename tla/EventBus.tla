------------------------------ MODULE EventBus ------------------------------
(***************************************************************************)
(* event.Bus: goroutines subscribe and publish.  Publish copies the        *)
(* subscriptions that match the event, in dispatch order, and calls their  *)
(* handlers one after another with no lock held; a handler may subscribe   *)
(* or publish in its turn, and another goroutine may at any time.          *)
(***************************************************************************)
EXTENDS Integers, FiniteSets, SequencesExt

CONSTANTS
  Thread, Event,
  Handler,
  Meta,              \* each handler's options: priority, order
  Accepts,           \* eventMatches: the events each handler's type takes
  MaxSubscriptions,  \* bound: subscriptions in all
  MaxPublished,      \* bound: publications in all
  MaxDepth           \* bound: publications nested in one goroutine

EventBusAssumption ==
  /\ Meta \in [Handler -> [priority : BOOLEAN, order : Int]]
  /\ Accepts \in [Handler -> SUBSET Event]
  /\ {MaxSubscriptions, MaxPublished, MaxDepth} \subseteq Nat

VARIABLES
  handlers,    \* the bus: what was subscribed, each with its sequence number
  stack,       \* each goroutine's publications, the innermost last: what is left of
               \* its copy, the subscriptions made before it, those it has called
  subscribed,  \* history: every subscription made
  published    \* publications made

vars == <<handlers, stack, subscribed, published>>

Init ==
  /\ handlers = <<>>
  /\ stack = [t \in Thread |-> <<>>]
  /\ subscribed = {}
  /\ published = 0

Matches(r, e) == e \in Accepts[r.handler]

\* The order of dispatch: priority first, then order, then who subscribed first.
Before(r, s) ==
  LET a == Meta[r.handler]
      b == Meta[s.handler]
  IN  IF a.priority # b.priority THEN a.priority
      ELSE IF a.order = b.order THEN r.seq < s.seq
      ELSE a.order < b.order

\* The one sequence of the members of S, each once, that has them in that order.
Dispatched(S) ==
  CHOOSE s \in [1 .. Cardinality(S) -> S] :
    \A i, j \in DOMAIN s : i < j => Before(s[i], s[j])

matchingHandlers(e) == Dispatched({r \in ToSet(handlers) : Matches(r, e)})

Top(t) == Last(stack[t])
SetTop(t, p) == stack' = [stack EXCEPT ![t] = Append(Front(@), p)]

\* A goroutine that is not inside the bus: outside any Publish, or in a handler.
InUserCode(t) == stack[t] # <<>> => Top(t).at = "handler"
At(t, where) == stack[t] # <<>> /\ Top(t).at = where

-----------------------------------------------------------------------------
Subscribe(t, h) ==
  /\ InUserCode(t)
  /\ Len(handlers) < MaxSubscriptions
  /\ LET r == [handler |-> h, seq |-> Len(handlers) + 1]
     IN  handlers' = Append(handlers, r) /\ subscribed' = subscribed \cup {r}
  /\ UNCHANGED <<stack, published>>

\* Mutant: the matching handlers are filtered in the bus's own slice.
PublishInPlace(t, e) ==
  /\ InUserCode(t)
  /\ published < MaxPublished
  /\ Len(stack[t]) < MaxDepth
  /\ published' = published + 1
  /\ handlers' = matchingHandlers(e)
  /\ \E at \in {"loop", "error"} :
       stack' = [stack EXCEPT ![t] = Append(@,
         [event |-> e, rest |-> matchingHandlers(e), before |-> subscribed,
          called |-> <<>>, at |-> at])]
  /\ UNCHANGED subscribed

\* A context that is done already makes Publish fail before the first handler.
Publish(t, e) ==
  /\ InUserCode(t)
  /\ published < MaxPublished
  /\ Len(stack[t]) < MaxDepth
  /\ published' = published + 1
  /\ \E at \in {"loop", "error"} :
       stack' = [stack EXCEPT ![t] = Append(@,
         [event |-> e, rest |-> matchingHandlers(e), before |-> subscribed,
          called |-> <<>>, at |-> at])]
  /\ UNCHANGED <<handlers, subscribed>>

CallHandler(t) ==
  /\ At(t, "loop")
  /\ Top(t).rest # <<>>
  /\ SetTop(t, [Top(t) EXCEPT !.rest = Tail(@), !.called = Append(@, Head(Top(t).rest)),
                              !.at = "handler"])
  /\ UNCHANGED <<handlers, subscribed, published>>

\* The context is done before the next handler is called.
Cancelled(t) ==
  /\ At(t, "loop")
  /\ Top(t).rest # <<>>
  /\ SetTop(t, [Top(t) EXCEPT !.at = "error"])
  /\ UNCHANGED <<handlers, subscribed, published>>

\* Any handler may fail, and the first to fail ends the publication.
HandlerReturns(t) ==
  /\ At(t, "handler")
  /\ \E at \in {"loop", "error"} : SetTop(t, [Top(t) EXCEPT !.at = at])
  /\ UNCHANGED <<handlers, subscribed, published>>

AllCalled(t) ==
  /\ At(t, "loop")
  /\ Top(t).rest = <<>>
  /\ SetTop(t, [Top(t) EXCEPT !.at = "ok"])
  /\ UNCHANGED <<handlers, subscribed, published>>

Return(t) ==
  /\ At(t, "ok") \/ At(t, "error")
  /\ stack' = [stack EXCEPT ![t] = Front(@)]
  /\ UNCHANGED <<handlers, subscribed, published>>

Next ==
  \E t \in Thread :
    \/ \E h \in Handler : Subscribe(t, h)
    \/ \E e \in Event : Publish(t, e)
    \/ CallHandler(t) \/ Cancelled(t) \/ HandlerReturns(t) \/ AllCalled(t) \/ Return(t)

Spec == Init /\ [][Next]_vars
-----------------------------------------------------------------------------
Publications == UNION {ToSet(stack[t]) : t \in Thread}

\* A Publish calls the handlers that were subscribed when it began, in dispatch
\* order, skipping none and calling none that came later; one that succeeds has
\* called every handler that matches, each subscription once, whatever other
\* goroutines and the handlers themselves subscribed and published meanwhile.
DispatchIsExact ==
  \A p \in Publications :
    LET due == {r \in p.before : Matches(r, p.event)}
    IN  /\ \A i \in DOMAIN p.called :
             /\ p.called[i] \in p.before
             /\ \A r \in due : Before(r, p.called[i]) => \E j \in 1 .. i - 1 : p.called[j] = r
        /\ p.at = "ok" => ToSet(p.called) = due /\ Len(p.called) = Cardinality(due)
=============================================================================
