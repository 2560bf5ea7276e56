--------------------------- MODULE SingletonScope ---------------------------
(***************************************************************************)
(* What the singleton scope promises to the callers of Get: a bean appears *)
(* at most once, only after the beans it must not precede, never changes,  *)
(* and every caller receives that one instance.                            *)
(***************************************************************************)
EXTENDS Integers

CONSTANTS
  Bean,
  Before       \* Before[b]: beans that must exist before b does

VARIABLES
  instance,    \* the instance of each bean, 0 while there is none
  handedOut    \* <<bean, instance>> pairs that callers received

scopeVars == <<instance, handedOut>>

Init == instance = [b \in Bean |-> 0] /\ handedOut = {}

Create(b) ==
  /\ instance[b] = 0
  /\ \A d \in Before[b] : instance[d] # 0
  /\ instance' = [instance EXCEPT ![b] = instance'[b]]
  /\ instance'[b] # 0

\* At most the instance of b goes to a caller, and it may as it appears.
HandOut(b) ==
  /\ instance'[b] # 0
  /\ handedOut \subseteq handedOut'
  /\ handedOut' \subseteq handedOut \cup {<<b, instance'[b]>>}

Next ==
  \E b \in Bean : (Create(b) \/ UNCHANGED instance) /\ HandOut(b)

Spec == Init /\ [][Next]_scopeVars
=============================================================================
