----------------------------- MODULE MCContainer -----------------------------
(***************************************************************************)
(* Bean graphs for TLC.  Acyclic: app depends on config, its factory       *)
(* resolves store, its injector helper, a prototype that resolves store;   *)
(* config's factory resolves store.  Cyclic: left and right inject each    *)
(* other, left a second bean after right, as WithAllowCircularReferences   *)
(* permits, and the factories of ping and pong resolve each other without  *)
(* having declared it.                                                     *)
(***************************************************************************)
EXTENDS Container

CONSTANTS app, config, store, helper, left, right, ping, pong

MCDependsOn == [x \in Bean |-> IF x = app THEN <<config>> ELSE <<>>]

MCFactoryDeps == [x \in Bean |->
  CASE x = app    -> <<store>>
    [] x = config -> <<store>>
    [] x = ping   -> <<pong>>
    [] x = pong   -> <<ping>>
    [] OTHER      -> <<>>]

MCInjectDeps == [x \in Bean |->
  CASE x = app    -> <<helper>>
    [] x = helper -> <<store>>
    [] x = left   -> <<right, store>>
    [] x = right  -> <<left>>
    [] OTHER      -> <<>>]

\* What the theorems on depends-on and on the singleton scope assume of beans.
ASSUME OnlyInjectionCycles == NoWayBack("dependsOn") /\ NoWayBack("factory")
=============================================================================
