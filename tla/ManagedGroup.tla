---------------------------- MODULE ManagedGroup ----------------------------
(***************************************************************************)
(* What lifecycle.Manager promises, without callers, states or lists: a    *)
(* group of components that go up after what they need, go down before it, *)
(* and are released, once and for all, when the whole group is down.       *)
(***************************************************************************)
EXTENDS Integers

CONSTANTS
  Component,
  Holder       \* components that hold resources to release

VARIABLES
  members,    \* components in the group
  needs,      \* needs[c]: what c must find running, members or not
  up,         \* 1 while the component runs
  released    \* 1 once its resources have been released

groupVars == <<members, needs, up, released>>

AllDown == \A c \in Component : up[c] = 0
NoneReleased == \A c \in Component : released[c] = 0

Init ==
  /\ members = {}
  /\ needs = [c \in Component |-> {}]
  /\ up = [c \in Component |-> 0]
  /\ released = [c \in Component |-> 0]

Join(c, ns) ==
  /\ c \notin members
  /\ AllDown
  /\ NoneReleased
  /\ members' = members \cup {c}
  /\ needs' = [needs EXCEPT ![c] = ns]
  /\ UNCHANGED <<up, released>>

Up(c) ==
  /\ c \in members
  /\ up[c] = 0
  /\ NoneReleased
  /\ \A d \in needs[c] \cap members : up[d] = 1
  /\ up' = [up EXCEPT ![c] = 1]
  /\ UNCHANGED <<members, needs, released>>

Down(c) ==
  /\ c \in members
  /\ up[c] = 1
  /\ \A d \in members : c \in needs[d] => up[d] = 0
  /\ up' = [up EXCEPT ![c] = 0]
  /\ UNCHANGED <<members, needs, released>>

\* Holders of resources go in the same order: what needs c first.
Release(c) ==
  /\ c \in members \cap Holder
  /\ released[c] = 0
  /\ AllDown
  /\ \A d \in members \cap Holder : c \in needs[d] => released[d] = 1
  /\ released' = [released EXCEPT ![c] = 1]
  /\ UNCHANGED <<members, needs, up>>

Next ==
  \E c \in Component :
    \/ \E ns \in SUBSET Component : Join(c, ns)
    \/ Up(c)
    \/ Down(c)
    \/ Release(c)

Spec == Init /\ [][Next]_groupVars
=============================================================================
