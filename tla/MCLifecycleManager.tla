------------------------ MODULE MCLifecycleManager ------------------------
\* Three hooks whose names, orders and priority disagree with each other:
\* h3 is a priority hook, h1 and h2 are told apart by order then by name.
EXTENDS LifecycleManager, TLC

CONSTANTS h1, h2, h3

ASSUME LifecycleInstance == HookAssumption /\ ManagerAssumption

MCMeta ==
  h1 :> [priority |-> FALSE, order |-> 1, name |-> 1] @@
  h2 :> [priority |-> FALSE, order |-> 0, name |-> 3] @@
  h3 :> [priority |-> TRUE,  order |-> 2, name |-> 2]
=============================================================================
