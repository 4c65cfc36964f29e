------------------------------ MODULE AccountList ------------------------------
(* What gpodsync promises about subscriptions, with the log forgotten: every     *)
(* account has one list of feeds, and an upload from any of its devices adds one *)
(* set of feeds to it and then takes another away.  The module docstring of      *)
(* gpodsync/models.py and "Subscriptions are per device on the wire, and shared  *)
(* here" in docs/protocol.md state this promise; SubscriptionLog implements it.  *)

CONSTANTS Users,    \* accounts
          Feeds     \* canonical feed URLs

VARIABLE list       \* list[u]: the feeds account u is subscribed to

TypeOK == list \in [Users -> SUBSET Feeds]

Init == list = [u \in Users |-> {}]

(* Additions first, removals second: a feed named in both ends up removed.       *)
Apply(u, add, remove) ==
  list' = [list EXCEPT ![u] = (@ \cup add) \ remove]

Next == \E u \in Users, add, remove \in SUBSET Feeds : Apply(u, add, remove)

Spec == Init /\ [][Next]_list
================================================================================
