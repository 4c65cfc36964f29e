------------------------------ MODULE MCActionWire ------------------------------
(* Small instances of ActionWire.  What a field holds and when it happened are    *)
(* read apart, so one run varies the fields of actions with one timestamp, and    *)
(* the timestamps of actions with few fields.                                     *)
EXTENDS ActionWire

AllOffsets == {-3, -1, 0, 1, 3}
Shifts     == {-3, 0, 2}

FieldsOrTimes(raw) ==
  \/ raw.stamp = [local |-> 2, zone |-> 0]
  \/ /\ raw.subject # Bad /\ raw.verb = Play
     /\ raw.started = 0 /\ raw.position = 1 /\ raw.total \in {1, 3}

TimesOnly(raw) ==
  /\ raw.stamp \in Stamps
  /\ raw.started = Missing /\ raw.position = Missing /\ raw.total = Missing
================================================================================
