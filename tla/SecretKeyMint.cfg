\* Two starts that overlap.
CONSTANTS
  Procs = {p1, p2}
  Absent = Absent
  Empty = Empty
  MaxStarting = 2
SPECIFICATION Spec
CHECK_DEADLOCK FALSE
INVARIANTS
  OneMint
