\* Two containers and a third with a rejected password, one adduser, all overlapping.
CONSTANTS
  Procs = {p1, p2, p3, p4}
  Absent = Absent
  Empty = Empty
  MaxStarting = 4
  ByHand = {p4}
  Weak = {p3}
  NoAccount = NoAccount
SPECIFICATION FairBootSpec
\* Every command ends.
CHECK_DEADLOCK FALSE
INVARIANTS
  TypeOK
  OneKeyUnlessRaced
  UpWithAccount
PROPERTIES
  PasswordStays
  EveryStartEnds
  RestartComesUp
