\* Two accounts, one group, two contents, uploads of up to two actions, migrations.
CONSTANTS
  Users = {alice, bob}
  DeviceIds = {phone}
  NoDevice = NoDevice
  BadDevice = BadDevice
  Groups = {g}
  Contents = {c, d}
  Times = {0, 1, 2}
  ImportSentinel = 1
  Unstamped = Unstamped
  MaxActionsPerRequest = 2
  MaxActionsPerPage = 1
  NoClaim = NoClaim
  MaxId = 3
SPECIFICATION MigrationSpec
SYMMETRY Symmetric
CONSTRAINT WithinBounds
INVARIANTS
  LogInv
  OneWinner
  ImportOverridesNothing
  MigratedAsIfAlways
  ConstraintHolds
PROPERTIES
  ImplementsResumePoints
  NothingForgotten
