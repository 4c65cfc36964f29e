\* Two phones, one group; listenings, failures and forced full syncs as WithinBounds
\* allows: three of them together, or two and two.
CONSTANTS
  Users = {alice}
  DeviceIds = {phone, tablet}
  NoDevice = NoDevice
  BadDevice = BadDevice
  Groups = {g}
  Contents = {c, d, e}
  Times = {0, 1, 2, 3, 4}
  ImportSentinel = 0
  Unstamped = Unstamped
  MaxActionsPerRequest = 1
  MaxActionsPerPage = 2
  NoClaim = NoClaim
  MaxId = 14
  Account = alice
  BatchSize = 1
  Nothing = Nothing
  MaxClock = 3
  MaxDrops = 2
SPECIFICATION SyncSpec
SYMMETRY Symmetric
VIEW WithoutDownloads
CONSTRAINT WithinBounds
INVARIANTS
  PhonesTypeOK
  FlagFollowsRead
  NothingFabricated
PROPERTIES
  NoRewind
