\* Two phones, two groups, pages of one, one failure or forced full sync, fair.
CONSTANTS
  Users = {alice}
  DeviceIds = {phone, tablet}
  NoDevice = NoDevice
  BadDevice = BadDevice
  Groups = {g, h}
  Contents = {c}
  Times = {0, 1, 2, 3}
  ImportSentinel = 0
  Unstamped = Unstamped
  MaxActionsPerRequest = 2
  MaxActionsPerPage = 1
  NoClaim = NoClaim
  MaxId = 14
  Account = alice
  BatchSize = 2
  Nothing = Nothing
  MaxClock = 2
  MaxDrops = 1
SPECIFICATION FairSyncSpec
CONSTRAINT LateUploadsOnly
INVARIANTS
  WinnersArrive
  PagesSkipNothing
PROPERTIES
  PhonesCatchUp
