\* Two phones, two feeds and a refused spelling, two edits, one failed sync and one
\* loss of power, fair.
CONSTANTS
  alice = alice
  phone = phone
  tablet = tablet
  Users = {alice}
  DeviceIds = {phone, tablet}
  RawUrls = {a, b, x}
  Urls = {a, b}
  Refused = Refused
  Sanitise <- MCSanitise
  MaxUrlsPerRequest = 4
  MaxId = 12
  Account <- OneAccount
  MaxEdits = 2
  MaxDrops = 1
  MaxLosses = 1
SPECIFICATION FairSyncSpec
INVARIANTS
  SyncTypeOK
  ViewFollowsList
  CursorsWithinLog
  RetryRecordsNothing
PROPERTIES
  CursorNeverRewinds
  AllCatchUp
