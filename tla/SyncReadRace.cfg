\* Two phones, two feeds; nothing fails.
CONSTANTS
  alice = alice
  phone = phone
  tablet = tablet
  Users = {alice}
  DeviceIds = {phone, tablet}
  RawUrls = {a, b}
  Urls = {a, b}
  Refused = Refused
  Sanitise <- MCSanitise
  MaxUrlsPerRequest = 4
  MaxId = 12
  Account <- OneAccount
  MaxEdits = 2
  MaxDrops = 0
  MaxLosses = 0
SPECIFICATION SyncSpec
INVARIANTS
  ReadsLoseNothing
