\* Two accounts whose devices have one identifier, two feeds in three spellings.
CONSTANTS
  Users = {alice, bob}
  DeviceIds = {phone}
  RawUrls = {"http://a", "HTTP://b", "ftp://x"}
  Urls = {"http://a", "http://b"}
  Refused = Refused
  Sanitise <- MCSanitise
  MaxUrlsPerRequest = 4
  MaxId = 5
SPECIFICATION Spec
SYMMETRY Symmetric
INVARIANTS
  LogInv
  HistoryAlternates
  DeltaRestoresList
PROPERTIES
  ImplementsAccountList
  BatchDecidesList
