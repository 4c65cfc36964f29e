\* Two accounts, one of them with a password that is guessed at, and a made-up name; two
\* hosts behind one proxy, one of which claims to be the other; two threads, two keys.
CONSTANTS
  Users = {alice, bob}
  DeviceIds = {d}
  Captions = {c}
  Kinds = {mobile}
  Other = Other
  Nothing = Nothing
  Requests = {t1, t2}
  None = None
  Names = {alice, ghost}
  home = home
  elsewhere = elsewhere
  proxy = proxy
  Addresses = {home, elsewhere, proxy}
  Hosts = {home, elsewhere}
  Proxies <- OneProxy
  Claims <- MCClaims
  TrustedHops = 1
  Limit = 2
  Sessions = {s1, s2}
  Anonymous = Anonymous
  Unused = Unused
  Gone = Gone
SPECIFICATION AccessSpec
SYMMETRY Symmetric
CONSTRAINT WithinBounds
INVARIANTS
  AccessTypeOK
  SettingsAsSaid
  OwnFailuresOnly
  GuessesBounded
PROPERTIES
  SessionsKeepTheirAccount
