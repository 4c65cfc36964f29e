\* A moment that leaves datetime on its way to UTC.
CONSTANTS
  Subjects = {episode}
  Verbs = {play}
  Play = play
  Guids = {}
  Missing = Missing
  Bad = Bad
  NoText = NoText
  Offsets <- AllOffsets
  MaxPositionSeconds = 2
  LastTick = 3
  TicksPerSecond = 2
  Zones <- Shifts
  Now = 1
  Reports <- TimesOnly
  Refused = Refused
  Crashed = Crashed
  Nobody = Nobody
  MaxRows = 1
SPECIFICATION Spec
INVARIANTS
  StoredOrRefused
