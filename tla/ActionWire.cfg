\* Offsets around -1, 0 and the limits; moments and zones around both ends of datetime.
CONSTANTS
  Subjects = {episode}
  Verbs = {play, delete}
  Play = play
  Guids = {}
  Missing = Missing
  Bad = Bad
  NoText = NoText
  Offsets <- AllOffsets
  MaxPositionSeconds = 2
  LastTick = 3
  TicksPerSecond = 2
  Zones <- Shifts
  Now = 1
  Reports <- FieldsOrTimes
  Refused = Refused
  Crashed = Crashed
  Nobody = Nobody
  MaxRows = 1
SPECIFICATION Spec
INVARIANTS
  WireTypeOK
  CollapseLosesNothing
  EchoChangesNothing
