CONSTANTS
  None = None
  Blind = Blind
  Screen = Screen
  Lamp = Lamp
  HA = HA
  Lib = Lib
  Name1 = Name1
  Name2 = Name2
  NoName = NoName
  Units <- MCUnits
  Type <- MCType
  Id <- MCId
  Order <- MCOrder
  Flags <- MCFlags
  Callers <- MCCallers
  Entity <- MCEntity
  Percents <- MCPercents
  Lights <- MCLights
  Asks <- MCAsks
  Touches <- MCTouches
  Presses <- MCPresses
  Readings <- MCReadings
  MaxCommands = 2
  MaxMoves = 1
SPECIFICATION Spec
INVARIANTS TypeOK QuietAgrees ShownIsCurrent SensorsReal
PROPERTIES OthersKept PositionReached EventsExact
CHECK_DEADLOCK FALSE
