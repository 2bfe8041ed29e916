CONSTANTS
  Symbols <- MCSymbols
  Stops <- MCStops
  Bodies <- MCBodies
  Chunks <- MCChunks
  Settings <- MCSettings
  MaxChunks = 4
SPECIFICATION Spec
INVARIANTS TypeOK NoStopReachesClient ParsedAsWhole StreamTellsResult StreamEndsOnce
CHECK_DEADLOCK FALSE
