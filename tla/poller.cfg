SPECIFICATION FairSpec
CONSTANTS
  Hosts = {a, b}
  Positions = {p1, p2}
  MAX_FAILED_DISCOVERIES = 3
INVARIANTS ShownIsOfContext
PROPERTIES LastKnownKept FilterLinesAreMoves ContextTaken
CHECK_DEADLOCK FALSE
