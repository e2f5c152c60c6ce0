SPECIFICATION FairSpec
CONSTANTS
  EventPeers = {e1}
  HttpPeers = {h1}
  LineBytes = 2
  Room = 1
  RequestParts = 2
  MaxParts = 3
  MaxNotified = 4
  MaxNesting = 2
  WorkerNotifies = TRUE
INVARIANTS Lossless DataIsHeld
PROPERTIES QueuesDrain HttpCloses
CHECK_DEADLOCK FALSE
