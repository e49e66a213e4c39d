SPECIFICATION Spec
CONSTANTS
  N = 2
  RxCap = 2
  Window = 2
  MaxSeg = 2
  SeqSpace = 8
  PeerIss = 5
  IssStep = 3
  MaxConn = 2
  MaxTransit = 2
  Loss = TRUE
  Reorder = TRUE
  Repeat = TRUE
  Rst = {1}
CHECK_DEADLOCK FALSE
INVARIANTS StreamIntact AckedWasStored
PROPERTY ImplementsByteStream
