SPECIFICATION HFairSpec
CONSTANTS
  N = 3
  RxCap = 2
  Window = 2
  MaxSeg = 2
  SeqSpace = 8
  PeerIss = 5
  IssStep = 3
  MaxConn = 2
  MaxTransit = 3
  Loss = FALSE
  Reorder = FALSE
  Repeat = FALSE
  Rst = {}
  MaxPoll = 1
  MaxRedirects = 1
  RawCap = 4
CHECK_DEADLOCK FALSE
INVARIANTS PageIsWhole
PROPERTY CallReturns
