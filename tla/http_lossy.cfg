SPECIFICATION HSpec
CONSTANTS
  N = 3
  RxCap = 2
  Window = 2
  MaxSeg = 2
  SeqSpace = 8
  PeerIss = 5
  IssStep = 3
  MaxConn = 2
  MaxTransit = 2
  Loss = TRUE
  Reorder = TRUE
  Repeat = FALSE
  Rst = {1, 2}
  MaxPoll = 1
  MaxRedirects = 1
  RawCap = 3
INVARIANTS HTypeOK RawOfLastConnection ClosedAtReturn
CHECK_DEADLOCK FALSE
