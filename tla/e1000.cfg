SPECIFICATION FairSpec
CONSTANTS
  NRx = 4
  NTx = 3
  MaxRx = 8
  MaxTx = 4
INVARIANTS TypeOK NoFrameTwice NothingLost StarvedOnlyByBurst SentUnlessLapped
PROPERTY AllTaken
CHECK_DEADLOCK FALSE
