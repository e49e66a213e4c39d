SPECIFICATION Spec
CONSTANTS
  NCmd = 4
  NEr = 3
  NBus = 3
  Present = {1}
  MaxJobs = 5
  MaxPort = 1
INVARIANTS ConsumedInOrder CompletionIsOwn OverwrittenOnlyByLap
PROPERTY ReturnsToIdle
CHECK_DEADLOCK FALSE
