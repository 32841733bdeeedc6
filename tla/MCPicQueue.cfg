\* A pool that is exhausted; events between two cycles; events of one handler
\* told apart by their values.
SPECIFICATION FairSpec
CONSTANTS
  PIC_QUEUESIZE = 3
  CPU_CycleMax = 4
  Grain = 2
  IODelay = 1
  Handlers = {a}
  Values = {0, 1}
  Delays = {1, 4}
  MaxCalls = 1
INVARIANTS Partition OnTime
PROPERTIES ImplementsQueue EventsRun
