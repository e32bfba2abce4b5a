CONSTANTS
  Client = {c1, c2, c3}
  MaxAsk = 2
  Size = 2
  None = None
  Job <- MCJob
SPECIFICATION CommSpec
CHECK_DEADLOCK FALSE
INVARIANTS Ring QueuesThere OwnAnswers
PROPERTIES ImplementsBoundedFifo Served
