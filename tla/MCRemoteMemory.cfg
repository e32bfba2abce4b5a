SPECIFICATION MemorySpec
CONSTANTS
  a = a
  b = b
  Device = {a, b}
  Main = {a}
  Site = {s1}
  Params <- NoParams
  Result <- NoResult
  Pointer <- LongPointer
  Function <- CallBack
  MaxJobs <- TwoJobs
  MaxAsync <- OneAsync
  MaxStores = 2
  None = None
INVARIANTS CalleeSees CallerSees
CHECK_DEADLOCK FALSE
