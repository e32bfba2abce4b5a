SPECIFICATION FairSpec
CONSTANTS
  a = a
  b = b
  c = c
  Device = {a, b, c}
  Main = {a, c}
  Site = {s1}
  Params <- MixedParams
  Result <- MixedResult
  Pointer <- MixedPointer
  Function <- CallBack
  MaxJobs <- FewJobs
  MaxAsync <- OneAsync
  None = None
INVARIANTS Matched ArgsIntact TablesTight
PROPERTY CallsReturn
CHECK_DEADLOCK FALSE
