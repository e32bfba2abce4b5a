SPECIFICATION Spec
CONSTANTS
  a = a
  b = b
  c = c
  Device = {a, b}
  Main = {a, b}
  Site = {s1, s2}
  Params <- OuterParams
  Result <- NoResult
  Pointer <- MixedPointer
  Function <- Mutual
  MaxJobs <- ThreeJobs
  MaxAsync <- NoAsync
  None = None
INVARIANT EightBytes
CHECK_DEADLOCK FALSE
