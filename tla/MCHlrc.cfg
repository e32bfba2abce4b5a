SPECIFICATION Spec
CONSTANTS
  Heavy = {h1, h2}
  Light = {}
  NumPages = 2
  Word = {1, 2}
  Extent <- MixedExtent
  LightExtent = {}
  AllocSizes = {2}
  MaxStores = 3
  Nothing = Nothing
INVARIANTS TypeOK Coherent Fresh PendingMapped
PROPERTY ImplementsLazyMemory
