SPECIFICATION Spec
CONSTANTS
  Heavy = {h1, h2}
  Light = {}
  NumPages = 2
  Word = {1, 2}
  Extent <- Straddling
  LightExtent = {}
  AllocSizes = {2}
  MaxStores = 1
  Nothing = Nothing
INVARIANT Fresh
