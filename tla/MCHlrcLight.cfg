SPECIFICATION FairSpec
CONSTANTS
  Heavy = {h1}
  Light = {l1}
  NumPages = 2
  Word = {1, 2}
  Extent <- MixedExtent
  LightExtent <- LightWord
  AllocSizes = {1}
  MaxStores = 2
  Nothing = Nothing
INVARIANT Inductive
PROPERTY ImplementsLazyMemory AnswersArrive
