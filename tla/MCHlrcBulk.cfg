SPECIFICATION BulkFairSpec
CONSTANTS
  Heavy = {h1}
  Light = {l1}
  NumPages = 2
  Word = {1, 2, 3}
  Extent <- OneWord
  LightExtent <- OneWord
  AllocSizes = {2}
  MaxStores = 1
  Bulk = {"memset", "memcpyFrom", "memset_sc", "memcpy_sc", "memcpyFrom_sc"}
  BulkExtent <- OneWord
  SourceExtent <- Sources
  Nothing = Nothing
INVARIANT Bystanders
PROPERTY BulkAnswersArrive
