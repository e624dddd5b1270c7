CONSTANTS
  Symbols = {"a", "N", "P", "="}
  Sep = "="
  NameKey = "N"
  PartOfKey = "P"
  PromSuffix = "-prometheus"
  MaxLen = 4
  StackNames <- MCStackNames
SPECIFICATION Spec
INVARIANTS
  SelfScrapeFindsOwnService
