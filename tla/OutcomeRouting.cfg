SPECIFICATION FairSpec
CONSTANTS
  paid = paid
  ignored = ignored
  Fact <- MCFact
  VariantOf <- MCVariantOf
  HasMemory <- MCHasMemory
  MaxReports <- MCMaxReports
  MaxRefusals = 2
INVARIANTS RecordedEverywhere MemoryRecordsAreTrue
PROPERTIES OthersAreServed
CHECK_DEADLOCK FALSE
