SPECIFICATION FairSpec
CONSTANTS
  first = first
  retry = retry
  Assembly <- MCAssembly
  SessionOf <- MCSessionOf
  CustomerOf <- MCCustomerOf
  StagesOf <- MCStagesOf
  Source = {"card", "crm"}
  MaxSecond = 1
  MaxRefusals = 1
INVARIANTS ProfilesTellTheirGaps MemoriesAreOnRecord
PROPERTIES ImplementsSnapshot AssembliesEnd
CHECK_DEADLOCK FALSE
