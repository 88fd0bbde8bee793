SPECIFICATION FairSpec
CONSTANTS
  None = None
  r1 = r1
  r2 = r2
  s1 = s1
  case = case
  Run <- MCRuns
  SessionOf <- MCOneSession
  ScenarioOf <- MCScenarios
  ManagerOf <- MCOwnManagers
  ActionList <- MCActionLists
  Levels <- MCLevels
  Durable = TRUE
  MaxSwitches = 1
  MaxFaults = 1
INVARIANTS
  TrailIsComplete
  EscalatedOnce
  SlowModelsFallBack
PROPERTIES
  OrchestrationsEnd
  ImplementsHandover
\* orchestrations end
CHECK_DEADLOCK FALSE
