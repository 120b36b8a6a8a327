CONSTANTS
  MaxRuns = 4
  Console = {"stop", "start"}
SPECIFICATION FairSpec
INVARIANTS TypeOK InstanceEquipped OneRunning
PROPERTIES KeyIsKept FinishedIsComplete TornDown EveryScriptEnds
CHECK_DEADLOCK FALSE
