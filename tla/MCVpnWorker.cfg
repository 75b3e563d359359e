CONSTANTS
  SamlRounds <- MCSamlRounds
  MaxSplit <- MCMaxSplit
SPECIFICATION FairWorkerSpec
INVARIANTS WorkerTypeOK NetOwned PppdOwned KillLeavesNothing
PROPERTIES StopIsFinal StopEndsProcess
CHECK_DEADLOCK FALSE
