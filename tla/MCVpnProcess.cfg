CONSTANTS
  SamlRounds <- MCSamlRounds
  MaxSplit <- MCMaxSplit
  GuiQuits = FALSE
SPECIFICATION FairSpec
INVARIANTS CleanExit CredsBeforeConnect TunnelReadsLive
PROPERTIES ImplementsWorker ImplementsChild ShutdownCompletes ReportsConverge
CHECK_DEADLOCK FALSE
