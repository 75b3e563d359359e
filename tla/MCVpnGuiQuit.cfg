CONSTANTS
  SamlRounds <- MCSamlRounds
  MaxSplit <- MCMaxSplit
  GuiQuits = TRUE
SPECIFICATION Spec
INVARIANT CleanExit
CHECK_DEADLOCK FALSE
