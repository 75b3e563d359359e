CONSTANTS
  SamlRounds <- MCSamlRounds
  MaxSplit <- MCMaxSplit
SPECIFICATION HeadlessSpec
PROPERTY SigtermEndsProcess
CHECK_DEADLOCK FALSE
