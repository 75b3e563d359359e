CONSTANTS
  p = p
  q = q
  Names <- MCNames
  OtpNames <- MCOtpNames
  MaxAttempts = 3
SPECIFICATION FairSpec
INVARIANTS BarracudaTypeOK TunnelIsManaged RowTellsGateway EndIsExplained
PROPERTIES WindowFollows
CHECK_DEADLOCK FALSE
