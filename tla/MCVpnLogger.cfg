CONSTANTS
  n1 = n1
  Names <- OneName
  MaxAttempts = 2
  MaxLines = 4
  CertLimit = 1
  Full = 3
SPECIFICATION FairSpec
INVARIANTS LoggerTypeOK Attribution Listening StateGoesWithProcess BrowserOnce RefusedCertIsNotAuth
PROPERTIES PromptIsAsked RefusedCertIsReported
CHECK_DEADLOCK FALSE
