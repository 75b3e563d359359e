CONSTANTS
  Names <- MCNames
  Secrets <- MCSecrets
  Faults <- AllFaults
SPECIFICATION Spec
CONSTRAINT KeyNotLost
INVARIANTS StoreTypeOK SecretsKept KeyKept NamesAgree
