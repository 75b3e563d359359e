CONSTANTS
  Names <- MCNames
  Secrets <- MCSecrets
  Faults <- LockOnly
SPECIFICATION Spec
INVARIANTS LockedKeyringKeepsSecrets
