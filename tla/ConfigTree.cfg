SPECIFICATION Spec
CONSTANTS
  Scopes <- MCScopes
  Copies = 2
  MaxFaults = 1
  MaxEdits = 1
INVARIANTS TypeOK ServedAsConfigured ImportIsWhole
