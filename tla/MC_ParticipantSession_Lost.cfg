SPECIFICATION Spec
CONSTANTS
  Sessions <- MCSessions
INVARIANTS
  ConnectedHasSocket
