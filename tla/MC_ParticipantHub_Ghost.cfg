SPECIFICATION Spec
CONSTANTS
  Window = 2
  Clients <- MCClients
INVARIANTS
  ParticipantsAreConnected
