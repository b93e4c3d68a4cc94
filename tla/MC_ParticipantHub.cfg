SPECIFICATION Spec
CONSTANTS
  Window = 1
  Clients <- MCClients
INVARIANTS
  TypeOK
  PeersOwned
  TimerAfterBurst
  PushedWhenQuiet
PROPERTIES
  ViewsConverge
