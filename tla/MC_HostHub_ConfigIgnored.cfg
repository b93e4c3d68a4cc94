SPECIFICATION ControlSpec
CONSTANTS
  Guests = {"g1"}
  MaxHold = 30
  HoldStep = 20
  Holds <- MCHolds
  HostClients = {"h1"}
  RestCallers = {"r1"}
  RequestFlags <- MCRequestFlags
  Patches <- MCPatches
  MaxChanges = 2
PROPERTY
  ConfigTakesEffect
