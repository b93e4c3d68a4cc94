SPECIFICATION Spec
CONSTANTS
  Sessions <- MCSessions
INVARIANTS
  TypeOK
  TimerMatchesPhase
  AnswerCanCome
PROPERTIES
  ConnectingEnds
