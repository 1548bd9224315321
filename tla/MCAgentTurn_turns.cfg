SPECIFICATION FairTurnSpec
CONSTANTS
  MaxLoops = 3
  MaxSteps = 2
  MaxTurns = 3
  MaxTurnFaults <- MCTurnFaults
INVARIANTS
  TurnTypeOK
  RoutedByIdentity
  StaleOnlyOnFarewell
PROPERTIES
  TurnEnds

CHECK_DEADLOCK FALSE
