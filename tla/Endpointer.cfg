SPECIFICATION FairSpec
CONSTANTS
  N = 7
  Hang = 2
  MaxFr = 6
  BailFr = 3
  FB = 2
  MaxChunk = 5
INVARIANTS
  TypeOK
  FramesInStep
PROPERTIES
  VerdictIsFinal
  DetectsTurns
  EveryTurnEnds
