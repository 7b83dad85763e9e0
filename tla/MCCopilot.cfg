SPECIFICATION FairSpec
CONSTANTS
  MaxQuestions = 4
  Limit = 3
  MaxFaults = 2
  MaxTimeouts = 1
  MaxReloads = 1
INVARIANTS
  PageAlternates
  CountIsExact
  TurnsInOrder
  GivenTheLastTurns
  TurnsAlternate
PROPERTY EveryQuestionIsAnswered
CHECK_DEADLOCK FALSE
