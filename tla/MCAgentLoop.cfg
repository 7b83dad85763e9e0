SPECIFICATION FairSpec
CONSTANTS
  output = output
  downtime = downtime
  Metrics <- MCMetrics
  Results <- MCResults
  MaxSteps = 5
  Retries = 2
INVARIANTS
  OurCapFirst
  ConversationIsValid
  EndsWithItsAnswer
  SentBackOnceWithBudget
PROPERTY EveryQuestionEnds
CHECK_DEADLOCK FALSE
