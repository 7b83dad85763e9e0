SPECIFICATION Spec
CONSTANTS
  None = None
  Fails = Fails
  Nested = Nested
  Domains = {"sales", "finance"}
  MaxHops = 2
  SignalThreshold = 2000
  DomainOrder <- MCDomainOrder
  Alphabet <- MCAlphabet
  Canonical <- MCCanonical
  Words <- MCWords
  Synonyms <- MCSynonyms
  WideCap = 2
  ContextCap = 1
  AlertLimit = 3
  MoverCap = 2
  Groups <- MCGroups
  IntentWords <- MCIntentWords
  CausalWords <- MCCausalWords
  CausalQuestionWords <- MCCausalWords
  Tools <- MCTools
  MaxDistance = 75
  ContextSize = 7
  DefaultTopK = 2
  Dimension = 384
  ChunkSize = 5
  Overlap = 2
  MaxRoot = 2000
INVARIANTS
  IntakeIsComplete
  InsightsTellTheEvidence
  ToolCallsTellTheTables
  DocumentsAreCited
  ResultsFollowTheReadings
  RolesGetTheirPages
CHECK_DEADLOCK FALSE
