SPECIFICATION MCSpec
CONSTANTS
  plant = plant
  shop = shop
  Datasets = {plant, shop}
  LastDomain = 2
  Parts = 2
  Retries = 1
  MaxChanges = 2
  MaxBatches = 1
  MaxFaults = 2
  MaxRuns = 2
  MaxSourceChanges = 2
INVARIANTS
  FreshWhenIdle
  ShownResultsAreNewest
PROPERTIES
  RefreshesLand
  RiskUsesOwnAnomalies
  ImplementsResults
CHECK_DEADLOCK FALSE
