SPECIFICATION CampaignSpec
CONSTANTS
  Delta = 2
  Cells <- MCCells
  Pins <- MCPins
  TokenExpiry = 4
  CertExpiry = 5
  DefaultLifetime = 3
  ActorLifetime = 3
  ArtifactLead = 1
  ArtifactLifetime = 4
  MaxTime = 5
  Corpus <- MCCorpus
  Sweeps <- MCSweeps
  Configurations <- MCConfigurations
  Nothing = nothing
  MaxPasses = 2
  MeasuredArms = {"B3", "B0"}
  MeasuredScenarios = {"gt-benign", "gt-f1-chain-tamper"}
  Batches = {1}
  Lossy = {"presentation"}
  MaxRepetitions = 4
INVARIANTS
  FalseBlocksLapseWithinTheCell
  EveryCellAccountedOnce
  TypeOK
  AttacksAreNeverScoredClean
  GroupingsPredictTheTable
  DisagreementsAreAccountedFor
  IncrementMovesOnlyItsMechanism
  RowOneIsTakenOverWholeRuns
CHECK_DEADLOCK FALSE
