SPECIFICATION FairSpec
CONSTANTS
  Ids <- MCIds
  MaxId <- MCMaxId
  Deviations <- MCOneDeviation
  ReadOutcomes = {"data", "error", "end"}
PROPERTIES
  WokenIsHandled
