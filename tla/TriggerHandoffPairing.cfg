SPECIFICATION Spec
CONSTANTS
  Ids <- MCIds
  MaxId <- MCMaxId
  Deviations <- MCDeviations
  ReadOutcomes = {"data"}
INVARIANTS
  ObservationPairsPackage
