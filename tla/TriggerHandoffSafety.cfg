SPECIFICATION Spec
CONSTANTS
  Ids <- MCIds
  MaxId <- MCMaxId
  Deviations <- MCDeviations
  ReadOutcomes = {"data", "error", "end", "refused"}
INVARIANTS
  TypeOK
  WakeMeansNews
  OneDecisionInSteadyMode
  PairedUnlessOvertaken
PROPERTIES
  PackageStableUnderLock
  ImplementsMailbox
