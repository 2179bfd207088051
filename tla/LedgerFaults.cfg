SPECIFICATION Spec
CONSTANTS
  Ids <- MCZeroAndOne
  Poses <- MCTwoPoses
  LocErr = 0
  MapRepeat = 2
  LocRepeat = 3
  MaxRow = 3
  Blocks = {"RECORDING", "LOCALIZATION"}
  MayFail = {"retrieve", "userAdd", "selfAdd", "fit", "update"}
  Crashes = TRUE
  MaxObs <- MCUpToThree
INVARIANTS
  TypeOK
  RowsCoverCount
  SloppyBelowCount
  LogIsComplete
  FitHasItsRows
  CountedIsRecommended
PROPERTIES
  EnabledPoseStays
  ImplementsCatalogue
