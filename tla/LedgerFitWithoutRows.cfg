SPECIFICATION Spec
CONSTANTS
  Ids <- MCZeroAndOne
  Poses <- MCTwoPoses
  LocErr = 0
  MapRepeat = 2
  LocRepeat = 3
  MaxRow = 3
  Blocks = {"RECORDING"}
  MayFail = {"selfAdd"}
  Crashes = FALSE
  MaxObs <- MCUpToFour
PROPERTIES
  FitFindsTheCode
