SPECIFICATION Spec
CONSTANTS
  Ids <- MCZeroAndOne
  Poses <- MCTwoPoses
  LocErr = 0
  MapRepeat = 1
  LocRepeat = 3
  MaxRow = 3
  Blocks = {"RECORDING"}
  MayFail = {}
  Crashes = FALSE
  MaxObs <- MCUpToFour
INVARIANTS
  SeenOftenIsRecommended
