SPECIFICATION Spec
CONSTANTS
  Dates <- MCDates
INVARIANTS
  ConfigSurvives
