SPECIFICATION Spec
CONSTANTS
  Accounts = {good, bad}
  Nobody = nobody
  Cut = cut
  Crashes = TRUE
  MaxSession = 4
SYMMETRY MCAccountsAlike
INVARIANTS
  TypeOK
  CallUsesOwnSession
  StoredAccountWasGood
