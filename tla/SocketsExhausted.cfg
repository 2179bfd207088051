SPECIFICATION Spec
CONSTANTS
  Fds <- MCMoreFds
  Codes <- MCCodes
  NoCode = 2
  MaxPackages = 2
  RetryAttempts = 1
  Addresses = 2
  MessageSize = 2
  ConnectOutcomes = {"ok"}
INVARIANTS
  NeedsNoAttention
CHECK_DEADLOCK FALSE
