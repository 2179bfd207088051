SPECIFICATION FairSpec
CONSTANTS
  Fds <- MCFds
  Codes <- MCCodes
  NoCode = 2
  MaxPackages = 2
  RetryAttempts = 1
  Addresses = 2
  MessageSize = 2
  ConnectOutcomes = {"ok", "refused", "other"}
INVARIANTS
  TypeOK
  PublishesEveryChange
  DiagStaysOnDiag
  ClientsHoldTheirs
PROPERTIES
  ReadIsWhole
  AttemptsRunOut
  ConnectEnds
CHECK_DEADLOCK FALSE
