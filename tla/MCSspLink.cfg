SPECIFICATION Spec
CONSTANTS
  None = None
  ZeroIv <- MCZeroIv
  LastBlock <- MCLastBlock
  SharedKey <- MCKey
  LockRandoms <- MCLockRandoms
  Randoms <- MCRandoms
  NewKeys <- MCNewKeys
  DataCommands <- MCCommands
  MaxRequests = 9
  MaxInFlight = 3
INVARIANTS
  LinkInv
  NeverOutOfStep
  EndsAgree
  KeyFromBothRandoms
