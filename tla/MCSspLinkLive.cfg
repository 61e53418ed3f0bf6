SPECIFICATION FairSpec
CONSTANTS
  None = None
  ZeroIv <- MCZeroIv
  LastBlock <- MCLastBlock
  SharedKey <- MCKey
  LockRandoms <- MCLockRandoms
  Randoms <- MCRandoms
  NewKeys <- MCNewKeys
  DataCommands <- MCCommands
  MaxRequests = 5
  MaxInFlight = 3
PROPERTIES
  HandshakeCompletes
