SPECIFICATION FairPumpSpec
CONSTANTS
  None = None
  ZeroIv = 0
  LastBlock <- MCLastBlock
  TheKey <- MCKey
  Options <- AllOptions
  Randoms <- MCRandoms
  Packets0100 <- MCPackets0100
  Bodies <- MCBodies
  Commands <- MCCommands
  MaxPackets = 2
  MaxQueue = 2
INVARIANTS
  PhasesInOrder
  ContractKept
PROPERTIES
  NoiseKeepsDeadline
  AttemptReturns
