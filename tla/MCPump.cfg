SPECIFICATION PumpSpec
CONSTANTS
  None = None
  ZeroIv = 0
  LastBlock <- MCLastBlock
  TheKey <- MCKey
  Options <- OneOptions
  Randoms <- MCRandoms
  Packets0100 <- MCPackets0100
  Bodies <- MCBodies
  Commands <- MCCommands
  MaxPackets = 4
  MaxQueue = 1
INVARIANTS
  ResultIsVerdict
  AnsweredBeforeWaiting
  PumpInv
PROPERTIES
  AttemptSpec
