SPECIFICATION MCSpec
CONSTANTS
  None = None
  ZeroIv = 0
  LastBlock <- MCLastBlock
  TheKey <- MCKey
  Options <- MCOptions
  Randoms <- MCRandoms
  Packets0100 <- MCPackets0100
  Bodies <- MCBodies
  Commands <- MCCommands
  JsOptions <- MCJsOptions
  TimerIds <- MCTimerIds
  MaxReports = 3
  MaxRefusals = 2
INVARIANTS
  TypeOK
  LatchedIsFirstFinal
  VerdictDelivered
  ExchangingIsAuthenticated
  SessionInv
  KnOnlySealed
  OneValueIsEnough
PROPERTIES
  SilentOnceDone
  NeverBackToKn
