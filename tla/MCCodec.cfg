CONSTANTS
  None = None
  Starts <- MCStarts
  Alphabet = {0, 1, 128, 255}
  MaxGrowth = 3
  MaxPayload = 20
SPECIFICATION Spec
CHECK_DEADLOCK FALSE
INVARIANTS
  FrameComesBack
  DamageIsSeen
  ChecksumsAreCrc
  IdentifierReadsBack
  FieldReadsBack
