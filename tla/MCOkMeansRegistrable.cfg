CONSTANTS
  None = None
  Issued <- MCIssued
  Capacity = 25
  Cuts <- MCCuts
SPECIFICATION Spec
INVARIANT OkMeansRegistrable
