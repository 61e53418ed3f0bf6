CONSTANTS
  None = None
  Issued <- MCIssued
  Capacity = 25
  Cuts <- MCCuts
SPECIFICATION Spec
INVARIANTS
  KeystoreTypeOK
  HeapBalanced
  BrokenOnlyWhileWriting
  OkMeansUsable
  OnlyTheIssuedKey
  KeySurvivesStorage
