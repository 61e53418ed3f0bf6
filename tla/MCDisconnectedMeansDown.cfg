SPECIFICATION Spec
CONSTANTS
  None = None
  l1 = l1
  l2 = l2
  l3 = l3
  l4 = l4
  Locks <- MCLocks
  Broadcasts <- MCBroadcasts
  QueueLimit = 2
  Keys <- MCKeys
  TagWrites <- GeneralWrites
INVARIANTS
  DisconnectedMeansDown
