SPECIFICATION FairSpec
CONSTANTS
  s1 = s1
  s2 = s2
  r1 = r1
  r2 = r2
  a = a
  b = b
  NoItem = NoItem
  Items <- MCItems
  Senders <- MCSenders
  Receivers <- MCReceivers
  Capacity = 2
INVARIANTS
  OTypeOK
  NoLostWakeup
PROPERTIES
  ImplementsFifo
  CallsReturn
