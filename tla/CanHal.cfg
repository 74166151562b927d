SPECIFICATION FairSpec
CONSTANTS
  Backends <- MCBackends
  Callbacks = {cb1, cb2}
  MaxSubscribers = 3
  RxCapacity = 3
INVARIANTS
  CHTypeOK
  LocksLive
  OpenWhileRead
  Listening
PROPERTIES
  ImplementsCanBus
  ShutdownReturns
  Heard
