SPECIFICATION FairSpec
CONSTANTS
  l = l
  a = a
  b = b
  f1 = f1
  f2 = f2
  f3 = f3
  Null = Null
  NoFd = NoFd
  Sub <- MCSub
  Fd <- MCFd
  Masks <- MCMasks
  Start <- ServerStart
  Opens <- ServerOpens
  Closes <- ServerCloses
  MaxEvents = 2
INVARIANTS PollerInv HandlerOwnsEvent
PROPERTY StopTerminates
