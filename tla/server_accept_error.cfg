SPECIFICATION FairSpec
CONSTANTS
  a = a
  b = b
  c = c
  Listener = Listener
  Null = Null
  NoFd = 0
  Peer <- MCPeer
  Fd <- MCFd
  Limit = 2
  Halves <- Silent
  Slow = {}
  AcceptErrors = TRUE
  MaxEvents = 64
CHECK_DEADLOCK FALSE
PROPERTY BacklogDrained
