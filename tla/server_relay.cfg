SPECIFICATION FairSpec
CONSTANTS
  a = a
  b = b
  c = c
  Listener = Listener
  Null = Null
  NoFd = 0
  Peer <- MCPeer2
  Fd <- MCFd
  Limit = 2
  Halves <- ThreeTexts
  Slow = {}
  AcceptErrors = FALSE
  MaxEvents = 64
CHECK_DEADLOCK FALSE
INVARIANTS TextsInOrder
PROPERTIES DeadPeersRemoved TextsRelayed BacklogDrained
