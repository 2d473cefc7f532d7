SPECIFICATION Spec
CONSTANTS
  a = a
  b = b
  c = c
  Listener = Listener
  Null = Null
  NoFd = 0
  Peer <- MCPeer
  Fd <- MCFd
  Limit = 2
  Halves <- OneText
  Slow = {}
  AcceptErrors = FALSE
  MaxEvents = 64
CHECK_DEADLOCK FALSE
PROPERTY NoTextDropped
