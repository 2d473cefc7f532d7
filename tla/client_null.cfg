SPECIFICATION Spec
CONSTANTS
  Sock = Sock
  Timer = Timer
  Stdin = Stdin
  Null = Null
  NoFd = 0
  Fd <- MCFd
  MaxMessages = 2
  MaxLines = 1
  MaxEvents = 64
CHECK_DEADLOCK FALSE
INVARIANT NeverCrashes
