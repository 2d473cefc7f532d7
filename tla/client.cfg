SPECIFICATION FairSpec
CONSTANTS
  Sock = Sock
  Timer = Timer
  Stdin = Stdin
  Null = Null
  NoFd = 0
  Fd <- MCFd
  MaxMessages = 2
  MaxLines = 3
  MaxEvents = 64
CHECK_DEADLOCK FALSE
INVARIANTS TypeOK SubscribersMatch OneReason ConnectedFirst LinesInOrder
PROPERTIES PollerContract ConnectingEnds EndsWithConnection EndsWithInput MessagesShown
