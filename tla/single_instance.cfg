SPECIFICATION FairSpec
CONSTANTS
  s1 = s1
  s2 = s2
  s3 = s3
  None = None
  NoPid = 0
  Server <- MCServer
  Daemon <- MCDaemon
  Forced <- MCForced
  Pid <- MCPid
  Attempts = 2
  PidReuse = FALSE
CHECK_DEADLOCK FALSE
INVARIANTS TypeOK OneInstance LockerIsHit
PROPERTIES StartEnds RunningIsClosed
