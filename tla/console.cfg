SPECIFICATION Spec
CONSTANTS
  Rows = 11
  Cols = 2
  MESSAGE_LIMIT = 2
  Character <- MCCharacter
  Key = {"a"}
  Texts <- MCTexts
  Counts <- MCCounts
  Info <- MCInfo
  Connecting <- MCConnecting
  Connected <- MCConnected
  You <- MCYou
  Error <- MCError
  MaxLog = 3
  MaxTyped = 3
  MaxFlushes = 1
CHECK_DEADLOCK FALSE
INVARIANTS TypeOK InputShown SentAsTyped
PROPERTIES PrintedAbove
