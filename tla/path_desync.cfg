SPECIFICATION Spec
CONSTANTS
  MAX_MESSAGE_LENGTH = 7
  NickName <- MCNickName
  Texts <- LongTexts
  MaxTexts = 2
  MaxInfos = 1
CHECK_DEADLOCK FALSE
INVARIANT ShortTextsArrive
