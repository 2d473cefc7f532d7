SPECIFICATION Spec
CONSTANTS
  MAX_MESSAGE_LENGTH = 7
  NickName <- MCNickName
  Texts <- ShortTexts
  MaxTexts = 3
  MaxInfos = 1
CHECK_DEADLOCK FALSE
INVARIANTS TextsIntact NothingMissing
