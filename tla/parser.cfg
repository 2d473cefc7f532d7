SPECIFICATION Spec
CONSTANTS
  MAX_MESSAGE_LENGTH = 6
  Writes <- MCMessages
  Junk <- MCJunk
  MaxWrites = 3
CHECK_DEADLOCK FALSE
INVARIANTS ParsedAsSent ChunksDoNotMatter BufferBounded
