SPECIFICATION FbSpec
CONSTANTS
  MASK_ALIGN = 3
  MaxLen = 8
CHECK_DEADLOCK FALSE
INVARIANT NextNFindsAChunk
