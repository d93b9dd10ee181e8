CONSTANTS
  MaxMessages = 3
  FreshObject = FALSE
  BUFFER_SIZE = 3
  MaxFrames = 1
  NulFrames = {}
SPECIFICATION SocketsSpec
INVARIANT DetailsAreCopied
CHECK_DEADLOCK FALSE
