CONSTANTS
  MaxMessages = 4
  FreshObject = TRUE
  BUFFER_SIZE = 6
  MaxFrames = 3
  NulFrames = {2}
SPECIFICATION SocketsSpec
INVARIANT SocketsTypeOK
INVARIANT StreamIsRead
PROPERTY WholeFramesArrive
PROPERTY ReceiverIsQueue
CHECK_DEADLOCK FALSE
