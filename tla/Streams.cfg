CONSTANTS
  TextLength <- MCTextLength
  Number = {7}
  Meta <- MCMeta
  Blob <- MCBlob
  MessageId = {1, 2, 3}
  Requests = {1, 2}
  DataId = 2
  Block = 4
  MaxKeys = 1
  ChunkSize = 2
  MaxFrame = 48
  MaxFields = 2
  MaxMessages = 1
SPECIFICATION Spec
INVARIANT TypeOK
INVARIANT ReadsBack
INVARIANT DataArrives
CHECK_DEADLOCK FALSE
