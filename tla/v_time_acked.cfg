SPECIFICATION Spec
CONSTANTS
  ChunkLen <- MCChunkLen
  TimeLen = 2
  TcpSndBuf = 2
  SMTP_TIMEOUT = 3
  SMTP_TIMEOUT_DATABLOCK = 5
  SMTP_TIMEOUT_DATATERM = 4
  MaxTime = 2
PROPERTIES
  TimeKeptUntilAcked
CHECK_DEADLOCK FALSE
