SPECIFICATION Spec
CONSTANTS
  NULL = NULL
  Chain <- MCChain
  Answers <- TlsAnswers
  ConnectionTimeout = FALSE
  KeepaliveTimeout = FALSE
  FileSystems = {"memory", "posix"}
  FileSizes = {0, 2}
  FileErrors = {}
  TlsLibraries = {"mbedtls", "wolfssl"}
  Handshakes <- MCHandshakes
  LongPayloads <- MCLongPayloads
  UserMessages <- MCMessages
  MaxConnects = 2
  MaxWire = 4
CHECK_DEADLOCK FALSE
INVARIANTS
  
  MemoryIsThere
  StreamIsWhole
  WrittenIsReceived
  NothingIsStuck
  NothingIsLeft
PROPERTIES
  RequestsEnd
  ClosesEnd
