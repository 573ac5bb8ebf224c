SPECIFICATION Spec
CONSTANTS
  NULL = NULL
  Chain <- MCChain
  Answers <- TlsAnswers
  ConnectionTimeout = FALSE
  KeepaliveTimeout = FALSE
  FileSystems = {"posix"}
  FileSizes = {2}
  FileErrors = {"read"}
  TlsLibraries = {"mbedtls", "wolfssl"}
  Handshakes <- MCHandshakes
  LongPayloads <- MCLongPayloads
  UserMessages <- MCMessages
  MaxConnects = 2
  MaxWire = 4
CHECK_DEADLOCK FALSE
PROPERTY RequestsEnd
