SPECIFICATION LiveSpec
CONSTANTS
  s1 = s1
  d0 = d0
  d1 = d1
  d2 = d2
  ServerId <- MCServerId
  Topic <- MCTopic
  ServerQ0 = {}
  ServerQ1 = {}
  NULL = NULL
  Chain <- MCChain
  Answers <- MqttAnswers
  ConnectionTimeout = TRUE
  KeepaliveTimeout = TRUE
  MsgIds <- MCMsgIds
  AppPhases <- OutsideLoop
  Repeated = {p0}
  MaxConnects = 1
  MaxWire = 1
  Q0Publishes = {p0}
  Q1Publishes = {}
  Subscribes = {s1}
CHECK_DEADLOCK FALSE
PROPERTIES
  AttemptIsReported
  ShutdownCompletes
  OpenMeansAlive
