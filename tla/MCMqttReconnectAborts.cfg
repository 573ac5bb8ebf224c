SPECIFICATION Spec
CONSTANTS
  s1 = s1
  d0 = d0
  d1 = d1
  d2 = d2
  ServerId <- MCServerId
  Topic <- MCTopic
  ServerQ0 = {}
  ServerQ1 = {}
  NULL = NULL
  Chain <- MCChain
  Answers <- MqttAnswers
  ConnectionTimeout = TRUE
  KeepaliveTimeout = FALSE
  MsgIds <- MCMsgIds
  AppPhases <- OutsideLoop
  Repeated = {}
  MaxConnects = 2
  MaxWire = 1
  Q0Publishes = {}
  Q1Publishes = {}
  Subscribes = {}
CHECK_DEADLOCK FALSE
INVARIANT NoAssertionFails
