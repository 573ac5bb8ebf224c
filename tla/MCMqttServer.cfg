SPECIFICATION Spec
CONSTANTS
  s1 = s1
  d0 = d0
  d1 = d1
  d2 = d2
  ServerId <- MCServerId
  Topic <- MCTopic
  ServerQ0 = {d0}
  ServerQ1 = {d1, d2}
  NULL = NULL
  Chain <- MCChain
  Answers <- MqttAnswers
  ConnectionTimeout = TRUE
  KeepaliveTimeout = FALSE
  MsgIds <- MCMsgIds
  AppPhases <- OutsideLoop
  Repeated = {}
  MaxConnects = 1
  MaxWire = 2
  Q0Publishes = {}
  Q1Publishes = {}
  Subscribes = {s1}
CHECK_DEADLOCK FALSE
INVARIANTS
  MessagesFindTheirTask
  SubscriptionIsThere
  ShownOnceInOrder
