----------------------------- MODULE MCMqttClient -----------------------------
(* Small instances of the client.                                            *)
EXTENDS MqttClient

MCChain == <<"IO", "CODEC", "LOGIC", "CONTROL">>
MCMsgIds == 2 ^ 16
OutsideLoop == {"select"}
\* What an MQTT server may send when it has received m.
answer(m, type) == <<[type |-> type, id |-> m.id, owner |-> m.owner]>>
MqttAnswers(m) ==
  CASE m.type = "CONNECT" -> {answer(m, "CONNACK"), answer(m, "CONNACK_REFUSED")}
    [] m.type = "PUBLISH" /\ m.id > 0 -> {answer(m, "PUBACK")}
    [] m.type = "SUBSCRIBE" -> {answer(m, "SUBACK"), answer(m, "SUBACK_REFUSED")}
    [] m.type = "PINGREQ" -> {answer(m, "PINGRESP")}
    [] OTHER -> {}

\* What the server publishes is numbered from 1, as what the client sends is.
CONSTANTS s1, d0, d1, d2
MCServerId(d) == IF d = d2 THEN 2 ELSE 1
MCTopic(t) == CASE t = d0 -> <<"a">>
                [] t = d1 -> <<"a", "/", "b">>
                [] OTHER -> <<"a", "/", "#">>

\* What MQTT says of filters: # is a level of its own, the last, and stands for
\* its parent and all that is below.  match_topics agrees on short topics.
Characters == {"a", "b", "/"}
Topics == UNION {[1..n -> Characters] : n \in 1..3}
Filters == Topics \cup {<<"#">>} \cup {t \o <<"/", "#">> : t \in Topics}
IsMatch(filter, topic) ==
  IF Last(filter) # "#" THEN filter = topic
  ELSE \/ filter = <<"#">>
       \/ topic \o <<"/">> = Front(filter)
       \/ IsPrefix(Front(filter), topic)
ASSUME TopicsMatch ==
  \A filter \in Filters, topic \in Topics :
    match_topics(filter, topic) <=> IsMatch(filter, topic)
=============================================================================
