------------------------------ MODULE MqttReceive ------------------------------
(***************************************************************************)
(* The publishes of the server, mqtt/logic/..._publish_handler.h: one of   *)
(* QoS 0 goes straight to the handler of its topic, one of QoS 1 is first  *)
(* acknowledged.  Its task waits in q12_recv_tasks_queue until the PUBACK  *)
(* is written, apart from the tasks of the client: the server numbers its  *)
(* messages itself.                                                        *)
(***************************************************************************)
EXTENDS LayerChain

CONSTANTS
  Subscribes,   \* subscribe tasks
  ServerQ0,     \* the publishes of QoS 0 the server may send
  ServerQ1,     \* the publishes of QoS 1 the server may send
  ServerId(_),  \* the message id of a publish of QoS 1, chosen by the server
  Topic(_)      \* the characters of the topic of a subscription or a publish

ServerPublishes == ServerQ0 \cup ServerQ1

VARIABLES
  handlers_for_topics,   \* the subscriptions whose handler is registered
  q12_recv_tasks_queue,  \* the publishes whose PUBACK is not yet written
  arrived,               \* history: the publishes the layer was handed, in order
  delivered              \* history: those the application was shown, in order

receiveVars == <<handlers_for_topics, q12_recv_tasks_queue, arrived, delivered>>

ReceiveStart ==
  /\ handlers_for_topics = <<>>
  /\ q12_recv_tasks_queue = <<>>
  /\ arrived = <<>>
  /\ delivered = <<>>

-----------------------------------------------------------------------------
(* Topics.                                                                 *)

\* A length as match_topics keeps it, in eight bits.
Length8(characters) == Len(characters) % 2 ^ 8

SameUpTo(n, filter, topic) == \A i \in 1..n : filter[i] = topic[i]

\* match_topics: a filter is a topic, or ends in the wildcard # and matches what
\* begins like it, and the parent a of a/#.
match_topics(filter, topic) ==
  LET n == Length8(filter) k == Length8(topic) IN
  /\ n > 0 /\ k > 0
  /\ IF filter[n] # "#" THEN n = k /\ SameUpTo(n, filter, topic)
     ELSE \/ n = 1
          \/ n - 1 <= k /\ SameUpTo(n - 1, filter, topic)
          \/ n - 2 = k /\ SameUpTo(n - 2, filter, topic)

\* call_topic_handler: the first handler that matches will be shown the publish;
\* without one its memory is freed.  ("message" is iotc_user_sub_call_wrapper with a
\* publish, "callback" the same with an answer, which it tells apart.)
TopicHandler(d) ==
  LET matching == SelectSeq(handlers_for_topics,
                            LAMBDA s : match_topics(Topic(s), Topic(d)))
  IN  IF matching = <<>> THEN <<>>
      ELSE <<Handle("message", "CONTROL", [task |-> d, shown |-> Head(matching)], "OK")>>

-----------------------------------------------------------------------------
(* The coroutine of a publish of QoS 1.                                    *)

Puback(d) ==
  OnPrev("LOGIC", "push", [type |-> "PUBACK", id |-> ServerId(d), owner |-> d], "OK")

\* The task of a publish is resumed.
RecvHandle(d, state) == Handle("received", "LOGIC", [task |-> d], state)

\* The tasks that wait for the confirmation of the PUBACK of an id.
ReceiversOf(id) == {d \in Range(q12_recv_tasks_queue) : ServerId(d) = id}

\* Mutant: the application is shown it at once.
OnPublishShows(d) ==
  /\ arrived' = Append(arrived, d)
  /\ Returns(<<>>, TopicHandler(d) \o (IF d \in ServerQ1 THEN <<Puback(d)>> ELSE <<>>))
  /\ UNCHANGED <<handlers_for_topics, q12_recv_tasks_queue, delivered>>

\* on_publish_recieved: a PUBACK is sent for one of QoS 1, and an assertion says
\* that none is under way for its id.
OnPublish(d) ==
  /\ arrived' = Append(arrived, d)
  /\ IF d \in ServerQ0
       THEN Returns(<<>>, TopicHandler(d)) /\ UNCHANGED q12_recv_tasks_queue
       ELSE IF ReceiversOf(ServerId(d)) = {}
              THEN /\ q12_recv_tasks_queue' = Append(q12_recv_tasks_queue, d)
                   /\ Returns(<<>>, <<Puback(d)>>)
              ELSE Aborts /\ UNCHANGED q12_recv_tasks_queue
  /\ UNCHANGED <<handlers_for_topics, delivered>>

\* on_publish_q1_recieved when the PUBACK is written.
PubackWritten(d) ==
  /\ q12_recv_tasks_queue' = RemoveFirst(q12_recv_tasks_queue, d)
  /\ Returns(<<>>, TopicHandler(d))
  /\ UNCHANGED <<handlers_for_topics, arrived, delivered>>

\* on_publish_q1_recieved when it was not: it is sent again.
PubackNotWritten(d) ==
  /\ Returns(<<>>, <<Puback(d)>>)
  /\ UNCHANGED receiveVars
=============================================================================
