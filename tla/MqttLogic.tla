------------------------------- MODULE MqttLogic -------------------------------
(***************************************************************************)
(* The logic layer, mqtt/logic/: the tasks of one connection and the       *)
(* coroutines that carry them out.                                         *)
(*                                                                         *)
(* Tasks of QoS 0 (connect, keepalive, shutdown, publish) wait in          *)
(* q0_tasks_queue and run one at a time; tasks of QoS 1 (publish,          *)
(* subscribe) run side by side in q12_tasks_queue and are told apart by a  *)
(* message id.  A coroutine sends a message to the codec, is resumed when  *)
(* the message is written, may set a timeout, and is resumed again by the  *)
(* answer or by the timeout.  Sessions are clean, as iotc_connect_to makes *)
(* them: nothing is kept for the next connection.                          *)
(***************************************************************************)
EXTENDS MqttReceive

CONSTANTS
  Q0Publishes,  \* publish tasks of QoS 0
  Q1Publishes,  \* publish tasks of QoS 1
  MsgIds        \* how many message ids there are: 2^16

\* A coroutine is at "NEW": never asked for; "FREE": its memory is freed; "START":
\* not started or over; "SENDING": until its message is written; "WAITING": for the
\* answer; "RETRY": until a subscription that was not written is sent again.
VARIABLES
  cs,               \* of every task: the position of its coroutine
  msg_id,           \* of every task of QoS 1, 0 before it has one
  last_msg_id,      \* layer_data->last_msg_id
  q0_tasks_queue,   \* the tasks of QoS 0 that have not started
  current_q0_task,  \* the task of QoS 0 that has, or NULL
  q12_tasks_queue   \* the tasks of QoS 1

logicVars == <<cs, msg_id, last_msg_id, q0_tasks_queue, current_q0_task,
               q12_tasks_queue, receiveVars>>

Publishes == Q0Publishes \cup Q1Publishes
OwnTasks == {"CONNECT", "KEEPALIVE", "SHUTDOWN"}
Q0Tasks == OwnTasks \cup Q0Publishes
Q1Tasks == Q1Publishes \cup Subscribes
Tasks == Q0Tasks \cup Q1Tasks

\* The tasks are different from each other and from no task.
ASSUME LogicAssumptions ==
  /\ MsgIds \in Nat \ {0}
  /\ Q0Publishes \cap Q1Publishes = {}
  /\ Publishes \cap Subscribes = {}
  /\ (Publishes \cup Subscribes) \cap OwnTasks = {}
  /\ NULL \notin Tasks
  /\ ServerQ0 \cap ServerQ1 = {}

Allocated == {t \in Tasks : cs[t] \notin {"NEW", "FREE"}}

LogicStart ==
  /\ cs = [t \in Tasks |-> IF t \in Publishes \cup Subscribes THEN "NEW" ELSE "FREE"]
  /\ msg_id = [t \in Q1Tasks |-> 0]
  /\ last_msg_id = 0
  /\ q0_tasks_queue = <<>>
  /\ current_q0_task = NULL
  /\ q12_tasks_queue = <<>>
  /\ ReceiveStart

sendingUnchanged ==
  UNCHANGED <<msg_id, last_msg_id, q0_tasks_queue, current_q0_task, q12_tasks_queue>>

queuesUnchanged == sendingUnchanged /\ UNCHANGED receiveVars

timersUnchanged == UNCHANGED <<timers, io_timeouts, dangling>>

-----------------------------------------------------------------------------
(* Helpers.                                                                *)

\* task->logic with its state and message set.
TaskHandle(t, state, msg) == Handle("task", "LOGIC", [task |-> t, msg |-> msg], state)

RunNext == Handle("run_next", "LOGIC", NULL, "OK")

Callback(t, state) == Handle("callback", "CONTROL", [task |-> t], state)

Push(layer, t) == Handle("push", layer, [task |-> t], "OK")

Send(t, type) ==
  OnPrev("LOGIC", "push",
         [type |-> type, id |-> IF t \in Q1Tasks THEN msg_id[t] ELSE 0, owner |-> t], "OK")

\* The coroutine of t is resumed at a position.
Resumes(t, position) ==
  /\ IsRunning("task", "LOGIC")
  /\ Running.data.task = t
  /\ cs[t] = position

MovesTo(t, position) == cs' = [cs EXCEPT ![t] = position]

\* The dispatcher will resume t.
SetsTimeout(t) ==
  /\ timers' = timers \cup {t}
  /\ UNCHANGED <<io_timeouts, dangling>>

\* cancel_task_timeout and iotc_io_timeouts_cancel: nothing is done for a task
\* whose timeout is not waiting.
CancelsTimeout(t) ==
  /\ timers' = timers \ {t}
  /\ io_timeouts' = io_timeouts \ ({t} \cap timers)
  /\ UNCHANGED dangling

\* iotc_mqtt_logic_free_task of the tasks F, when the events of waiting and the
\* io_timeouts of pending are what is left: those of F now point nowhere.
Frees(F, waiting, pending) ==
  /\ cs' = [t \in Tasks |-> IF t \in F THEN "FREE" ELSE cs[t]]
  /\ timers' = waiting \ F
  /\ io_timeouts' = pending \ F
  /\ dangling' = dangling \cup {what \in {"event", "io_timeout"} :
                                  CASE what = "event" -> F \cap waiting # {}
                                    [] what = "io_timeout" -> F \cap pending # {}}

Current == {current_q0_task} \ {NULL}

\* Mutant: the task that is over is not freed and its timeout not cancelled.
RunNextQ0Forgets ==
  /\ IsRunning("run_next", "LOGIC")
  /\ timersUnchanged
  /\ \/ /\ q0_tasks_queue = <<>>
        /\ current_q0_task' = NULL
        /\ Returns(<<>>, <<>>)
        /\ UNCHANGED q0_tasks_queue
     \/ /\ q0_tasks_queue # <<>>
        /\ current_q0_task' = Head(q0_tasks_queue)
        /\ q0_tasks_queue' = Tail(q0_tasks_queue)
        /\ Returns(<<TaskHandle(Head(q0_tasks_queue), "OK", NULL)>>, <<>>)
  /\ UNCHANGED <<cs, msg_id, last_msg_id, q12_tasks_queue, receiveVars,
                 user_data, connection_state>>

\* iotc_mqtt_logic_layer_run_next_q0_task: the current task is freed, the first
\* of the queue started; while the connection opens only a connect may start,
\* any other goes to the end of the queue.
RunNextQ0 ==
  /\ IsRunning("run_next", "LOGIC")
  /\ Frees(Current, timers \ Current, io_timeouts \ (Current \cap timers))
  /\ \/ /\ q0_tasks_queue = <<>>
        /\ current_q0_task' = NULL
        /\ Returns(<<>>, <<>>)
        /\ UNCHANGED q0_tasks_queue
     \/ /\ q0_tasks_queue # <<>>
        /\ connection_state = "OPENING" /\ Head(q0_tasks_queue) # "CONNECT"
        /\ current_q0_task' = NULL
        /\ q0_tasks_queue' = Append(Tail(q0_tasks_queue), Head(q0_tasks_queue))
        /\ Returns(<<>>, <<>>)
     \/ /\ q0_tasks_queue # <<>>
        /\ connection_state = "OPENING" => Head(q0_tasks_queue) = "CONNECT"
        /\ current_q0_task' = Head(q0_tasks_queue)
        /\ q0_tasks_queue' = Tail(q0_tasks_queue)
        /\ Returns(<<TaskHandle(Head(q0_tasks_queue), "OK", NULL)>>, <<>>)
  /\ UNCHANGED <<msg_id, last_msg_id, q12_tasks_queue, receiveVars,
                 user_data, connection_state>>

-----------------------------------------------------------------------------
(* Connect and its timeout.                                                *)

\* do_mqtt_connect on a layer that is closing.
ConnectTaskDropped ==
  /\ IsRunning("task", "LOGIC")
  /\ Running.data.task = "CONNECT"
  /\ ~CanServe("LOGIC")
  /\ MovesTo("CONNECT", "START")
  /\ CancelsTimeout("CONNECT")
  /\ Returns(<<>>, <<>>)
  /\ queuesUnchanged
  /\ UNCHANGED <<user_data, connection_state>>

\* Mutant: no timeout guards the connection.
ConnectTaskStartUnguarded ==
  /\ Resumes("CONNECT", "START")
  /\ CanServe("LOGIC")
  /\ MovesTo("CONNECT", "SENDING")
  /\ timersUnchanged
  /\ Returns(<<>>, <<Send("CONNECT", "CONNECT")>>)
  /\ queuesUnchanged
  /\ UNCHANGED <<user_data, connection_state>>

\* do_mqtt_connect up to the first yield.
ConnectTaskStart ==
  /\ Resumes("CONNECT", "START")
  /\ CanServe("LOGIC")
  /\ MovesTo("CONNECT", "SENDING")
  /\ IF ConnectionTimeout
       THEN /\ timers' = timers \cup {"CONNECT"}
            /\ io_timeouts' = io_timeouts \cup {"CONNECT"}
            /\ UNCHANGED dangling
       ELSE timersUnchanged
  /\ Returns(<<>>, <<Send("CONNECT", "CONNECT")>>)
  /\ queuesUnchanged
  /\ UNCHANGED <<user_data, connection_state>>

\* do_mqtt_connect when its message is written.
ConnectTaskSent ==
  /\ Resumes("CONNECT", "SENDING")
  /\ CanServe("LOGIC")
  /\ Running.state = "WRITTEN"
  /\ MovesTo("CONNECT", "WAITING")
  /\ Returns(<<>>, <<>>)
  /\ timersUnchanged
  /\ queuesUnchanged
  /\ UNCHANGED <<user_data, connection_state>>

\* do_mqtt_connect when its message could not be written.
ConnectTaskNotSent ==
  /\ Resumes("CONNECT", "SENDING")
  /\ CanServe("LOGIC")
  /\ Running.state # "WRITTEN"
  /\ MovesTo("CONNECT", "START")
  /\ CancelsTimeout("CONNECT")
  /\ Returns(<<RunNext>>, <<OnNext("LOGIC", "connect", NULL, Running.state)>>)
  /\ queuesUnchanged
  /\ UNCHANGED <<user_data, connection_state>>

\* do_mqtt_connect when the server accepts the connection.
ConnectTaskAccepted ==
  /\ Resumes("CONNECT", "WAITING")
  /\ CanServe("LOGIC")
  /\ Running.data.msg.type = "CONNACK"
  /\ MovesTo("CONNECT", "START")
  /\ timers' = (timers \ {"CONNECT"})
               \cup (IF KeepaliveTimeout THEN {"keepalive_event"} ELSE {})
  /\ io_timeouts' = io_timeouts \ {"CONNECT"}
  /\ connection_state' = "OPENED"
  /\ Returns(<<RunNext>>, <<OnNext("LOGIC", "connect", NULL, "OK")>>)
  /\ queuesUnchanged
  /\ UNCHANGED <<dangling, user_data>>

\* do_mqtt_connect when the server refuses it.
ConnectTaskRefused ==
  /\ Resumes("CONNECT", "WAITING")
  /\ CanServe("LOGIC")
  /\ Running.data.msg.type = "CONNACK_REFUSED"
  /\ MovesTo("CONNECT", "START")
  /\ CancelsTimeout("CONNECT")
  /\ Returns(<<RunNext>>, <<OnNext("LOGIC", "connect", NULL, "REFUSED")>>)
  /\ queuesUnchanged
  /\ UNCHANGED <<user_data, connection_state>>

\* do_mqtt_connect_timeout
ConnectTimesOut ==
  /\ IsRunning("connect_timeout", "LOGIC")
  /\ io_timeouts' = io_timeouts \ {"CONNECT"}
  /\ MovesTo("CONNECT", "START")
  /\ Returns(<<RunNext>>, <<OnNext("LOGIC", "connect", NULL, "TIMEOUT")>>)
  /\ queuesUnchanged
  /\ UNCHANGED <<timers, dangling, user_data, connection_state>>

-----------------------------------------------------------------------------
(* Keepalive and shutdown.                                                 *)

\* What a coroutine leaves alone that only sends, or waits.
onlyMoves ==
  /\ queuesUnchanged
  /\ UNCHANGED <<user_data, connection_state>>

\* The coroutine of t sends a message and waits until it is written.
Sends(t, type) ==
  /\ MovesTo(t, "SENDING")
  /\ Returns(<<>>, <<Send(t, type)>>)

\* do_mqtt_keepalive_once: a keepalive task is pushed.
KeepaliveOnce ==
  /\ IsRunning("keepalive_once", "LOGIC")
  /\ "LOGIC" \in user_data
  /\ MovesTo("KEEPALIVE", "START")
  /\ Returns(<<Push("LOGIC", "KEEPALIVE")>>, <<>>)
  /\ timersUnchanged
  /\ onlyMoves

\* do_mqtt_keepalive_task from its start: a PINGREQ is sent.
KeepaliveTaskStart ==
  /\ Resumes("KEEPALIVE", "START")
  /\ "LOGIC" \in user_data
  /\ Sends("KEEPALIVE", "PINGREQ")
  /\ timersUnchanged
  /\ onlyMoves

\* Mutant: no timeout guards the answer.
KeepaliveTaskSentUnguarded ==
  /\ Resumes("KEEPALIVE", "SENDING")
  /\ "LOGIC" \in user_data
  /\ MovesTo("KEEPALIVE", "WAITING")
  /\ Returns(<<>>, <<>>)
  /\ timersUnchanged
  /\ onlyMoves

\* do_mqtt_keepalive_task when the PINGREQ is written, or is not.
KeepaliveTaskSent ==
  /\ Resumes("KEEPALIVE", "SENDING")
  /\ "LOGIC" \in user_data
  /\ MovesTo("KEEPALIVE", "WAITING")
  /\ SetsTimeout("KEEPALIVE")
  /\ Returns(<<>>, <<>>)
  /\ onlyMoves

\* do_mqtt_keepalive_task when no answer came in time: the connection is closed.
KeepaliveTaskTimesOut ==
  /\ Resumes("KEEPALIVE", "WAITING")
  /\ "LOGIC" \in user_data
  /\ Running.state = "TIMEOUT"
  /\ MovesTo("KEEPALIVE", "START")
  /\ Returns(<<>>, <<OnPrev("LOGIC", "close", NULL, "TIMEOUT")>>)
  /\ timersUnchanged
  /\ onlyMoves

\* Mutant: the next one is not scheduled.
KeepaliveTaskAnsweredOnce ==
  /\ Resumes("KEEPALIVE", "WAITING")
  /\ "LOGIC" \in user_data
  /\ Running.state = "OK"
  /\ MovesTo("KEEPALIVE", "START")
  /\ timers' = timers \ {"KEEPALIVE"}
  /\ Returns(<<RunNext>>, <<>>)
  /\ onlyMoves
  /\ UNCHANGED <<io_timeouts, dangling>>

\* do_mqtt_keepalive_task when the PINGRESP arrives: the next one is scheduled.
KeepaliveTaskAnswered ==
  /\ Resumes("KEEPALIVE", "WAITING")
  /\ "LOGIC" \in user_data
  /\ Running.state = "OK"
  /\ MovesTo("KEEPALIVE", "START")
  /\ timers' = (timers \ {"KEEPALIVE"})
               \cup (IF connection_state = "OPENED" THEN {"keepalive_event"} ELSE {})
  /\ Returns(<<RunNext>>, <<>>)
  /\ onlyMoves
  /\ UNCHANGED <<io_timeouts, dangling>>

\* do_shutdown from its start: a DISCONNECT is sent.
ShutdownTaskStart ==
  /\ Resumes("SHUTDOWN", "START")
  /\ "LOGIC" \in user_data
  /\ Sends("SHUTDOWN", "DISCONNECT")
  /\ timersUnchanged
  /\ onlyMoves

\* do_shutdown when the DISCONNECT is written, or is not: the layers are closed
\* from here down.
ShutdownTaskSent ==
  /\ Resumes("SHUTDOWN", "SENDING")
  /\ "LOGIC" \in user_data
  /\ MovesTo("SHUTDOWN", "START")
  /\ Returns(<<RunNext>>, <<OnPrev("LOGIC", "close", NULL, "OK")>>)
  /\ timersUnchanged
  /\ onlyMoves

-----------------------------------------------------------------------------
(* Publish.                                                                *)

\* do_mqtt_publish_q0 on a layer that is closing.
PublishQ0Dropped ==
  /\ IsRunning("task", "LOGIC")
  /\ Running.data.task \in Q0Publishes
  /\ ~CanServe("LOGIC")
  /\ Returns(<<>>, <<>>)
  /\ timersUnchanged
  /\ onlyMoves
  /\ UNCHANGED cs

\* do_mqtt_publish_q0 from its start.
PublishQ0Start ==
  \E t \in Q0Publishes :
    /\ Resumes(t, "START")
    /\ CanServe("LOGIC")
    /\ Sends(t, "PUBLISH")
    /\ timersUnchanged
    /\ onlyMoves

\* Mutant: success is reported whatever became of the message.
PublishQ0SentAlways ==
  \E t \in Q0Publishes :
    /\ Resumes(t, "SENDING")
    /\ CanServe("LOGIC")
    /\ MovesTo(t, "START")
    /\ Returns(<<RunNext>>, <<Callback(t, "OK")>>)
    /\ timersUnchanged
    /\ onlyMoves

\* do_mqtt_publish_q0 when the message is written, or is not.
PublishQ0Sent ==
  \E t \in Q0Publishes :
    /\ Resumes(t, "SENDING")
    /\ CanServe("LOGIC")
    /\ MovesTo(t, "START")
    /\ Returns(<<RunNext>>,
               <<Callback(t, IF Running.state = "WRITTEN" THEN "OK" ELSE Running.state)>>)
    /\ timersUnchanged
    /\ onlyMoves

\* do_mqtt_publish_q1 on a layer that is closing.
PublishQ1Dropped ==
  \E t \in Q1Publishes :
    /\ IsRunning("task", "LOGIC")
    /\ Running.data.task = t
    /\ ~CanServe("LOGIC")
    /\ MovesTo(t, "START")
    /\ CancelsTimeout(t)
    /\ Returns(<<>>, <<>>)
    /\ onlyMoves

\* do_mqtt_publish_q1 sends: from its start, when the message was not written
\* (or its answer comes before that is known), and when no answer came in time.
PublishQ1Sends ==
  \E t \in Q1Publishes :
    /\ \/ Resumes(t, "START")
       \/ Resumes(t, "SENDING") /\ Running.state # "WRITTEN"
       \/ Resumes(t, "WAITING") /\ Running.state = "TIMEOUT"
    /\ CanServe("LOGIC")
    /\ Sends(t, "PUBLISH")
    /\ timersUnchanged
    /\ onlyMoves

\* do_mqtt_publish_q1 when the message is written.
PublishQ1Sent ==
  \E t \in Q1Publishes :
    /\ Resumes(t, "SENDING")
    /\ CanServe("LOGIC")
    /\ Running.state = "WRITTEN"
    /\ MovesTo(t, "WAITING")
    /\ IF KeepaliveTimeout THEN SetsTimeout(t) ELSE timersUnchanged
    /\ Returns(<<>>, <<>>)
    /\ onlyMoves

\* iotc_mqtt_logic_layer_finalize_task of a task of QoS 1.
FinalizesQ1(t) ==
  /\ Frees({t}, timers \ {t}, io_timeouts)
  /\ q12_tasks_queue' = RemoveFirst(q12_tasks_queue, t)
  /\ UNCHANGED <<msg_id, last_msg_id, q0_tasks_queue, current_q0_task,
                 user_data, connection_state>>

\* Mutant: the publish is reported but not finalized.
PublishQ1AnsweredKeeps ==
  \E t \in Q1Publishes :
    /\ Resumes(t, "WAITING")
    /\ CanServe("LOGIC")
    /\ Running.state # "TIMEOUT"
    /\ Returns(<<>>, <<Callback(t, Running.state)>>)
    /\ CancelsTimeout(t)
    /\ onlyMoves
    /\ UNCHANGED cs

\* do_mqtt_publish_q1 when the PUBACK arrives, or anything else.
PublishQ1Answered ==
  \E t \in Q1Publishes :
    /\ Resumes(t, "WAITING")
    /\ CanServe("LOGIC")
    /\ Running.state # "TIMEOUT"
    /\ Returns(<<>>, <<Callback(t, Running.state)>>)
    /\ FinalizesQ1(t)
    /\ UNCHANGED receiveVars

-----------------------------------------------------------------------------
(* Subscribe.                                                              *)

\* do_mqtt_subscribe sends: from its start, a while after the message was not
\* written, and when no answer came in time.
SubscribeSends ==
  \E t \in Subscribes :
    /\ \/ Resumes(t, "START")
       \/ Resumes(t, "RETRY") /\ Running.state = "RESEND"
       \/ Resumes(t, "WAITING") /\ Running.state = "TIMEOUT"
    /\ "LOGIC" \in user_data
    /\ Sends(t, "SUBSCRIBE")
    /\ timersUnchanged
    /\ onlyMoves

\* do_mqtt_subscribe when the message is written.
SubscribeSent ==
  \E t \in Subscribes :
    /\ Resumes(t, "SENDING")
    /\ "LOGIC" \in user_data
    /\ Running.state = "WRITTEN"
    /\ MovesTo(t, "WAITING")
    /\ IF KeepaliveTimeout THEN SetsTimeout(t) ELSE timersUnchanged
    /\ Returns(<<>>, <<>>)
    /\ onlyMoves

\* do_mqtt_subscribe when the message is not written, or resumed before it is.
SubscribeNotSent ==
  \E t \in Subscribes :
    /\ Resumes(t, "SENDING")
    /\ "LOGIC" \in user_data
    /\ Running.state # "WRITTEN"
    /\ MovesTo(t, "RETRY")
    /\ SetsTimeout(t)
    /\ Returns(<<>>, <<>>)
    /\ onlyMoves

\* do_mqtt_subscribe told again that a message was written, or not, when it waits
\* for the answer: the task is finalized, its callback forgotten, and then it is
\* reset, though freed: nothing comes of that, or the program aborts.
SubscribeConfirmedAgain ==
  \E t \in Subscribes :
    /\ Resumes(t, "WAITING")
    /\ "LOGIC" \in user_data
    /\ Running.state \in {"WRITTEN", "FAILED_WRITING"}
    /\ Returns(<<>>, <<>>)
    /\ FinalizesQ1(t)
    /\ UNCHANGED receiveVars

\* do_mqtt_subscribe aborts: after that, or resumed by anything but its timeout
\* when it waits to send again, which an assertion excludes.
SubscribeAborts ==
  \E t \in Subscribes :
    /\ \/ Resumes(t, "WAITING") /\ Running.state \in {"WRITTEN", "FAILED_WRITING"}
       \/ Resumes(t, "RETRY") /\ Running.state # "RESEND"
    /\ "LOGIC" \in user_data
    /\ Aborts
    /\ timersUnchanged
    /\ onlyMoves
    /\ UNCHANGED cs

\* Mutant: the handler is not registered.
SubscribeAnsweredOnly ==
  \E t \in Subscribes :
    /\ Resumes(t, "WAITING")
    /\ "LOGIC" \in user_data
    /\ Running.state = "OK"
    /\ Returns(<<>>, <<Callback(t, IF Running.data.msg.type = "SUBACK" THEN "OK" ELSE "REFUSED")>>)
    /\ FinalizesQ1(t)
    /\ UNCHANGED receiveVars

\* do_mqtt_subscribe when the SUBACK arrives: unless the subscription failed, its
\* handler is registered, and its callback told.
SubscribeAnswered ==
  \E t \in Subscribes :
    /\ Resumes(t, "WAITING")
    /\ "LOGIC" \in user_data
    /\ Running.state = "OK"
    /\ \/ /\ Running.data.msg.type = "SUBACK"
          /\ handlers_for_topics' = Append(handlers_for_topics, t)
          /\ Returns(<<>>, <<Callback(t, "OK")>>)
       \/ /\ Running.data.msg.type = "SUBACK_REFUSED"
          /\ Returns(<<>>, <<Callback(t, "REFUSED")>>)
          /\ UNCHANGED handlers_for_topics
    /\ FinalizesQ1(t)
    /\ UNCHANGED <<q12_recv_tasks_queue, arrived, delivered>>

-----------------------------------------------------------------------------
(* The handlers of the layer.                                              *)

\* A task was pushed, not the confirmation of a message.
pushesTask(t) == Running.state = "OK" /\ Running.data.task = t

\* iotc_mqtt_logic_layer_push of a task of QoS 0 (run_task): a connect and a
\* shutdown go to the front.
LogicPushQ0 ==
  \E t \in Q0Tasks :
    /\ IsRunning("push", "LOGIC")
    /\ CanServe("LOGIC")
    /\ pushesTask(t)
    /\ q0_tasks_queue' = IF t \in {"CONNECT", "SHUTDOWN"}
                           THEN <<t>> \o q0_tasks_queue
                           ELSE Append(q0_tasks_queue, t)
    /\ Returns(IF current_q0_task = NULL THEN <<RunNext>> ELSE <<>>, <<>>)
    /\ timersUnchanged
    /\ UNCHANGED <<cs, msg_id, last_msg_id, current_q0_task, q12_tasks_queue,
                   receiveVars, user_data, connection_state>>

\* iotc_mqtt_logic_layer_push of a task of QoS 1 (run_task): it starts at once
\* if the connection is open.
LogicPushQ1 ==
  \E t \in Q1Tasks :
    /\ IsRunning("push", "LOGIC")
    /\ CanServe("LOGIC")
    /\ pushesTask(t)
    /\ last_msg_id' = (last_msg_id + 1) % MsgIds
    /\ msg_id' = [msg_id EXCEPT ![t] = last_msg_id']
    /\ q12_tasks_queue' = Append(q12_tasks_queue, t)
    /\ Returns(IF connection_state = "OPENED"
                 THEN <<TaskHandle(t, "OK", NULL)>> ELSE <<>>, <<>>)
    /\ timersUnchanged
    /\ UNCHANGED <<cs, q0_tasks_queue, current_q0_task, receiveVars, user_data,
                   connection_state>>

\* iotc_mqtt_logic_layer_push of a task on a layer that is closing: it is freed.
LogicPushFrees ==
  \E t \in Tasks :
    /\ IsRunning("push", "LOGIC")
    /\ ~CanServe("LOGIC")
    /\ pushesTask(t)
    /\ Frees({t}, timers, io_timeouts)
    /\ Returns(<<>>, <<>>)
    /\ onlyMoves

\* The tasks that own the message id: the current one of QoS 0, or those of QoS 1.
OwnersOf(id) ==
  IF id = 0 THEN Current ELSE {t \in Range(q12_tasks_queue) : msg_id[t] = id}

\* Mutant: the class of the message is not looked at.
ConfirmsAnyClass(m) == {TaskHandle(t, Running.state, NULL) : t \in OwnersOf(m.id)}

\* The handle of the task a confirmation is for: the PUBACK of a message of the
\* server is another class than the messages that go to the server.
Confirms(m) ==
  IF m.type = "PUBACK"
    THEN {RecvHandle(d, Running.state) : d \in ReceiversOf(m.id)}
    ELSE {TaskHandle(t, Running.state, NULL) : t \in OwnersOf(m.id)}

\* iotc_evtd_restart of keepalive_event, after each message that is written: it is put
\* off for the whole of keepalive_timeout.  It waits before and after, so that timers
\* does not tell; MqttClient!PutsOff does.
RestartsKeepalive ==
  /\ IsRunning("push", "LOGIC")
  /\ CanServe("LOGIC")
  /\ Running.state = "WRITTEN"
  /\ "keepalive_event" \in timers

\* iotc_mqtt_logic_layer_push of a confirmation: the task is found by its id.
LogicPushConfirms ==
  /\ IsRunning("push", "LOGIC")
  /\ CanServe("LOGIC")
  /\ Running.state \in {"WRITTEN", "FAILED_WRITING"}
  /\ \/ \E h \in Confirms(Running.data) : Returns(<<h>>, <<>>)
     \/ Confirms(Running.data) = {} /\ Returns(<<>>, <<>>)
  /\ timersUnchanged
  /\ onlyMoves
  /\ UNCHANGED cs

\* iotc_mqtt_logic_layer_push of a confirmation on a layer that is closing.
LogicPushIgnores ==
  /\ IsRunning("push", "LOGIC")
  /\ ~CanServe("LOGIC")
  /\ Running.state \in {"WRITTEN", "FAILED_WRITING"}
  /\ Returns(<<>>, <<>>)
  /\ timersUnchanged
  /\ onlyMoves
  /\ UNCHANGED cs

receivesOnly ==
  /\ timersUnchanged
  /\ sendingUnchanged
  /\ UNCHANGED <<cs, user_data, connection_state>>

\* iotc_mqtt_logic_layer_pull of an answer: the task is found by its id.
LogicPull ==
  /\ IsRunning("pull", "LOGIC")
  /\ CanServe("LOGIC")
  /\ Running.data.type # "PUBLISH"
  /\ \/ \E t \in OwnersOf(Running.data.id) :
          Returns(<<TaskHandle(t, "OK", Running.data)>>, <<>>)
     \/ OwnersOf(Running.data.id) = {} /\ Running.data.id > 0 /\ Returns(<<>>, <<>>)
  /\ UNCHANGED receiveVars
  /\ receivesOnly

\* iotc_mqtt_logic_layer_pull of a publish of the server.
LogicPullPublish ==
  /\ IsRunning("pull", "LOGIC")
  /\ CanServe("LOGIC")
  /\ Running.data.type = "PUBLISH"
  /\ OnPublish(Running.data.owner)
  /\ receivesOnly

\* on_publish_q1_recieved is resumed.
PubackSent ==
  /\ IsRunning("received", "LOGIC")
  /\ IF Running.state = "WRITTEN" THEN PubackWritten(Running.data.task)
                                  ELSE PubackNotWritten(Running.data.task)
  /\ receivesOnly

\* iotc_mqtt_logic_layer_pull on a layer that is closing.
LogicPullIgnores ==
  /\ IsRunning("pull", "LOGIC")
  /\ ~CanServe("LOGIC")
  /\ Returns(<<>>, <<>>)
  /\ timersUnchanged
  /\ onlyMoves
  /\ UNCHANGED cs

\* iotc_mqtt_logic_layer_init
LogicInit ==
  /\ IsRunning("init", "LOGIC")
  /\ user_data' = user_data \cup {"LOGIC"}
  /\ last_msg_id' = 0
  /\ connection_state' = "OPENING"
  /\ Returns(<<>>, <<OnPrev("LOGIC", "init", NULL, "OK")>>)
  /\ timersUnchanged
  /\ UNCHANGED <<cs, msg_id, q0_tasks_queue, current_q0_task, q12_tasks_queue, receiveVars>>

\* iotc_mqtt_logic_layer_connect
LogicConnect ==
  /\ IsRunning("connect", "LOGIC")
  /\ \/ /\ Running.state = "OK"
        /\ MovesTo("CONNECT", "START")
        /\ Returns(<<Push("LOGIC", "CONNECT")>>, <<>>)
     \/ /\ Running.state # "OK"
        /\ Returns(<<>>, <<OnNext("LOGIC", "connect", NULL, Running.state)>>)
        /\ UNCHANGED cs
  /\ timersUnchanged
  /\ onlyMoves

\* iotc_mqtt_logic_layer_close
LogicClose ==
  /\ IsRunning("close", "LOGIC")
  /\ Returns(<<>>, <<IF "LOGIC" \in user_data
                      THEN OnPrev("LOGIC", "close", NULL, Running.state)
                      ELSE Handle("close_externally", "LOGIC", NULL, Running.state)>>)
  /\ timersUnchanged
  /\ onlyMoves
  /\ UNCHANGED cs

\* iotc_mqtt_logic_layer_close_externally before the layer is connected.
LogicCloseExternallyConnecting ==
  /\ IsRunning("close_externally", "LOGIC")
  /\ Running.state # "OK" /\ layer_state["LOGIC"] = "CONNECTING"
  /\ Returns(<<>>, <<Handle("connect", "LOGIC", NULL, Running.state)>>)
  /\ timersUnchanged
  /\ onlyMoves
  /\ UNCHANGED cs

\* iotc_mqtt_logic_layer_close_externally when all is gone already.
LogicCloseExternallyAgain ==
  /\ IsRunning("close_externally", "LOGIC")
  /\ Running.state # "OK" => layer_state["LOGIC"] # "CONNECTING"
  /\ "LOGIC" \notin user_data
  /\ Returns(<<>>, <<OnNext("LOGIC", "close_externally", NULL, Running.state)>>)
  /\ timersUnchanged
  /\ onlyMoves
  /\ UNCHANGED cs

\* iotc_mqtt_logic_layer_close_externally: the timeouts are cancelled, that of
\* the current task only in the dispatcher, and that task is told.
LogicCloseExternally ==
  /\ IsRunning("close_externally", "LOGIC")
  /\ Running.state # "OK" => layer_state["LOGIC"] # "CONNECTING"
  /\ "LOGIC" \in user_data
  /\ timers' = timers \ (Range(q12_tasks_queue) \cup Current)
  /\ Returns([i \in 1..Cardinality(Current) |-> TaskHandle(current_q0_task, "TIMEOUT", NULL)]
             \o <<Handle("close_rest", "LOGIC", NULL, Running.state)>>, <<>>)
  /\ onlyMoves
  /\ UNCHANGED <<cs, io_timeouts, dangling>>

\* Mutant: only failures are told to the layers above.
LogicCloseRestUntold ==
  /\ IsRunning("close_rest", "LOGIC")
  /\ Frees(Current \cup Range(q0_tasks_queue) \cup Range(q12_tasks_queue),
           timers \ {"keepalive_event"}, io_timeouts)
  /\ q0_tasks_queue' = <<>> /\ current_q0_task' = NULL /\ q12_tasks_queue' = <<>>
  /\ handlers_for_topics' = <<>> /\ q12_recv_tasks_queue' = <<>>
  /\ user_data' = user_data \ {"LOGIC"}
  /\ Returns(<<>>, IF Running.state = "OK" THEN <<>>
                   ELSE <<OnNext("LOGIC", "close_externally", NULL, Running.state)>>)
  /\ UNCHANGED <<msg_id, last_msg_id, arrived, delivered, connection_state>>

\* Mutant: the keepalive stays scheduled.
LogicCloseRestKeepsKeepalive ==
  /\ IsRunning("close_rest", "LOGIC")
  /\ Frees(Current \cup Range(q0_tasks_queue) \cup Range(q12_tasks_queue),
           timers, io_timeouts)
  /\ q0_tasks_queue' = <<>> /\ current_q0_task' = NULL /\ q12_tasks_queue' = <<>>
  /\ handlers_for_topics' = <<>> /\ q12_recv_tasks_queue' = <<>>
  /\ user_data' = user_data \ {"LOGIC"}
  /\ Returns(<<>>, <<OnNext("LOGIC", "close_externally", NULL, Running.state)>>)
  /\ UNCHANGED <<msg_id, last_msg_id, arrived, delivered, connection_state>>

\* The rest of iotc_mqtt_logic_layer_close_externally: whichever task is current
\* now is freed, and so are all that wait.
LogicCloseRest ==
  /\ IsRunning("close_rest", "LOGIC")
  /\ Frees(Current \cup Range(q0_tasks_queue) \cup Range(q12_tasks_queue),
           timers \ {"keepalive_event"}, io_timeouts)
  /\ q0_tasks_queue' = <<>> /\ current_q0_task' = NULL /\ q12_tasks_queue' = <<>>
  /\ handlers_for_topics' = <<>> /\ q12_recv_tasks_queue' = <<>>
  /\ user_data' = user_data \ {"LOGIC"}
  /\ Returns(<<>>, <<OnNext("LOGIC", "close_externally", NULL, Running.state)>>)
  /\ UNCHANGED <<msg_id, last_msg_id, arrived, delivered, connection_state>>

LogicNext ==
  \/ RunNextQ0
  \/ ConnectTaskDropped \/ ConnectTaskStart \/ ConnectTaskSent \/ ConnectTaskNotSent
  \/ ConnectTaskAccepted \/ ConnectTaskRefused \/ ConnectTimesOut
  \/ KeepaliveOnce \/ KeepaliveTaskStart \/ KeepaliveTaskSent
  \/ KeepaliveTaskTimesOut \/ KeepaliveTaskAnswered
  \/ ShutdownTaskStart \/ ShutdownTaskSent
  \/ PublishQ0Dropped \/ PublishQ0Start \/ PublishQ0Sent
  \/ PublishQ1Dropped \/ PublishQ1Sends \/ PublishQ1Sent \/ PublishQ1Answered
  \/ SubscribeSends \/ SubscribeSent \/ SubscribeNotSent \/ SubscribeAborts
  \/ SubscribeConfirmedAgain \/ SubscribeAnswered
  \/ LogicPushQ0 \/ LogicPushQ1 \/ LogicPushFrees \/ LogicPushConfirms
  \/ LogicPushIgnores \/ LogicPull \/ LogicPullPublish \/ LogicPullIgnores \/ PubackSent
  \/ LogicInit \/ LogicConnect \/ LogicClose
  \/ LogicCloseExternallyConnecting \/ LogicCloseExternallyAgain
  \/ LogicCloseExternally \/ LogicCloseRest
=============================================================================
