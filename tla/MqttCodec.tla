------------------------------- MODULE MqttCodec -------------------------------
(***************************************************************************)
(* The codec layer, mqtt/codec/iotc_mqtt_codec_layer.c.  Messages to write *)
(* wait in task_queue; the first is being written, its header and then the *)
(* payload of a PUBLISH.  For every message the logic layer is told whether*)
(* it was written.  What the parser decodes is passed on.                  *)
(***************************************************************************)
EXTENDS LayerChain

VARIABLES
  task_queue,  \* the messages to write, the one in hand first
  push_cs      \* what was handed to the network layer: "NONE", "HEADER", "PAYLOAD"

codecVars == <<task_queue, push_cs>>

CodecInitState == task_queue = <<>> /\ push_cs = "NONE"

codecSharedUnchanged ==
  UNCHANGED <<connection_state, timers, io_timeouts, dangling>>

-----------------------------------------------------------------------------
(* Writing.                                                                *)

Confirmation(m, state) == OnNext("CODEC", "push", m, state)

HasPayload(m) == m.type = "PUBLISH"

HeaderOf(m) == OnPrev("CODEC", "push", [msg |-> m, last |-> ~HasPayload(m)], "OK")
PayloadOf(m) == OnPrev("CODEC", "push", [msg |-> m, last |-> TRUE], "OK")

\* clear_task_queue: every message is confirmed as not written.
FailedConfirmations ==
  [i \in DOMAIN task_queue |-> Confirmation(task_queue[i], "FAILED_WRITING")]

\* iotc_mqtt_codec_layer_push of a new message.
CodecPushMessage ==
  /\ IsRunning("push", "CODEC")
  /\ CanServe("CODEC")
  /\ Running.state = "OK"
  /\ task_queue' = Append(task_queue, Running.data)
  /\ \/ /\ push_cs # "NONE"
        /\ Returns(<<>>, <<>>)
        /\ UNCHANGED push_cs
     \/ /\ push_cs = "NONE"
        /\ push_cs' = "HEADER"
        /\ Returns(<<>>, <<HeaderOf(Running.data)>>)
  /\ codecSharedUnchanged
  /\ UNCHANGED user_data

\* iotc_mqtt_codec_layer_push when the header of a PUBLISH is written.
CodecPushPayload ==
  /\ IsRunning("push", "CODEC")
  /\ CanServe("CODEC")
  /\ Running.state = "WRITTEN"
  /\ push_cs = "HEADER" /\ HasPayload(Head(task_queue))
  /\ push_cs' = "PAYLOAD"
  /\ Returns(<<>>, <<PayloadOf(Head(task_queue))>>)
  /\ codecSharedUnchanged
  /\ UNCHANGED <<user_data, task_queue>>

\* Mutant: the next message is not started.
CodecPushWrittenStops ==
  /\ IsRunning("push", "CODEC")
  /\ CanServe("CODEC")
  /\ Running.state \in {"WRITTEN", "FAILED_WRITING"}
  /\ Running.state = "WRITTEN" /\ push_cs = "HEADER" => ~HasPayload(Head(task_queue))
  /\ task_queue' = Tail(task_queue)
  /\ push_cs' = "NONE"
  /\ Returns(<<>>, <<Confirmation(Head(task_queue), Running.state)>>)
  /\ codecSharedUnchanged
  /\ UNCHANGED user_data

\* iotc_mqtt_codec_layer_push when a message is written, or a part of it failed: it
\* is confirmed and the next one is started.
CodecPushWritten ==
  /\ IsRunning("push", "CODEC")
  /\ CanServe("CODEC")
  /\ Running.state \in {"WRITTEN", "FAILED_WRITING"}
  /\ Running.state = "WRITTEN" /\ push_cs = "HEADER" => ~HasPayload(Head(task_queue))
  /\ task_queue' = Tail(task_queue)
  /\ \/ /\ Len(task_queue) = 1
        /\ push_cs' = "NONE"
        /\ Returns(<<>>, <<Confirmation(Head(task_queue), Running.state)>>)
     \/ /\ Len(task_queue) > 1
        /\ push_cs' = "HEADER"
        /\ Returns(<<>>, <<Confirmation(Head(task_queue), Running.state),
                           HeaderOf(task_queue[2])>>)
  /\ codecSharedUnchanged
  /\ UNCHANGED user_data

\* iotc_mqtt_codec_layer_push on a layer that is closing: the message is freed
\* and nobody is told.
CodecPushDropped ==
  /\ IsRunning("push", "CODEC")
  /\ ~CanServe("CODEC")
  /\ Returns(<<>>, <<>>)
  /\ codecSharedUnchanged
  /\ UNCHANGED <<user_data, codecVars>>

-----------------------------------------------------------------------------
(* Reading and the life of the layer.                                      *)

\* The first n messages of what was read go to the next layer.
Decoded(n) == [i \in 1..n |-> OnNext("CODEC", "pull", Running.data.msgs[i], "OK")]

\* iotc_mqtt_codec_layer_pull of bytes that hold whole messages.
CodecPull ==
  /\ IsRunning("pull", "CODEC")
  /\ CanServe("CODEC")
  /\ Returns(<<>>, Decoded(Len(Running.data.msgs)))
  /\ codecSharedUnchanged
  /\ UNCHANGED <<user_data, codecVars>>

\* iotc_mqtt_codec_layer_pull of bytes the parser rejects after n messages.
CodecPullMalformed ==
  /\ IsRunning("pull", "CODEC")
  /\ CanServe("CODEC")
  /\ task_queue' = <<>>
  /\ \E n \in 0..Len(Running.data.msgs) - 1 :
       Returns(<<>>, Decoded(n) \o FailedConfirmations
                     \o <<OnPrev("CODEC", "close", NULL, "ERROR")>>)
  /\ codecSharedUnchanged
  /\ UNCHANGED <<user_data, push_cs>>

\* iotc_mqtt_codec_layer_pull on a layer that is closing.
CodecPullDropped ==
  /\ IsRunning("pull", "CODEC")
  /\ ~CanServe("CODEC")
  /\ Returns(<<>>, <<>>)
  /\ codecSharedUnchanged
  /\ UNCHANGED <<user_data, codecVars>>

\* iotc_mqtt_codec_layer_init
CodecInit ==
  /\ IsRunning("init", "CODEC")
  /\ user_data' = user_data \cup {"CODEC"}
  /\ task_queue' = <<>> /\ push_cs' = "NONE"
  /\ Returns(<<>>, <<OnPrev("CODEC", "init", NULL, "OK")>>)
  /\ codecSharedUnchanged

\* iotc_mqtt_codec_layer_connect
CodecConnect ==
  /\ IsRunning("connect", "CODEC")
  /\ Returns(<<>>, <<OnNext("CODEC", "connect", NULL, Running.state)>>)
  /\ codecSharedUnchanged
  /\ UNCHANGED <<user_data, codecVars>>

\* iotc_mqtt_codec_layer_close
CodecClose ==
  /\ IsRunning("close", "CODEC")
  /\ \/ /\ "CODEC" \in user_data
        /\ Returns(<<>>, <<OnPrev("CODEC", "close", NULL, Running.state)>>)
     \/ /\ "CODEC" \notin user_data
        /\ Returns(<<>>, <<Handle("close_externally", "CODEC", NULL, Running.state)>>)
  /\ codecSharedUnchanged
  /\ UNCHANGED <<user_data, codecVars>>

\* iotc_mqtt_codec_layer_close_externally
CodecCloseExternally ==
  /\ IsRunning("close_externally", "CODEC")
  /\ task_queue' = <<>> /\ push_cs' = "NONE"
  /\ user_data' = user_data \ {"CODEC"}
  /\ Returns(<<>>, Append(FailedConfirmations,
                          OnNext("CODEC", "close_externally", NULL, Running.state)))
  /\ codecSharedUnchanged

CodecNext ==
  \/ CodecPushMessage \/ CodecPushPayload \/ CodecPushWritten \/ CodecPushDropped
  \/ CodecPull \/ CodecPullMalformed \/ CodecPullDropped
  \/ CodecInit \/ CodecConnect \/ CodecClose \/ CodecCloseExternally
=============================================================================
