------------------------------ MODULE MqttClient ------------------------------
(***************************************************************************)
(* The MQTT client: the layers NetLayer, MqttCodec and MqttLogic under the *)
(* control layer (control_topic/iotc_control_topic_layer.c), the calls of  *)
(* the application (iotc.c) and its callbacks, and the event loop that runs*)
(* them all on one thread.  Memory is never exhausted here.                *)
(*                                                                         *)
(* The application calls from outside the loop, from a timed task, or from *)
(* a callback, during which the handler "user" is on the stack.            *)
(***************************************************************************)
EXTENDS NetLayer, MqttCodec, MqttLogic

CONSTANTS
  MaxConnects,  \* bound: calls of iotc_connect_to
  Repeated,     \* the publishes of QoS 0 the application makes again and again
  AppPhases     \* where the application calls outside its callbacks: "select"
                \* (outside the loop), "timers" (in a timed task)

VARIABLES
  shutdown_state,  \* context_data->shutdown_state
  connects,        \* history: the calls of iotc_connect_to that were accepted
  opened,          \* history: whether the last of them had an open connection
  reports,         \* history: the connection_state its callback was shown, each time
  outcome          \* history: of every publish and subscribe, the states reported

appVars == <<shutdown_state, connects, opened, reports, outcome>>

vars == <<chainVars, netVars, codecVars, logicVars, appVars>>

Requests == Publishes \cup Subscribes

\* The layers are those of iotc_layer_stack.h, that of TLS left out, and what the
\* application asks for is not mistaken for what the client does by itself.
ASSUME ClientAssumptions ==
  /\ Chain = <<"IO", "CODEC", "LOGIC", "CONTROL">>
  /\ Requests \cap {"connection", "connect_handler", "keepalive_event"} = {}
  /\ Repeated \subseteq Q0Publishes

Init ==
  /\ ChainInit /\ NetInit /\ CodecInitState /\ LogicStart
  /\ shutdown_state = "UNINITIALISED"
  /\ connects = 0
  /\ opened = FALSE
  /\ reports = <<>>
  /\ outcome = [t \in Requests |-> <<>>]

layersUnchanged == UNCHANGED <<netVars, codecVars>>

-----------------------------------------------------------------------------
(* The control layer.                                                      *)

controlUnchanged ==
  /\ layersUnchanged
  /\ UNCHANGED <<logicVars, user_data, timers, io_timeouts, dangling>>

\* iotc_control_topic_layer_init
ControlInit ==
  /\ IsRunning("init", "CONTROL")
  /\ Returns(<<>>, <<OnPrev("CONTROL", "init", NULL, "OK")>>)
  /\ controlUnchanged
  /\ UNCHANGED <<connection_state, appVars>>

\* iotc_control_topic_layer_push
ControlPush ==
  /\ IsRunning("push", "CONTROL")
  /\ Returns(<<>>, <<OnPrev("CONTROL", "push", Running.data, Running.state)>>)
  /\ controlUnchanged
  /\ UNCHANGED <<connection_state, appVars>>

\* iotc_control_topic_layer_connect
ControlConnect ==
  /\ IsRunning("connect", "CONTROL")
  /\ Returns(<<>>, <<IF Running.state = "OK"
                      THEN Callback("connection", "OK")
                      ELSE OnPrev("CONTROL", "close", NULL, Running.state)>>)
  /\ opened' = (opened \/ Running.state = "OK")
  /\ controlUnchanged
  /\ UNCHANGED <<connection_state, shutdown_state, connects, reports, outcome>>

\* Mutant: a connection that could not be opened is said to be closed.
ControlCloseExternallyClosed ==
  /\ IsRunning("close_externally", "CONTROL")
  /\ connection_state' = "CLOSED"
  /\ Returns(<<>>, <<Callback("connection", Running.state)>>)
  /\ controlUnchanged
  /\ UNCHANGED appVars

\* iotc_control_topic_layer_close_externally
ControlCloseExternally ==
  /\ IsRunning("close_externally", "CONTROL")
  /\ connection_state' = IF connection_state = "OPENING" THEN "OPEN_FAILED" ELSE "CLOSED"
  /\ Returns(<<>>, <<Callback("connection", Running.state)>>)
  /\ controlUnchanged
  /\ UNCHANGED appVars

-----------------------------------------------------------------------------
(* The application.                                                        *)

User == Handle("user", "CONTROL", NULL, "OK")

\* iotc_user_callback_wrapper calls the callback of the connection, which looks
\* at the connection's data as it is now.
ConnectionCallback ==
  /\ IsRunning("callback", "CONTROL")
  /\ Running.data.task = "connection"
  /\ reports' = Append(reports, connection_state)
  /\ Returns(<<User>>, <<>>)
  /\ controlUnchanged
  /\ UNCHANGED <<connection_state, shutdown_state, connects, opened, outcome>>

\* iotc_user_callback_wrapper and iotc_user_sub_call_wrapper call that of a
\* publish or a subscribe.
RequestCallback ==
  /\ IsRunning("callback", "CONTROL")
  /\ Running.data.task \in Requests
  /\ outcome' = [outcome EXCEPT ![Running.data.task] = Append(@, Running.state)]
  /\ Returns(<<User>>, <<>>)
  /\ controlUnchanged
  /\ UNCHANGED <<connection_state, shutdown_state, connects, opened, reports>>

\* iotc_user_sub_call_wrapper shows the application a publish of the server.
MessageCallback ==
  /\ IsRunning("message", "CONTROL")
  /\ delivered' = Append(delivered, Running.data.task)
  /\ Returns(<<User>>, <<>>)
  /\ layersUnchanged
  /\ sendingUnchanged
  /\ UNCHANGED <<cs, handlers_for_topics, q12_recv_tasks_queue, arrived, user_data,
                 timers, io_timeouts, dangling, connection_state, appVars>>

UserReturns ==
  /\ IsRunning("user", "CONTROL")
  /\ Returns(<<>>, <<>>)
  /\ controlUnchanged
  /\ UNCHANGED <<connection_state, appVars>>

AppRuns ==
  \/ IsRunning("user", "CONTROL")
  \/ stack = <<>> /\ phase \in AppPhases

\* The application asks the control layer to push t.
Pushes(t) ==
  /\ cs' = [cs EXCEPT ![t] = "START"]
  /\ queue' = Append(queue, Push("CONTROL", t))
  /\ layersUnchanged
  /\ queuesUnchanged
  /\ timersUnchanged
  /\ UNCHANGED <<phase, stack, layer_state, user_data, connection_state,
                 connects, opened, reports>>

\* iotc_connect_to, when neither a request nor a connection is under way.
Connect ==
  /\ AppRuns
  /\ connects < MaxConnects
  /\ "connect_handler" \notin timers
  /\ connection_state \in {"UNINITIALIZED", "CLOSED", "OPEN_FAILED"}
  /\ connection_state' = "UNINITIALIZED"
  /\ shutdown_state' = "UNINITIALISED"
  /\ timers' = timers \cup {"connect_handler"}
  /\ connects' = connects + 1
  /\ opened' = FALSE
  /\ reports' = <<>>
  /\ layersUnchanged
  /\ UNCHANGED <<phase, stack, queue, layer_state, user_data, io_timeouts,
                 dangling, logicVars, outcome>>

\* iotc_publish and iotc_subscribe, when no backoff penalty forbids them.  A publish
\* that is repeated is made again when it was reported, and is reported again.
Request(t) ==
  /\ AppRuns
  /\ \/ cs[t] = "NEW"
     \/ t \in Repeated /\ cs[t] = "FREE" /\ outcome[t] # <<>>
  /\ outcome' = [outcome EXCEPT ![t] = <<>>]
  /\ Pushes(t)
  /\ UNCHANGED shutdown_state

\* iotc_shutdown_connection before the connection is even tried.
ShutdownCancels ==
  /\ AppRuns
  /\ "connect_handler" \in timers
  /\ timers' = timers \ {"connect_handler"}
  /\ layersUnchanged
  /\ UNCHANGED <<phase, stack, queue, layer_state, user_data, connection_state,
                 io_timeouts, dangling, logicVars, appVars>>

\* iotc_shutdown_connection of an open connection.
Shutdown ==
  /\ AppRuns
  /\ "connect_handler" \notin timers
  /\ connection_state = "OPENED"
  /\ shutdown_state = "UNINITIALISED"
  /\ shutdown_state' = "STARTED"
  /\ Pushes("SHUTDOWN")
  /\ UNCHANGED outcome

-----------------------------------------------------------------------------
(* The event loop.                                                         *)

loopUnchanged ==
  /\ layersUnchanged
  /\ UNCHANGED <<layer_state, user_data, connection_state, logicVars, appVars>>

\* No socket is ready.
SkipSockets ==
  /\ Idle
  /\ phase' = "timers"
  /\ loopUnchanged
  /\ UNCHANGED <<stack, queue, timers, io_timeouts, dangling>>

\* What the time event t calls.
DueHandle(t) ==
  CASE t = "connect_handler" -> Handle("init", "CONTROL", NULL, "OK")
    [] t = "keepalive_event" -> Handle("keepalive_once", "LOGIC", NULL, "OK")
    [] t = "CONNECT" -> Handle("connect_timeout", "LOGIC", NULL, "OK")
    [] t \in Tasks \ {"CONNECT"} ->
         TaskHandle(t, IF cs[t] = "RETRY" THEN "RESEND" ELSE "TIMEOUT", NULL)

TimerDue(t) ==
  /\ phase = "timers" /\ stack = <<>>
  /\ t \in timers
  /\ timers' = timers \ {t}
  /\ stack' = <<DueHandle(t)>>
  /\ loopUnchanged
  /\ UNCHANGED <<phase, queue, io_timeouts, dangling>>

\* A time event is due whose task was freed.
DanglingDue ==
  /\ phase = "timers" /\ stack = <<>>
  /\ "event" \in dangling
  /\ phase' = "aborted"
  /\ loopUnchanged
  /\ UNCHANGED <<stack, queue, timers, io_timeouts, dangling>>

TimersDone ==
  /\ phase = "timers" /\ stack = <<>>
  /\ phase' = "queue"
  /\ loopUnchanged
  /\ UNCHANGED <<stack, queue, timers, io_timeouts, dangling>>

QueueDone ==
  /\ phase = "queue" /\ stack = <<>> /\ queue = <<>>
  /\ phase' = "select"
  /\ loopUnchanged
  /\ UNCHANGED <<stack, queue, timers, io_timeouts, dangling>>

TimeEvents == {"connect_handler", "keepalive_event", "CONNECT", "KEEPALIVE"} \cup Q1Tasks

Handlers ==
  \/ NetNext /\ UNCHANGED <<codecVars, logicVars, appVars>>
  \/ CodecNext /\ UNCHANGED <<netVars, logicVars, appVars>>
  \/ LogicNext /\ UNCHANGED <<netVars, codecVars, appVars>>
  \/ ControlInit \/ ControlPush \/ ControlConnect \/ ControlCloseExternally
  \/ ConnectionCallback \/ RequestCallback \/ MessageCallback \/ UserReturns

\* The server publishes after it received a subscription, and may send a publish of
\* QoS 1 again until it has the PUBACK.
ServerSends(d) ==
  /\ socket = "OPEN" /\ Len(wire) < MaxWire
  /\ received \cap Subscribes # {}
  /\ d \notin answered \/ (d \in ServerQ1 /\ d \notin received)
  /\ answered' = answered \cup {d}
  /\ wire' = Append(wire, [type |-> "PUBLISH", owner |-> d,
                            id |-> IF d \in ServerQ1 THEN ServerId(d) ELSE 0])
  /\ UNCHANGED <<chainVars, socket, on_socket, received, codecVars, logicVars, appVars>>

Ready == SocketReady /\ UNCHANGED <<codecVars, logicVars, appVars>>

Next ==
  \/ Handlers
  \/ Connect \/ (\E t \in Requests : Request(t)) \/ ShutdownCancels \/ Shutdown
  \/ Ready \/ SkipSockets \/ (\E d \in ServerPublishes : ServerSends(d))
  \/ (\E t \in TimeEvents : TimerDue(t)) \/ DanglingDue \/ TimersDone \/ QueueDone

Spec == Init /\ [][Next]_vars

-----------------------------------------------------------------------------
(* Safety.                                                                 *)

\* Nothing runs and nothing is queued: the loop waits.
Quiet == Idle /\ queue = <<>>

\* How often t is referred to: by a handler that will push it, or by a queue of
\* the logic layer, or as the current task.
pushesOf(handlers, t) ==
  Cardinality({i \in DOMAIN handlers : /\ handlers[i].fn = "push"
                                       /\ handlers[i].layer \in {"CONTROL", "LOGIC"}
                                       /\ handlers[i].state = "OK"
                                       /\ handlers[i].data.task = t})
countIn(seq, t) == Cardinality({i \in DOMAIN seq : seq[i] = t})

references(t) ==
  pushesOf(stack, t) + pushesOf(queue, t) + countIn(q0_tasks_queue, t)
  + countIn(q12_tasks_queue, t) + (IF current_q0_task = t THEN 1 ELSE 0)

\* Every task that is allocated has exactly one owner, which will free it, and
\* one that is freed has none (iotc_mqtt_logic_layer_push passes it on, the
\* coroutines finalize it, close_externally frees what is left).
TasksHaveOneOwner ==
  phase # "aborted" => \A t \in Tasks : references(t) = (IF t \in Allocated THEN 1 ELSE 0)

\* A message the logic layer gets is for the task that sent it: a confirmation
\* or an answer without an id is taken to be for the current task, any other is
\* found by its id, which the next connection uses again and the server too.  An
\* answer without an id always has a task (an assertion of the layer's pull).
MessagesFindTheirTask ==
  CanServe("LOGIC") =>
    /\ IsRunning("push", "LOGIC") /\ Running.state \in {"WRITTEN", "FAILED_WRITING"} =>
         \A h \in Confirms(Running.data) : h.data.task = Running.data.owner
    /\ IsRunning("pull", "LOGIC") /\ Running.data.type # "PUBLISH" =>
         /\ OwnersOf(Running.data.id) \subseteq {Running.data.owner}
         /\ Running.data.id = 0 => Current # {}

\* Whoever waits when the loop does will be woken: a task for its message by the
\* codec, the codec by the socket, a task for its answer by its timeout.
WaitersAreWoken ==
  Quiet =>
    /\ \A t \in {u \in Tasks : cs[u] = "SENDING"} \cup Range(q12_recv_tasks_queue) :
         \E i \in DOMAIN task_queue : task_queue[i].owner = t
    /\ task_queue # <<>> => on_socket # NULL /\ on_socket.fn = "push"
    /\ \A t \in Publishes \cup {"KEEPALIVE"} : cs[t] = "WAITING" /\ KeepaliveTimeout => t \in timers
    /\ cs["CONNECT"] = "WAITING" /\ ConnectionTimeout => "CONNECT" \in timers \cap io_timeouts

\* While the connection is open a keepalive is scheduled or under way, however
\* it ended the last time.
KeepaliveGoesOn ==
  Quiet /\ connection_state = "OPENED" /\ KeepaliveTimeout
    => "keepalive_event" \in timers \/ "KEEPALIVE" \in Allocated

\* What the callback of a subscription is shown of it still exists: it is freed
\* when the connection ends, and the callback waits in the queue of the
\* dispatcher (iotc_user_sub_call_wrapper reads its topic).
SubscriptionIsThere ==
  IsRunning("callback", "CONTROL") /\ Running.data.task \in Subscribes /\ Running.state = "OK"
    => Running.data.task \in Range(handlers_for_topics)

\* Each member of shown is one of came, in the same order, and none is there twice.
IsSubsequence(shown, came) ==
  \E place \in [DOMAIN shown -> DOMAIN came] :
    /\ \A i, j \in DOMAIN shown : i < j => place[i] < place[j]
    /\ \A i \in DOMAIN shown : shown[i] = came[place[i]]

\* A publish of QoS 0 is shown to the application once.  One of QoS 1, which the
\* server may send again, is shown at most once for every copy that arrived, in the
\* order in which the copies arrived, and when its PUBACK is written.
ShownOnceInOrder ==
  LET ofQ1(publishes) == SelectSeq(publishes, LAMBDA d : d \in ServerQ1)
  IN  /\ \A d \in ServerQ0 : countIn(delivered, d) <= 1
      /\ IsSubsequence(ofQ1(delivered), ofQ1(arrived))
      /\ Range(ofQ1(delivered)) \subseteq received

\* A publish that is reported to have succeeded did: the server received it, and
\* acknowledged one of QoS 1.
OkIsDelivered ==
  \A t \in Publishes :
    "OK" \in Range(outcome[t]) => t \in received /\ (t \in Q1Publishes => t \in answered)

\* No publish and no subscribe is reported twice for one call of the API.
ReportedOnce == \A t \in Requests : Len(outcome[t]) <= 1

\* The state the application sees is that of the layers: an open connection has
\* its socket and its layers, one that ended has nothing left of them, not a
\* task, a timeout or a message.
StateIsThatOfTheLayers ==
  Quiet =>
    /\ connection_state = "OPENED" =>
         socket = "OPEN" /\ user_data = {"IO", "CODEC", "LOGIC"}
    /\ connection_state \in {"UNINITIALIZED", "CLOSED", "OPEN_FAILED"} =>
         /\ socket = "NONE" /\ on_socket = NULL /\ user_data = {}
         /\ timers \subseteq {"connect_handler"}
         /\ Allocated = {} /\ task_queue = <<>>
         /\ handlers_for_topics = <<>> /\ q12_recv_tasks_queue = <<>>

\* The first connection of a context is reported as what it was: one that never
\* opened as failed, one that did as open before anything else.  Of a later one
\* this cannot be said: the end of its predecessor may be told a second time.
ReportsTellTheStory ==
  connects = 1 /\ reports # <<>>
    => Head(reports) = (IF opened THEN "OPENED" ELSE "OPEN_FAILED")

\* No assertion fails and no freed task is used.
NoAssertionFails == phase # "aborted"

\* A subscription that waits to be sent again is resumed by its timeout and by
\* nothing else (the assertions of do_mqtt_subscribe).
RetryIsResumedByTimeout ==
  IsRunning("task", "LOGIC") /\ cs[Running.data.task] = "RETRY" => Running.state = "RESEND"

\* A publish the server received is reported, whatever ended it (the callback of
\* iotc_publish is to be called when the message is delivered or is not): the
\* tasks iotc_mqtt_logic_layer_close_externally finds waiting are not.
DeliveredIsReported ==
  \A t \in Publishes : t \in received /\ cs[t] = "FREE" /\ Quiet => outcome[t] # <<>>

-----------------------------------------------------------------------------
(* Liveness.                                                               *)

\* A socket that is waited for to connect or to be written.
WaitedFor == on_socket # NULL /\ on_socket.fn \in {"connect", "push"} /\ Ready

Written == IoPush /\ UNCHANGED <<codecVars, logicVars, appVars>>

Loop == SkipSockets \/ TimersDone \/ QueueDone

\* The time event t is about to be restarted: the keepalive by a message that is
\* written, an I/O timeout by bytes that are read.
PutsOff(t) ==
  \/ t = "keepalive_event" /\ RestartsKeepalive
  \/ t \in io_timeouts /\ IsRunning("pull", "IO") /\ CanServe("IO") /\ wire # <<>>

\* A time event that is neither cancelled nor put off is due some time.
\* (SF_vars(TimerDue(t)) would say more: that a timeout armed and cancelled again and
\* again fires some time.)
TimersPass ==
  \A t \in TimeEvents :
    []<>(t \notin timers) \/ []<>PutsOff(t) \/ []<><<TimerDue(t)>>_vars

\* The loop goes on and handlers return; a time event is due some time, a socket
\* ready some time, and not busy forever.
LiveSpec ==
  /\ Spec
  /\ WF_vars(Handlers) /\ WF_vars(Loop)
  /\ SF_vars(WaitedFor) /\ SF_vars(Written)
  /\ TimersPass

\* A connection attempt is reported some time, to have succeeded or to have failed.
AttemptIsReported ==
  connection_state = "OPENING" ~> reports # <<>> \/ phase = "aborted"

\* A connection that is shut down is closed some time.
ShutdownCompletes ==
  shutdown_state = "STARTED" ~> connection_state = "CLOSED" \/ phase = "aborted"

\* A request of the application is written to the socket.
RequestWritten ==
  /\ IsRunning("push", "LOGIC") /\ Running.state = "WRITTEN"
  /\ Running.data.type \in {"PUBLISH", "SUBSCRIBE"}

\* A connection stays open forever only if its server goes on answering, or if requests
\* are written forever, by an application that goes on publishing or because they are
\* sent again: with nothing to write but the keepalive a server that is dead is noticed.
OpenMeansAlive ==
  <>[](connection_state = "OPENED" /\ phase # "aborted") =>
    []<>IsRunning("pull", "LOGIC") \/ []<>RequestWritten
=============================================================================
