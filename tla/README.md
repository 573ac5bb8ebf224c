# A TLA+ model of the IoT Device SDK for Embedded C

This directory models the core of `iot-device-sdk-embedded-c`: the library a
device uses to hold one MQTT connection to Google Cloud IoT Core. Paths below
are relative to `src/src/libiotc/` unless they start with `src/`.

## 1. The system

The library is a single-threaded reactor. An application creates a context,
asks it to connect, and hands control to `iotc_events_process_blocking`, or
calls `iotc_events_process_tick` in its own loop. From then on everything that
happens is a handler the **event dispatcher** calls: a time event that is due,
a queued call, or a socket that became ready. Layers of the protocol stack
never call each other: a layer asks the dispatcher to call its neighbour
(`iotc_layer_api.c`). Handlers that wait (connect, publish, keepalive, reading a
file) are coroutines (`iotc_coroutine.h`): a saved position, resumed by the next
event. The hard behaviours are therefore the orders in which handlers run, what
a handler may do to the structure that is calling it, operations that fail in
the middle, and state that outlives the object it was about.

### Components

| Component | Code | State | Operations | Talks to |
|---|---|---|---|---|
| Time event container | `event_dispatcher/iotc_time_event.c`, `datastructures/iotc_vector.c` | a sorted vector of events, each knowing its position; handles pointing at positions | add, take the top, cancel, restart | dispatcher |
| Event dispatcher | `event_dispatcher/iotc_event_dispatcher.c` | the container, the call queue, the on-empty handler, the watched sockets, the last step | execute, execute_in, cancel, restart, step, stop | everything |
| Event loop | `event_loop/iotc_event_loop.c` | the array handed to select | build the array, select, call the ready sockets | dispatcher, sockets |
| Backoff | `iotc_backoff_status_api.c` | an index into the penalty table, a class, one cooldown event; global | update on a result, decay, delay for an attempt | dispatcher, MQTT logic, contexts |
| Timed tasks, handles | `iotc_timed_task.c`, `iotc_handle.c` | a table of tasks indexed by handle | add, remove, run | dispatcher, application |
| Contexts, public API | `iotc.c`, `iotc_globals.c` | counted globals, the table of contexts, `connection_state` | create, connect, publish, subscribe, shut down, delete | layers, application |
| Layer chain | `iotc_layer_api.c` and others | per layer a state and its data | init, connect, push, pull, close, close_externally, post_connect | dispatcher |
| Network layer | `io/net/iotc_io_net_layer.c` | a socket and a connect coroutine | connect, read, write, close | event loop, codec |
| I/O timeouts | `iotc_io_timeouts.c` | a vector of pending timeouts | create, remove, restart on every read | dispatcher, logic |
| TLS layer | `tls/iotc_tls_layer.c` | handshake coroutine, buffers of records and of decoded data | load certificates, handshake, read, write | network, codec, resource manager, bindings |
| TLS bindings | `src/src/bsp/tls/` | the library's session | init, connect, read, write, pending, cleanup | TLS layer, the library |
| MQTT codec | `mqtt/codec/` | the queue of messages being written, a parser | push, pull, confirmations | network, logic |
| MQTT logic | `mqtt/logic/` | task queues by QoS, the task in flight, keepalive, subscriptions | connect, publish, subscribe, keepalive, shut down | codec, control, application |
| Topic matching | `iotc_user_sub_call_wrapper.c`, `mqtt/logic/*data_helpers.h` | none | match a topic with a filter | logic |
| Control topic | `control_topic/` | none | the top of the chain: reports to the application | logic |
| Resource manager, file systems | `io/fs/` | an open resource and a coroutine | open, read, close | dispatcher, TLS |
| Memory limiter | `debug_extensions/memory_limiter/` | bytes allocated, limits, list of entries | alloc, realloc, free | everything |
| Threads | `platform/posix/iotc_thread/` | worker threads, each with a dispatcher | submit, stop, join | dispatcher |
| JWT, crypto, board support | `iotc_jwt.c`, `src/src/bsp/` | none kept | sign; sockets, clock, random numbers | |

### What makes each correct

* **Container**: sorted; every event knows its position and every handle leads to
  its own event; nothing but the event an operation is about changes place.
* **Dispatcher**: an event is served once, not before its time, the most urgent
  first, never while another handler runs; the event whose handler is running is
  out of the reach of what the handler does; nothing waits for ever; nothing leaks.
* **Backoff**: the delay stays in its range, grows while errors follow one another,
  shrinks only after a full quiet cooldown, and does shrink for a healthy device.
* **Timed tasks**: a removed task never starts again and is freed; a task on the
  stack is not freed; a repeating task repeats; a handle means the same task until
  it is removed.
* **Event loop**: a handler that changes the sockets does not make the loop call
  another socket's handler.
* **Connection life cycle**: `connection_state`, the state of each layer and the
  socket agree when nothing is queued; every connect attempt is reported; a
  context can connect again after any ending; no publish or subscribe is reported
  twice, and none as successful that was not delivered.
* **MQTT logic**: one QoS 0 message in flight; a QoS 1 publish is reported as
  successful only after its acknowledgement; a timeout belongs to a task that is
  waiting; a confirmation finds the task it is about.
* **Received publishes**: each is shown to a subscription that exists, once and in
  order, and acknowledged, whatever ids the client uses for its own messages.
* **TLS layer**: what is delivered is the server's stream and what is written is the
  application's, whole and in order; decoded data is not left behind; an attempt
  ends whatever fails, and leaves no file, buffer or session.
* **Resource manager**: the callback comes once per request; the data delivered is
  the resource; a request ends.
* **Memory limiter**: the bytes counted are the bytes allocated, under the limit, and
  the application never takes the reserve of the system.
* **Contexts**: every context has its dispatcher and one handle; the globals live as
  long as the last context, whichever creation failed.
* **Threads**: a handler accepted before the pool is destroyed runs, once.

`PROJECT.json` lists every component with its status, and under `hazards` what is
hard to test in this code, each at its line with the properties that watch it.

## 2. Plan

Done, in this order:

1. Timers: `TimeEvents`, `EventDispatcher`, the abstract `TimerService`; all of their
   safety is proved, the refinement included.
2. `Backoff`, and `Contexts`, which composes it with the life of contexts and their
   globals; proved.
3. `TimedTask`; proved.
4. The client: `LayerChain`, `NetLayer`, `MqttCodec`, `MqttReceive`, `MqttLogic`,
   and `MqttClient`, which composes them with the application.
   Of the requests of the application it is proved that each has one owner and is
   reported at most once.
5. The connection over TLS: `FileSystem`, `ResourceManager`, `TlsBindings`,
   `TlsLayer`, and `TlsClient`, which composes them with `NetLayer` and `MqttCodec`. Which of its
   assertions can fail, the memory its handlers use, that nothing is stuck, that nothing is
   left and that what is written is received are proved.
6. `MemoryLimiter`; its invariants are proved.

Left:

* the thread pool; the event loop with several dispatchers and sockets;
* the packet parser and serialiser, as functions of byte sequences;
* sessions that continue over connections; API calls from timed tasks;
* an abstract client (an attempt, an open connection, an end; each publish sent,
  acknowledged, reported) that `MqttClient` implements;
* the life of a connection as an invariant, from which `OwnTasksInTurn` and
  `StateIsThatOfTheLayers` would follow.

## 3. The modules

### Timers, contexts, memory

* `TimeEvents.tla` - the container. `array`, `elem_no` and `capacity` are the
  vector, with its `int8_t` capacity (`IndexMax` is the largest value of the
  type). `position` and `time_event_handle` are fields of `iotc_time_event_t`,
  `ptr_to_position` is the handle's pointer, `allocated` the events not yet freed.
  Actions: `Add`, `AddFails`, `GetTop` (with the move to the end and the bubbling
  down that follow), `Cancel`, `Restart`, `Free`.
* `EventDispatcher.tla` - the dispatcher over the container. `phase` says what
  the dispatcher is doing and `running` whose handler is on the stack. While a
  handler runs every operation may be called; between two steps the
  application may call them. One step is `current_step := now`, then time
  events that are due, then queued calls until the queue is empty, then the
  on-empty handler.
* `TimerService.tla` - what users of timers are promised, with no vector and no
  phases. `EventDispatcher` implements it under the mapping `due` = the time of
  every event in the vector, `step` = `current_step`, `serving` = the event
  whose handler runs.
* `Backoff.tla` - `backoff_lut_i`, `backoff_class` and `next_update` of
  `iotc_globals.backoff_status`; the delay drawn for every connection attempt
  is kept in `attempt`. Time is a count of seconds left to the cooldown. `lost`
  records that the cooldown event could not be added, or went with the last
  context.
* `Contexts.tla` - EXTENDS `Backoff`: creating and deleting contexts (`iotc.c`,
  `iotc_handle.c`) with the allocations that may fail on the way, the count of the
  globals, the table of handles, and the attempts and reports of every context's
  connection, each of which is a step of the shared backoff status. A context may be
  deleted at any time; `leftover` says that something of its connection still waits in the
  dispatcher, which ends the program when it runs.
* `TimedTask.tla` - the handle table (`slots`, `elem_no`), the task cells, the
  events waiting in the dispatcher, and the task on the stack. The dispatcher is
  reduced to "any waiting event may be next", which includes what it does.
* `MemoryLimiter.tla` - the entries of allocated blocks, the bytes counted and the
  two limits. Allocating, resizing and freeing hold one critical section and are one
  action; `iotc_memory_limiter_set_limit` takes no lock and is three. The list of
  debug builds and the walk of the leak collector over it are part of the model.

### The client

* `LayerChain.tla` - what the layers share. A handler is a record (function,
  layer, data, `in_out_state`); one that is called directly goes on `stack` and
  runs before its caller goes on, any other goes to `queue`. `Returns` is the end
  of a handler: it pushes, queues, and gives the layer the state that
  `get_next_layer_state` derives from what it asked for. `timers` is the set of
  time events that wait; `dangling` says that an event or an I/O timeout still
  refers to a freed task.
* `NetLayer.tla` - the network layer, its socket and the server at the other end:
  `on_socket` is the handler `iotc_evtd_continue_when_evt_on_socket` registered,
  `wire` the answers that travel. The server may answer or not, the socket may
  fail, be busy or be reset at any time.
* `MqttCodec.tla` - the queue of messages being written (`task_queue`), how far the
  first one is (`push_cs`), the confirmations, and what reading passes on. Packets
  are records; the parser may reject what it reads.
* `MqttReceive.tla` - the publishes of the server: matching a topic with the
  filters (`match_topics`, with its lengths of eight bits), the queued callback of
  the subscription, the PUBACK and the queue of tasks that waits for its
  confirmation.
* `MqttLogic.tla` - the tasks. `cs` is the position of each coroutine: an action is
  the code from one yield to the next, one action for each way it can go. The
  queues, the task in flight and the message ids are variables of the same name as
  the fields.
* `MqttClient.tla` - the control layer, the application and the loop, composed with
  the layers: `iotc_connect_to`, `iotc_publish`, `iotc_subscribe` and
  `iotc_shutdown_connection`, called outside the loop or inside a callback (the
  handler `user` is then on the stack), the user's callbacks, and the three parts
  of a tick (sockets, time events, queued calls). `iotc_user_sub_call_wrapper` is two
  handlers, `callback` when it tells the answer to a subscription and `message` when it
  shows a publish: the code tells them apart by its data. `ClientAssumptions` names the
  four layers and says that no request has the name of one of the client's own events.

A message record carries `owner`, the task that sent it. The code has no such
field and no guard of the model reads it: `MessagesFindTheirTask` compares it with
the task the code finds by `msg_id`.

`iotc_mqtt_logic_layer_close_externally` runs the coroutine of the current task in
its middle; it is two actions, `LogicCloseExternally` and `LogicCloseRest`, with
that coroutine on the stack between them. Nothing else can run there.

### The connection over TLS

* `FileSystem.tla` - the file systems in memory and of POSIX: each function is the
  set of results it may return, with the number of open files.
* `ResourceManager.tla` - open, read and close as coroutines; `rm` is the context
  with the callback of the one request, `file_fds` the handlers that wait for the
  file in the dispatcher.
* `TlsBindings.tla` - the functions of the mbed TLS and wolfSSL bindings: which
  result of the library becomes which state. The library is the least that is a TLS
  client: a script of flights to write and read, and records of two units of data that
  arrive in two parts. Of the library only this is external; the mapping of results
  is the code of the binding.
* `TlsLayer.tla` - the layer. `logic_handler` is what
  `tls_layer_logic_{recv,send}_handler` points to, `raw_buffer` what was received and
  not taken, `to_write_buffer` the record under way, `write_state` the state that
  tells the library to wait. The handler that called the library stays on the stack
  while the library calls back, one action for each call back.
* `TlsClient.tla` - the chain of network layer, TLS layer, codec and a layer `USER`
  that opens, sends and closes whenever the layers above might.

### Small instances and proofs

`MC*.tla` are the small instances. `TimeEventsProofs.tla`, `EventDispatcherProofs.tla`,
`ContextsProofs.tla` (with those about `Backoff`), `TimedTaskProofs.tla`,
`MqttClientProofs.tla`, `MemoryLimiterProofs.tla`, `TlsClientProofs.tla` and, on top of the
last, `TlsWrittenProofs.tla` hold the theorems.

History variables record what properties refer to, and no guard of the code's
actions reads them: `quiet`, `attempt`, `lost`, `cancelled`, `received`, `answered`,
`opened`, `reports`, `outcome`, `arrived`, `sent`, `confirmed`, `delivered`, `raced`.
`connects` and `failed` count for the bounds `MaxConnects` and `MaxFailed`.

## 4. The runs

| Run | Question | Answer | States |
|---|---|---|---|
| `dispatcher` | is the vector sorted, with positions and handles that agree, under handlers that change it while they run; does the step implement `TimerService`; is the running event private; is every event served, whatever handlers add and queue for ever? | yes, unless stopped or a step never ends | 303,580 |
| `contexts` | does every context keep its handle and its dispatcher, whatever is created, fails or is deleted; is the shared penalty earned, and does it end? | yes, unless the cooldown event is lost | 533,749 |
| `timed_task` | is the task on the stack safe, does a removed task stay removed and get freed, is a handle stable, also when the dispatcher refuses an event? | yes | 9,223 |
| `mqtt_requests` | over two connections with a publish of each quality, keepalives and a shutdown: has each task one owner, is each waiter woken, is what the application is told true? | yes | 675,614 |
| `mqtt_server` | with a subscription and publishes of the server that use the ids of the client, interleaved and sent again: does each answer find its task, is each copy shown at most once and in order, is the subscription there when its callback runs? | yes | 327,297 |
| `mqtt_live` | is an attempt reported, does a shutdown complete, does a silent server close the connection, also of an application that publishes again and again? | yes, unless it puts the keepalive off for ever | 116,773 |
| `tls` | two connections over TLS with either library and either file system, failing where the model lets them: which assertions fail, are the streams whole, is nothing stuck, is nothing left, does an attempt end? | two assertions; a payload mbed TLS cuts; otherwise yes | 366,390 |
| `memory` | is what is counted what is allocated, is the reserve left, what breaks the list of debug builds? | yes; nothing but two ways of resizing | 526,790 |
| `mqtt_reconnect_aborts` | is a reconnection from the callback of a lost connection safe? | no (finding 1) | |
| `mqtt_reports` | is every delivered publish reported? | no (finding 2) | |
| `mqtt_suback` | is a subscription that waits for its resend resumed by nothing else? | no (finding 3) | |
| `tls_read_errors` | does an attempt end whose certificate cannot be read? | no (finding 4) | |

TLC also evaluates the assumptions on constants: `TopicsMatch` compares `match_topics`
with a definition of what a filter matches, on all short topics.

### Findings

1. `iotc_mqtt_logic_layer.c:575`: when a connection is lost before its CONNACK, the
   clean-up cancels the timeout of the connect task in the dispatcher but leaves
   its handle in `io_timeouts`, then frees the task that holds it. The next
   connection's first read restarts "every I/O timeout" through that pointer. The
   user guide calls the reconnection from the callback safe.
2. `iotc_mqtt_logic_layer.c:600`: tasks that wait when a connection ends are freed
   without their callback, a publish the server received among them; `iotc.h`
   says the callback is invoked when the message is delivered or is not.
3. `iotc_mqtt_logic_layer_subscribe_command.h:92`: a SUBACK read in the tick of its
   timeout meets a coroutine that has just sent again, is taken for a failed write,
   and the confirmation of the second copy then resumes a task that waits for its
   resend, against the assertion on line 98. If that second copy is confirmed
   only after the resend, the task is finalized without a report and written to
   after it is freed.
4. `io/fs/iotc_resource_manager.c:285`: a read that delivered less than the whole file
   is followed by another, also when it failed: the error is overwritten with
   `IOTC_STATE_WANT_READ`. A certificate that was cut after it was looked up is read
   for ever and the attempt to connect never ends.

Met on the way, and not stated as runs because the model would only repeat the line:

* `iotc_timed_task.c:184`: a repeating task whose event cannot be added again stays
  `SCHEDULED` with no event and keeps its slot; only an assertion stands in the way.
* `iotc.c:267`: the backoff cooldown goes with the last context, and the penalty it
  would have ended stays.
* `iotc.c:257`: deleting a context looks neither for a delayed connect nor at the
  connection. With other contexts in the dispatcher the event, or the socket, of the
  deleted one is served with freed layers; `include/iotc.h:165-168` asks to disconnect
  first.
* `iotc.c:116`: the globals are counted before anything can fail, and a creation that
  fails does not uncount them: `GlobalsAreCounted` counts those creations too.
* `debug_extensions/memory_limiter/iotc_memory_limiter.c:258`: in debug builds a
  block that is resized is put in front of the list with the `prev` of its old place.
  If it was not the newest, the list is broken: freeing meets the assertion on line 325
  or follows a pointer to a freed block. A block that the platform has no room to resize
  stays out of the list. `OnlyResizingBreaksTheList` says that nothing else does, from a
  whole list.
* `mqtt/logic/iotc_mqtt_logic_layer.c:136`: every message that is written restarts the
  keepalive, and the only thing that notices a server that is gone is a PINGREQ without an
  answer. An application that publishes at QoS 0 more often than the keepalive timeout puts
  the PINGREQ off for ever, and so do two publishes of QoS 1 without an answer whose
  resends fall between each other's. MQTT lets messages stand for the PINGREQ, but then
  nothing asks for the answer. `OpenMeansAlive` says that a connection with a silent server
  ends unless messages are written again and again; TLC shows it violated without the
  exception (`Repeated` = {p0}).
* `mqtt/logic/iotc_mqtt_logic_layer_publish_handler.h:141`: an assertion says that a
  publish of QoS 1 does not come while the PUBACK of its id is being sent. Two copies in
  one read meet it; `mqtt_server` reaches it, and `ShownOnceInOrder` is about what happens until then.
  MQTT 3.1.1 has a server send a publish again in a new connection only, so that the
  hazard is a server of the version before, or one with a fault.
* `io/fs/iotc_resource_manager.c:332`: closing asserts that the data buffer is there. A
  read of an empty file in the POSIX file system ends with an error and no buffer, so a
  certificate file of no bytes meets the assertion (`FileSizes` has 0).
* `tls/iotc_tls_layer.c:102`: the callback through which the library sends sets
  `tls_layer_write_state` to WRITING and then looks for memory for the record. When there
  is none the state stays, with the coroutine of the callback at its start (`"LOST"` in
  the model), and the next record - a later message, or the alert of the clean-up - meets
  the assertion on line 101. `AssertionsAreKnown` says that this one and the one above are the
  only assertions that fail, and after what.
* `tls/iotc_tls_layer.c:248`: the loop over the library's writes ends with the first that
  succeeds, and the buffer is reported written. `mbedtls_ssl_write` succeeds when it has
  written one record, so that the rest of a payload that is longer than a record is dropped;
  `CyaSSL_write` goes on by itself. `WrittenIsReceived` says that nothing else is lost
  (`IsCut` is this case), and the run has such a payload with both libraries.
* `tls/iotc_tls_layer.c:500`, `:562`: read in the code and left out of the model: when the
  dispatcher has no memory for the request to read, the file stays open, and when it has none
  for the request to close, nothing resumes the init of the layer.

### Hazards without a property

Code that is hard to test and that no property watches, with the reason:

| Where | What | Why |
|---|---|---|
| `event_dispatcher/iotc_event_dispatcher.c:206` | an event whose push fails is not released | one line; nothing else notices a leak |
| `event_dispatcher/iotc_event_dispatcher.c:211` | delays count from the last step, not from the call | as modelled; no document says which |
| `event_dispatcher/iotc_event_dispatcher.c:378` | queued calls run after the time events of a step, in order | the phases are the guards of the model; `TimerService` says nothing of calls |
| `iotc_timed_task.c:178` | a repeating task that cannot be scheduled again is lost in its slot | the code goes wrong, no document promises anything; proved to be the only way |
| `iotc_timed_task.c:85` | an early exit leaves the container locked | threads are off by default |
| `mqtt/logic/iotc_mqtt_logic_layer_task_helpers.h:132` | message ids wrap to 0, the id of "none" | 65,536 messages; modelled modulo 2^16, not reached |
| `mqtt/logic/iotc_mqtt_logic_layer_subscribe_command.h:187` | a confirmation finalizes a subscription without a report | the continuation of finding 3 |
| `mqtt/logic/iotc_mqtt_logic_layer.c:508` | the end of a connection may be told twice | modelled; the state of the layers is what `StateIsThatOfTheLayers` states |
| `iotc.c:404` | a connect from a timed task that runs after `connect_handler` of another was served and before its first handler ran: neither guard sees the first, and the chain is opened twice | the runs call from callbacks and outside the loop (`AppPhases`); with `"timers"` in `AppPhases` and two connects the second starts over a chain in use, where the model no longer says what the code does |
| `mqtt/logic/iotc_mqtt_logic_layer_task_helpers.c:55` | a task queued while a connection opens is started later | `WaitersAreWoken` speaks of tasks that were started |
| `io/net/iotc_io_net_layer.c:156` | a send buffer that stays full keeps the PINGREQ from being written | the fairness assumes that a socket is not busy for ever |
| `mqtt/logic/iotc_mqtt_logic_layer_publish_handler.h:155`, `:66`, `:141` | PUBACK before the callback; a publish before its SUBACK; an assertion on duplicates | as modelled; the order of acknowledgement and callback is promised nowhere, the assertion is in the list above |
| `mqtt/logic/iotc_mqtt_logic_layer_data_helpers.h:48` | lengths of eight bits | modelled; topics of 256 characters are out of TLC's bounds |
| `src/src/bsp/platform/posix/iotc_bsp_io_fs_posix.c:236` | a `read()` that returns -1 is taken for a huge number of bytes with the state OK | left out: what `iotc_resource_manager.c:251-280` then does is not defined. `FileErrors` = {"read"} stands for a file that was cut, where `read()` returns 0 |
| `tls/iotc_tls_layer.c:656`, `:158` | a close that fails is tried for ever; a handshake has no timeout of its own | the first shows with `FileErrors` = {"close"} as a violation of `ClosesEnd`, and is near to finding 4; no document promises the second |
| `iotc_layer_api.c:100` | a call of a neighbour for which there is no memory is not queued | calls between layers are always queued in the models; whoever waits for such a call would wait on |
| `debug_extensions/memory_limiter/iotc_memory_limiter.c:98`, `:211`, `:418` | the limits are set in three steps without the lock; the product of calloc overflows; the collection of an empty list returns with the lock held | the steps are modelled, and `ReserveIsLeft` exempts what is taken between them (`raced`); sizes are small; threads are off by default |
| `iotc.c:121`, `iotc.c:161` | a creation returns OK when backoff could not be configured, or leaks | the leak is of memory that no state refers to |
| `event_loop/iotc_event_loop.c:186` | handlers change the sockets that are walked | several dispatchers are in the plan |
| `platform/posix/iotc_thread/iotc_thread_posix_workerthread.c:107` | submissions racing with the stop | threads are in the plan |

### Bounds

* Dispatcher: four events, the least that give an inner element two neighbours on
  both sides while one is moved; one handle; `IndexMax` = 3, so that the index type
  ends the growth of the vector; one call that waits (`MaxQueue`) beside the one that
  runs; the seconds 0 and 1. What handlers call is not bounded: they may add, restart,
  cancel and queue for ever. `EventsAreServed` is stated of one event, since all are
  alike.
* Contexts: three cells and a table of two handles, so that a creation is refused;
  one creation fails (`MaxFailed`), which is enough for the count never to come back;
  a table of four entries, with the index at both ends and between; `MaxQuiet` is the
  longest cooldown. `Failures` leaves out a dispatcher that cannot be
  allocated, after which a later context has none: the theorems say which of them
  need that.
* Timed tasks: three cells and three slots, a slot is reused and scheduling may fail.
* Client: `MaxConnects` connections (two where what is left over matters, one
  elsewhere), one publish of each quality or one subscription with a publish of QoS 0
  and two of QoS 1. `MaxWire` messages travel to the client at a time: one where they
  are answers, two in `mqtt_server`, so that one read brings two publishes or two copies of
  one; a publish of QoS 1 is sent again until its PUBACK is received. A request is made
  once, but for the publish of QoS 0 of `mqtt_live`, which is made again whenever it was
  reported (`Repeated`). Message ids keep their 16 bits. Resends are not bounded.
  `KeepaliveTimeout` = FALSE, in `mqtt_server` and `mqtt_reconnect_aborts`, stands for a connection
  without keepalive, which has no resends of the client either.
* TLS: two connections, so that what the first leaves meets the second; handshakes
  that end by reading and by writing; a file of two units, so that a read is
  continued, or of none; records of two parts and two units, of which one fits in the buffer;
  `MaxWire` = 4 parts under way; a publish whose payload is two records (`LongPayloads`)
  and a message without one.
* Memory: three blocks of sizes one and two, with a header that counts as one, so that
  both limits are met from both sides. The blocks are symmetric.

Deadlock is not checked for the clients: connections and requests are used up, a
client without a connection rests, and the program may abort. Contexts and the memory of
debug builds may abort too.

### Fairness

* `EventDispatcher`: weak fairness of the dispatcher's own progress and of the
  passing of time. An application that wants its connection alive calls
  `iotc_events_process_tick` for ever, or is inside `iotc_events_process_blocking`,
  and handlers return. A handler that queues itself, or an event that is due at once, in
  every call keeps the step from ending (line 412): `EventsAreServed` has the premise
  that steps end again and again, without which TLC shows it violated. Nothing else is
  assumed about the calls handlers make.
* `Contexts`: the same of time and of the cooldown that is due; `PenaltyEnds` is
  about behaviours in which errors stop and no freed context is called.
* `TimedTask`: callbacks return, and an event that is not cancelled is served.
* `MqttClient`: weak fairness of the handlers and of the loop. `TimersPass` says that
  a time event is cancelled again and again, or restarted again and again (`PutsOff`: the
  keepalive by a message that is written, an I/O timeout by bytes that are read), or is
  due again and again: a tick may pass its phase many times before the event is due, but
  not for ever (`EventsAreServed`). Strong
  fairness of the event itself would say more than the code does: the keepalive
  timeout is armed and cancelled in every cycle, and would have to fire though the
  server always answers. A socket that a handler waits for, to connect or to write,
  becomes ready some time or fails, and a write does not find it busy for ever.
  Nothing is assumed about the server: it may never answer and never close, which is
  what `AttemptIsReported` and `OpenMeansAlive` are about.
* `TlsClient`: the same, without timeouts. `RequestsEnd` is about the requests the layer
  makes of the file, `ClosesEnd` about closing; an attempt that waits for a silent
  server is ended by nothing in this layer, and no property says it is.

## 5. The proofs

`TimeEventsProofs` proves, for any sets of events and handles and any index type,
that `IInv` is inductive: the type invariant, that every position in use holds an
event which knows it, that handles and events point at each other, and that the
vector is sorted. `Sorted` alone is not inductive: the bubbling moves the event
found through `position`, so the operations keep order only when positions agree,
and positions agree only when no event is twice in the vector and every handle's
event is in it. `OrderIsStable` and `AddedRunsLast` are action properties of the
same invariant. The lemmas are stated of one operation from a state of the invariant,
so that they serve the dispatcher as well, where an operation is not a step.

`EventDispatcherProofs` composes: `DInv` is `IInv`, the types of the dispatcher,
`current_step <= now`, that the running event fits the phase, and
`RunningEventIsPrivate`. The last is what lets a handler change the container: the
event on the stack is allocated, but no handle and no entry leads to it, so no
operation the handler calls can restart, cancel or free it. `Implements` is the
refinement: the initial states map to those of `TimerService`, and every step to the
action of the same name, or to a stutter. The lemmas say what each container
operation does to the set of waiting events and their times; the one that takes the
top event needs `Sorted`, since the service asks for the most urgent one.

`ContextsProofs` has two parts. The first proves about `Backoff`, for any tables, the
type invariant, the range of every delay, that the index falls only after the cooldown
of its entry has passed with no error (the strengthening `CooldownRuns` relates the
event to the quiet time), and that a positive index has its cooldown scheduled unless
the event was lost: the safety half of `PenaltyEnds`.

The second proves that contexts take no step the backoff status does not take
alone (`CSpec => Spec`), so that what the first proves holds for any number of contexts
that come and go. `CInv` is inductive: the handles in the table are those of the
contexts that exist, each once; while there is one there is a dispatcher; and the
count is the number of contexts and of failed creations. The count is needed because
only its fall to zero takes the table away: without it, deleting one context could
leave another with no handle. `GlobalsAlwaysCounted` assumes that the dispatcher can
be allocated (`"DISPATCHER" \notin Failures`); `ContextsAlwaysReached` does not.

`TimedTaskProofs` has two parts. Whether or not scheduling fails, `IInv` is
inductive: types, slots beyond `elem_no` are empty, `RunningAgrees`, a waiting event
belongs to a scheduled task, and the tasks that were removed are those that are free
or `DELETABLE`. The last two are what `RemovedNeverStarts` needs: an event is only
served for a scheduled task, and a removed task is never scheduled. `HandlesAreStable`
follows because a registration takes an empty slot and a deletion frees the
task it clears. When scheduling never fails (`~CanFail`), `WaitingAgrees`,
`SlotsAgree` and `RepeatsUntilRemoved` hold too, each on top of `IInv`: no run checks
them, since the run lets scheduling fail and the first line of the list of section 4
is then reached.

`MemoryLimiterProofs` is about any sizes and any number of blocks. The count is a sum,
which would be an induction; but a block of n bytes is n pairs of the block and a number,
so `Bytes` is a set and the count its cardinality, and allocating, resizing and freeing
add, replace and take away disjoint parts of it. In the same way `ListIsWhole` speaks of
the sets that contain the head and are closed under `next` instead of a walk. `IInv` is
the types; that the count is the cardinality; and what `iotc_memory_limiter_set_limit`
has found between its three steps, on which `ReserveIsLeft` depends. It says nothing of
the list, so that these theorems hold whatever becomes of it. `TheListIsKept` is about
one step from a whole list: linked both ways, with every block in every such set and the
collector at one of them. Putting an entry in front and taking one out keep it so; that
the collector finds a last block rests on a count, since otherwise `next` would map the
blocks one to one into those that are not the first.

`MqttClientProofs` is about any number of requests, connections and messages, any
answers of the server, and any place from which the application may call. `Shape` says
what the handlers on the stack and in the queue may be: in particular, a coroutine is
resumed only by a direct call, and below the running handler there is at most the rest of
`close_externally`. `Safe` is said of one task at a time, which makes it inductive for
every task alone: its references are one if it is allocated and none if not; if its
timeout waits or its coroutine is on top of the stack, the layer holds it (it is
`current_q0_task` or in `q12_tasks_queue`); and the reports of it, told and queued
together, are at most one since it was last asked for, and none while it is allocated. A
request may be made again when it was reported and freed (`MayBeMade`): no report of the
last time can then be waiting. There is one moment at which
the last is not so: do_mqtt_publish_q0 queues the report and then calls
iotc_mqtt_logic_layer_run_next_q0_task, which frees it; `ToldOnce` names it. References
and reports are cardinalities of sets of positions in sequences: the first lemmas say how
these add over concatenation, Head and Tail, and what RemoveFirst takes away; `Balance`
says it of the stack and the queue when a handler returns, and each action of the client
is then a sum of ones and zeros. The resumption of a coroutine is the part that needs
the whole invariant: a task that is held has no other reference, so that freeing it
leaves none.

The theorems need no hypothesis where they speak of the requests of the application,
publishes and subscribes. The three tasks of the client's own are made again and again,
by `iotc_mqtt_logic_layer_connect`, the keepalive event and `iotc_shutdown_connection`,
and `TasksInTurnHaveOneOwner` assumes `OwnTasksInTurn`: that none of them is made while it
is still allocated. The runs would show `TasksHaveOneOwner` violated otherwise. To prove
it needs the life of a connection: that handlers which open the chain never meet one
that is open. That rests on the order of the queue over several layers, and on the
application not calling `iotc_connect_to` in the time events of the same tick (the line
on `iotc.c:404` in section 4), so it stays with TLC.

`TlsClientProofs` is about any handshake, any messages and answers, the
failures that are modelled - those of the file, of the library, and of allocating the
layer's data, the context and the first request of the resource manager, a record and the
decoded buffer - and an end of the connection at any moment.
`IInv` has the following parts. `Shape`: the stack holds one handler at most, so the one that
runs is the one the queue was taken from, and between two turns of the loop only what the
user asks for is queued. `Alone`: while the connection is opened there is one handler at
a time, and none while the socket connects. `Down`: the layers are initialized from the top
and go from the bottom, so a layer that is there has those above it. `Paths`: at
most one handler is under way between the library's write and the socket, and one
between the codec and the TLS layer; without that a second record would find a buffer in
use. `Files` and `Session` relate the context of the resource manager, the session and
the buffer to how far the layer is. `Fits` says of every handler that is called or
queued that it agrees with all of this: what it was queued for is still so when
it runs. Most of `Fits` is needed only because a layer is told of its end by a handler
too, behind others that were queued before: `Flow` and `FlowHandlers` say once what a
handler that returns does to all that are under way, and each action is then about the
few it adds. `MemoryStays`, `NothingStays` and `AssertionsStayKnown`
are parts of `IInv`. `NothingStaysStuck` has an invariant of its own on top, `Taken`: while something is left to read, a handler that
takes it is under way; it is needed because the layer reads on only when it is called, and is
stated of the handlers, not of the idle loop, where it would not be inductive.

The theorems of `TlsClientProofs` assume `NullIsNoValue`: no handler, context, session or buffer
is `NULL`. TLC gives `NULL` a model value, which is none of them, but cannot evaluate the
assumption, which quantifies over all values. `AssertionsStayKnown` says of a program that
aborted that a record was lost before, or that the file is empty and is the one on POSIX: for
this the invariant relates `"LOST"` to a buffer that is there with no record of it under way.

`TlsWrittenProofs` proves `WrittenIsReceived` with two more invariants on top of `IInv`.
`Above` says what is known of a message. `Places`: from the moment it is sent until it is
confirmed it is in one place, a handler that takes it to the codec, the queue of the
codec, or a handler that tells what became of it; so it is confirmed once. `Opened`: nothing
is written before all layers know that the connection is open, and that is told once; without
it the codec could be writing while the handshake ends. `Handed`: the part of the message
in hand that the codec has handed over is the one the TLS layer has, and is written when the
codec is told so; of a publish with a payload, the header was written before. `Reported` is
what is to be shown, of the messages that are confirmed and of those that will be. `Progress`
says the same of the part that the TLS layer has: the records it is past were received, the
one that is under way is its next, wherever it waits - with a busy socket, or in the queue - and
when the layer is told that it was written it was. Neither is inductive alone: the layer
reports a part when its last record was received, and hands out no record before the
session is there. The codec tells of many messages at once when it closes, in a sequence whose
length depends on how many wait; what that does to the state of the layers is shown by the
least position at which it would be wrong (`Least`). Of a payload that mbed TLS cuts, `Progress` says
what was received of the first record only, as `IsCut` does.

Theorems of properties no run checks: the type invariants, `OrderIsStable`,
`AddedRunsLast`, the range of penalties, `CSpec => Spec`, those three of timed tasks,
`RequestsHaveOneOwner`, `ResumedAreHeld` and `ReportedAreOver` of the client, and `IInv` of the
connection over TLS.

Only model-checked: `DelaysEscalate` (it depends on the entries of the table); of the
client `OkIsDelivered`, `MessagesFindTheirTask` and `SubscriptionIsThere` (message ids are
used again, and that an answer is not late enough to meet the next user of its id is true
of the bounds only), `ShownOnceInOrder` (the order of two filtered sequences),
`WaitersAreWoken`, `KeepaliveGoesOn`, `StateIsThatOfTheLayers` and `ReportsTellTheStory`
(the life of a connection); of the connection over TLS `StreamIsWhole` (it is as whole as
what the library's reads return, and relates the whole stream to a counter of the server).
Liveness (`EventsAreServed`,
`PenaltyEnds`, `RemovedIsFreed`, `AttemptIsReported`, `ShutdownCompletes`,
`OpenMeansAlive`, `RequestsEnd`, `ClosesEnd`), ENABLED and what recursive definitions
compute are beyond the prover.

## 6. Not modelled

* Of the dispatcher and the event loop: several dispatchers, the array of several
  sockets, the destruction of an instance. The client has one socket, the TLS
  connection one socket and one file, which is all the library itself opens.
* Of the client: sessions that continue, messages whose bytes are split over several
  reads (the TLS composition splits records), the bytes of packets, reads that find
  the socket empty. Of failures of allocation, only those of section 5 are modelled in the
  TLS layer and none below and above it; nor is a call of a neighbour, or a request to read or to
  close, that the dispatcher has no memory to queue. Branches that
  this chain cannot reach (the TERMINAL states of its layers, a second shutdown
  task, a PINGRESP with an error) are left out too.
* Of the resource manager and the file systems: write and remove, which nothing in the
  library calls, and the dummy file system.
* TLS and crypto libraries are external. JWT creation, error strings, logging and
  connection data are straight-line code over data. Board support is thin wrappers of
  system calls, whose answers are inputs here.
* Threads are off in the default build; what they add is in the plan above.
