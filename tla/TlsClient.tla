------------------------------ MODULE TlsClient ------------------------------
(***************************************************************************)
(* A connection over TLS: the layers NetLayer, TlsLayer and MqttCodec, the *)
(* file system and the resource manager the certificates are read with,    *)
(* and the event loop.                                                     *)
(*                                                                         *)
(* The layer "USER" stands for all that is above the codec: it opens the   *)
(* connection, sends messages and closes it whenever the logic layer, the  *)
(* control layer and the application might, and answers a connection that  *)
(* could not be opened with a close, as the control layer does.  There is  *)
(* no timeout: none runs until the connection is open.                     *)
(***************************************************************************)
EXTENDS NetLayer, MqttCodec, TlsLayer

CONSTANTS
  UserMessages,  \* the messages to send
  MaxConnects    \* bound: connections opened

VARIABLES
  connects,   \* history: the connections opened
  sent,       \* history: the messages sent on this connection
  confirmed,  \* history: of every message, the states it was confirmed with
  delivered   \* history: the data of the server the user got on this connection

userVars == <<connects, sent, confirmed, delivered>>

vars == <<chainVars, netVars, codecVars, tlsVars, userVars>>

ASSUME TlsClientAssumptions ==
  /\ Chain = <<"IO", "TLS", "CODEC", "USER">>
  /\ FileSizes \subseteq Nat
  /\ \A m \in LongPayloads : m.type = "PUBLISH"

Init ==
  /\ ChainInit /\ NetInit /\ CodecInitState /\ TlsStart
  /\ connects = 0
  /\ sent = {}
  /\ confirmed = [m \in UserMessages |-> <<>>]
  /\ delivered = <<>>

layersUnchanged ==
  /\ UNCHANGED <<netVars, codecVars, tlsVars>>
  /\ UNCHANGED <<user_data, timers, io_timeouts, dangling>>

-----------------------------------------------------------------------------
(* What is above the codec.                                                *)

UserInit ==
  /\ IsRunning("init", "USER")
  /\ Returns(<<>>, <<OnPrev("USER", "init", NULL, "OK")>>)
  /\ layersUnchanged
  /\ UNCHANGED <<connection_state, userVars>>

UserConnect ==
  /\ IsRunning("connect", "USER")
  /\ IF Running.state = "OK"
       THEN /\ Leaves(<<>>, <<>>)
            /\ layer_state' = [layer_state EXCEPT !["USER"] = "CONNECTED"]
            /\ connection_state' = "OPENED"
       ELSE /\ Returns(<<>>, <<OnPrev("USER", "close", NULL, Running.state)>>)
            /\ UNCHANGED connection_state
  /\ layersUnchanged
  /\ UNCHANGED userVars

\* A message was written, or not.
UserConfirmed ==
  /\ IsRunning("push", "USER")
  /\ confirmed' = [confirmed EXCEPT ![Running.data] = Append(@, Running.state)]
  /\ Returns(<<>>, <<>>)
  /\ layersUnchanged
  /\ UNCHANGED <<connection_state, connects, sent, delivered>>

\* Data of the server, after which the connection may be closed.
UserPull ==
  /\ IsRunning("pull", "USER")
  /\ delivered' = Append(delivered, Running.data)
  /\ \/ Returns(<<>>, <<>>)
     \/ /\ ~NotOperational("USER")
        /\ Returns(<<>>, <<OnPrev("USER", "close", NULL, "OK")>>)
  /\ layersUnchanged
  /\ UNCHANGED <<connection_state, connects, sent, confirmed>>

UserCloseExternally ==
  /\ IsRunning("close_externally", "USER")
  /\ Leaves(<<>>, <<>>)
  /\ layer_state' = [layer_state EXCEPT !["USER"] = "CLOSED"]
  /\ connection_state' = IF connection_state = "OPENING" THEN "OPEN_FAILED" ELSE "CLOSED"
  /\ layersUnchanged
  /\ UNCHANGED userVars

UserNext ==
  UserInit \/ UserConnect \/ UserConfirmed \/ UserPull \/ UserCloseExternally

\* What the user asks for between two turns of the event loop.
Asked(h) ==
  /\ Idle
  /\ queue' = Append(queue, h)
  /\ layer_state' = [layer_state EXCEPT !["USER"] = StateAfter(@, h)]
  /\ UNCHANGED <<phase, stack, user_data, timers, io_timeouts, dangling, codecVars, tlsVars>>

Open ==
  /\ connection_state \in {"UNINITIALIZED", "CLOSED", "OPEN_FAILED"}
  /\ connects < MaxConnects
  /\ Asked(Handle("init", "USER", NULL, "OK"))
  /\ connection_state' = "OPENING"
  /\ connects' = connects + 1
  /\ sent' = {}
  /\ confirmed' = [m \in UserMessages |-> <<>>]
  /\ delivered' = <<>>
  /\ received' = {} /\ answered' = {}
  /\ UNCHANGED <<socket, on_socket, wire>>

Send(m) ==
  /\ layer_state["USER"] = "CONNECTED"
  /\ m \notin sent
  /\ Asked(OnPrev("USER", "push", m, "OK"))
  /\ sent' = sent \cup {m}
  /\ UNCHANGED <<connection_state, netVars, connects, confirmed, delivered>>

Shutdown ==
  /\ layer_state["USER"] = "CONNECTED"
  /\ Asked(OnPrev("USER", "close", NULL, "OK"))
  /\ UNCHANGED <<connection_state, netVars, userVars>>

-----------------------------------------------------------------------------
(* The event loop.                                                         *)

loopUnchanged ==
  /\ layersUnchanged
  /\ UNCHANGED <<stack, queue, layer_state, connection_state, userVars>>

\* No socket is ready; a file always is.
SkipSockets ==
  /\ Idle /\ file_fds = {}
  /\ phase' = "timers"
  /\ loopUnchanged

TimersDone ==
  /\ phase = "timers" /\ stack = <<>>
  /\ phase' = "queue"
  /\ loopUnchanged

QueueDone ==
  /\ phase = "queue" /\ stack = <<>> /\ queue = <<>>
  /\ phase' = "select"
  /\ loopUnchanged

Ready == SocketReady /\ UNCHANGED <<codecVars, tlsVars, userVars>>

ReadsFile == FileReady /\ UNCHANGED <<netVars, codecVars, tls_library, tls_context, layerVars, userVars>>

Handlers ==
  \/ NetNext /\ UNCHANGED <<codecVars, tlsVars, userVars>>
  \/ CodecNext /\ UNCHANGED <<netVars, tlsVars, userVars>>
  \/ TlsNext /\ UNCHANGED <<netVars, codecVars, userVars>>
  \/ ResourceNext /\ UNCHANGED <<netVars, codecVars, tls_library, tls_context, layerVars, userVars>>
  \/ UserNext

Next ==
  \/ Handlers
  \/ Open \/ (\E m \in UserMessages : Send(m)) \/ Shutdown
  \/ Ready \/ ReadsFile \/ SkipSockets \/ TimersDone \/ QueueDone

\* The handlers of what is ready are called, and the loop turns.  A socket that
\* connects or is busy gets ready, and what it is busy with is written or fails;
\* whether there is something to read is up to the server.
WaitedFor == on_socket # NULL /\ on_socket.fn \in {"connect", "push"} /\ Ready
Written == (IoPush \/ IoConnectResume) /\ UNCHANGED <<codecVars, tlsVars, userVars>>
Loop == SkipSockets \/ ReadsFile \/ TimersDone \/ QueueDone

Fairness ==
  /\ WF_vars(Handlers) /\ WF_vars(Loop)
  /\ SF_vars(WaitedFor) /\ SF_vars(Written)

Spec == Init /\ [][Next]_vars /\ Fairness

-----------------------------------------------------------------------------
(* Safety.                                                                 *)

NoAssertionFails == phase # "aborted"

\* A record is written after the memory for one before it could not be allocated
\* (iotc_tls_layer.c:101).
WritesAfterLoss ==
  /\ write_state = "LOST"
  /\ Running.fn \in {"connect_handler", "send_handler"}
  /\ Running.fn = "send_handler" => to_write_buffer # NULL

\* A file of the platform that is empty, which cannot be read, is closed
\* (iotc_resource_manager.c:332).
ClosesEmptyFile == file_size = 0 /\ file_system # "memory" /\ Running.fn = "close_coroutine"

\* Those two assertions apart, none of the layers and the resource manager fails and
\* no null pointer is followed, whatever cannot be allocated, read or written: there
\* is one buffer to write, an answer of the network layer finds the record it is for,
\* and data finds a handler of the layer.
AssertionsAreKnown == phase = "aborted" => WritesAfterLoss \/ ClosesEmptyFile

\* What a handler is called with is still there: the library's buffer until the
\* network layer, which does not copy it, has written it, and the context of the
\* resource manager with its callback until the coroutine has ended.  A layer
\* that is closing writes nothing, so its buffer may be gone.
MemoryIsThere ==
  \A h \in ToSet(stack) \cup ToSet(queue) \cup file_fds \cup ({on_socket} \ {NULL}) :
    /\ h.layer = "IO" /\ h.fn = "push" /\ CanServe("IO") => tls_context # NULL
    /\ h.layer = "RESOURCE" => rm # NULL /\ rm.callback # NULL

\* The data of the server reaches the codec whole, once and in order, though records
\* arrive in parts, several at a time, and a record does not fit into the buffer.
StreamIsWhole ==
  /\ IsInjective(delivered)
  /\ \A i \in DOMAIN delivered :
       IF delivered[i].unit = 1
         THEN i > 1 => delivered[i - 1].unit = 2
         ELSE i > 1 /\ delivered[i - 1] = [delivered[i] EXCEPT !.unit = 1]

\* mbed TLS takes the first record of a long payload only, and send_handler reports
\* the payload written all the same (iotc_tls_layer.c:248).
IsCut(data) == tls_library = "mbedtls" /\ RecordsOf(data) > 1

RecordReceived(data, left) == TlsRecord("RECORD", data, left).owner \in received

\* The first record is written, and what follows unless it is cut.
PartReceived(data) ==
  /\ RecordReceived(data, RecordsOf(data) - 1)
  /\ ~IsCut(data) => \A left \in 0..RecordsOf(data) - 1 : RecordReceived(data, left)

\* A message that is reported written was written: every record of its header and
\* of its payload reached the socket, but for a payload mbed TLS has cut, and it is
\* reported once.
WrittenIsReceived ==
  \A m \in UserMessages :
    /\ Len(confirmed[m]) <= 1
    /\ confirmed[m] = <<"WRITTEN">> =>
         \A last \in {~HasPayload(m), TRUE} : PartReceived([msg |-> m, last |-> last])

\* Nothing is under way.
Quiet == Idle /\ queue = <<>>

\* While the loop waits for the network, the layer has nothing left to read: what
\* it received with the end of the handshake, or of another record, was taken.
NothingIsStuck ==
  Quiet /\ logic_handler = "DATA" /\ CanServe("TLS")
    => raw_buffer = <<>> /\ Pending(tls_context) = 0

\* An attempt that failed and a connection that ended, wherever the certificates
\* were, leave no file open, no session, no request and no socket.
NothingIsLeft ==
  Quiet /\ connection_state \in {"OPEN_FAILED", "CLOSED"} =>
    /\ open_files = 0 /\ file_fds = {} /\ rm = NULL
    /\ tls_context = NULL /\ to_write_buffer = NULL
    /\ user_data = {} /\ socket = "NONE" /\ on_socket = NULL

-----------------------------------------------------------------------------
(* Liveness.                                                               *)

\* A request to the resource manager ends, unless the program does: its callback is
\* called, with an error when the file cannot be read.
RequestsEnd ==
  (rm # NULL /\ rm.callback # NULL) ~> (rm = NULL \/ rm.callback = NULL \/ ~NoAssertionFails)

\* A close ends, wherever the certificates, the handshake and the session are, unless
\* the program does.
ClosesEnd ==
  IsRunning("close", "TLS")
    ~> (\/ connection_state \in {"OPEN_FAILED", "CLOSED"} /\ user_data = {}
        \/ ~NoAssertionFails)
=============================================================================
