------------------------------- MODULE NetLayer -------------------------------
(***************************************************************************)
(* The bottom of the chain, iotc_io_net_layer.c, on a socket of the        *)
(* platform (iotc_bsp_io_net.h) whose other end is a server.               *)
(*                                                                         *)
(* The socket calls one handler when it becomes ready: pull by default,    *)
(* connect or push after iotc_evtd_continue_when_evt_on_socket.  The bytes *)
(* of a message are its header and, for a PUBLISH, its payload.  The server*)
(* may answer a message, and close the connection, whenever it likes.      *)
(***************************************************************************)
EXTENDS LayerChain

CONSTANTS
  MaxWire,    \* bound: messages on their way to the client
  Answers(_)  \* the answers a server may send to a message: a set of sequences

VARIABLES
  socket,     \* "NONE", "CONNECTING" or "OPEN"
  on_socket,  \* the handler registered for the socket, or NULL
  wire,       \* messages of the server the client has not read
  received,   \* history: the tasks whose request the server received
  answered    \* history: the tasks whose request the server acknowledged, and the
              \* publishes it has sent

netVars == <<socket, on_socket, wire, received, answered>>

PullHandle == Handle("pull", "IO", NULL, "OK")

NetInit ==
  /\ socket = "NONE"
  /\ on_socket = NULL
  /\ wire = <<>>
  /\ received = {}
  /\ answered = {}

sharedUnchanged ==
  UNCHANGED <<connection_state, timers, io_timeouts, dangling>>

-----------------------------------------------------------------------------
(* The handlers of the layer.                                              *)

\* iotc_io_net_layer_init
IoInit ==
  /\ IsRunning("init", "IO")
  /\ "IO" \notin user_data
  /\ user_data' = user_data \cup {"IO"}
  /\ Returns(<<>>, <<Handle("connect", "IO", NULL, "OK")>>)
  /\ sharedUnchanged
  /\ UNCHANGED netVars

\* iotc_io_net_layer_connect up to its yield.
IoConnectStart ==
  /\ IsRunning("connect", "IO")
  /\ socket = "NONE"
  /\ \/ /\ socket' = "CONNECTING"
        /\ on_socket' = Running
        /\ Returns(<<>>, <<>>)
     \/ /\ Returns(<<>>, <<OnNext("IO", "connect", NULL, "ERROR")>>)
        /\ UNCHANGED <<socket, on_socket>>
  /\ sharedUnchanged
  /\ UNCHANGED <<user_data, wire, received, answered>>

\* iotc_io_net_layer_connect once the socket is connected, or failed.
IoConnectResume ==
  /\ IsRunning("connect", "IO")
  /\ socket = "CONNECTING"
  /\ \/ /\ socket' = "OPEN"
        /\ Returns(<<>>, <<OnNext("IO", "connect", NULL, "OK")>>)
     \/ /\ Returns(<<>>, <<OnNext("IO", "connect", NULL, "ERROR")>>)
        /\ UNCHANGED socket
  /\ sharedUnchanged
  /\ UNCHANGED <<user_data, on_socket, wire, received, answered>>

\* The owners of the messages that carry something for the other end.
carriers(m) == IF m.type \in {"CONNECT", "PINGREQ", "DISCONNECT"} THEN {} ELSE {m.owner}

\* The server receives m, and answers it or does not.
ServerReceives(m) ==
  /\ received' = received \cup carriers(m)
  /\ \/ UNCHANGED <<wire, answered>>
     \/ \E answer \in Answers(m) :
          /\ Len(wire \o answer) <= MaxWire
          /\ wire' = wire \o answer
          /\ answered' = answered \cup carriers(m)

\* iotc_io_net_layer_push: all of the buffer is written, or the socket failed.
IoPush ==
  /\ IsRunning("push", "IO")
  /\ CanServe("IO")
  /\ \/ /\ Returns(<<>>, <<OnNext("IO", "push", NULL, "WRITTEN")>>)
        /\ IF Running.data.last
             THEN ServerReceives(Running.data.msg)
             ELSE UNCHANGED <<wire, received, answered>>
     \/ /\ Returns(<<>>, <<Handle("close_externally", "IO", NULL, "ERROR")>>)
        /\ UNCHANGED <<wire, received, answered>>
  /\ sharedUnchanged
  /\ UNCHANGED <<user_data, socket, on_socket>>

\* iotc_io_net_layer_push on a socket that is busy: the rest of the buffer is
\* written when it is not, and nothing is read until then.
IoPushBusy ==
  /\ IsRunning("push", "IO")
  /\ CanServe("IO")
  /\ on_socket' = Running
  /\ Returns(<<>>, <<>>)
  /\ sharedUnchanged
  /\ UNCHANGED <<user_data, socket, wire, received, answered>>

\* iotc_io_net_layer_push on a layer that is closing.
IoPushDropped ==
  /\ IsRunning("push", "IO")
  /\ ~CanServe("IO")
  /\ Returns(<<>>, <<>>)
  /\ sharedUnchanged
  /\ UNCHANGED <<user_data, netVars>>

\* iotc_io_timeouts_restart moves every I/O timeout, through its handle.
RestartsIoTimeouts ==
  ConnectionTimeout => "io_timeout" \notin dangling /\ io_timeouts \subseteq timers

\* iotc_io_net_layer_pull reads what has arrived, one message or more.
IoPull ==
  /\ IsRunning("pull", "IO")
  /\ CanServe("IO")
  /\ wire # <<>>
  /\ IF RestartsIoTimeouts
       THEN \E n \in 1..Len(wire) :
              /\ wire' = SubSeq(wire, n + 1, Len(wire))
              /\ Returns(<<>>, <<OnNext("IO", "pull", [msgs |-> SubSeq(wire, 1, n)], "OK")>>)
       ELSE Aborts /\ UNCHANGED wire
  /\ sharedUnchanged
  /\ UNCHANGED <<user_data, socket, on_socket, received, answered>>

\* iotc_io_net_layer_pull on a connection that was reset or closed.
IoPullReset ==
  /\ IsRunning("pull", "IO")
  /\ CanServe("IO")
  /\ Returns(<<>>, <<Handle("close_externally", "IO", NULL, "ERROR")>>)
  /\ sharedUnchanged
  /\ UNCHANGED <<user_data, netVars>>

\* iotc_io_net_layer_close
IoClose ==
  /\ IsRunning("close", "IO")
  /\ Returns(<<>>, <<Handle("close_externally", "IO", NULL, Running.state)>>)
  /\ sharedUnchanged
  /\ UNCHANGED <<user_data, netVars>>

\* Mutant: the socket stays registered and open.
IoCloseExternallyKeepsSocket ==
  /\ IsRunning("close_externally", "IO")
  /\ user_data' = user_data \ {"IO"}
  /\ Returns(<<>>, <<OnNext("IO", "close_externally", NULL, Running.state)>>)
  /\ sharedUnchanged
  /\ UNCHANGED netVars

\* iotc_io_net_layer_close_externally
IoCloseExternally ==
  /\ IsRunning("close_externally", "IO")
  /\ \/ /\ "IO" \in user_data
        /\ socket' = "NONE"
        /\ on_socket' = NULL
        /\ wire' = <<>>
     \/ /\ "IO" \notin user_data
        /\ UNCHANGED <<socket, on_socket, wire>>
  /\ user_data' = user_data \ {"IO"}
  /\ Returns(<<>>, <<OnNext("IO", "close_externally", NULL, Running.state)>>)
  /\ sharedUnchanged
  /\ UNCHANGED <<received, answered>>

\* The dispatcher calls the handler of a socket that is ready, which goes back
\* to being read from (iotc_evtd_update_event_on_fd).
SocketReady ==
  /\ Idle
  /\ on_socket # NULL
  /\ phase' = "timers"
  /\ stack' = <<on_socket>>
  /\ on_socket' = PullHandle
  /\ sharedUnchanged
  /\ UNCHANGED <<queue, layer_state, user_data, socket, wire, received, answered>>

NetNext ==
  \/ IoInit
  \/ IoConnectStart \/ IoConnectResume
  \/ IoPush \/ IoPushBusy \/ IoPushDropped
  \/ IoPull \/ IoPullReset
  \/ IoClose \/ IoCloseExternally
=============================================================================
