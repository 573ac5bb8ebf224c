------------------------------- MODULE TlsLayer -------------------------------
(***************************************************************************)
(* The TLS layer, tls/iotc_tls_layer.c, between the network layer and the  *)
(* codec.                                                                  *)
(*                                                                         *)
(* Its init is a coroutine that reads the certificates through the         *)
(* resource manager.  From then on connect_handler, and once the handshake *)
(* is done send_handler and recv_handler, call the library, which calls    *)
(* back for every record: iotc_bsp_tls_send_callback hands the record to   *)
(* the network layer and says WANT_WRITE until it is written,              *)
(* iotc_bsp_tls_recv_callback takes from raw_buffer or says WANT_READ.     *)
(* Each of these calls back is a step here; the handler that called the    *)
(* library stays on the stack until the library returns.                   *)
(***************************************************************************)
EXTENDS ResourceManager, TlsBindings

CONSTANT LongPayloads  \* the messages whose payload is longer than a record

VARIABLES
  init_cs,          \* where tls_layer_conn_cs is in init: "START", "OPEN", "READ", "CLOSE"
  logic_handler,    \* tls_layer_logic_{recv,send}_handler: "NONE", "CONNECT", "DATA"
  write_state,      \* tls_layer_write_state: "NONE", "WRITING", "WRITTEN"; "LOST" is
                    \* WRITING with tls_lib_handler_sending_cs at its start
  raw_buffer,       \* what was received and the library has not taken
  to_write_buffer,  \* what is being written: NULL, or the buffer and its records left
  decoded_buffer    \* whether it is allocated

layerVars == <<init_cs, logic_handler, write_state, raw_buffer, to_write_buffer, decoded_buffer>>
tlsVars == <<resourceVars, tls_library, tls_context, layerVars>>

FreshLayer ==
  /\ init_cs' = "START" /\ logic_handler' = "NONE" /\ write_state' = "NONE"
  /\ raw_buffer' = <<>> /\ to_write_buffer' = NULL /\ decoded_buffer' = FALSE

TlsStart ==
  /\ ResourceInit
  /\ tls_library \in TlsLibraries /\ tls_context = NULL
  /\ init_cs = "START" /\ logic_handler = "NONE" /\ write_state = "NONE"
  /\ raw_buffer = <<>> /\ to_write_buffer = NULL /\ decoded_buffer = FALSE

tlsSharedUnchanged ==
  UNCHANGED <<connection_state, timers, io_timeouts, dangling, fileVars, file_fds, tls_library>>

Tls(fn, state) == Handle(fn, "TLS", NULL, state)

-----------------------------------------------------------------------------
(* iotc_tls_layer_init                                                     *)

\* There is no memory for the context, or for the request to open the file, which
\* keeps its callback: the layer is told.
CannotOpen ==
  /\ rm' \in {NULL, [NewContext EXCEPT !.callback = Running]}
  /\ Returns(<<>>, <<Tls("connect", "FAILED_LOADING_CERTIFICATE")>>)
  /\ UNCHANGED init_cs

\* The layer's own data may not be allocated either.
TlsInit ==
  /\ IsRunning("init", "TLS")
  /\ init_cs = "START"
  /\ \/ /\ user_data' = user_data \cup {"TLS"}
        /\ \/ Asks(NewContext, "open_coroutine", Running) /\ init_cs' = "OPEN"
           \/ CannotOpen
     \/ /\ Returns(<<>>, <<Tls("connect", "OUT_OF_MEMORY")>>)
        /\ UNCHANGED <<user_data, rm, init_cs>>
  /\ tlsSharedUnchanged
  /\ UNCHANGED <<tls_context, logic_handler, write_state, raw_buffer, to_write_buffer,
                 decoded_buffer>>

\* The end of the coroutine after an error: the layer is told why.
InitFails(reason) ==
  /\ Returns(<<>>, <<Tls("connect", reason)>>)
  /\ tls_context' = NULL
  /\ init_cs' = "START"
  /\ UNCHANGED <<rm, logic_handler>>

ResumesInit(position) == IsRunning("init", "TLS") /\ init_cs = position

restOfInit ==
  /\ tlsSharedUnchanged
  /\ UNCHANGED <<user_data, write_state, raw_buffer, to_write_buffer, decoded_buffer>>

TlsInitOpened ==
  /\ ResumesInit("OPEN")
  /\ IF Running.state # "OK" \/ ~MayUse(rm) THEN InitFails("FAILED_LOADING_CERTIFICATE")
     ELSE /\ Asks(rm, "read_coroutine", [Running EXCEPT !.state = "OK"])
          /\ init_cs' = "READ"
          /\ UNCHANGED <<tls_context, logic_handler>>
  /\ restOfInit

\* iotc_bsp_tls_init is called when the certificates were read.
TlsInitRead ==
  /\ ResumesInit("READ")
  /\ IF Running.state # "OK" THEN InitFails("FAILED_LOADING_CERTIFICATE")
     ELSE \E result \in InitResults, handshake \in Handshakes :
            CASE result = "OK" ->
                   /\ Asks(rm, "close_coroutine", [Running EXCEPT !.state = "OK"])
                   /\ init_cs' = "CLOSE"
                   /\ tls_context' = NewSession(handshake)
                   /\ UNCHANGED logic_handler
              [] result = "CERT_ERROR" -> InitFails("FAILED_LOADING_CERTIFICATE")
              [] OTHER -> InitFails("INITIALIZATION_ERROR")
  /\ restOfInit

TlsInitClosed ==
  /\ ResumesInit("CLOSE")
  /\ IF Running.state # "OK" THEN InitFails("FAILED_LOADING_CERTIFICATE")
     ELSE /\ Returns(<<>>, <<OnPrev("TLS", "init", NULL, "OK")>>)
          /\ rm' = NULL
          /\ logic_handler' = "CONNECT"
          /\ UNCHANGED <<tls_context, init_cs>>
  /\ restOfInit

-----------------------------------------------------------------------------
(* The library calls back.                                                 *)

dataUnchanged == UNCHANGED <<user_data, rm, init_cs>>

HandedOver(record) == OnPrev("TLS", "push", [msg |-> record, last |-> TRUE], "OK")

\* iotc_bsp_tls_send_callback of a record: the first call hands it to the network
\* layer, and each returns WANT_WRITE to the library, and so to the caller of the
\* handler, until it is written.  A first call expects that no record is under way.
SendsRecord(record) ==
  \/ /\ write_state = "NONE" /\ write_state' = "WRITING"
     /\ Returns(<<>>, <<HandedOver(record)>>)
  \/ /\ write_state = "WRITING" /\ UNCHANGED write_state
     /\ Returns(<<>>, <<>>)
  \/ /\ write_state = "LOST" /\ UNCHANGED write_state
     /\ Aborts

\* The callback has set the state when it finds no memory for the record, and
\* leaves it set: the library is told of a failure.
LosesRecord == write_state = "NONE" /\ write_state' = "LOST"

\* Mutant: the next record finds the state of this one.
RecordWrittenForGood == write_state = "WRITTEN" /\ UNCHANGED write_state

\* It returns OK: the library goes on.
RecordWritten == write_state = "WRITTEN" /\ write_state' = "NONE"

\* The handler fn runs, on a layer that serves it: the functions that call it check
\* that too.
InHandler(fn) == IsRunning(fn, "TLS") /\ CanServe("TLS")

\* The library reads on.
GoesOn == UNCHANGED <<phase, stack, queue, layer_state>>

\* Mutant: the layer waits for the network instead.
PullsAgainLater(session) == <<>>

\* What the layer does when a session has data, or input, left.
PullsAgain(session) ==
  IF raw_buffer # <<>> \/ Pending(session) > 0 THEN <<Tls("pull", "WANT_READ")>> ELSE <<>>

\* The records it writes, and what of data is left with the last of them.
TlsRecord(type, data, left) ==
  [type |-> type, owner |-> [type |-> type, data |-> data, left |-> left]]

Flight(session) == TlsRecord("FLIGHT", NULL, Len(session.script))
Alert == TlsRecord("ALERT", NULL, 0)

-----------------------------------------------------------------------------
(* connect_handler: iotc_bsp_tls_connect until the handshake is done.      *)

Handshaking == InHandler("connect_handler") /\ ~tls_context.failed

\* The handshake is over, with the records the library has handed over before.
GivesUp(reason, records) ==
  /\ Returns(<<>>, records \o <<Tls("close", reason)>>)
  /\ tls_context' = [tls_context EXCEPT !.failed = TRUE]

ConnectWrites ==
  /\ Handshaking
  /\ tls_context.script # <<>> /\ Head(tls_context.script) = "write"
  /\ \/ SendsRecord(Flight(tls_context)) /\ UNCHANGED tls_context
     \/ RecordWritten /\ GoesOn /\ tls_context' = FlightDone(tls_context)
     \/ LosesRecord /\ GivesUp("CONNECT_ERROR", <<>>)
  /\ tlsSharedUnchanged /\ dataUnchanged
  /\ UNCHANGED <<logic_handler, raw_buffer, to_write_buffer, decoded_buffer>>

\* The handshake fails, for the reason the binding makes of it; an alert may have
\* been handed over before, or been lost.
HandshakeFails ==
  \E failure \in ConnectFailures :
    LET reason == IF failure = "CERT_ERROR" THEN "FAILED_CERT_ERROR" ELSE "CONNECT_ERROR"
    IN \/ UNCHANGED write_state /\ GivesUp(reason, <<>>)
       \/ /\ write_state = "NONE" /\ write_state' = "WRITING"
          /\ GivesUp(reason, <<HandedOver(Alert)>>)
       \/ LosesRecord /\ GivesUp(reason, <<>>)

ConnectReads ==
  /\ Handshaking
  /\ tls_context.script # <<>> /\ Head(tls_context.script) = "read"
  /\ \/ /\ raw_buffer = <<>>
        /\ Returns(<<>>, <<>>)
        /\ UNCHANGED <<tls_context, raw_buffer, write_state>>
     \/ /\ raw_buffer # <<>>
        /\ raw_buffer' = Tail(raw_buffer)
        /\ LET part == Head(raw_buffer) IN
             \/ /\ part.kind = "FLIGHT"
                /\ tls_context' = IF Completes(tls_context) THEN FlightDone(tls_context)
                                                            ELSE PartRead(tls_context)
                /\ GoesOn
                /\ UNCHANGED write_state
             \/ /\ part.kind = "FLIGHT" => Completes(tls_context)
                /\ HandshakeFails
  /\ tlsSharedUnchanged /\ dataUnchanged
  /\ UNCHANGED <<logic_handler, to_write_buffer, decoded_buffer>>

ConnectDone ==
  /\ Handshaking
  /\ tls_context.script = <<>>
  /\ logic_handler' = "DATA"
  /\ Returns(<<>>, PullsAgain(tls_context) \o <<OnNext("TLS", "connect", NULL, "OK")>>)
  /\ tlsSharedUnchanged /\ dataUnchanged
  /\ UNCHANGED <<tls_context, write_state, raw_buffer, to_write_buffer, decoded_buffer>>

\* The library is called after its handshake has failed: it waits, or fails again.
ConnectAgain ==
  /\ InHandler("connect_handler")
  /\ tls_context.failed
  /\ \/ /\ Returns(<<>>, <<>>)
        /\ write_state' = IF write_state = "WRITTEN" THEN "NONE" ELSE write_state
        /\ UNCHANGED tls_context
     \/ HandshakeFails
  /\ tlsSharedUnchanged /\ dataUnchanged
  /\ UNCHANGED <<logic_handler, raw_buffer, to_write_buffer, decoded_buffer>>

-----------------------------------------------------------------------------
(* send_handler: iotc_bsp_tls_write of to_write_buffer.                    *)

\* How many records a buffer takes.
RecordsOf(data) == IF data.msg \in LongPayloads /\ data.last THEN 2 ELSE 1

Record == TlsRecord("RECORD", to_write_buffer.data, to_write_buffer.left - 1)

WrittenState(state) ==
  /\ to_write_buffer' = NULL
  /\ Returns(<<>>, <<OnNext("TLS", "push", NULL, state)>>)

\* Without a buffer the handler follows a null pointer.
SendWrites ==
  /\ InHandler("send_handler")
  /\ IF to_write_buffer = NULL
       THEN Aborts /\ UNCHANGED write_state
       ELSE SendsRecord(Record)
  /\ tlsSharedUnchanged /\ dataUnchanged
  /\ UNCHANGED <<tls_context, logic_handler, raw_buffer, to_write_buffer, decoded_buffer>>

\* Mutant: what is left of the buffer is forgotten.
SendWrittenOnce ==
  /\ InHandler("send_handler")
  /\ to_write_buffer # NULL
  /\ RecordWritten
  /\ WrittenState("WRITTEN")
  /\ tlsSharedUnchanged /\ dataUnchanged
  /\ UNCHANGED <<tls_context, logic_handler, raw_buffer, decoded_buffer>>

SendWritten ==
  /\ InHandler("send_handler")
  /\ to_write_buffer # NULL
  /\ RecordWritten
  /\ LET left == to_write_buffer.left - 1 IN
       \/ WriteReturns(left) /\ WrittenState("WRITTEN")
       \/ /\ ~WriteReturns(left)
          /\ to_write_buffer' = [to_write_buffer EXCEPT !.left = left]
          /\ GoesOn
  /\ tlsSharedUnchanged /\ dataUnchanged
  /\ UNCHANGED <<tls_context, logic_handler, raw_buffer, decoded_buffer>>

\* The library cannot make a record, or the callback cannot hand it over.
SendFails ==
  /\ InHandler("send_handler")
  /\ to_write_buffer # NULL
  /\ \/ write_state \in {"NONE", "LOST"} /\ UNCHANGED write_state
     \/ LosesRecord
  /\ WrittenState("FAILED_WRITING")
  /\ tlsSharedUnchanged /\ dataUnchanged
  /\ UNCHANGED <<tls_context, logic_handler, raw_buffer, decoded_buffer>>

-----------------------------------------------------------------------------
(* recv_handler: iotc_bsp_tls_read into decoded_buffer.                    *)

RecvWaits ==
  /\ InHandler("recv_handler")
  /\ tls_context.pending = <<>> /\ raw_buffer = <<>>
  /\ decoded_buffer' = TRUE
  /\ Returns(<<>>, <<>>)
  /\ UNCHANGED <<tls_context, raw_buffer>>

\* Mutant: what is taken of the buffer stays in it.
RecvReadsAgain ==
  /\ InHandler("recv_handler")
  /\ tls_context.pending = <<>> /\ raw_buffer # <<>>
  /\ Head(raw_buffer).kind # "ALERT"
  /\ tls_context' = IF Completes(tls_context) THEN RecordRead(tls_context, Head(raw_buffer))
                                              ELSE PartRead(tls_context)
  /\ decoded_buffer' = TRUE
  /\ GoesOn
  /\ UNCHANGED raw_buffer

RecvReads ==
  /\ InHandler("recv_handler")
  /\ tls_context.pending = <<>> /\ raw_buffer # <<>>
  /\ Head(raw_buffer).kind # "ALERT"
  /\ raw_buffer' = Tail(raw_buffer)
  /\ tls_context' = IF Completes(tls_context) THEN RecordRead(tls_context, Head(raw_buffer))
                                              ELSE PartRead(tls_context)
  /\ decoded_buffer' = TRUE
  /\ GoesOn

RecvDelivers ==
  /\ InHandler("recv_handler")
  /\ tls_context.pending # <<>>
  /\ LET session == [tls_context EXCEPT !.pending = Tail(@)] IN
       /\ tls_context' = session
       /\ Returns(<<>>, PullsAgain(session) \o
            <<OnNext("TLS", "pull", [msgs |-> <<Head(tls_context.pending)>>], "OK")>>)
  /\ decoded_buffer' = FALSE
  /\ UNCHANGED raw_buffer

\* The server ends the session.
RecvFails ==
  /\ InHandler("recv_handler")
  /\ tls_context.pending = <<>> /\ raw_buffer # <<>>
  /\ Head(raw_buffer).kind = "ALERT"
  /\ raw_buffer' = Tail(raw_buffer)
  /\ tls_context' = [tls_context EXCEPT !.failed = TRUE]
  /\ decoded_buffer' = FALSE
  /\ Returns(<<>>, <<Tls("close", "READ_ERROR")>>)

\* There is no memory for the decoded buffer, which is allocated first.
RecvLacksMemory ==
  /\ InHandler("recv_handler")
  /\ ~decoded_buffer
  /\ Returns(<<>>, <<Tls("close", "OUT_OF_MEMORY")>>)
  /\ UNCHANGED <<tls_context, raw_buffer, decoded_buffer>>

RecvHandler ==
  /\ RecvWaits \/ RecvReads \/ RecvDelivers \/ RecvFails \/ RecvLacksMemory
  /\ tlsSharedUnchanged /\ dataUnchanged
  /\ UNCHANGED <<logic_handler, write_state, to_write_buffer>>

-----------------------------------------------------------------------------
(* The functions of the layer.                                             *)

layerUnchanged == UNCHANGED <<user_data, rm, tls_context, layerVars>>

\* The logic handler that is set is called directly, and there must be one.
CallsLogicHandler(data_handler) ==
  CASE logic_handler = "CONNECT" -> Returns(<<Tls("connect_handler", "OK")>>, <<>>)
    [] logic_handler = "DATA" -> Returns(<<Tls(data_handler, "OK")>>, <<>>)
    [] OTHER -> Aborts

\* iotc_tls_layer_push of a buffer: there is no other, and no record under way.
TlsPush ==
  /\ IsRunning("push", "TLS") /\ CanServe("TLS")
  /\ Running.state = "OK"
  /\ IF to_write_buffer = NULL /\ write_state \in {"NONE", "LOST"}
       THEN /\ to_write_buffer' = [data |-> Running.data, left |-> RecordsOf(Running.data)]
            /\ CallsLogicHandler("send_handler")
       ELSE Aborts /\ UNCHANGED to_write_buffer
  /\ tlsSharedUnchanged /\ dataUnchanged
  /\ UNCHANGED <<tls_context, logic_handler, write_state, raw_buffer, decoded_buffer>>

\* iotc_tls_layer_push when the network layer has written a record.
TlsPushWritten ==
  /\ IsRunning("push", "TLS") /\ CanServe("TLS")
  /\ Running.state = "WRITTEN"
  /\ IF write_state \in {"WRITING", "LOST"}
       THEN write_state' = "WRITTEN" /\ CallsLogicHandler("send_handler")
       ELSE Aborts /\ UNCHANGED write_state
  /\ tlsSharedUnchanged /\ dataUnchanged
  /\ UNCHANGED <<tls_context, logic_handler, raw_buffer, to_write_buffer, decoded_buffer>>

\* iotc_tls_layer_push on a layer that is closing.
TlsPushDropped ==
  /\ IsRunning("push", "TLS") /\ ~CanServe("TLS")
  /\ Returns(<<>>, <<>>)
  /\ tlsSharedUnchanged /\ layerUnchanged

\* iotc_tls_layer_pull of what the network layer has read, or of what is left.
TlsPull ==
  /\ IsRunning("pull", "TLS") /\ CanServe("TLS")
  /\ raw_buffer' = IF Running.state = "OK" THEN raw_buffer \o Running.data.msgs ELSE raw_buffer
  /\ CallsLogicHandler("recv_handler")
  /\ tlsSharedUnchanged /\ dataUnchanged
  /\ UNCHANGED <<tls_context, logic_handler, write_state, to_write_buffer, decoded_buffer>>

\* iotc_tls_layer_pull on a layer that is closing closes it again.
TlsPullDropped ==
  /\ IsRunning("pull", "TLS") /\ ~CanServe("TLS")
  /\ Returns(<<>>, <<Tls("close", Running.state)>>)
  /\ tlsSharedUnchanged /\ layerUnchanged

\* iotc_tls_layer_connect
TlsConnect ==
  /\ IsRunning("connect", "TLS")
  /\ IF CanServe("TLS") /\ Running.state = "OK"
       THEN Returns(<<Tls("connect_handler", "OK")>>, <<>>)
       ELSE Returns(<<>>, <<OnNext("TLS", "connect", NULL, Running.state)>>)
  /\ tlsSharedUnchanged /\ layerUnchanged

\* Mutant: the session is freed before the network layer has let go of its buffer.
TlsCloseFreesSession ==
  /\ IsRunning("close", "TLS")
  /\ IF "TLS" \in user_data
       THEN Returns(<<>>, <<OnPrev("TLS", "close", NULL, Running.state)>>)
       ELSE Returns(<<>>, <<Tls("close_externally", Running.state)>>)
  /\ tls_context' = NULL
  /\ tlsSharedUnchanged /\ UNCHANGED <<user_data, rm, layerVars>>

\* Mutant: a close waits for the end of the handshake.
TlsCloseWaits ==
  /\ IsRunning("close", "TLS")
  /\ Returns(<<>>, IF layer_state["TLS"] = "CONNECTING" THEN <<>>
                   ELSE <<OnPrev("TLS", "close", NULL, Running.state)>>)
  /\ tlsSharedUnchanged /\ layerUnchanged

\* iotc_tls_layer_close
TlsClose ==
  /\ IsRunning("close", "TLS")
  /\ IF "TLS" \in user_data
       THEN Returns(<<>>, <<OnPrev("TLS", "close", NULL, Running.state)>>)
       ELSE Returns(<<>>, <<Tls("close_externally", Running.state)>>)
  /\ tlsSharedUnchanged /\ layerUnchanged

\* iotc_tls_layer_close_externally when the certificates are still open: they are
\* closed first, and this function is resumed.
TlsCloseFile ==
  /\ IsRunning("close_externally", "TLS")
  /\ "TLS" \in user_data /\ rm # NULL /\ MayUse(rm)
  /\ Asks(rm, "close_coroutine", Running)
  /\ tlsSharedUnchanged
  /\ UNCHANGED <<user_data, tls_context, layerVars>>

\* The rest of it: an attempt that failed is reported as a connect, the end of a
\* connection is passed on.
TellsTheEnd ==
  IF Running.state # "OK" /\ layer_state["TLS"] = "CONNECTING"
    THEN Returns(<<>>, <<Tls("connect", Running.state)>>)
    ELSE Returns(<<>>, <<OnNext("TLS", "close_externally", NULL, Running.state)>>)

\* Mutant: the file is not closed.
TlsCloseExternallyLeavesFile ==
  /\ IsRunning("close_externally", "TLS")
  /\ user_data' = user_data \ {"TLS"}
  /\ rm' = NULL /\ tls_context' = NULL /\ FreshLayer
  /\ TellsTheEnd
  /\ tlsSharedUnchanged

TlsCloseExternally ==
  /\ IsRunning("close_externally", "TLS")
  /\ ~("TLS" \in user_data /\ rm # NULL /\ MayUse(rm))
  /\ user_data' = user_data \ {"TLS"}
  /\ rm' = NULL /\ tls_context' = NULL /\ FreshLayer
  /\ TellsTheEnd
  /\ tlsSharedUnchanged

TlsNext ==
  \/ TlsInit \/ TlsInitOpened \/ TlsInitRead \/ TlsInitClosed
  \/ ConnectWrites \/ ConnectReads \/ ConnectDone \/ ConnectAgain
  \/ SendWrites \/ SendWritten \/ SendFails \/ RecvHandler
  \/ TlsPush \/ TlsPushWritten \/ TlsPushDropped \/ TlsPull \/ TlsPullDropped
  \/ TlsConnect \/ TlsClose \/ TlsCloseFile \/ TlsCloseExternally
=============================================================================
