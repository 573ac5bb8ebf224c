---------------------------- MODULE ResourceManager ----------------------------
(***************************************************************************)
(* io/fs/iotc_resource_manager.c: opens, reads and closes a file without   *)
(* blocking.  A request keeps the caller's callback in its context and     *)
(* queues a coroutine; the coroutine calls the file system, waits for the  *)
(* file in the dispatcher when there is more to read, and in the end calls *)
(* the callback, from the queue after a success and directly after an      *)
(* error.  The callback is disposed then, and only then may the next       *)
(* request be made.                                                        *)
(*                                                                         *)
(* The functions of both file systems answer stat, open and close at once, *)
(* so only a read is ever continued.                                       *)
(***************************************************************************)
EXTENDS LayerChain, FileSystem

VARIABLES
  rm,        \* the context, or NULL
  file_fds   \* the handlers of files registered in the dispatcher

resourceVars == <<fileVars, rm, file_fds>>

ResourceInit == FileInit /\ rm = NULL /\ file_fds = {}

NewContext ==
  [resource_handle |-> INVALID_HANDLE, callback |-> NULL, resource_size |-> 0,
   data_offset |-> 0, data_buffer |-> NULL]

Coroutine(fn) == Handle(fn, "RESOURCE", NULL, "OK")

-----------------------------------------------------------------------------
(* Requests.                                                               *)

\* Whether the file can be read or closed: it is open and the last request ended.
MayUse(context) == context.callback = NULL /\ context.resource_handle >= 0

\* A handler of a layer asks for the coroutine fn, and to have callback called when
\* it has ended.
Asks(context, fn, callback) ==
  /\ rm' = [context EXCEPT !.callback = callback]
  /\ Returns(<<>>, <<Coroutine(fn)>>)

\* iotc_resource_manager_set_callback_state: an error the callback was made with
\* is kept.
WithState(callback, state) ==
  [callback EXCEPT !.state = IF @ = "OK" THEN state ELSE @]

\* The coroutine ends with a success, in the context it leaves: the callback is
\* queued.
EndsWell(context) ==
  /\ Leaves(<<>>, <<WithState(rm.callback, "OK")>>)
  /\ rm' = [context EXCEPT !.callback = NULL]

\* The coroutine ends with an error: the callback is called.
EndsBadly(context, error) ==
  /\ Leaves(<<WithState(rm.callback, error)>>, <<>>)
  /\ rm' = [context EXCEPT !.callback = NULL]

coroutineUnchanged ==
  UNCHANGED <<layer_state, user_data, connection_state, timers, io_timeouts,
              dangling, file_system, file_size>>

-----------------------------------------------------------------------------
(* The coroutines.                                                         *)

\* iotc_resource_manager_open_coroutine
OpenCoroutine ==
  /\ IsRunning("open_coroutine", "RESOURCE")
  /\ \/ \E error \in (StatResults \cup OpenResults) \ {"OK"} :
          EndsBadly(rm, error) /\ UNCHANGED open_files
     \/ /\ EndsWell([rm EXCEPT !.resource_size = file_size, !.resource_handle = FileHandle])
        /\ open_files' = open_files + 1
  /\ coroutineUnchanged
  /\ UNCHANGED file_fds

\* Mutant: the dispatcher is not asked to go on.
FdsForget(state) == {}

\* The file is registered with the dispatcher as long as there is more to read.
FdsAfter(state) == IF state = "WANT_READ" THEN {Coroutine("read_coroutine")} ELSE {}

\* The state after a read that returned state and reached offset: what is left to
\* read is read, whatever happened.
ReadState(state, offset) ==
  IF offset < rm.resource_size \/ (state = "OK" /\ offset # rm.resource_size)
    THEN "WANT_READ" ELSE state

\* The data buffer after it: shared when all was read at once, or filled.
BufferAfter(read) ==
  IF read.state # "OK" THEN rm.data_buffer
  ELSE IF rm.data_buffer = NULL THEN read.size ELSE rm.data_buffer + read.size

\* Where the coroutine, which may have been continued, reads from.
ReadOffset == IF file_fds = {} THEN 0 ELSE rm.data_offset

\* iotc_resource_manager_read_coroutine
ReadCoroutine ==
  /\ IsRunning("read_coroutine", "RESOURCE")
  /\ \E read \in ReadResults(ReadOffset) :
       LET offset == ReadOffset + read.size
           state == ReadState(read.state, offset)
           context == [rm EXCEPT !.data_offset = offset, !.data_buffer = BufferAfter(read)]
       IN /\ \/ state = "WANT_READ" /\ Leaves(<<>>, <<>>) /\ rm' = context
             \/ state = "OK" /\ EndsWell(context)
             \/ state \notin {"OK", "WANT_READ"} /\ EndsBadly(context, state)
          /\ file_fds' = FdsAfter(state)
  /\ coroutineUnchanged
  /\ UNCHANGED open_files

\* iotc_resource_manager_close_coroutine, which expects that the file was read.
CloseCoroutine ==
  /\ IsRunning("close_coroutine", "RESOURCE")
  /\ \E result \in CloseResults :
       CASE result # "OK" -> EndsBadly(rm, result)
         [] result = "OK" /\ rm.data_buffer # NULL ->
              EndsWell([rm EXCEPT !.resource_handle = INVALID_HANDLE])
         [] OTHER -> Aborts /\ UNCHANGED rm
  /\ open_files' = OpenFilesAfterClose
  /\ coroutineUnchanged
  /\ UNCHANGED file_fds

\* The dispatcher calls the handler of a file in every turn of the event loop
\* (iotc_evtd_update_file_fd_events).
FileReady ==
  /\ Idle
  /\ \E h \in file_fds : stack' = <<h>>
  /\ phase' = "timers"
  /\ UNCHANGED <<queue, layer_state, user_data, connection_state, timers,
                 io_timeouts, dangling, resourceVars>>

ResourceNext ==
  \/ OpenCoroutine \/ ReadCoroutine \/ CloseCoroutine
=============================================================================
