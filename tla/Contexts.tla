------------------------------- MODULE Contexts -------------------------------
(***************************************************************************)
(* The contexts of an application and the globals they share, iotc.c and   *)
(* iotc_handle.c, composed with the backoff status: the first context that *)
(* is created brings the event dispatcher, the table of handles and the    *)
(* tables of delays, and the last one that is deleted takes them away,     *)
(* with the cooldown that waits in the dispatcher.                         *)
(*                                                                         *)
(* The application frees a context outside the event loop, also while its  *)
(* connection is delayed, tried or open: what waits for it then stays in   *)
(* the dispatcher, if other contexts keep it, and finds freed memory.      *)
(* What a connection reports is up to the network.                         *)
(***************************************************************************)
EXTENDS Backoff, FiniteSets

CONSTANTS
  NULL,
  ContextCells,  \* the addresses an iotc_context_t can be allocated at
  MaxContexts,   \* IOTC_MAX_NUM_CONTEXTS
  Failures,      \* the allocations of a creation that may fail, and "NONE"
  MaxFailed      \* bound: creations that fail

ASSUME ContextsAssumption ==
  /\ NULL \notin ContextCells /\ IsFiniteSet(ContextCells)
  /\ NULL \notin [0..MaxContexts - 1 -> ContextCells \cup {NULL}]
  /\ MaxContexts \in Nat \ {0} /\ MaxFailed \in Nat
  /\ Failures \subseteq {"NONE", "DISPATCHER", "LUTS", "HANDLES", "CONTEXT"}
  /\ Recreate

VARIABLES
  globals_ref_count,        \* iotc_globals.globals_ref_count
  evtd_instance,            \* whether there is an iotc_globals.evtd_instance
  context_handles_vector,   \* iotc_globals.context_handles_vector, or NULL
  connection,               \* of every cell: "FREE", or what its context does
  failed,                   \* history: the creations that failed
  leftover,                 \* something waits in the dispatcher for a context that is freed
  aborted                   \* an assertion failed or freed memory was used: the end

globals == <<globals_ref_count, evtd_instance, context_handles_vector, failed, leftover,
             aborted>>

cvars == <<vars, globals, connection>>

Slots == 0..MaxContexts - 1

Live == {c \in ContextCells : connection[c] # "FREE"}

CInit ==
  /\ Init
  /\ globals_ref_count = 0
  /\ evtd_instance = FALSE
  /\ context_handles_vector = NULL
  /\ connection = [c \in ContextCells |-> "FREE"]
  /\ failed = 0
  /\ leftover = FALSE
  /\ aborted = FALSE

-----------------------------------------------------------------------------
(* Creating and deleting contexts.                                         *)

First == globals_ref_count = 0

\* The handles once the globals are made: iotc_create_context gets no further than
\* the dispatcher and the tables of delays when one of them cannot be allocated.
HandlesFor(failure) ==
  IF ~First THEN context_handles_vector
  ELSE IF failure \in {"DISPATCHER", "LUTS", "HANDLES"} THEN NULL
  ELSE [slot \in Slots |-> NULL]

\* Mutant: a slot that is taken is used.
RegistersOver(handles, c) == context_handles_vector' = [handles EXCEPT ![0] = c]

\* iotc_register_handle_for_object: the first free slot.
Registers(handles, c) ==
  \E slot \in Slots :
    /\ handles[slot] = NULL /\ \A s \in 0..slot - 1 : handles[s] # NULL
    /\ context_handles_vector' = [handles EXCEPT ![slot] = c]

IsFull(handles) == \A slot \in Slots : handles[slot] # NULL

\* The globals are counted before anything is allocated, and stay counted.
Counts == globals_ref_count' = globals_ref_count + 1

MakesDispatcher(failure) ==
  evtd_instance' = IF First THEN failure # "DISPATCHER" ELSE evtd_instance

\* iotc_create_context of a context that is allocated at c.
Create(c) ==
  LET handles == HandlesFor("NONE")
  IN  /\ connection[c] = "FREE" /\ "NONE" \in Failures
      /\ handles # NULL /\ Registers(handles, c)
      /\ Counts /\ MakesDispatcher("NONE")
      /\ connection' = [connection EXCEPT ![c] = "IDLE"]
      /\ UNCHANGED <<vars, failed, leftover, aborted>>

\* iotc_create_context when the table is full, or without memory.  A table that is
\* not there is used all the same: for the handle of a context, and in the case of
\* LUTS, which is no error to the caller, for that of none.
CreateFails(failure) ==
  LET handles == HandlesFor(failure)
      registers == failure \in {"NONE", "HANDLES"}
  IN  /\ failed < MaxFailed
      /\ failure \in {"DISPATCHER", "LUTS", "HANDLES"} => First
      /\ registers => handles = NULL \/ IsFull(handles)
      /\ Counts /\ MakesDispatcher(failure)
      /\ context_handles_vector' = handles
      /\ failed' = failed + 1
      /\ aborted' = (failure = "LUTS" \/ (registers /\ handles = NULL))
      /\ UNCHANGED <<vars, connection, leftover>>

\* Mutant: the cooldown is left in the dispatcher.
LastGoesKeepsCooldown == UNCHANGED vars

\* The last context takes the globals and the cooldown with it.
LastGoes == RecreateContext

\* iotc_delete_context, which looks neither for a connect event nor at the connection:
\* the layers are freed under what waits, unless the dispatcher goes as well.
Delete(c) ==
  /\ connection[c] # "FREE"
  /\ leftover' = (globals_ref_count # 1 /\ (leftover \/ connection[c] # "IDLE"))
  /\ connection' = [connection EXCEPT ![c] = "FREE"]
  /\ globals_ref_count' = globals_ref_count - 1
  /\ IF globals_ref_count = 1
       THEN /\ LastGoes
            /\ evtd_instance' = FALSE /\ context_handles_vector' = NULL
       ELSE /\ UNCHANGED <<vars, evtd_instance>>
            /\ context_handles_vector' =
                 [slot \in Slots |-> IF context_handles_vector[slot] = c THEN NULL
                                     ELSE context_handles_vector[slot]]
  /\ UNCHANGED <<failed, aborted>>

\* The dispatcher comes to it.
LeftoverRuns ==
  /\ leftover /\ aborted' = TRUE
  /\ UNCHANGED <<vars, globals_ref_count, evtd_instance, context_handles_vector, failed,
                 leftover, connection>>

-----------------------------------------------------------------------------
(* Connections: they wait for their delay, then they are tried, and while  *)
(* they exist the MQTT layer reports what it meets to the backoff status.  *)

Becomes(c, from, to) ==
  connection[c] = from /\ connection' = [connection EXCEPT ![c] = to]

\* iotc_connect_to
Connects(c, p) ==
  /\ Becomes(c, "IDLE", "DELAYED")
  /\ Connect(p)
  /\ UNCHANGED globals

\* The delay is over and the dispatcher calls the topmost layer, or
\* iotc_shutdown_connection cancels the event.
Starts(c) == Becomes(c, "DELAYED", "OPEN") /\ UNCHANGED <<vars, globals>>
Cancels(c) == Becomes(c, "DELAYED", "IDLE") /\ UNCHANGED <<vars, globals>>

\* iotc_mqtt_logic_layer_pull and close_externally
Reports(c, result) ==
  /\ connection[c] = "OPEN"
  /\ ReportHealthy(result) \/ ReportError(result)
  /\ UNCHANGED <<globals, connection>>

Closes(c) == Becomes(c, "OPEN", "IDLE") /\ UNCHANGED <<vars, globals>>

\* The dispatcher runs while there is one.
Cools == evtd_instance /\ (Cooldown \/ CooldownWhileInError) /\ UNCHANGED <<globals, connection>>

Passes == Tick /\ UNCHANGED <<globals, connection>>

CNext ==
  /\ ~aborted
  /\ \/ \E c \in ContextCells :
          \/ Create(c) \/ Delete(c)
          \/ \E p \in Penalties(backoff_lut_i) : Connects(c, p)
          \/ Starts(c) \/ Cancels(c) \/ Closes(c)
          \/ \E result \in Results : Reports(c, result)
     \/ \E failure \in Failures : CreateFails(failure)
     \/ LeftoverRuns \/ Cools \/ Passes

CSpec == CInit /\ [][CNext]_cvars

\* Time passes and the dispatcher runs due events.
CLiveSpec == CSpec /\ WF_cvars(~aborted /\ Passes) /\ WF_cvars(~aborted /\ Cools)

-----------------------------------------------------------------------------
(* Properties.                                                             *)

\* Every context has its dispatcher and exactly one handle, whatever was created and
\* deleted before it, so that the callbacks of its connection find it, and a handle
\* leads to a context that exists.
ContextsAreReached ==
  /\ Live # {} => evtd_instance /\ context_handles_vector # NULL
  /\ context_handles_vector # NULL =>
       /\ \A c \in Live : \E slot \in Slots : context_handles_vector[slot] = c
       /\ \A s, t \in Slots :
            context_handles_vector[s] # NULL =>
              /\ context_handles_vector[s] \in Live
              /\ context_handles_vector[s] = context_handles_vector[t] => s = t

\* The globals are counted once for every context and every creation that failed,
\* are there while they are counted, and a cooldown never waits in a dispatcher
\* that is gone.
GlobalsAreCounted ==
  /\ globals_ref_count = Cardinality(Live) + failed
  /\ evtd_instance => globals_ref_count > 0
  /\ globals_ref_count > 0 /\ ~aborted => evtd_instance
  /\ next_update # NoEvent => evtd_instance

\* A device that stays healthy gets rid of its penalty, whatever contexts come and go,
\* as long as no freed context is called.
PenaltyEnds == []~aborted => HealthyRecovers

=============================================================================
