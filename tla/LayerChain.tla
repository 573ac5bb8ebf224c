------------------------------ MODULE LayerChain ------------------------------
(***************************************************************************)
(* What the layers of the protocol stack share: the chain they form, from  *)
(* the bottom to the top (iotc_layer_stack.h), the way one layer asks for a*)
(* handler of another (iotc_layer_api.c), the context data, and the        *)
(* dispatcher as the layers see it (EventDispatcher, in less detail):      *)
(*                                                                         *)
(*   select   a socket that became ready has its handler called;           *)
(*   timers   time events that are due have theirs called;                 *)
(*   queue    queued handlers run until none is left.                      *)
(*                                                                         *)
(* A handler is a record.  One that is called directly is put on the stack *)
(* and runs before its caller goes on; any other waits in the queue.  Its  *)
(* data is NULL, a message, or a record that says what it is.  When a time *)
(* event is due is left open.                                              *)
(***************************************************************************)
EXTENDS Integers, Sequences, FiniteSets, SequencesExt

CONSTANTS
  NULL,
  Chain,              \* the layers, from the bottom to the top
  ConnectionTimeout,  \* whether connection_timeout > 0
  KeepaliveTimeout    \* whether keepalive_timeout > 0

VARIABLES
  phase,             \* "select", "timers", "queue", or "aborted" by the program
  stack,             \* handlers called directly that have not returned
  queue,             \* handlers queued in the dispatcher
  layer_state,       \* iotc_layer_state_t of every layer
  user_data,         \* the layers whose user_data is allocated
  connection_state,  \* connection_data->connection_state
  timers,            \* the handles whose time event is waiting
  io_timeouts,       \* the tasks whose handle is in context_data->io_timeouts
  dangling           \* what still refers to a task that was freed

chainVars == <<phase, stack, queue, layer_state, user_data, connection_state,
               timers, io_timeouts, dangling>>

Layers == ToSet(Chain)

positionOf(layer) == CHOOSE i \in DOMAIN Chain : Chain[i] = layer
Next_layer(layer) == Chain[positionOf(layer) + 1]
Prev_layer(layer) == Chain[positionOf(layer) - 1]

\* A handler: the function fn of a layer, its data and its in_out_state.
Handle(fn, layer, data, state) ==
  [fn |-> fn, layer |-> layer, data |-> data, state |-> state]

OnNext(layer, fn, data, state) == Handle(fn, Next_layer(layer), data, state)
OnPrev(layer, fn, data, state) == Handle(fn, Prev_layer(layer), data, state)

ChainInit ==
  /\ phase = "select"
  /\ stack = <<>>
  /\ queue = <<>>
  /\ layer_state = [l \in Layers |-> "NONE"]
  /\ user_data = {}
  /\ connection_state = "UNINITIALIZED"
  /\ timers = {}
  /\ io_timeouts = {}
  /\ dangling = {}

-----------------------------------------------------------------------------
(* Handlers and their calls.                                               *)

Idle == stack = <<>> /\ phase = "select"

\* The handler that runs now.
Running == IF stack # <<>> THEN Head(stack) ELSE Head(queue)

IsRunning(fn, layer) ==
  /\ phase # "aborted"
  /\ stack # <<>> \/ (phase = "queue" /\ queue # <<>>)
  /\ Running.fn = fn /\ Running.layer = layer

\* get_next_layer_state: what asking for h does to the layer that asks.
StateAfter(s, h) ==
  CASE h.fn = "close" -> IF s = "CONNECTED" THEN "CLOSING" ELSE s
    [] h.fn = "close_externally" -> "CLOSED"
    [] h.fn = "connect" -> IF h.state = "OK" THEN "CONNECTED" ELSE "CLOSED"
    [] h.fn = "init" -> "CONNECTING"
    [] OTHER -> s

\* The running handler returns, having called the handlers of direct, which run
\* next, and queued those of queued, which run later.
Leaves(direct, queued) ==
  /\ stack' = direct \o (IF stack # <<>> THEN Tail(stack) ELSE <<>>)
  /\ queue' = (IF stack # <<>> THEN queue ELSE Tail(queue)) \o queued
  /\ UNCHANGED phase

\* The same of a handler of a layer: what it asks for (iotc_layer_continue_with)
\* changes the state of its layer at once.
Returns(direct, queued) ==
  /\ Leaves(direct, queued)
  /\ layer_state' =
       [layer_state EXCEPT ![Running.layer] = FoldLeft(StateAfter, @, queued)]

\* An assertion fails, or freed memory is used.
Aborts ==
  /\ phase' = "aborted"
  /\ UNCHANGED <<stack, queue, layer_state>>

\* IOTC_THIS_LAYER_NOT_OPERATIONAL
NotOperational(layer) == layer_state[layer] \in {"CLOSING", "CLOSED"}

CanServe(layer) == layer \in user_data /\ ~NotOperational(layer)
=============================================================================
