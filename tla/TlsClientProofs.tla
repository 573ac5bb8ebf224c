---------------------------- MODULE TlsClientProofs ----------------------------
(***************************************************************************)
(* Proofs about TlsClient, for any messages, handshakes and answers of the *)
(* server: the layers' assertions hold, what a handler uses is there, a    *)
(* connection that has ended leaves nothing behind, and what has arrived   *)
(* is taken.                                                               *)
(***************************************************************************)
EXTENDS TlsClient, SequenceTheorems, TLAPS

-----------------------------------------------------------------------------
(* Sequences, whatever their elements are.                                 *)

AnySeq(s) == s \in Seq(Range(s))

LEMMA IsAnySeq ==
  ASSUME NEW S, NEW s \in Seq(S)
  PROVE  AnySeq(s)
<1>1. Len(s) \in Nat /\ s \in [1..Len(s) -> S] /\ DOMAIN s = 1..Len(s)
  BY LenProperties
<1>2. s \in [1..Len(s) -> Range(s)]
  BY <1>1 DEF Range
<1>. QED
  BY <1>1, <1>2, SeqDef DEF AnySeq

LEMMA AnySeqParts ==
  ASSUME NEW s, AnySeq(s)
  PROVE  /\ Len(s) \in Nat /\ DOMAIN s = 1..Len(s)
         /\ s = <<>> <=> Len(s) = 0
         /\ s # <<>> => /\ Len(s) > 0 /\ Head(s) = s[1]
                        /\ AnySeq(Tail(s)) /\ Len(Tail(s)) = Len(s) - 1
                        /\ \A i \in DOMAIN Tail(s) : Tail(s)[i] = s[i + 1] /\ i + 1 \in DOMAIN s
<1>1. s \in Seq(Range(s))
  BY DEF AnySeq
<1>2. Len(s) \in Nat /\ DOMAIN s = 1..Len(s)
  BY <1>1, LenProperties
<1>3. s = <<>> <=> Len(s) = 0
  BY <1>1, EmptySeq
<1>4. ASSUME s # <<>>
      PROVE  /\ Len(s) > 0 /\ Head(s) = s[1]
             /\ AnySeq(Tail(s)) /\ Len(Tail(s)) = Len(s) - 1
             /\ \A i \in DOMAIN Tail(s) : Tail(s)[i] = s[i + 1] /\ i + 1 \in DOMAIN s
  <2>1. /\ Tail(s) \in Seq(Range(s)) /\ Len(Tail(s)) = Len(s) - 1
        /\ \A i \in 1..Len(Tail(s)) : Tail(s)[i] = s[i + 1]
    BY <1>1, <1>4, HeadTailProperties
  <2>2. AnySeq(Tail(s)) /\ DOMAIN Tail(s) = 1..Len(Tail(s))
    BY <2>1, IsAnySeq, LenProperties
  <2>3. Head(s) = s[1]
    BY <1>1, <1>4
  <2>. QED
    BY <1>2, <1>3, <1>4, <2>1, <2>2, <2>3
<1>. QED
  BY <1>2, <1>3, <1>4

LEMMA AnyConcat ==
  ASSUME NEW s, NEW t, AnySeq(s), AnySeq(t)
  PROVE  /\ AnySeq(s \o t) /\ Len(s \o t) = Len(s) + Len(t)
         /\ DOMAIN (s \o t) = 1..Len(s) + Len(t)
         /\ \A i \in 1..Len(s) + Len(t) :
              (s \o t)[i] = IF i <= Len(s) THEN s[i] ELSE t[i - Len(s)]
<1>. DEFINE S == Range(s) \cup Range(t)
<1>1. s \in Seq(S) /\ t \in Seq(S)
  BY SeqMonotonic DEF AnySeq
<1>2. /\ s \o t \in Seq(S) /\ Len(s \o t) = Len(s) + Len(t)
      /\ \A i \in 1..Len(s) + Len(t) :
           (s \o t)[i] = IF i <= Len(s) THEN s[i] ELSE t[i - Len(s)]
  BY <1>1, ConcatProperties
<1>. QED
  BY <1>2, IsAnySeq, LenProperties

LEMMA AnyAppend ==
  ASSUME NEW s, NEW x, AnySeq(s)
  PROVE  AnySeq(Append(s, x)) /\ Append(s, x) = s \o <<x>> /\ Len(Append(s, x)) = Len(s) + 1
<1>. DEFINE S == Range(s) \cup {x}
<1>1. s \in Seq(S) /\ x \in S
  BY SeqMonotonic DEF AnySeq
<1>2. Append(s, x) \in Seq(S) /\ Len(Append(s, x)) = Len(s) + 1
  BY <1>1, AppendProperties
<1>3. Append(s, x) = s \o <<x>>
  BY <1>1, AppendIsConcat
<1>. QED
  BY <1>2, <1>3, IsAnySeq

LEMMA AnyLiteral ==
  /\ AnySeq(<<>>) /\ Len(<<>>) = 0 /\ DOMAIN <<>> = {}
  /\ \A x : AnySeq(<<x>>) /\ Len(<<x>>) = 1 /\ DOMAIN <<x>> = {1} /\ <<x>>[1] = x
<1>1. AnySeq(<<>>)
  BY EmptySeq, IsAnySeq
<1>2. ASSUME NEW x PROVE AnySeq(<<x>>)
  <2>1. <<x>> \in Seq({x})
    OBVIOUS
  <2>. QED
    BY <2>1, IsAnySeq
<1>3. Len(<<>>) = 0 /\ DOMAIN <<>> = {}
  OBVIOUS
<1>4. \A x : Len(<<x>>) = 1 /\ DOMAIN <<x>> = {1} /\ <<x>>[1] = x
  OBVIOUS
<1>. QED
  BY <1>1, <1>2, <1>3, <1>4
-----------------------------------------------------------------------------
(* What the invariant is about.                                            *)

\* NULL stands for no handler, no context, no session and no buffer, and is none.
NullIsNoValue ==
  /\ \A fn, layer, data, state : Handle(fn, layer, data, state) # NULL
  /\ \A handle, callback, size, offset, buffer :
       [resource_handle |-> handle, callback |-> callback, resource_size |-> size,
        data_offset |-> offset, data_buffer |-> buffer] # NULL
  /\ \A script, parts, pending, failed :
       [script |-> script, parts |-> parts, pending |-> pending, failed |-> failed] # NULL
  /\ \A data, left : [data |-> data, left |-> left] # NULL
  /\ NULL \notin Nat

IsHandle(h) == h = Handle(h.fn, h.layer, h.data, h.state)

IsContext(c) ==
  c = [resource_handle |-> c.resource_handle, callback |-> c.callback,
       resource_size |-> c.resource_size, data_offset |-> c.data_offset,
       data_buffer |-> c.data_buffer]

IsSession(s) ==
  s = [script |-> s.script, parts |-> s.parts, pending |-> s.pending, failed |-> s.failed]

IsBuffer(b) == b = [data |-> b.data, left |-> b.left]

\* The handlers that have been called or queued, the one that runs first.
inFlight == stack \o queue
flight == {inFlight[i] : i \in DOMAIN inFlight}
others == {inFlight[i] : i \in 2..Len(inFlight)}

Has(layer) == layer \in user_data
Connecting == on_socket # NULL /\ on_socket.fn = "connect"
Busy == on_socket # NULL /\ on_socket.fn = "push"

\* h is a handler the library calls back under: it is called, never queued.
Inner(h) == h.layer = "TLS" /\ h.fn \in {"connect_handler", "send_handler", "recv_handler"}

\* What the user asks for.
AskedFor(h) ==
  \/ h.layer = "USER" /\ h.fn = "init"
  \/ h.layer = "CODEC" /\ h.fn = "push" /\ h.state = "OK"
  \/ h.layer = "CODEC" /\ h.fn = "close"

\* While a connection is opened up to the handshake there is one handler at a time.
Opening(h) ==
  \/ h.fn = "init"
  \/ h.layer = "RESOURCE"
  \/ h.layer = "IO" /\ h.fn = "connect"
  \/ h.layer = "TLS" /\ h.fn = "connect" /\ h.state = "OK"

\* h opens the network layer, its socket or the session.
Dials(h) ==
  \/ h.layer = "IO" /\ h.fn \in {"init", "connect"}
  \/ h.layer = "TLS" /\ h.fn = "connect" /\ h.state = "OK"

\* A layer is told that the connection has ended.
Ends(h, layer) == h.layer = layer /\ h.fn = "close_externally"

\* The two paths on which there is at most one handler: that of a record that is
\* written, from the library to the network layer and back, and that of a part of a
\* message, from the codec to the TLS layer and back.
Kind(h) ==
  CASE h.layer = "IO" /\ h.fn = "push" -> "record"
    [] h.layer = "TLS" /\ h.fn = "push" /\ h.state = "WRITTEN" -> "record"
    [] h.layer = "TLS" /\ h.fn = "push" /\ h.state # "WRITTEN" -> "part"
    [] h.layer = "CODEC" /\ h.fn = "push" /\ h.state # "OK" -> "part"
    [] OTHER -> "other"

Once(kind) ==
  \A i, j \in DOMAIN inFlight : Kind(inFlight[i]) = kind /\ Kind(inFlight[j]) = kind => i = j

\* What happens once the handshake is done.
NeedsSession(h) ==
  \/ Kind(h) = "part"
  \/ h.layer = "CODEC" /\ h.fn = "push"
  \/ h.layer = "TLS" /\ h.fn \in {"send_handler", "recv_handler"}
  \/ h.layer \in {"CODEC", "USER"} /\ h.fn = "connect" /\ h.state = "OK"

-----------------------------------------------------------------------------
(* The invariant.                                                          *)

\* The handlers, and where they come from.
Lines ==
  /\ AnySeq(stack) /\ AnySeq(queue)
  /\ Len(stack) <= 1
  /\ \A i \in DOMAIN queue : ~Inner(queue[i])

Shape ==
  /\ Lines /\ AnySeq(task_queue)
  /\ DOMAIN layer_state = Layers
  /\ dangling = {} /\ io_timeouts = {}
  /\ phase = "select" =>
       /\ stack = <<>> /\ \A h \in flight : AskedFor(h)
       /\ queue # <<>> => connection_state \in {"OPENING", "OPENED"}
  /\ on_socket # NULL =>
       IsHandle(on_socket) /\ on_socket.layer = "IO" /\ on_socket.fn \in {"connect", "push", "pull"}

\* While a connection is opened nothing else is under way.
Alone ==
  /\ Connecting => inFlight = <<>> /\ connection_state = "OPENING"
  /\ rm # NULL => Len(inFlight) <= 1 /\ connection_state = "OPENING"
  /\ file_fds # {} =>
       /\ file_fds = {Coroutine("read_coroutine")} /\ rm # NULL
       /\ \A h \in flight : h = Coroutine("read_coroutine")

Paths == Once("record") /\ Once("part")

\* The layers are opened from the top to the bottom, and closed from the bottom.
Down ==
  /\ user_data \subseteq {"IO", "TLS", "CODEC"}
  /\ ~Has("IO") => socket = "NONE" /\ on_socket = NULL
  /\ ~Has("TLS") => /\ ~Has("IO") /\ rm = NULL /\ tls_context = NULL
                    /\ logic_handler = "NONE" /\ init_cs = "START"
  /\ ~Has("CODEC") => ~Has("TLS")
  /\ connection_state \in {"UNINITIALIZED", "CLOSED", "OPEN_FAILED"} => ~Has("CODEC")
  /\ rm # NULL => ~Has("IO") /\ logic_handler = "NONE"
  /\ Has("IO") => logic_handler # "NONE"
  /\ Connecting => CanServe("TLS") /\ logic_handler = "CONNECT" /\ rm = NULL
  /\ layer_state["USER"] = "CONNECTED" =>
       connection_state = "OPENED" /\ (Has("TLS") => logic_handler = "DATA")

\* A file that can be read: the platform's read of an empty one is an error.
Readable == file_size > 0 \/ file_system = "memory"

\* What the resource manager knows of the file.
Files ==
  /\ AssertionsAreKnown
  /\ file_size \in Nat
  /\ open_files \in {0, 1}
  /\ rm = NULL => open_files = 0
  /\ rm # NULL =>
       /\ IsContext(rm)
       /\ rm.resource_handle \in {INVALID_HANDLE, FileHandle}
       /\ rm.resource_handle = INVALID_HANDLE => open_files = 0
       /\ rm.resource_handle = FileHandle => rm.resource_size = file_size
       /\ rm.data_offset \in Nat
       /\ rm.data_offset > 0 => rm.data_buffer # NULL
       /\ rm.data_buffer # NULL => rm.data_buffer \in Nat
       /\ rm.callback # NULL =>
            /\ IsHandle(rm.callback) /\ rm.callback.layer = "TLS"
            /\ \/ rm.callback.fn = "init" /\ rm.callback.state = "OK"
               \/ rm.callback.fn = "close_externally"
  /\ file_fds # {} =>
       /\ rm.callback # NULL /\ rm.callback.fn = "init" /\ init_cs = "READ"
       /\ rm.resource_handle = FileHandle /\ open_files = 1

\* What the layer and the library know of the session agrees with what is written.
Session ==
  /\ Busy /\ Has("TLS") => write_state = "WRITING"
  /\ logic_handler \in {"NONE", "CONNECT", "DATA"}
  /\ write_state \in {"NONE", "WRITING", "WRITTEN", "LOST"}
  /\ logic_handler # "NONE" \/ init_cs = "CLOSE" => tls_context # NULL
  /\ tls_context # NULL => IsSession(tls_context)
  /\ to_write_buffer # NULL => IsBuffer(to_write_buffer)
  /\ Has("CODEC") /\ push_cs = "NONE" => to_write_buffer = NULL
  /\ logic_handler = "NONE" => write_state = "NONE" /\ to_write_buffer = NULL
  /\ logic_handler = "CONNECT" /\ ~tls_context.failed
       /\ ~(tls_context.script # <<>> /\ Head(tls_context.script) = "write")
       => write_state = "NONE"
  /\ logic_handler = "DATA" /\ write_state \in {"WRITING", "WRITTEN"} => to_write_buffer # NULL

\* Every handler that is called or queued fits to that.  What opens a connection is
\* alone,
Lone(h) == Opening(h) => Len(inFlight) = 1 /\ connection_state = "OPENING" /\ ~Connecting

\* what is told to a layer agrees with the layers below,
Placed(h) ==
  /\ Ends(h, "TLS") => ~Has("IO")
  /\ Ends(h, "CODEC") => ~Has("TLS")
  /\ Ends(h, "USER") => ~Has("CODEC")
  /\ h.fn = "init" /\ h.layer \in {"USER", "CODEC"} => ~Has("CODEC")
  /\ h.fn = "init" /\ h.layer = "TLS" =>
       IF init_cs = "START" THEN ~Has("TLS") /\ Has("CODEC") /\ h.state = "OK" ELSE rm # NULL
  /\ h.fn = "init" /\ h.layer = "IO" => ~Has("IO") /\ Has("TLS")
  /\ h.fn = "connect" /\ h.layer = "IO" => Has("IO")
  /\ h.layer = "RESOURCE" => rm # NULL
  /\ Dials(h) => CanServe("TLS") /\ logic_handler = "CONNECT" /\ rm = NULL

\* what runs while there is a context is a coroutine and its request, or follows
\* from how the request ended,
Requested(h) ==
  /\ rm.callback # NULL
  /\ h.fn = "open_coroutine" =>
       rm.callback.fn = "init" /\ init_cs = "OPEN" /\ rm.resource_handle = INVALID_HANDLE
  /\ h.fn = "read_coroutine" =>
       /\ rm.callback.fn = "init" /\ init_cs = "READ"
       /\ rm.resource_handle = FileHandle /\ open_files = 1
  /\ h.fn = "close_coroutine" =>
       /\ rm.callback.fn = "init" => init_cs = "CLOSE"
       /\ rm.resource_handle = FileHandle
       /\ Readable => rm.data_buffer # NULL

Follows(h) ==
  /\ rm.callback = NULL \/ (rm.resource_handle = INVALID_HANDLE /\ h.fn # "init")
  /\ \/ h.fn = "init" /\ h.layer = "TLS" /\ init_cs # "START"
     \/ h.fn = "connect" /\ h.layer # "IO" /\ h.state # "OK"
     \/ h.fn = "close" /\ h.layer # "USER"
     \/ h.fn = "close_externally" /\ h.layer \in {"IO", "TLS"}
  /\ IF h.fn = "init" /\ init_cs = "OPEN"
       THEN IF h.state = "OK" THEN rm.resource_handle = FileHandle /\ open_files = 1
                              ELSE rm.resource_handle = INVALID_HANDLE
       ELSE rm.resource_handle = FileHandle /\ Readable => rm.data_buffer # NULL
  /\ h.fn = "init" /\ init_cs = "READ" => rm.resource_handle = FileHandle
  /\ h.fn = "init" /\ init_cs = "CLOSE" /\ h.state = "OK" => rm.resource_handle = INVALID_HANDLE

Reading(h) == rm # NULL => IF h.layer = "RESOURCE" THEN Requested(h) ELSE Follows(h)

\* and what is written and read has the session, the buffer and the path it needs.
Driven(h) ==
  /\ NeedsSession(h) /\ Has("TLS") => logic_handler = "DATA"
  /\ h.layer = "TLS" /\ h.fn = "pull" /\ Has("TLS") => logic_handler # "NONE"
  /\ h.layer = "TLS" /\ h.fn = "connect_handler" => logic_handler = "CONNECT"
  /\ h.layer = "TLS" /\ h.fn = "send_handler" => to_write_buffer # NULL
  /\ Kind(h) = "record" => ~Busy /\ (Has("TLS") => write_state = "WRITING")
  /\ Kind(h) = "part" /\ Has("CODEC") => push_cs # "NONE" /\ to_write_buffer = NULL

Formed(h) == IsHandle(h) /\ (h.layer = "CODEC" /\ h.fn = "pull" => Len(h.data.msgs) \in Nat)

Fits(h) == Formed(h) /\ Lone(h) /\ Placed(h) /\ Reading(h) /\ Driven(h)

IInv ==
  /\ Shape /\ Alone /\ Paths /\ Down /\ Files /\ Session
  /\ \A h \in flight : Fits(h)

-----------------------------------------------------------------------------
(* The layers and their handlers.                                          *)

LEMMA Neighbours ==
  /\ Next_layer("IO") = "TLS" /\ Next_layer("TLS") = "CODEC" /\ Next_layer("CODEC") = "USER"
  /\ Prev_layer("TLS") = "IO" /\ Prev_layer("CODEC") = "TLS" /\ Prev_layer("USER") = "CODEC"
  /\ Layers = {"IO", "TLS", "CODEC", "USER"}
<1>1. /\ DOMAIN Chain = {1, 2, 3, 4}
      /\ Chain[1] = "IO" /\ Chain[2] = "TLS" /\ Chain[3] = "CODEC" /\ Chain[4] = "USER"
  BY TlsClientAssumptions
<1>2. /\ positionOf("IO") = 1 /\ positionOf("TLS") = 2
      /\ positionOf("CODEC") = 3 /\ positionOf("USER") = 4
  BY <1>1 DEF positionOf
<1>3. Layers = {"IO", "TLS", "CODEC", "USER"}
  BY <1>1 DEF Layers, ToSet
<1>. QED
  BY <1>1, <1>2, <1>3 DEF Next_layer, Prev_layer

LEMMA HandlerFields ==
  \A fn, layer, data, state :
    /\ Handle(fn, layer, data, state).fn = fn /\ Handle(fn, layer, data, state).layer = layer
    /\ Handle(fn, layer, data, state).data = data /\ Handle(fn, layer, data, state).state = state
    /\ IsHandle(Handle(fn, layer, data, state))
BY DEF Handle, IsHandle

LEMMA Kinds ==
  ASSUME NEW h
  PROVE  /\ Kind(h) = "record" <=>
              \/ h.layer = "IO" /\ h.fn = "push"
              \/ h.layer = "TLS" /\ h.fn = "push" /\ h.state = "WRITTEN"
         /\ Kind(h) = "part" <=>
              \/ h.layer = "TLS" /\ h.fn = "push" /\ h.state # "WRITTEN"
              \/ h.layer = "CODEC" /\ h.fn = "push" /\ h.state # "OK"
BY DEF Kind

\* What the state of a layer is after no handler was queued, and after one.
LEMMA StateAfterNone == \A s : FoldLeft(StateAfter, s, <<>>) = s
<1>. SUFFICES ASSUME NEW s PROVE FoldLeft(StateAfter, s, <<>>) = s
  OBVIOUS
<1>. DEFINE next(f, t) == IF t = {} THEN s ELSE StateAfter(f[t \ {Max(t)}], <<>>[Max(t)])
            iter == CHOOSE f : f = [t \in SUBSET {} |-> next(f, t)]
            constant == [t \in SUBSET {} |-> s]
<1>1. DOMAIN <<>> = {}
  OBVIOUS
<1>2. FoldLeft(StateAfter, s, <<>>) = iter[{}]
  BY <1>1 DEF FoldLeft, MapThenFoldSet
<1>3. constant = [t \in SUBSET {} |-> next(constant, t)]
  OBVIOUS
<1>4. iter = [t \in SUBSET {} |-> next(iter, t)]
  BY <1>3
<1>. HIDE DEF iter
<1>. QED
  BY <1>2, <1>4

LEMMA StateAfterOne == \A s, h : FoldLeft(StateAfter, s, <<h>>) = StateAfter(s, h)
<1>. SUFFICES ASSUME NEW s, NEW h PROVE FoldLeft(StateAfter, s, <<h>>) = StateAfter(s, h)
  OBVIOUS
<1>. DEFINE next(f, t) == IF t = {} THEN s ELSE StateAfter(f[t \ {Max(t)}], <<h>>[Max(t)])
            iter == CHOOSE f : f = [t \in SUBSET {1} |-> next(f, t)]
            result == [t \in SUBSET {1} |-> IF t = {} THEN s ELSE StateAfter(s, h)]
<1>1. DOMAIN <<h>> = {1} /\ <<h>>[1] = h
  OBVIOUS
<1>2. FoldLeft(StateAfter, s, <<h>>) = iter[{1}]
  BY <1>1 DEF FoldLeft, MapThenFoldSet
<1>3. Max({1}) = 1 /\ {1} \ {1} = {} /\ SUBSET {1} = {{}, {1}} /\ {1} # {}
  BY DEF Max
<1>4. result = [t \in SUBSET {1} |-> next(result, t)]
  <2>1. result[{}] = s
    OBVIOUS
  <2>2. next(result, {}) = result[{}]
    BY <2>1
  <2>3. next(result, {1}) = StateAfter(s, h)
    BY <1>1, <1>3, <2>1
  <2>. QED
    BY <1>3, <2>1, <2>2, <2>3
<1>5. iter = [t \in SUBSET {1} |-> next(iter, t)]
  BY <1>4
<1>. HIDE DEF iter
<1>6. iter[{}] = s
  BY <1>5
<1>. QED
  BY <1>1, <1>2, <1>3, <1>5, <1>6

-----------------------------------------------------------------------------
(* The handlers in flight.                                                 *)

\* A handler runs, the first of the stack or of the queue.
Runs == phase # "aborted" /\ (stack # <<>> \/ (phase = "queue" /\ queue # <<>>))

\* None of the handlers but the one that runs is of this kind.
Free(kind) == \A h \in others : Kind(h) # kind

LEMMA InFlight ==
  ASSUME Shape
  PROVE  /\ AnySeq(inFlight) /\ Len(inFlight) = Len(stack) + Len(queue)
         /\ Len(inFlight) \in Nat /\ DOMAIN inFlight = 1..Len(inFlight)
         /\ \A i \in DOMAIN queue : queue[i] \in flight
         /\ others \subseteq flight
         /\ inFlight = <<>> <=> Len(inFlight) = 0
         /\ flight = {} <=> Len(inFlight) = 0
         /\ Len(inFlight) <= 1 => others = {}
<1>1. /\ AnySeq(stack) /\ AnySeq(queue) /\ Len(stack) \in Nat /\ Len(queue) \in Nat
      /\ DOMAIN queue = 1..Len(queue)
  BY AnySeqParts DEF Shape, Lines
<1>2. /\ AnySeq(inFlight) /\ Len(inFlight) = Len(stack) + Len(queue)
      /\ DOMAIN inFlight = 1..Len(stack) + Len(queue)
      /\ \A i \in 1..Len(stack) + Len(queue) :
           inFlight[i] = IF i <= Len(stack) THEN stack[i] ELSE queue[i - Len(stack)]
  BY <1>1, AnyConcat DEF inFlight
<1>3. ASSUME NEW i \in DOMAIN queue PROVE queue[i] \in flight
  <2>1. /\ Len(stack) + i \in 1..Len(stack) + Len(queue) /\ ~(Len(stack) + i <= Len(stack))
        /\ Len(stack) + i - Len(stack) = i
    BY <1>1
  <2>. QED
    BY <1>2, <2>1 DEF flight
<1>4. inFlight = <<>> <=> Len(inFlight) = 0
  BY <1>2, AnySeqParts
<1>5. flight = {} <=> Len(inFlight) = 0
  <2>1. Len(inFlight) # 0 => 1 \in DOMAIN inFlight
    BY <1>1, <1>2
  <2>2. Len(inFlight) = 0 => DOMAIN inFlight = {}
    BY <1>1, <1>2
  <2>. QED
    BY <2>1, <2>2 DEF flight
<1>6. others \subseteq flight /\ (Len(inFlight) <= 1 => others = {})
  BY <1>1, <1>2 DEF flight, others
<1>. QED
  BY <1>1, <1>2, <1>3, <1>4, <1>5, <1>6

\* The first handler in flight is the one that runs.
LEMMA RunningIsFirst ==
  ASSUME Shape, Runs
  PROVE  /\ Len(inFlight) > 0 /\ inFlight[1] = Running /\ Running \in flight
         /\ phase # "select" /\ inFlight # <<>>
         /\ \A h \in flight : h = Running \/ h \in others
<1>1. /\ AnySeq(inFlight) /\ Len(inFlight) = Len(stack) + Len(queue)
      /\ Len(inFlight) \in Nat /\ DOMAIN inFlight = 1..Len(inFlight)
      /\ inFlight = <<>> <=> Len(inFlight) = 0
  BY InFlight
<1>2. /\ Len(stack) \in Nat /\ Len(queue) \in Nat
      /\ stack # <<>> => Len(stack) > 0 /\ Head(stack) = stack[1]
      /\ stack = <<>> => Len(stack) = 0
      /\ queue # <<>> => Len(queue) > 0 /\ Head(queue) = queue[1]
  BY AnySeqParts DEF Shape, Lines
<1>3. \A i \in 1..Len(stack) + Len(queue) :
        inFlight[i] = IF i <= Len(stack) THEN stack[i] ELSE queue[i - Len(stack)]
  BY AnyConcat DEF inFlight, Shape, Lines
<1>4. Len(inFlight) > 0 /\ inFlight[1] = Running
  <2>1. CASE stack # <<>>
    BY <1>1, <1>2, <1>3, <2>1 DEF Running
  <2>2. CASE stack = <<>>
    BY <1>1, <1>2, <1>3, <2>2 DEF Running, Runs
  <2>. QED
    BY <2>1, <2>2
<1>5. \A i \in DOMAIN inFlight : i = 1 \/ i \in 2..Len(inFlight)
  BY <1>1
<1>6. Running \in flight /\ \A h \in flight : h = Running \/ h \in others
  <2>1. 1 \in DOMAIN inFlight
    BY <1>1, <1>4
  <2>. QED
    BY <1>4, <1>5, <2>1 DEF flight, others
<1>7. phase # "select"
  BY DEF Runs, Shape, Lines
<1>. QED
  BY <1>1, <1>4, <1>6, <1>7

\* Of the others none is called back under.
LEMMA NoneIsInner ==
  ASSUME Shape
  PROVE  \A h \in others : ~Inner(h)
<1>. DEFINE m == Len(stack)
            n == Len(queue)
<1>1. m \in Nat /\ n \in Nat /\ m <= 1 /\ DOMAIN queue = 1..n
  BY AnySeqParts DEF Shape, Lines
<1>2. /\ Len(inFlight) = m + n
      /\ \A i \in 1..m + n : inFlight[i] = IF i <= m THEN stack[i] ELSE queue[i - m]
  BY AnyConcat DEF inFlight, Shape, Lines
<1>. HIDE DEF m, n
<1>3. ASSUME NEW i \in 2..m + n PROVE ~Inner(inFlight[i])
  <2>1. i \in 1..m + n /\ ~(i <= m) /\ i - m \in 1..n
    BY <1>1
  <2>. QED
    BY <1>1, <1>2, <2>1 DEF Shape, Lines
<1>. QED
  BY <1>2, <1>3 DEF others

LEMMA OneIsAlone ==
  ASSUME Shape, Runs
  PROVE  /\ Len(inFlight) <= 1 => Len(inFlight) = 1
         /\ Len(inFlight) = 1 => others = {}
<1>1. Len(inFlight) \in Nat /\ (Len(inFlight) <= 1 => others = {})
  BY InFlight
<1>2. Len(inFlight) > 0
  BY RunningIsFirst
<1>3. ASSUME NEW n \in Nat, n > 0 PROVE n <= 1 <=> n = 1
  BY <1>3
<1>4. Len(inFlight) <= 1 <=> Len(inFlight) = 1
  BY <1>1, <1>2, <1>3
<1>. QED
  BY <1>1, <1>4

\* After the step of a handler that was alone nothing is in flight.
LEMMA EmptyFlight ==
  ASSUME Lines', Len(inFlight) = 1, Len(inFlight') = Len(inFlight) - 1
  PROVE  inFlight' = <<>>
<1>1. Len(inFlight') = 0
  BY 1 - 1 = 0
<1>2. AnySeq(stack') /\ AnySeq(queue')
  BY DEF Lines
<1>3. AnySeq(inFlight')
  BY <1>2, AnyConcat DEF inFlight
<1>. QED
  BY <1>1, <1>3, AnySeqParts

LEMMA FreeOf ==
  ASSUME Shape, Runs, NEW kind, Once(kind), Kind(Running) = kind
  PROVE  Free(kind)
<1>1. Len(inFlight) \in Nat /\ DOMAIN inFlight = 1..Len(inFlight) /\ Len(inFlight) > 0
      /\ inFlight[1] = Running
  BY InFlight, RunningIsFirst
<1>2. \A i \in 2..Len(inFlight) : i \in DOMAIN inFlight /\ 1 \in DOMAIN inFlight /\ i # 1
  BY <1>1
<1>. QED
  BY <1>1, <1>2 DEF Free, Once, others

\* What a step of a handler makes of them: the handlers it calls come first, those it
\* queues come last.
LEMMA Flow ==
  ASSUME Shape, Runs, NEW direct, NEW queued, AnySeq(direct), AnySeq(queued), Leaves(direct, queued)
  PROVE  /\ Len(direct) <= 1 /\ (\A i \in DOMAIN queued : ~Inner(queued[i])) => Lines'
         /\ phase' = phase
         /\ Len(inFlight') = Len(direct) + (Len(inFlight) - 1) + Len(queued)
         /\ DOMAIN inFlight' = 1..Len(inFlight')
         /\ \A i \in 1..Len(inFlight') :
              inFlight'[i] =
                IF i <= Len(direct) THEN direct[i]
                ELSE IF i <= Len(direct) + (Len(inFlight) - 1) THEN inFlight[i - Len(direct) + 1]
                ELSE queued[i - Len(direct) - (Len(inFlight) - 1)]
<1>. DEFINE d == Len(direct)
            q == Len(queued)
            below == IF stack # <<>> THEN Tail(stack) ELSE <<>>
            rest == IF stack # <<>> THEN queue ELSE Tail(queue)
            r == Len(rest)
<1>1. /\ d \in Nat /\ q \in Nat /\ DOMAIN direct = 1..d /\ DOMAIN queued = 1..q
      /\ AnySeq(stack) /\ AnySeq(queue) /\ Len(stack) \in Nat /\ Len(queue) \in Nat
  BY AnySeqParts DEF Shape, Lines
<1>2. below = <<>>
  <2>1. CASE stack # <<>>
    <3>1. Len(stack) > 0 /\ AnySeq(Tail(stack)) /\ Len(Tail(stack)) = Len(stack) - 1
      BY <2>1, AnySeqParts DEF Shape, Lines
    <3>2. Len(stack) <= 1
      BY DEF Shape, Lines
    <3>3. ASSUME NEW n \in Nat, n > 0, n <= 1 PROVE n - 1 = 0
      BY <3>3
    <3>4. Len(Tail(stack)) = 0
      BY <1>1, <3>1, <3>2, <3>3
    <3>5. Tail(stack) = <<>>
      BY <3>1, <3>4, AnySeqParts
    <3>. QED
      BY <2>1, <3>5
  <2>2. CASE stack = <<>>
    BY <2>2
  <2>. QED
    BY <2>1, <2>2
<1>3. /\ AnySeq(rest) /\ r \in Nat /\ DOMAIN rest = 1..r /\ Len(inFlight) = r + 1
      /\ \A i \in 1..r : ~Inner(rest[i]) /\ inFlight[i + 1] = rest[i]
  <2>1. /\ Len(inFlight) = Len(stack) + Len(queue)
        /\ \A i \in 1..Len(stack) + Len(queue) :
             inFlight[i] = IF i <= Len(stack) THEN stack[i] ELSE queue[i - Len(stack)]
    BY AnyConcat DEF inFlight, Shape, Lines
  <2>2. CASE stack # <<>>
    <3>1. Len(stack) = 1 /\ rest = queue
      <4>1. Len(stack) > 0
        BY <1>1, <2>2, AnySeqParts
      <4>2. Len(stack) <= 1
        BY DEF Shape, Lines
      <4>3. Len(stack) = 1
        <5>1. ASSUME NEW n \in Nat, n > 0, n <= 1 PROVE n = 1
          BY <5>1
        <5>. QED
          BY <1>1, <4>1, <4>2, <5>1
      <4>4. rest = queue
        BY <2>2
      <4>. QED
        BY <4>3, <4>4
    <3>2. AnySeq(rest) /\ r \in Nat /\ DOMAIN rest = 1..r /\ Len(inFlight) = r + 1
      <4>1. AnySeq(rest) /\ r = Len(queue) /\ DOMAIN rest = 1..Len(queue)
        BY <1>1, <3>1, AnySeqParts
      <4>. HIDE DEF r, rest
      <4>. QED
        BY <1>1, <2>1, <3>1, <4>1
    <3>3. ASSUME NEW i \in 1..r PROVE ~Inner(rest[i]) /\ inFlight[i + 1] = rest[i]
      <4>1. i + 1 \in 1..Len(stack) + Len(queue) /\ ~(i + 1 <= Len(stack)) /\ i + 1 - Len(stack) = i
        BY <1>1, <3>1
      <4>. QED
        BY <2>1, <3>1, <3>2, <4>1 DEF Shape, Lines
    <3>. QED
      BY <3>2, <3>3
  <2>3. CASE stack = <<>>
    <3>1. /\ Len(stack) = 0 /\ rest = Tail(queue) /\ Len(queue) > 0
          /\ AnySeq(rest) /\ r = Len(queue) - 1
          /\ \A i \in DOMAIN rest : rest[i] = queue[i + 1] /\ i + 1 \in DOMAIN queue
      BY <1>1, <2>3, AnySeqParts DEF Runs
    <3>2. r \in Nat /\ DOMAIN rest = 1..r /\ Len(inFlight) = r + 1
      BY <1>1, <2>1, <3>1, AnySeqParts
    <3>3. ASSUME NEW i \in 1..r PROVE ~Inner(rest[i]) /\ inFlight[i + 1] = rest[i]
      <4>1. /\ i + 1 \in 1..Len(stack) + Len(queue)
            /\ ~(i + 1 <= Len(stack)) /\ i + 1 - Len(stack) = i + 1
        BY <1>1, <3>1
      <4>. QED
        BY <2>1, <3>1, <3>2, <4>1 DEF Shape, Lines
    <3>. QED
      BY <3>1, <3>2, <3>3
  <2>. QED
    BY <2>2, <2>3
<1>4. stack' = direct /\ queue' = rest \o queued /\ phase' = phase
  <2>1. stack' = direct \o below /\ queue' = rest \o queued /\ phase' = phase
    BY DEF Leaves
  <2>2. direct \o <<>> = direct
    BY ConcatEmptySeq DEF AnySeq
  <2>. QED
    BY <1>2, <2>1, <2>2
<1>. HIDE DEF below, rest
<1>5. /\ AnySeq(queue') /\ Len(queue') = r + q /\ DOMAIN queue' = 1..r + q
      /\ \A i \in 1..r + q : queue'[i] = IF i <= r THEN rest[i] ELSE queued[i - r]
  BY <1>1, <1>3, <1>4, AnyConcat
<1>6. /\ Len(inFlight') = d + (r + q) /\ DOMAIN inFlight' = 1..d + (r + q)
      /\ \A i \in 1..d + (r + q) : inFlight'[i] = IF i <= d THEN direct[i] ELSE queue'[i - d]
  <2>1. inFlight' = direct \o queue'
    BY <1>4 DEF inFlight
  <2>. QED
    BY <1>5, <2>1, AnyConcat
<1>. HIDE DEF d, q, r
<1>7. (\A i \in DOMAIN queued : ~Inner(queued[i])) => \A i \in DOMAIN queue' : ~Inner(queue'[i])
  <2>1. \A i \in 1..r + q : (i <= r => i \in 1..r) /\ (~(i <= r) => i - r \in 1..q)
    BY <1>1, <1>3
  <2>. QED
    BY <1>1, <1>3, <1>5, <2>1
<1>8. Len(inFlight) - 1 = r /\ d + (r + q) = d + (Len(inFlight) - 1) + q
  BY <1>1, <1>3
<1>9. ASSUME NEW i \in 1..d + (r + q)
      PROVE  inFlight'[i] = IF i <= d THEN direct[i]
                            ELSE IF i <= d + r THEN inFlight[i - d + 1] ELSE queued[i - d - r]
  <2>1. CASE i <= d
    BY <1>6, <2>1
  <2>2. CASE ~(i <= d) /\ i <= d + r
    <3>1. i - d \in 1..r /\ i - d <= r /\ i - d \in 1..r + q
      BY <1>1, <1>3, <2>2
    <3>. QED
      BY <1>3, <1>5, <1>6, <2>2, <3>1
  <2>3. CASE ~(i <= d) /\ ~(i <= d + r)
    <3>1. ~(i - d <= r) /\ i - d \in 1..r + q
      BY <1>1, <1>3, <2>3
    <3>. QED
      BY <1>5, <1>6, <2>3, <3>1
  <2>. QED
    BY <2>1, <2>2, <2>3
<1>10. Len(direct) <= 1 => Len(stack') <= 1
  BY <1>4
<1>11. AnySeq(stack')
  BY <1>4
<1>12. Len(direct) <= 1 /\ (\A i \in DOMAIN queued : ~Inner(queued[i])) => Lines'
  BY <1>5, <1>7, <1>10, <1>11 DEF Lines
<1>. QED
  BY <1>4, <1>6, <1>8, <1>9, <1>12 DEF d, q

\* The handlers in flight after it.
LEMMA FlowHandlers ==
  ASSUME Shape, Runs, NEW direct, NEW queued, AnySeq(direct), AnySeq(queued), Leaves(direct, queued)
  PROVE  \A h \in flight' :
           \/ h \in others
           \/ \E i \in DOMAIN direct : h = direct[i]
           \/ \E i \in DOMAIN queued : h = queued[i]
<1>. DEFINE d == Len(direct)
            q == Len(queued)
            n == Len(inFlight)
<1>1. /\ d \in Nat /\ q \in Nat /\ n \in Nat /\ n > 0
      /\ DOMAIN direct = 1..d /\ DOMAIN queued = 1..q
  BY AnySeqParts, InFlight, RunningIsFirst
<1>2. /\ Len(inFlight') = d + (n - 1) + q /\ DOMAIN inFlight' = 1..d + (n - 1) + q
      /\ \A i \in 1..d + (n - 1) + q :
           inFlight'[i] = IF i <= d THEN direct[i]
                          ELSE IF i <= d + (n - 1) THEN inFlight[i - d + 1]
                          ELSE queued[i - d - (n - 1)]
  BY Flow
<1>3. others = {inFlight[i] : i \in 2..n}
  BY DEF others
<1>. HIDE DEF d, q, n
<1>4. ASSUME NEW i \in 1..d + (n - 1) + q
      PROVE  \/ inFlight'[i] \in others
             \/ \E j \in DOMAIN direct : inFlight'[i] = direct[j]
             \/ \E j \in DOMAIN queued : inFlight'[i] = queued[j]
  <2>1. CASE i <= d
    <3>1. i \in 1..d
      BY <1>1, <2>1
    <3>. QED
      BY <1>1, <1>2, <2>1, <3>1
  <2>2. CASE ~(i <= d) /\ i <= d + (n - 1)
    <3>1. i - d + 1 \in 2..n
      BY <1>1, <2>2
    <3>2. inFlight'[i] = inFlight[i - d + 1]
      BY <1>2, <2>2
    <3>. QED
      BY <1>3, <3>1, <3>2
  <2>3. CASE ~(i <= d) /\ ~(i <= d + (n - 1))
    <3>1. i - d - (n - 1) \in 1..q
      BY <1>1, <2>3
    <3>2. inFlight'[i] = queued[i - d - (n - 1)]
      BY <1>2, <2>3
    <3>. QED
      BY <1>1, <3>1, <3>2
  <2>. QED
    BY <2>1, <2>2, <2>3
<1>5. flight' = {inFlight'[i] : i \in 1..d + (n - 1) + q}
  BY <1>2 DEF flight
<1>. QED
  BY <1>4, <1>5

\* A path has one handler still, when it gets a new one only if it had no other.
LEMMA FlowOnce ==
  ASSUME Shape, Runs, NEW direct, NEW queued, AnySeq(direct), AnySeq(queued),
         Len(direct) <= 1, \A i \in DOMAIN queued : ~Inner(queued[i]), Leaves(direct, queued),
         NEW kind, Once(kind), \A i \in DOMAIN direct : Kind(direct[i]) # kind,
         \/ \A i \in DOMAIN queued : Kind(queued[i]) # kind
         \/ /\ Free(kind)
            /\ \A i, j \in DOMAIN queued : Kind(queued[i]) = kind /\ Kind(queued[j]) = kind => i = j
  PROVE  Once(kind)'
<1>. DEFINE d == Len(direct)
            q == Len(queued)
            n == Len(inFlight)
            Of(h) == Kind(h) = kind
<1>1. /\ d \in Nat /\ q \in Nat /\ n \in Nat /\ n > 0
      /\ DOMAIN direct = 1..d /\ DOMAIN queued = 1..q /\ DOMAIN inFlight = 1..n
  BY AnySeqParts, InFlight, RunningIsFirst
<1>2. /\ DOMAIN inFlight' = 1..d + (n - 1) + q
      /\ \A i \in 1..d + (n - 1) + q :
           inFlight'[i] = IF i <= d THEN direct[i]
                          ELSE IF i <= d + (n - 1) THEN inFlight[i - d + 1]
                          ELSE queued[i - d - (n - 1)]
  BY Flow
<1>3. /\ \A i \in 1..d : ~Of(direct[i])
      /\ \A i, j \in 1..n : Of(inFlight[i]) /\ Of(inFlight[j]) => i = j
      /\ \/ \A i \in 1..q : ~Of(queued[i])
         \/ /\ \A i \in 2..n : ~Of(inFlight[i])
            /\ \A i, j \in 1..q : Of(queued[i]) /\ Of(queued[j]) => i = j
  BY <1>1 DEF Once, Free, others
<1>. HIDE DEF d, q, n, Of
<1>4. ASSUME NEW i \in 1..d + (n - 1) + q, NEW j \in 1..d + (n - 1) + q,
             Of(inFlight'[i]), Of(inFlight'[j])
      PROVE  i = j
  <2>1. ASSUME NEW k \in 1..d + (n - 1) + q, Of(inFlight'[k])
        PROVE  \/ k - d + 1 \in 2..n /\ Of(inFlight[k - d + 1])
               \/ k - d - (n - 1) \in 1..q /\ Of(queued[k - d - (n - 1)])
    <3>1. CASE k <= d
      <4>1. k \in 1..d
        BY <1>1, <3>1
      <4>. QED
        BY <1>2, <1>3, <2>1, <3>1, <4>1
    <3>2. CASE ~(k <= d) /\ k <= d + (n - 1)
      <4>1. k - d + 1 \in 2..n
        BY <1>1, <3>2
      <4>. QED
        BY <1>2, <2>1, <3>2, <4>1
    <3>3. CASE ~(k <= d) /\ ~(k <= d + (n - 1))
      <4>1. k - d - (n - 1) \in 1..q
        BY <1>1, <3>3
      <4>. QED
        BY <1>2, <2>1, <3>3, <4>1
    <3>. QED
      BY <3>1, <3>2, <3>3
  <2>2. CASE \A k \in 1..q : ~Of(queued[k])
    <3>1. /\ i - d + 1 \in 1..n /\ Of(inFlight[i - d + 1])
          /\ j - d + 1 \in 1..n /\ Of(inFlight[j - d + 1])
      BY <1>1, <1>4, <2>1, <2>2
    <3>2. i - d + 1 = j - d + 1
      BY <1>3, <3>1
    <3>. QED
      BY <1>1, <3>2
  <2>3. CASE /\ \A k \in 2..n : ~Of(inFlight[k])
             /\ \A k, l \in 1..q : Of(queued[k]) /\ Of(queued[l]) => k = l
    <3>1. /\ i - d - (n - 1) \in 1..q /\ Of(queued[i - d - (n - 1)])
          /\ j - d - (n - 1) \in 1..q /\ Of(queued[j - d - (n - 1)])
      BY <1>4, <2>1, <2>3
    <3>2. i - d - (n - 1) = j - d - (n - 1)
      BY <2>3, <3>1
    <3>. QED
      BY <1>1, <3>2
  <2>. QED
    BY <1>3, <2>2, <2>3
<1>. QED
  BY <1>2, <1>4 DEF Once, Of

\* The steps of the handlers, by what they call and queue.
LEMMA FlowNone ==
  ASSUME Shape, Paths, Runs, Leaves(<<>>, <<>>)
  PROVE  /\ Lines' /\ phase' = phase /\ Paths'
         /\ Len(inFlight') = Len(inFlight) - 1 /\ Len(inFlight') <= Len(inFlight)
         /\ flight' \subseteq others
<1>. DEFINE none == <<>>
<1>1. AnySeq(none) /\ Len(none) = 0 /\ DOMAIN none = {}
  BY AnyLiteral
<1>2. Leaves(none, none)
  OBVIOUS
<1>3. Len(inFlight) \in Nat
  BY InFlight
<1>. HIDE DEF none
<1>4. /\ Len(none) <= 1 /\ \A i \in DOMAIN none : ~Inner(none[i])
      /\ \A kind : \A i \in DOMAIN none : Kind(none[i]) # kind
  BY <1>1
<1>5. /\ Lines' /\ phase' = phase
      /\ Len(inFlight') = Len(none) + (Len(inFlight) - 1) + Len(none)
  BY <1>1, <1>2, <1>4, Flow
<1>6. Len(inFlight') = Len(inFlight) - 1 /\ Len(inFlight') <= Len(inFlight)
  BY <1>1, <1>3, <1>5
<1>7. flight' \subseteq others
  BY <1>1, <1>2, <1>4, FlowHandlers
<1>8. ASSUME NEW kind, Once(kind) PROVE Once(kind)'
  BY <1>1, <1>2, <1>4, <1>8, FlowOnce
<1>. QED
  BY <1>5, <1>6, <1>7, <1>8 DEF Paths

LEMMA FlowQueues ==
  ASSUME Shape, Paths, Runs, NEW h, ~Inner(h), Leaves(<<>>, <<h>>),
         \A kind \in {"record", "part"} : Kind(h) = kind => Free(kind)
  PROVE  /\ Lines' /\ phase' = phase /\ Paths'
         /\ Len(inFlight') = Len(inFlight) /\ Len(inFlight') <= Len(inFlight)
         /\ flight' \subseteq others \cup {h}
<1>. DEFINE none == <<>>
            one == <<h>>
<1>1. /\ AnySeq(none) /\ Len(none) = 0 /\ DOMAIN none = {}
      /\ AnySeq(one) /\ Len(one) = 1 /\ DOMAIN one = {1} /\ one[1] = h
  BY AnyLiteral
<1>2. Leaves(none, one)
  OBVIOUS
<1>3. Len(inFlight) \in Nat
  BY InFlight
<1>. HIDE DEF none, one
<1>4. /\ Len(none) <= 1 /\ \A i \in DOMAIN one : ~Inner(one[i])
      /\ \A kind : \A i \in DOMAIN none : Kind(none[i]) # kind
  BY <1>1
<1>5. /\ Lines' /\ phase' = phase
      /\ Len(inFlight') = Len(none) + (Len(inFlight) - 1) + Len(one)
  BY <1>1, <1>2, <1>4, Flow
<1>6. Len(inFlight') = Len(inFlight) /\ Len(inFlight') <= Len(inFlight)
  BY <1>1, <1>3, <1>5
<1>7. flight' \subseteq others \cup {h}
  BY <1>1, <1>2, <1>4, FlowHandlers
<1>8. ASSUME NEW kind \in {"record", "part"}, Once(kind) PROVE Once(kind)'
  <2>1. \/ \A i \in DOMAIN one : Kind(one[i]) # kind
        \/ /\ Free(kind)
           /\ \A i, j \in DOMAIN one : Kind(one[i]) = kind /\ Kind(one[j]) = kind => i = j
    BY <1>1
  <2>. QED
    BY <1>1, <1>2, <1>4, <1>8, <2>1, FlowOnce
<1>. QED
  BY <1>5, <1>6, <1>7, <1>8 DEF Paths

LEMMA FlowCalls ==
  ASSUME Shape, Paths, Runs, NEW h, Kind(h) = "other", Leaves(<<h>>, <<>>)
  PROVE  /\ Lines' /\ phase' = phase /\ Paths'
         /\ Len(inFlight') = Len(inFlight) /\ Len(inFlight') <= Len(inFlight)
         /\ flight' \subseteq others \cup {h}
<1>. DEFINE none == <<>>
            one == <<h>>
<1>1. /\ AnySeq(none) /\ Len(none) = 0 /\ DOMAIN none = {}
      /\ AnySeq(one) /\ Len(one) = 1 /\ DOMAIN one = {1} /\ one[1] = h
  BY AnyLiteral
<1>2. Leaves(one, none)
  OBVIOUS
<1>3. Len(inFlight) \in Nat
  BY InFlight
<1>. HIDE DEF none, one
<1>4. /\ Len(one) <= 1 /\ \A i \in DOMAIN none : ~Inner(none[i])
      /\ \A kind : \A i \in DOMAIN none : Kind(none[i]) # kind
  BY <1>1
<1>5. /\ Lines' /\ phase' = phase
      /\ Len(inFlight') = Len(one) + (Len(inFlight) - 1) + Len(none)
  BY <1>1, <1>2, <1>4, Flow
<1>6. Len(inFlight') = Len(inFlight) /\ Len(inFlight') <= Len(inFlight)
  BY <1>1, <1>3, <1>5
<1>7. flight' \subseteq others \cup {h}
  BY <1>1, <1>2, <1>4, FlowHandlers
<1>8. ASSUME NEW kind \in {"record", "part"}, Once(kind) PROVE Once(kind)'
  <2>1. \A i \in DOMAIN one : Kind(one[i]) # kind
    BY <1>1
  <2>. QED
    BY <1>1, <1>2, <1>4, <1>8, <2>1, FlowOnce
<1>. QED
  BY <1>5, <1>6, <1>7, <1>8 DEF Paths

LEMMA FlowQueuesTwo ==
  ASSUME Shape, Paths, Runs, NEW a, NEW b, ~Inner(a), ~Inner(b), Leaves(<<>>, <<a, b>>),
         Kind(a) = "other" \/ Kind(b) = "other",
         \A kind \in {"record", "part"} : Kind(a) = kind \/ Kind(b) = kind => Free(kind)
  PROVE  /\ Lines' /\ phase' = phase /\ Paths'
         /\ flight' \subseteq others \cup {a, b}
<1>. DEFINE none == <<>>
            two == <<a, b>>
<1>1. AnySeq(none) /\ Len(none) = 0 /\ DOMAIN none = {}
  BY AnyLiteral
<1>2. AnySeq(two) /\ DOMAIN two = {1, 2} /\ two[1] = a /\ two[2] = b
  <2>1. two \in Seq({a, b})
    OBVIOUS
  <2>2. DOMAIN two = {1, 2} /\ two[1] = a /\ two[2] = b
    OBVIOUS
  <2>. QED
    BY <2>1, <2>2, IsAnySeq
<1>3. Leaves(none, two)
  OBVIOUS
<1>. HIDE DEF none, two
<1>4. /\ Len(none) <= 1 /\ \A i \in DOMAIN two : ~Inner(two[i])
      /\ \A kind : \A i \in DOMAIN none : Kind(none[i]) # kind
  BY <1>1, <1>2
<1>5. Lines' /\ phase' = phase
  BY <1>1, <1>2, <1>3, <1>4, Flow
<1>6. flight' \subseteq others \cup {a, b}
  BY <1>1, <1>2, <1>3, <1>4, FlowHandlers
<1>7. ASSUME NEW kind \in {"record", "part"}, Once(kind) PROVE Once(kind)'
  <2>1. \/ \A i \in DOMAIN two : Kind(two[i]) # kind
        \/ /\ Free(kind)
           /\ \A i, j \in DOMAIN two : Kind(two[i]) = kind /\ Kind(two[j]) = kind => i = j
    BY <1>2
  <2>. QED
    BY <1>1, <1>2, <1>3, <1>4, <1>7, <2>1, FlowOnce
<1>. QED
  BY <1>5, <1>6, <1>7 DEF Paths

-----------------------------------------------------------------------------
(* What a step keeps.                                                      *)

\* A handler runs: it fits, and so do the others, of which none opens the connection.
LEMMA RunningFits ==
  ASSUME IInv, Runs
  PROVE  /\ Shape /\ Paths /\ Fits(Running) /\ ~Connecting /\ phase # "select"
         /\ \A h \in others :
              /\ Formed(h) /\ ~Opening(h) /\ ~Inner(h) /\ Driven(h) /\ Placed(h)
              /\ rm = NULL /\ ~Opening(Running)
         /\ rm # NULL \/ Opening(Running) => others = {} /\ Len(inFlight) = 1
<1>1. Shape /\ Alone /\ Paths /\ \A h \in flight : Fits(h)
  BY DEF IInv
<1>2. /\ others \subseteq flight /\ Running \in flight /\ phase # "select" /\ inFlight # <<>>
      /\ Len(inFlight) <= 1 => Len(inFlight) = 1
      /\ Len(inFlight) = 1 => others = {}
  BY <1>1, InFlight, RunningIsFirst, OneIsAlone
<1>3. ~Connecting /\ Fits(Running)
  BY <1>1, <1>2 DEF Alone
<1>4. rm # NULL \/ Opening(Running) => others = {} /\ Len(inFlight) = 1
  <2>1. Opening(Running) => Len(inFlight) = 1
    BY <1>3 DEF Fits, Lone
  <2>2. rm # NULL => Len(inFlight) = 1
    BY <1>1, <1>2 DEF Alone
  <2>. QED
    BY <1>2, <2>1, <2>2
<1>5. ASSUME NEW h \in others
      PROVE  /\ Formed(h) /\ ~Opening(h) /\ ~Inner(h) /\ Driven(h) /\ Placed(h)
             /\ rm = NULL /\ ~Opening(Running)
  <2>1. Fits(h)
    BY <1>1, <1>2
  <2>2. ~Opening(h)
    <3>1. Opening(h) => Len(inFlight) = 1
      BY <2>1 DEF Fits, Lone
    <3>. QED
      BY <1>2, <1>5, <3>1
  <2>3. ~Inner(h)
    BY <1>1, NoneIsInner
  <2>. QED
    BY <1>4, <2>1, <2>2, <2>3 DEF Fits
<1>. QED
  BY <1>1, <1>2, <1>3, <1>4, <1>5

\* A handler that opens nothing fits, when there is no context and it is placed.
LEMMA QuietFits ==
  ASSUME NEW h, Formed(h), ~Opening(h), rm' = NULL, Driven(h)',
         Ends(h, "TLS") => ~Has("IO")', Ends(h, "CODEC") => ~Has("TLS")',
         Ends(h, "USER") => ~Has("CODEC")'
  PROVE  Fits(h)'
<1>1. Formed(h)' /\ Lone(h)' /\ Reading(h)'
  BY DEF Formed, IsHandle, Lone, Reading
<1>2. Placed(h)'
  BY DEF Placed, Opening, Dials, Ends
<1>. QED
  BY <1>1, <1>2 DEF Fits

\* What most steps leave as it is.
stateKept ==
  /\ UNCHANGED <<user_data, connection_state, io_timeouts, dangling, on_socket, fileVars, rm,
                 file_fds, tls_context, init_cs, logic_handler, write_state, to_write_buffer,
                 push_cs>>
  /\ socket' = socket \/ Has("IO")

\* A step that only calls and queues handlers that fit.
LEMMA Passes ==
  ASSUME IInv, Runs, Running.layer # "RESOURCE", Lines', phase' = phase, Paths', stateKept,
         AnySeq(task_queue'), DOMAIN layer_state' = Layers,
         layer_state'["USER"] = "CONNECTED" => layer_state["USER"] = "CONNECTED",
         rm = NULL \/ Len(inFlight') <= Len(inFlight),
         NEW new, flight' \subseteq others \cup new, \A h \in new : Fits(h)'
  PROVE  IInv'
<1>1. /\ Shape /\ Alone /\ Paths /\ Down /\ Files /\ Session
      /\ \A h \in others :
           /\ Formed(h) /\ ~Opening(h) /\ Driven(h) /\ Placed(h) /\ rm = NULL
      /\ ~Connecting /\ phase # "select" /\ Running \in flight
      /\ Len(inFlight) \in Nat
  BY RunningFits, InFlight, RunningIsFirst DEF IInv
<1>2. file_fds = {}
  <2>1. Coroutine("read_coroutine").layer = "RESOURCE"
    BY DEF Coroutine, Handle
  <2>. QED
    BY <1>1, <2>1 DEF Alone
<1>3. Shape'
  BY <1>1 DEF Shape, stateKept, IsHandle
<1>4. Alone'
  <2>1. ~Connecting' /\ file_fds' = {} /\ rm' = rm /\ connection_state' = connection_state
    BY <1>1, <1>2 DEF stateKept, Connecting
  <2>2. rm # NULL => connection_state = "OPENING" /\ Len(inFlight') <= 1
    <3>1. rm # NULL => Len(inFlight) = 1 /\ connection_state = "OPENING"
      BY <1>1, RunningFits DEF Alone
    <3>. QED
      BY <3>1
  <2>. QED
    BY <2>1, <2>2 DEF Alone
<1>5. Down'
  BY <1>1 DEF Down, stateKept, Connecting, Has
<1>6. Files'
  BY <1>1, <1>2 DEF Files, stateKept, fileVars, IsContext, IsHandle, Readable,
     AssertionsAreKnown, Runs
<1>7. Session'
  BY <1>1 DEF Session, stateKept, Busy, Has, IsSession, IsBuffer
<1>8. ASSUME NEW h \in others PROVE Fits(h)'
  <2>1. Driven(h)'
    BY <1>1 DEF Driven, stateKept, Has, Busy, NeedsSession
  <2>. QED
    BY <1>1, <2>1, QuietFits DEF stateKept, Placed, Has
<1>. QED
  BY <1>3, <1>4, <1>5, <1>6, <1>7, <1>8 DEF IInv

\* What a handler makes of the states of the layers.
LEMMA ReturnsAny ==
  ASSUME Shape, NEW direct, NEW queued, Returns(direct, queued)
  PROVE  /\ Leaves(direct, queued) /\ DOMAIN layer_state' = Layers
         /\ \A l \in Layers : l # Running.layer => layer_state'[l] = layer_state[l]
         /\ Running.layer \in Layers =>
              layer_state'[Running.layer] = FoldLeft(StateAfter, layer_state[Running.layer], queued)
<1>1. DOMAIN layer_state = Layers
  BY DEF Shape
<1>2. /\ Leaves(direct, queued)
      /\ layer_state' =
           [layer_state EXCEPT ![Running.layer] =
              FoldLeft(StateAfter, layer_state[Running.layer], queued)]
  BY DEF Returns
<1>. QED
  BY <1>1, <1>2

LEMMA ReturnsNone ==
  ASSUME Shape, NEW direct, Returns(direct, <<>>)
  PROVE  /\ Leaves(direct, <<>>) /\ DOMAIN layer_state' = Layers
         /\ \A l \in Layers : layer_state'[l] = layer_state[l]
BY ReturnsAny, StateAfterNone

LEMMA ReturnsOne ==
  ASSUME Shape, NEW direct, NEW h, Returns(direct, <<h>>)
  PROVE  /\ Leaves(direct, <<h>>) /\ DOMAIN layer_state' = Layers
         /\ \A l \in Layers : l # Running.layer => layer_state'[l] = layer_state[l]
         /\ Running.layer \in Layers =>
              layer_state'[Running.layer] = StateAfter(layer_state[Running.layer], h)
BY ReturnsAny, StateAfterOne

\* h would fit now, and does after the step.
FitsNext(h) ==
  /\ Formed(h) /\ Placed(h) /\ Reading(h) /\ Driven(h)
  /\ Opening(h) => Opening(Running)
  /\ Dials(h) => Running.layer # "TLS"

LEMMA NextFits ==
  ASSUME IInv, Runs, NEW h, FitsNext(h), stateKept, Len(inFlight') = Len(inFlight),
         \A l \in Layers : l # Running.layer => layer_state'[l] = layer_state[l]
  PROVE  Fits(h)'
<1>1. Formed(h)'
  BY DEF FitsNext, Formed, IsHandle
<1>2. Lone(h)'
  <2>1. Opening(Running) => Len(inFlight) = 1 /\ connection_state = "OPENING" /\ ~Connecting
    BY RunningFits DEF Fits, Lone
  <2>2. connection_state' = connection_state /\ (~Connecting => ~Connecting')
    BY DEF stateKept, Connecting
  <2>. QED
    BY <2>1, <2>2 DEF Lone, FitsNext
<1>3. Placed(h)'
  <2>1. Dials(h) => layer_state'["TLS"] = layer_state["TLS"]
    BY Neighbours DEF FitsNext
  <2>2. UNCHANGED <<user_data, init_cs, rm, logic_handler>> /\ Placed(h)
    BY DEF stateKept, FitsNext
  <2>3. Dials(h) => (CanServe("TLS") => CanServe("TLS")')
    BY <2>1, <2>2 DEF CanServe, NotOperational
  <2>. QED
    BY <2>2, <2>3 DEF Placed, Has
<1>4. Reading(h)'
  BY DEF Reading, FitsNext, stateKept, fileVars, Requested, Follows, Readable
<1>5. Driven(h)'
  BY DEF Driven, FitsNext, stateKept, Has, Busy, NeedsSession
<1>. QED
  BY <1>1, <1>2, <1>3, <1>4, <1>5 DEF Fits

LEMMA PassesNone ==
  ASSUME IInv, Runs, Running.layer # "RESOURCE", Returns(<<>>, <<>>), stateKept, AnySeq(task_queue')
  PROVE  IInv'
<1>1. Shape /\ Paths
  BY DEF IInv
<1>2. /\ Leaves(<<>>, <<>>) /\ DOMAIN layer_state' = Layers
      /\ layer_state'["USER"] = layer_state["USER"]
  BY <1>1, ReturnsNone, Neighbours
<1>3. /\ Lines' /\ phase' = phase /\ Paths' /\ Len(inFlight') <= Len(inFlight)
      /\ flight' \subseteq others
  BY <1>1, <1>2, FlowNone
<1>. DEFINE new == {}
<1>4. flight' \subseteq others \cup new /\ \A h \in new : Fits(h)'
  BY <1>3
<1>. HIDE DEF new
<1>. QED
  BY <1>2, <1>3, <1>4, Passes

LEMMA PassesQueued ==
  ASSUME IInv, Runs, Running.layer \in Layers, NEW h, Returns(<<>>, <<h>>), stateKept,
         AnySeq(task_queue'), FitsNext(h), ~Inner(h),
         \A kind \in {"record", "part"} : Kind(h) = kind => Free(kind),
         Running.layer = "USER" => h.fn # "connect"
  PROVE  IInv'
<1>1. Shape /\ Paths
  BY DEF IInv
<1>2. /\ Leaves(<<>>, <<h>>) /\ DOMAIN layer_state' = Layers
      /\ \A l \in Layers : l # Running.layer => layer_state'[l] = layer_state[l]
      /\ layer_state'[Running.layer] = StateAfter(layer_state[Running.layer], h)
  BY <1>1, ReturnsOne
<1>3. layer_state'["USER"] = "CONNECTED" => layer_state["USER"] = "CONNECTED"
  BY <1>2, Neighbours DEF StateAfter
<1>4. /\ Lines' /\ phase' = phase /\ Paths' /\ Len(inFlight') <= Len(inFlight)
      /\ Len(inFlight') = Len(inFlight) /\ flight' \subseteq others \cup {h}
  BY <1>1, <1>2, FlowQueues
<1>5. Fits(h)'
  BY <1>2, <1>4, NextFits
<1>6. Running.layer # "RESOURCE"
  BY Neighbours
<1>. DEFINE new == {h}
<1>7. flight' \subseteq others \cup new /\ \A g \in new : Fits(g)'
  BY <1>4, <1>5
<1>. HIDE DEF new
<1>. QED
  BY <1>2, <1>3, <1>4, <1>6, <1>7, Passes

LEMMA PassesCalled ==
  ASSUME IInv, Runs, Running.layer \in Layers, NEW h, Returns(<<h>>, <<>>), stateKept,
         AnySeq(task_queue'), FitsNext(h), Kind(h) = "other"
  PROVE  IInv'
<1>1. Shape /\ Paths
  BY DEF IInv
<1>2. /\ Leaves(<<h>>, <<>>) /\ DOMAIN layer_state' = Layers
      /\ \A l \in Layers : layer_state'[l] = layer_state[l]
  BY <1>1, ReturnsNone
<1>3. layer_state'["USER"] = layer_state["USER"]
  BY <1>2, Neighbours
<1>4. /\ Lines' /\ phase' = phase /\ Paths' /\ Len(inFlight') <= Len(inFlight)
      /\ Len(inFlight') = Len(inFlight) /\ flight' \subseteq others \cup {h}
  BY <1>1, <1>2, FlowCalls
<1>5. Fits(h)'
  BY <1>2, <1>4, NextFits
<1>6. Running.layer # "RESOURCE"
  BY Neighbours
<1>. DEFINE new == {h}
<1>7. flight' \subseteq others \cup new /\ \A g \in new : Fits(g)'
  BY <1>4, <1>5
<1>. HIDE DEF new
<1>. QED
  BY <1>2, <1>3, <1>4, <1>6, <1>7, Passes

LEMMA RunsIt ==
  ASSUME NEW fn, NEW layer, IsRunning(fn, layer)
  PROVE  Runs /\ Running.fn = fn /\ Running.layer = layer
BY DEF IsRunning, Runs

-----------------------------------------------------------------------------
(* The network layer.                                                      *)

\* What is not the network layer's.
aboveNet == UNCHANGED <<codecVars, tlsVars, userVars>>

LEMMA IoInitKeeps ==
  ASSUME NullIsNoValue, IInv, IoInit, aboveNet
  PROVE  IInv'
<1>. DEFINE h == Handle("connect", "IO", NULL, "OK")
<1>1. /\ Runs /\ Running.fn = "init" /\ Running.layer = "IO"
      /\ user_data' = user_data \cup {"IO"} /\ "IO" \notin user_data
      /\ Returns(<<>>, <<h>>)
      /\ UNCHANGED <<connection_state, io_timeouts, dangling, netVars, codecVars, tlsVars,
                     userVars>>
  BY RunsIt DEF IoInit, sharedUnchanged, aboveNet
<1>2. /\ h.fn = "connect" /\ h.layer = "IO" /\ h.state = "OK" /\ IsHandle(h)
  BY HandlerFields
<1>. HIDE DEF h
<1>3. /\ Shape /\ Alone /\ Paths /\ Down /\ Files /\ Session /\ Fits(Running) /\ Opening(Running)
      /\ others = {} /\ Len(inFlight) = 1 /\ ~Connecting /\ phase # "select"
  BY <1>1, RunningFits DEF IInv, Opening
<1>4. /\ Leaves(<<>>, <<h>>) /\ DOMAIN layer_state' = Layers
      /\ \A l \in Layers : l # Running.layer => layer_state'[l] = layer_state[l]
  BY <1>1, <1>3, ReturnsOne
<1>5. Kind(h) = "other" /\ ~Inner(h)
  BY <1>2 DEF Kind, Inner
<1>6. Lines' /\ phase' = phase /\ Paths' /\ Len(inFlight') = 1 /\ flight' \subseteq {h}
  BY <1>3, <1>4, <1>5, <1>1, FlowQueues
<1>7. /\ ~Has("IO") /\ Has("TLS") /\ CanServe("TLS") /\ logic_handler = "CONNECT" /\ rm = NULL
      /\ connection_state = "OPENING" /\ on_socket = NULL /\ file_fds = {}
  BY <1>1, <1>3 DEF Fits, Placed, Dials, Lone, Down, Alone
<1>8. CanServe("TLS")' /\ layer_state'["USER"] = layer_state["USER"]
  BY <1>1, <1>4, <1>7, Neighbours DEF CanServe, NotOperational
<1>9. Shape' /\ Alone'
  BY <1>1, <1>3, <1>4, <1>6, <1>7
     DEF Shape, Alone, netVars, codecVars, tlsVars, resourceVars, Connecting
<1>10. Down'
  BY <1>1, <1>3, <1>7, <1>8
     DEF Down, netVars, codecVars, tlsVars, resourceVars, layerVars, Has, Connecting
<1>11. Files'
  BY <1>1, <1>3, <1>6, <1>7
     DEF Files, tlsVars, resourceVars, fileVars, Readable, AssertionsAreKnown, Runs, layerVars
<1>12. Session'
  BY <1>1, <1>3, <1>7
     DEF Session, Has, netVars, codecVars, tlsVars, layerVars, Busy, IsSession, IsBuffer
<1>13. Fits(h)'
  <2>1. Formed(h)' /\ Lone(h)' /\ Reading(h)'
    BY <1>1, <1>2, <1>6, <1>7
       DEF Formed, IsHandle, Lone, Connecting, netVars, Reading, tlsVars, resourceVars
  <2>2. Placed(h)'
    BY <1>1, <1>2, <1>7, <1>8 DEF Placed, Has, Ends, tlsVars, resourceVars, layerVars
  <2>3. Driven(h)'
    BY <1>2, <1>5 DEF Driven, NeedsSession
  <2>. QED
    BY <2>1, <2>2, <2>3 DEF Fits
<1>. QED
  BY <1>6, <1>9, <1>10, <1>11, <1>12, <1>13 DEF IInv

LEMMA IoConnectKeeps ==
  ASSUME NullIsNoValue, IInv, IoConnectStart \/ IoConnectResume, aboveNet
  PROVE  IInv'
<1>1. /\ Runs /\ Running.fn = "connect" /\ Running.layer = "IO"
      /\ UNCHANGED <<user_data, connection_state, io_timeouts, dangling, codecVars, tlsVars,
                     userVars>>
  BY RunsIt DEF IoConnectStart, IoConnectResume, sharedUnchanged, aboveNet
<1>2. /\ Shape /\ Alone /\ Paths /\ Down /\ Files /\ Session /\ Fits(Running) /\ Opening(Running)
      /\ others = {} /\ Len(inFlight) = 1 /\ ~Connecting /\ phase # "select"
  BY <1>1, RunningFits DEF IInv, Opening
<1>3. /\ Has("IO") /\ CanServe("TLS") /\ logic_handler = "CONNECT" /\ rm = NULL
      /\ connection_state = "OPENING"
  BY <1>1, <1>2 DEF Fits, Placed, Dials, Lone
<1>4. CASE /\ socket' \in {"CONNECTING", "OPEN", socket} /\ on_socket' = on_socket
           /\ \E state \in {"OK", "ERROR"} : Returns(<<>>, <<OnNext("IO", "connect", NULL, state)>>)
  <2>1. PICK state \in {"OK", "ERROR"} : Returns(<<>>, <<OnNext("IO", "connect", NULL, state)>>)
    BY <1>4
  <2>. DEFINE h == OnNext("IO", "connect", NULL, state)
  <2>2. h.fn = "connect" /\ h.layer = "TLS" /\ h.state = state /\ IsHandle(h)
    BY HandlerFields, Neighbours DEF OnNext
  <2>3. Returns(<<>>, <<h>>)
    BY <2>1
  <2>. HIDE DEF h
  <2>4. Kind(h) = "other" /\ ~Inner(h)
    BY <2>2 DEF Kind, Inner
  <2>5. FitsNext(h)
    BY <1>1, <1>2, <1>3, <2>2, <2>4
       DEF FitsNext, Formed, Placed, Ends, Dials, Reading, Driven, NeedsSession
  <2>6. stateKept
    BY <1>1, <1>3, <1>4 DEF stateKept, codecVars, tlsVars, resourceVars, layerVars
  <2>7. Running.layer \in Layers /\ AnySeq(task_queue')
    BY <1>1, <1>2, Neighbours DEF Shape, codecVars
  <2>. QED
    BY <1>1, <2>3, <2>4, <2>5, <2>6, <2>7, PassesQueued
<1>5. CASE socket' = "CONNECTING" /\ on_socket' = Running /\ Returns(<<>>, <<>>)
  <2>1. /\ Leaves(<<>>, <<>>) /\ DOMAIN layer_state' = Layers
        /\ \A l \in Layers : layer_state'[l] = layer_state[l]
    BY <1>2, <1>5, ReturnsNone
  <2>2. /\ Lines' /\ phase' = phase /\ Paths' /\ flight' = {}
        /\ Len(inFlight') = Len(inFlight) - 1
    BY <1>1, <1>2, <2>1, FlowNone
  <2>3. inFlight' = <<>>
    BY <1>2, <2>2, EmptyFlight
  <2>4. IsHandle(Running) /\ Running # NULL
    BY <1>2 DEF Fits, Formed, NullIsNoValue, IsHandle
  <2>5. CanServe("TLS")' /\ layer_state'["USER"] = layer_state["USER"]
    BY <1>1, <1>3, <2>1, Neighbours DEF CanServe, NotOperational
  <2>6. Shape'
    BY <1>1, <1>2, <1>5, <2>1, <2>2, <2>4 DEF Shape, codecVars, IsHandle
  <2>7. Alone'
    BY <1>1, <1>3, <1>2, <2>2, <2>3 DEF Alone, tlsVars, resourceVars
  <2>8. Down'
    BY <1>1, <1>2, <1>3, <1>5, <2>5 DEF Down, tlsVars, resourceVars, layerVars, Has
  <2>9. Files'
    BY <1>1, <1>2, <1>3, <2>2
       DEF Files, Alone, tlsVars, resourceVars, fileVars, Readable, AssertionsAreKnown, Runs
  <2>10. Session'
    BY <1>1, <1>2, <1>5 DEF Session, Has, codecVars, tlsVars, layerVars, Busy, IsSession, IsBuffer
  <2>. QED
    BY <2>2, <2>6, <2>7, <2>8, <2>9, <2>10 DEF IInv
<1>. QED
  BY <1>4, <1>5 DEF IoConnectStart, IoConnectResume

\* The layer ends the connection.
LEMMA IoEnds ==
  ASSUME IInv, Runs, Running.layer = "IO", stateKept, AnySeq(task_queue'),
         rm # NULL => Follows(Running) /\ Running.fn # "init",
         NEW state, Returns(<<>>, <<Handle("close_externally", "IO", NULL, state)>>)
  PROVE  IInv'
<1>. DEFINE h == Handle("close_externally", "IO", NULL, state)
<1>1. h.fn = "close_externally" /\ h.layer = "IO" /\ IsHandle(h)
  BY HandlerFields
<1>2. Returns(<<>>, <<h>>)
  OBVIOUS
<1>. HIDE DEF h
<1>3. Kind(h) = "other" /\ ~Inner(h)
  BY <1>1 DEF Kind, Inner
<1>4. FitsNext(h)
  BY <1>1, <1>3
     DEF FitsNext, Formed, Opening, Placed, Ends, Dials, Reading, Follows, Driven, NeedsSession
<1>5. Running.layer \in Layers
  BY Neighbours
<1>. QED
  BY <1>2, <1>3, <1>4, <1>5, PassesQueued

LEMMA IoPushKeeps ==
  ASSUME NullIsNoValue, IInv, IoPush \/ IoPushDropped, aboveNet
  PROVE  IInv'
<1>1. /\ Runs /\ Running.fn = "push" /\ Running.layer = "IO" /\ Running.layer \in Layers
      /\ stateKept
  BY RunsIt, Neighbours
     DEF IoPush, IoPushDropped, sharedUnchanged, aboveNet, stateKept, netVars, codecVars, tlsVars,
         resourceVars, layerVars
<1>2. AnySeq(task_queue')
  BY DEF IInv, Shape, aboveNet, codecVars
<1>3. /\ Shape /\ Paths /\ Down /\ Fits(Running)
  BY <1>1, RunningFits DEF IInv
<1>4. Kind(Running) = "record" /\ Free("record") /\ Driven(Running)
  BY <1>1, <1>3, Kinds, FreeOf DEF Paths, Fits
<1>5. CASE CanServe("IO") /\ Returns(<<>>, <<OnNext("IO", "push", NULL, "WRITTEN")>>)
  <2>. DEFINE h == OnNext("IO", "push", NULL, "WRITTEN")
  <2>1. h.fn = "push" /\ h.layer = "TLS" /\ h.state = "WRITTEN" /\ IsHandle(h)
    BY HandlerFields, Neighbours DEF OnNext
  <2>2. Returns(<<>>, <<h>>)
    BY <1>5
  <2>. HIDE DEF h
  <2>3. Kind(h) = "record" /\ ~Inner(h)
    BY <2>1 DEF Kind, Inner
  <2>4. rm = NULL
    BY <1>3, <1>5 DEF Down, CanServe, Has
  <2>5. FitsNext(h)
    BY <1>4, <2>1, <2>3, <2>4
       DEF FitsNext, Formed, Opening, Placed, Ends, Dials, Reading, Driven, NeedsSession
  <2>. QED
    BY <1>1, <1>2, <1>4, <2>2, <2>3, <2>5, PassesQueued
<1>6. CASE CanServe("IO") /\ Returns(<<>>, <<Handle("close_externally", "IO", NULL, "ERROR")>>)
  <2>1. rm = NULL
    BY <1>3, <1>6 DEF Down, CanServe, Has
  <2>. QED
    BY <1>1, <1>2, <1>6, <2>1, IoEnds
<1>7. CASE Returns(<<>>, <<>>)
  BY <1>1, <1>2, <1>7, PassesNone
<1>. QED
  BY <1>5, <1>6, <1>7 DEF IoPush, IoPushDropped

LEMMA IoPullKeeps ==
  ASSUME NullIsNoValue, IInv, IoPull \/ IoPullReset, aboveNet
  PROVE  IInv'
<1>1. /\ Runs /\ Running.fn = "pull" /\ Running.layer = "IO" /\ Running.layer \in Layers
      /\ CanServe("IO") /\ stateKept
  BY RunsIt, Neighbours
     DEF IoPull, IoPullReset, sharedUnchanged, aboveNet, stateKept, netVars, codecVars, tlsVars,
         resourceVars, layerVars
<1>2. AnySeq(task_queue') /\ Down /\ Shape
  BY DEF IInv, Shape, aboveNet, codecVars
<1>3. rm = NULL /\ logic_handler # "NONE"
  BY <1>1, <1>2 DEF Down, CanServe, Has
<1>4. ASSUME NEW data, Returns(<<>>, <<OnNext("IO", "pull", data, "OK")>>)
      PROVE  IInv'
  <2>. DEFINE h == OnNext("IO", "pull", data, "OK")
  <2>1. h.fn = "pull" /\ h.layer = "TLS" /\ h.state = "OK" /\ IsHandle(h)
    BY HandlerFields, Neighbours DEF OnNext
  <2>2. Returns(<<>>, <<h>>)
    BY <1>4
  <2>. HIDE DEF h
  <2>3. Kind(h) = "other" /\ ~Inner(h)
    BY <2>1 DEF Kind, Inner
  <2>4. FitsNext(h)
    BY <1>3, <2>1, <2>3
       DEF FitsNext, Formed, Opening, Placed, Ends, Dials, Reading, Driven, NeedsSession
  <2>. QED
    BY <1>1, <1>2, <2>2, <2>3, <2>4, PassesQueued
<1>5. RestartsIoTimeouts
  BY <1>2 DEF Shape, RestartsIoTimeouts
<1>6. CASE Returns(<<>>, <<Handle("close_externally", "IO", NULL, "ERROR")>>)
  BY <1>1, <1>2, <1>3, <1>6, IoEnds
<1>. QED
  BY <1>4, <1>5, <1>6 DEF IoPull, IoPullReset

LEMMA IoCloseKeeps ==
  ASSUME NullIsNoValue, IInv, IoClose, aboveNet
  PROVE  IInv'
<1>1. /\ Runs /\ Running.fn = "close" /\ Running.layer = "IO" /\ Running.layer \in Layers
      /\ stateKept /\ Returns(<<>>, <<Handle("close_externally", "IO", NULL, Running.state)>>)
  BY RunsIt, Neighbours
     DEF IoClose, sharedUnchanged, aboveNet, stateKept, netVars, codecVars, tlsVars,
         resourceVars, layerVars
<1>2. AnySeq(task_queue')
  BY DEF IInv, Shape, aboveNet, codecVars
<1>3. rm # NULL => Follows(Running)
  BY <1>1, RunningFits DEF Fits, Reading
<1>. QED
  BY <1>1, <1>2, <1>3, IoEnds

LEMMA IoPushBusyKeeps ==
  ASSUME NullIsNoValue, IInv, IoPushBusy, aboveNet
  PROVE  IInv'
<1>1. /\ Runs /\ Running.fn = "push" /\ Running.layer = "IO" /\ CanServe("IO")
      /\ on_socket' = Running /\ Returns(<<>>, <<>>)
      /\ UNCHANGED <<user_data, socket, connection_state, io_timeouts, dangling, codecVars, tlsVars,
                     userVars>>
  BY RunsIt DEF IoPushBusy, sharedUnchanged, aboveNet
<1>2. /\ Shape /\ Alone /\ Paths /\ Down /\ Files /\ Session /\ Fits(Running)
      /\ \A h \in others : Formed(h) /\ ~Opening(h) /\ Driven(h) /\ Placed(h)
      /\ phase # "select"
  BY <1>1, RunningFits DEF IInv
<1>3. Kind(Running) = "record" /\ Free("record") /\ Driven(Running)
  BY <1>1, <1>2, Kinds, FreeOf DEF Paths, Fits
<1>4. /\ Leaves(<<>>, <<>>) /\ DOMAIN layer_state' = Layers
      /\ \A l \in Layers : layer_state'[l] = layer_state[l]
  BY <1>1, <1>2, ReturnsNone
<1>5. Lines' /\ phase' = phase /\ Paths' /\ flight' \subseteq others
  BY <1>1, <1>2, <1>4, FlowNone
<1>6. Has("IO") /\ rm = NULL /\ file_fds = {}
  BY <1>1, <1>2 DEF Down, CanServe, Has, Alone
<1>7. IsHandle(Running) /\ Running # NULL
  BY <1>2 DEF Fits, Formed, NullIsNoValue, IsHandle
<1>8. ~Connecting' /\ layer_state'["USER"] = layer_state["USER"]
  BY <1>1, <1>4, Neighbours DEF Connecting
<1>9. Shape'
  BY <1>1, <1>2, <1>4, <1>5, <1>7 DEF Shape, codecVars, IsHandle
<1>10. Alone'
  BY <1>1, <1>6, <1>8 DEF Alone, tlsVars, resourceVars
<1>11. Down'
  BY <1>1, <1>2, <1>6, <1>8 DEF Down, tlsVars, resourceVars, layerVars, Has
<1>12. Files'
  BY <1>1, <1>2, <1>5, <1>6
     DEF Files, tlsVars, resourceVars, fileVars, Readable, AssertionsAreKnown, Runs
<1>13. Session'
  BY <1>1, <1>2, <1>3
     DEF Session, Driven, Has, codecVars, tlsVars, layerVars, Busy, IsSession, IsBuffer
<1>14. ASSUME NEW h \in others PROVE Fits(h)'
  <2>1. Kind(h) # "record" /\ Driven(h)
    BY <1>2, <1>3 DEF Free
  <2>2. Driven(h)'
    BY <1>1, <2>1 DEF Driven, codecVars, tlsVars, layerVars, Has, NeedsSession
  <2>. QED
    BY <1>1, <1>2, <1>6, <2>2, QuietFits DEF Placed, Has, tlsVars, resourceVars
<1>. QED
  BY <1>5, <1>9, <1>10, <1>11, <1>12, <1>13, <1>14 DEF IInv

LEMMA IoCloseExternallyKeeps ==
  ASSUME NullIsNoValue, IInv, IoCloseExternally, aboveNet
  PROVE  IInv'
<1>0. PICK h : h = OnNext("IO", "close_externally", NULL, Running.state)
  OBVIOUS
<1>1. /\ Runs /\ Running.fn = "close_externally" /\ Running.layer = "IO"
      /\ \/ "IO" \in user_data /\ socket' = "NONE" /\ on_socket' = NULL
         \/ "IO" \notin user_data /\ socket' = socket /\ on_socket' = on_socket
      /\ user_data' = user_data \ {"IO"}
      /\ Returns(<<>>, <<h>>)
      /\ UNCHANGED <<connection_state, io_timeouts, dangling, codecVars, tlsVars, userVars>>
  BY <1>0, RunsIt DEF IoCloseExternally, sharedUnchanged, aboveNet
<1>2. h.fn = "close_externally" /\ h.layer = "TLS" /\ IsHandle(h)
  BY <1>0, HandlerFields, Neighbours DEF OnNext
<1>3. /\ Shape /\ Alone /\ Paths /\ Down /\ Files /\ Session /\ Fits(Running)
      /\ \A g \in others : Formed(g) /\ ~Opening(g) /\ Driven(g) /\ Placed(g) /\ rm = NULL
      /\ phase # "select" /\ ~Connecting
      /\ rm # NULL => Len(inFlight) = 1
  BY <1>1, RunningFits DEF IInv
<1>4. /\ Leaves(<<>>, <<h>>) /\ DOMAIN layer_state' = Layers
      /\ \A l \in Layers : l # Running.layer => layer_state'[l] = layer_state[l]
  BY <1>1, <1>3, ReturnsOne
<1>5. Kind(h) = "other" /\ ~Inner(h) /\ ~Opening(h)
  BY <1>2 DEF Kind, Inner, Opening
<1>6. /\ Lines' /\ phase' = phase /\ Paths' /\ flight' \subseteq others \cup {h}
      /\ Len(inFlight') = Len(inFlight)
  BY <1>1, <1>3, <1>4, <1>5, FlowQueues
<1>7. on_socket' = NULL /\ socket' = "NONE" /\ ~Has("IO")' /\ ~Connecting' /\ ~Busy'
  BY <1>1, <1>3 DEF Down, Has, Connecting, Busy
<1>8. layer_state'["USER"] = layer_state["USER"] /\ file_fds = {}
  <2>1. Coroutine("read_coroutine").layer = "RESOURCE"
    BY DEF Coroutine, Handle
  <2>2. Running \in flight
    BY <1>1, <1>3, RunningIsFirst
  <2>. QED
    BY <1>1, <1>3, <1>4, <2>1, <2>2, Neighbours DEF Alone
<1>9. Shape'
  BY <1>1, <1>3, <1>4, <1>6, <1>7 DEF Shape, codecVars
<1>10. Alone'
  BY <1>1, <1>3, <1>6, <1>7, <1>8 DEF Alone, tlsVars, resourceVars
<1>11. Down'
  BY <1>1, <1>3, <1>7, <1>8 DEF Down, tlsVars, resourceVars, layerVars, Has
<1>12. Files'
  BY <1>1, <1>3, <1>6, <1>8 DEF Files, tlsVars, resourceVars, layerVars, fileVars, Readable,
     AssertionsAreKnown, Runs, IsContext, IsHandle
<1>13. Session'
  BY <1>1, <1>3, <1>7 DEF Session, Has, codecVars, tlsVars, layerVars, IsSession, IsBuffer
<1>14. ASSUME NEW g \in others PROVE Fits(g)'
  <2>1. Driven(g)'
    BY <1>1, <1>3, <1>7 DEF Driven, codecVars, tlsVars, layerVars, Has, NeedsSession
  <2>. QED
    BY <1>1, <1>3, <2>1, QuietFits DEF Placed, Has, tlsVars, resourceVars
<1>15. Fits(h)'
  <2>1. Formed(h)' /\ Lone(h)'
    BY <1>2, <1>5 DEF Formed, IsHandle, Lone
  <2>2. Placed(h)'
    BY <1>2, <1>5, <1>7 DEF Placed, Ends, Opening, Dials
  <2>3. Reading(h)'
    <3>1. rm # NULL => Follows(Running)
      BY <1>1, <1>3 DEF Fits, Reading
    <3>. QED
      BY <1>1, <1>2, <3>1
         DEF Reading, Follows, tlsVars, resourceVars, fileVars, layerVars, Readable
  <2>4. Driven(h)'
    BY <1>2, <1>5 DEF Driven, NeedsSession
  <2>. QED
    BY <2>1, <2>2, <2>3, <2>4 DEF Fits
<1>. QED
  BY <1>6, <1>9, <1>10, <1>11, <1>12, <1>13, <1>14, <1>15 DEF IInv

LEMMA NetKeeps ==
  ASSUME NullIsNoValue, IInv, NetNext, UNCHANGED <<codecVars, tlsVars, userVars>>
  PROVE  IInv'
<1>1. aboveNet
  BY DEF aboveNet
<1>. QED
  BY <1>1, IoInitKeeps, IoConnectKeeps, IoPushKeeps, IoPushBusyKeeps, IoPullKeeps, IoCloseKeeps,
     IoCloseExternallyKeeps DEF NetNext

-----------------------------------------------------------------------------
(* The codec.                                                              *)

\* What is not the codec's.
aroundCodec == UNCHANGED <<netVars, tlsVars, userVars>>

\* Many handlers are queued, none of them on a path.
LEMMA FlowMany ==
  ASSUME Shape, Paths, Runs, NEW queued, AnySeq(queued), Leaves(<<>>, queued),
         \A i \in DOMAIN queued : ~Inner(queued[i]) /\ Kind(queued[i]) = "other"
  PROVE  /\ Lines' /\ phase' = phase /\ Paths'
         /\ flight' \subseteq others \cup {queued[i] : i \in DOMAIN queued}
<1>. DEFINE none == <<>>
<1>1. AnySeq(none) /\ Len(none) = 0 /\ DOMAIN none = {}
  BY AnyLiteral
<1>2. Leaves(none, queued)
  OBVIOUS
<1>. HIDE DEF none
<1>3. /\ Len(none) <= 1 /\ \A kind : \A i \in DOMAIN none : Kind(none[i]) # kind
  BY <1>1
<1>4. Lines' /\ phase' = phase
  BY <1>1, <1>2, <1>3, Flow
<1>5. flight' \subseteq others \cup {queued[i] : i \in DOMAIN queued}
  BY <1>1, <1>2, <1>3, FlowHandlers
<1>6. ASSUME NEW kind \in {"record", "part"}, Once(kind) PROVE Once(kind)'
  <2>1. \A i \in DOMAIN queued : Kind(queued[i]) # kind
    OBVIOUS
  <2>. QED
    BY <1>1, <1>2, <1>3, <1>6, <2>1, FlowOnce
<1>. QED
  BY <1>4, <1>5, <1>6 DEF Paths

\* The codec has handed over another part of a message, or none, when no part was
\* under way.
LEMMA CodecSteps ==
  ASSUME IInv, Runs, Running.layer = "CODEC", aroundCodec, codecSharedUnchanged,
         user_data' = user_data, AnySeq(task_queue'), Lines', phase' = phase, Paths',
         DOMAIN layer_state' = Layers, layer_state'["USER"] = layer_state["USER"],
         Free("part"), rm = NULL,
         Has("CODEC") /\ push_cs' = "NONE" => to_write_buffer = NULL,
         NEW new, flight' \subseteq others \cup new, \A h \in new : Fits(h)'
  PROVE  IInv'
<1>1. /\ Shape /\ Alone /\ Paths /\ Down /\ Files /\ Session
      /\ \A h \in others : Formed(h) /\ ~Opening(h) /\ Driven(h) /\ Placed(h)
      /\ ~Connecting /\ phase # "select"
  BY RunningFits DEF IInv
<1>2. /\ UNCHANGED <<user_data, connection_state, io_timeouts, dangling, socket, on_socket,
                     file_system, file_size, open_files, rm, file_fds, tls_context, init_cs,
                     logic_handler, write_state, to_write_buffer>>
      /\ ~Connecting' /\ file_fds = {}
  BY <1>1 DEF aroundCodec, codecSharedUnchanged, netVars, tlsVars, resourceVars, fileVars,
     layerVars,
     Connecting, Alone
<1>3. Shape'
  BY <1>1, <1>2 DEF Shape, IsHandle
<1>4. Alone'
  BY <1>2 DEF Alone
<1>5. Down'
  BY <1>1, <1>2 DEF Down, Has
<1>6. Files'
  BY <1>1, <1>2 DEF Files, Readable, AssertionsAreKnown, Runs
<1>7. Session'
  BY <1>1, <1>2 DEF Session, Busy, Has, IsSession, IsBuffer
<1>8. ASSUME NEW h \in others PROVE Fits(h)'
  <2>1. Kind(h) # "part"
    BY DEF Free
  <2>2. Driven(h)'
    BY <1>1, <1>2, <2>1 DEF Driven, Has, Busy, NeedsSession
  <2>. QED
    BY <1>1, <1>2, <2>2, QuietFits DEF Placed, Has
<1>. QED
  BY <1>3, <1>4, <1>5, <1>6, <1>7, <1>8 DEF IInv

\* What the codec hands over: a part of a message, and its confirmations.
LEMMA CodecHands ==
  ASSUME IInv, aroundCodec, user_data' = user_data, rm = NULL, to_write_buffer = NULL
  PROVE  /\ \A data : \A h :
              /\ h = OnPrev("CODEC", "push", data, "OK")
              /\ push_cs' # "NONE" /\ (Has("TLS") => logic_handler = "DATA")
              => Fits(h)' /\ Kind(h) = "part" /\ ~Inner(h)
         /\ \A data : \A state : \A h :
              h = Handle("push", "USER", data, state) => Fits(h)' /\ Kind(h) = "other" /\ ~Inner(h)
<1>1. /\ UNCHANGED <<user_data, on_socket, rm, logic_handler, write_state, to_write_buffer>>
  BY DEF aroundCodec, netVars, tlsVars, resourceVars, layerVars
<1>2. ASSUME NEW data, NEW h, h = OnPrev("CODEC", "push", data, "OK"),
             push_cs' # "NONE", Has("TLS") => logic_handler = "DATA"
      PROVE  Fits(h)' /\ Kind(h) = "part" /\ ~Inner(h)
  <2>1. h.fn = "push" /\ h.layer = "TLS" /\ h.state = "OK" /\ IsHandle(h)
    BY <1>2, HandlerFields, Neighbours DEF OnPrev
  <2>2. Kind(h) = "part" /\ ~Inner(h) /\ ~Opening(h) /\ Formed(h)
    BY <2>1 DEF Kind, Inner, Opening, Formed
  <2>3. Driven(h)'
    BY <1>1, <1>2, <2>1, <2>2 DEF Driven, Has, NeedsSession
  <2>. QED
    BY <1>1, <2>1, <2>2, <2>3, QuietFits DEF Ends
<1>3. ASSUME NEW data, NEW state, NEW h, h = Handle("push", "USER", data, state)
      PROVE  Fits(h)' /\ Kind(h) = "other" /\ ~Inner(h)
  <2>1. h.fn = "push" /\ h.layer = "USER" /\ IsHandle(h)
    BY <1>3, HandlerFields
  <2>2. Kind(h) = "other" /\ ~Inner(h) /\ ~Opening(h) /\ Formed(h)
    BY <2>1 DEF Kind, Inner, Opening, Formed
  <2>3. Driven(h)'
    BY <2>1, <2>2 DEF Driven, NeedsSession
  <2>. QED
    BY <1>1, <2>1, <2>2, <2>3, QuietFits DEF Ends
<1>. QED
  BY <1>2, <1>3

LEMMA CodecPushKeeps ==
  ASSUME NullIsNoValue, IInv, aroundCodec,
         CodecPushMessage \/ CodecPushPayload \/ CodecPushWritten \/ CodecPushDropped
  PROVE  IInv'
<1>1. /\ Runs /\ Running.fn = "push" /\ Running.layer = "CODEC" /\ Running.layer \in Layers
      /\ codecSharedUnchanged /\ user_data' = user_data
  BY RunsIt, Neighbours
     DEF CodecPushMessage, CodecPushPayload, CodecPushWritten, CodecPushDropped
<1>2. /\ Shape /\ Paths /\ Down /\ Session /\ Fits(Running) /\ Driven(Running) /\ AnySeq(task_queue)
  BY <1>1, RunningFits DEF IInv, Fits, Shape
<1>3. rm = NULL
  BY <1>1, <1>2 DEF Fits, Reading, Follows
<1>4. Has("TLS") => logic_handler = "DATA"
  BY <1>1, <1>2 DEF Driven, NeedsSession
<1>5. Running.state # "OK" => Free("part") /\ (Has("CODEC") => to_write_buffer = NULL)
  BY <1>1, <1>2, Kinds, FreeOf DEF Paths, Driven
<1>6. ASSUME UNCHANGED push_cs, Returns(<<>>, <<>>), AnySeq(task_queue')
      PROVE  IInv'
  <2>1. stateKept
    BY <1>1, <1>6 DEF stateKept, aroundCodec, codecSharedUnchanged, netVars, tlsVars, resourceVars,
       layerVars
  <2>. QED
    BY <1>1, <1>6, <2>1, PassesNone
<1>7. ASSUME Free("part"), CanServe("CODEC"), to_write_buffer = NULL, push_cs' # "NONE",
             AnySeq(task_queue'), NEW data,
             Returns(<<>>, <<OnPrev("CODEC", "push", data, "OK")>>)
      PROVE  IInv'
  <2>1. PICK h : h = OnPrev("CODEC", "push", data, "OK")
    OBVIOUS
  <2>2. Returns(<<>>, <<h>>)
    BY <1>7, <2>1
  <2>3. Fits(h)' /\ Kind(h) = "part" /\ ~Inner(h)
    BY <1>1, <1>3, <1>4, <1>7, <2>1, CodecHands
  <2>4. /\ Leaves(<<>>, <<h>>) /\ DOMAIN layer_state' = Layers
        /\ \A l \in Layers : l # Running.layer => layer_state'[l] = layer_state[l]
    BY <1>2, <2>2, ReturnsOne
  <2>5. Lines' /\ phase' = phase /\ Paths' /\ flight' \subseteq others \cup {h}
    BY <1>1, <1>2, <1>7, <2>3, <2>4, FlowQueues
  <2>6. layer_state'["USER"] = layer_state["USER"]
    BY <1>1, <2>4, Neighbours
  <2>. DEFINE new == {h}
  <2>7. flight' \subseteq others \cup new /\ \A g \in new : Fits(g)'
    BY <2>3, <2>5
  <2>. HIDE DEF new
  <2>. QED
    BY <1>1, <1>3, <1>7, <2>4, <2>5, <2>6, <2>7, CodecSteps
<1>8. CASE CodecPushMessage
  <2>1. /\ CanServe("CODEC") /\ AnySeq(task_queue')
        /\ \/ UNCHANGED push_cs /\ Returns(<<>>, <<>>)
           \/ /\ push_cs = "NONE" /\ push_cs' = "HEADER"
              /\ Returns(<<>>, <<HeaderOf(Running.data)>>)
    BY <1>2, <1>8, AnyAppend DEF CodecPushMessage
  <2>2. CASE UNCHANGED push_cs /\ Returns(<<>>, <<>>)
    BY <1>6, <2>1, <2>2
  <2>3. CASE push_cs = "NONE" /\ push_cs' = "HEADER" /\ Returns(<<>>, <<HeaderOf(Running.data)>>)
    <3>1. to_write_buffer = NULL
      BY <1>2, <2>1, <2>3 DEF Session, CanServe, Has
    <3>2. Free("part")
      <4>1. \A h \in others : Driven(h)
        BY <1>1, RunningFits
      <4>. QED
        BY <2>1, <2>3, <4>1 DEF Free, Driven, CanServe, Has
    <3>3. PICK data : HeaderOf(Running.data) = OnPrev("CODEC", "push", data, "OK")
      BY DEF HeaderOf
    <3>. QED
      BY <1>7, <2>1, <2>3, <3>1, <3>2, <3>3
  <2>. QED
    BY <2>1, <2>2, <2>3
<1>9. CASE CodecPushPayload
  <2>1. /\ CanServe("CODEC") /\ AnySeq(task_queue') /\ Running.state = "WRITTEN"
        /\ push_cs' = "PAYLOAD" /\ Returns(<<>>, <<PayloadOf(Head(task_queue))>>)
    BY <1>2, <1>9 DEF CodecPushPayload
  <2>2. PICK data : PayloadOf(Head(task_queue)) = OnPrev("CODEC", "push", data, "OK")
    BY DEF PayloadOf
  <2>. QED
    BY <1>5, <1>7, <2>1, <2>2 DEF CanServe, Has
<1>10. CASE CodecPushWritten
  <2>1. /\ CanServe("CODEC") /\ Running.state \in {"WRITTEN", "FAILED_WRITING"}
        /\ task_queue' = Tail(task_queue) /\ task_queue # <<>>
    <3>1. Len(task_queue) = 1 \/ Len(task_queue) > 1
      BY <1>10 DEF CodecPushWritten
    <3>2. task_queue = <<>> => Len(task_queue) = 0
      BY <1>2, AnySeqParts
    <3>. QED
      BY <1>10, <3>1, <3>2 DEF CodecPushWritten
  <2>2. Free("part") /\ to_write_buffer = NULL /\ AnySeq(task_queue')
    BY <1>2, <1>5, <2>1, AnySeqParts DEF CanServe, Has
  <2>3. PICK c, data, state : c = Confirmation(Head(task_queue), Running.state)
                              /\ c = Handle("push", "USER", data, state)
    BY Neighbours DEF Confirmation, OnNext
  <2>4. Fits(c)' /\ Kind(c) = "other" /\ ~Inner(c)
    BY <1>1, <1>3, <2>2, <2>3, CodecHands
  <2>5. CASE push_cs' = "NONE" /\ Returns(<<>>, <<c>>)
    <3>1. /\ Leaves(<<>>, <<c>>) /\ DOMAIN layer_state' = Layers
          /\ \A l \in Layers : l # Running.layer => layer_state'[l] = layer_state[l]
      BY <1>2, <2>5, ReturnsOne
    <3>2. Lines' /\ phase' = phase /\ Paths' /\ flight' \subseteq others \cup {c}
      BY <1>1, <1>2, <2>4, <3>1, FlowQueues
    <3>3. layer_state'["USER"] = layer_state["USER"]
      BY <1>1, <3>1, Neighbours
    <3>. DEFINE new == {c}
    <3>4. flight' \subseteq others \cup new /\ \A g \in new : Fits(g)'
      BY <2>4, <3>2
    <3>. HIDE DEF new
    <3>. QED
      BY <1>1, <1>3, <2>2, <3>1, <3>2, <3>3, <3>4, CodecSteps
  <2>6. CASE push_cs' = "HEADER" /\ Returns(<<>>, <<c, HeaderOf(task_queue[2])>>)
    <3>1. PICK h, part : h = HeaderOf(task_queue[2]) /\ h = OnPrev("CODEC", "push", part, "OK")
      BY DEF HeaderOf
    <3>2. Fits(h)' /\ Kind(h) = "part" /\ ~Inner(h)
      BY <1>1, <1>3, <1>4, <2>2, <2>6, <3>1, CodecHands
    <3>3. Returns(<<>>, <<c, h>>)
      BY <2>6, <3>1
    <3>4. /\ Leaves(<<>>, <<c, h>>) /\ DOMAIN layer_state' = Layers
          /\ \A l \in Layers : l # Running.layer => layer_state'[l] = layer_state[l]
      BY <1>2, <3>3, ReturnsAny
    <3>5. Lines' /\ phase' = phase /\ Paths' /\ flight' \subseteq others \cup {c, h}
      BY <1>1, <1>2, <2>2, <2>4, <3>2, <3>4, FlowQueuesTwo
    <3>6. layer_state'["USER"] = layer_state["USER"]
      BY <1>1, <3>4, Neighbours
    <3>. DEFINE new == {c, h}
    <3>7. flight' \subseteq others \cup new /\ \A g \in new : Fits(g)'
      BY <2>4, <3>2, <3>5
    <3>. HIDE DEF new
    <3>. QED
      BY <1>1, <1>3, <2>2, <2>6, <3>4, <3>5, <3>6, <3>7, CodecSteps
  <2>. QED
    BY <1>10, <2>3, <2>5, <2>6 DEF CodecPushWritten
<1>11. CASE CodecPushDropped
  BY <1>2, <1>6, <1>11 DEF CodecPushDropped, codecVars
<1>. QED
  BY <1>8, <1>9, <1>10, <1>11

\* A function of 1..n is a sequence.
LEMMA AnyFunction ==
  ASSUME NEW n \in Nat, NEW s, s = [i \in 1..n |-> s[i]]
  PROVE  AnySeq(s) /\ DOMAIN s = 1..n
<1>1. s \in [1..n -> {s[i] : i \in 1..n}]
  OBVIOUS
<1>2. s \in Seq({s[i] : i \in 1..n})
  BY <1>1, SeqDef
<1>. QED
  BY <1>1, <1>2, IsAnySeq

LEMMA AnyThree ==
  ASSUME NEW r, NEW s, NEW c, AnySeq(r), AnySeq(s)
  PROVE  /\ AnySeq((r \o s) \o <<c>>)
         /\ \A i \in DOMAIN ((r \o s) \o <<c>>) :
              \/ \E j \in DOMAIN r : ((r \o s) \o <<c>>)[i] = r[j]
              \/ \E j \in DOMAIN s : ((r \o s) \o <<c>>)[i] = s[j]
              \/ ((r \o s) \o <<c>>)[i] = c
<1>. DEFINE last == <<c>>
            both == r \o s
            all == both \o last
            m == Len(r)
            n == Len(s)
<1>1. AnySeq(last) /\ Len(last) = 1 /\ last[1] = c
  BY AnyLiteral
<1>2. m \in Nat /\ n \in Nat /\ DOMAIN r = 1..m /\ DOMAIN s = 1..n
  BY AnySeqParts
<1>3. /\ AnySeq(both) /\ Len(both) = m + n
      /\ \A i \in 1..m + n : both[i] = IF i <= m THEN r[i] ELSE s[i - m]
  BY AnyConcat
<1>. HIDE DEF last, both, m, n
<1>4. /\ AnySeq(all) /\ DOMAIN all = 1..(m + n) + 1
      /\ \A i \in 1..(m + n) + 1 : all[i] = IF i <= m + n THEN both[i] ELSE last[i - (m + n)]
  <2>1. /\ AnySeq(all) /\ DOMAIN all = 1..Len(both) + Len(last)
        /\ \A i \in 1..Len(both) + Len(last) :
             all[i] = IF i <= Len(both) THEN both[i] ELSE last[i - Len(both)]
    BY <1>1, <1>3, AnyConcat
  <2>. HIDE DEF all
  <2>. QED
    BY <1>1, <1>3, <2>1
<1>. HIDE DEF all
<1>5. ASSUME NEW i \in 1..(m + n) + 1
      PROVE  \/ \E j \in DOMAIN r : all[i] = r[j]
             \/ \E j \in DOMAIN s : all[i] = s[j]
             \/ all[i] = c
  <2>1. CASE i <= m
    <3>1. i \in 1..m /\ i <= m + n /\ i \in 1..m + n
      BY <1>2, <2>1
    <3>. QED
      BY <1>2, <1>3, <1>4, <2>1, <3>1
  <2>2. CASE ~(i <= m) /\ i <= m + n
    <3>1. i - m \in 1..n /\ i \in 1..m + n
      BY <1>2, <2>2
    <3>. QED
      BY <1>2, <1>3, <1>4, <2>2, <3>1
  <2>3. CASE ~(i <= m + n)
    <3>1. i - (m + n) = 1
      BY <1>2, <2>3
    <3>. QED
      BY <1>1, <1>4, <2>3, <3>1
  <2>. QED
    BY <2>1, <2>2, <2>3
<1>. QED
  BY <1>4, <1>5 DEF all, both, last

LEMMA AnyAppended ==
  ASSUME NEW s, NEW c, AnySeq(s)
  PROVE  \A i \in DOMAIN Append(s, c) : Append(s, c)[i] = c \/ \E j \in DOMAIN s : Append(s,
         c)[i] = s[j]
<1>. DEFINE n == Len(s)
            last == <<c>>
<1>1. AnySeq(last) /\ Len(last) = 1 /\ last[1] = c
  BY AnyLiteral
<1>2. n \in Nat /\ DOMAIN s = 1..n /\ Append(s, c) = s \o last
  BY AnySeqParts, AnyAppend
<1>. HIDE DEF n, last
<1>3. /\ DOMAIN (s \o last) = 1..n + 1
      /\ \A i \in 1..n + 1 : (s \o last)[i] = IF i <= n THEN s[i] ELSE last[i - n]
  <2>1. /\ DOMAIN (s \o last) = 1..n + Len(last)
        /\ \A i \in 1..n + Len(last) : (s \o last)[i] = IF i <= n THEN s[i] ELSE last[i - n]
    BY <1>1, AnyConcat DEF n
  <2>. QED
    BY <1>1, <2>1
<1>4. \A i \in 1..n + 1 : (i <= n => i \in 1..n) /\ (~(i <= n) => i - n = 1)
  BY <1>2
<1>. QED
  BY <1>1, <1>2, <1>3, <1>4

\* What the codec queues many of fits: decoded messages, failed messages and a close.
LEMMA ManyFit ==
  ASSUME rm' = NULL, NEW h, IsHandle(h),
         \/ h.layer = "USER" /\ h.fn \in {"pull", "push"}
         \/ h.layer = "TLS" /\ h.fn = "close"
  PROVE  Fits(h)' /\ Kind(h) = "other" /\ ~Inner(h)
<1>1. Kind(h) = "other" /\ ~Inner(h) /\ ~Opening(h) /\ Formed(h)
  BY DEF Kind, Inner, Opening, Formed
<1>2. Driven(h)'
  BY <1>1 DEF Driven, NeedsSession
<1>. QED
  BY <1>1, <1>2, QuietFits DEF Ends

LEMMA FailedAreMany ==
  ASSUME AnySeq(task_queue), NEW s, s = FailedConfirmations
  PROVE  /\ AnySeq(s)
         /\ \A i \in DOMAIN s : IsHandle(s[i]) /\ s[i].layer = "USER" /\ s[i].fn = "push"
<1>1. Len(task_queue) \in Nat /\ DOMAIN task_queue = 1..Len(task_queue)
  BY AnySeqParts
<1>2. /\ s = [i \in 1..Len(task_queue) |-> s[i]]
      /\ \A i \in 1..Len(task_queue) :
           s[i] = Handle("push", "USER", task_queue[i], "FAILED_WRITING")
  BY <1>1, Neighbours DEF FailedConfirmations, Confirmation, OnNext
<1>. QED
  BY <1>1, <1>2, AnyFunction, HandlerFields

LEMMA CodecPullKeeps ==
  ASSUME NullIsNoValue, IInv, aroundCodec,
         CodecPull \/ CodecPullMalformed \/ CodecPullDropped
  PROVE  IInv'
<1>1. /\ Runs /\ Running.fn = "pull" /\ Running.layer = "CODEC" /\ stateKept
  BY RunsIt
     DEF CodecPull, CodecPullMalformed, CodecPullDropped, codecSharedUnchanged, codecVars,
         stateKept,
         aroundCodec, netVars, tlsVars, resourceVars, layerVars
<1>2. /\ Shape /\ Paths /\ Fits(Running) /\ AnySeq(task_queue) /\ Len(Running.data.msgs) \in Nat
  BY <1>1, RunningFits DEF Fits, Shape, Formed
<1>3. rm = NULL /\ rm' = NULL
  BY <1>1, <1>2 DEF Fits, Reading, Follows, stateKept
<1>4. ASSUME NEW queued, AnySeq(queued), Returns(<<>>, queued), AnySeq(task_queue'),
             \A i \in DOMAIN queued :
               /\ IsHandle(queued[i])
               /\ \/ queued[i].layer = "USER" /\ queued[i].fn \in {"pull", "push"}
                  \/ queued[i].layer = "TLS" /\ queued[i].fn = "close"
      PROVE  IInv'
  <2>1. \A i \in DOMAIN queued :
          Fits(queued[i])' /\ Kind(queued[i]) = "other" /\ ~Inner(queued[i])
    BY <1>3, <1>4, ManyFit
  <2>2. /\ Leaves(<<>>, queued) /\ DOMAIN layer_state' = Layers
        /\ layer_state'["USER"] = layer_state["USER"]
    BY <1>1, <1>2, <1>4, ReturnsAny, Neighbours
  <2>. DEFINE new == {queued[i] : i \in DOMAIN queued}
  <2>3. Lines' /\ phase' = phase /\ Paths' /\ flight' \subseteq others \cup new
    BY <1>1, <1>2, <1>4, <2>1, <2>2, FlowMany
  <2>4. \A h \in new : Fits(h)'
    BY <2>1
  <2>. HIDE DEF new
  <2>. QED
    BY <1>1, <1>3, <1>4, <2>2, <2>3, <2>4, Passes
<1>5. ASSUME NEW n \in Nat, NEW s, s = Decoded(n)
      PROVE  /\ AnySeq(s)
             /\ \A i \in DOMAIN s : IsHandle(s[i]) /\ s[i].layer = "USER" /\ s[i].fn = "pull"
  <2>1. /\ s = [i \in 1..n |-> s[i]]
        /\ \A i \in 1..n : s[i] = Handle("pull", "USER", Running.data.msgs[i], "OK")
    BY <1>5, Neighbours DEF Decoded, OnNext
  <2>. QED
    BY <2>1, AnyFunction, HandlerFields
<1>6. CASE CodecPull
  <2>1. PICK queued : queued = Decoded(Len(Running.data.msgs))
    OBVIOUS
  <2>2. Returns(<<>>, queued) /\ AnySeq(task_queue')
    BY <1>2, <1>6, <2>1 DEF CodecPull, codecVars
  <2>. QED
    BY <1>2, <1>4, <1>5, <2>1, <2>2
<1>7. CASE CodecPullMalformed
  <2>1. PICK n \in 0..Len(Running.data.msgs) - 1 :
          Returns(<<>>, Decoded(n) \o FailedConfirmations
                        \o <<OnPrev("CODEC", "close", NULL, "ERROR")>>)
    BY <1>7 DEF CodecPullMalformed
  <2>2. PICK r, s, c : /\ r = Decoded(n) /\ s = FailedConfirmations
                       /\ c = OnPrev("CODEC", "close", NULL, "ERROR")
    OBVIOUS
  <2>3. AnySeq(r) /\ \A i \in DOMAIN r : IsHandle(r[i]) /\ r[i].layer = "USER" /\ r[i].fn = "pull"
    <3>1. n \in Nat
      BY <1>2
    <3>. QED
      BY <1>5, <2>2, <3>1
  <2>4. AnySeq(s) /\ \A i \in DOMAIN s : IsHandle(s[i]) /\ s[i].layer = "USER" /\ s[i].fn = "push"
    BY <1>2, <2>2, FailedAreMany
  <2>5. IsHandle(c) /\ c.layer = "TLS" /\ c.fn = "close"
    BY <2>2, HandlerFields, Neighbours DEF OnPrev
  <2>6. PICK queued : queued = (r \o s) \o <<c>>
    OBVIOUS
  <2>7. AnySeq(queued) /\ \A i \in DOMAIN queued :
          \/ \E j \in DOMAIN r : queued[i] = r[j]
          \/ \E j \in DOMAIN s : queued[i] = s[j]
          \/ queued[i] = c
    BY <2>3, <2>4, <2>6, AnyThree
  <2>8. Returns(<<>>, queued) /\ AnySeq(task_queue')
    BY <1>7, <2>1, <2>2, <2>6, AnyLiteral DEF CodecPullMalformed
  <2>. QED
    BY <1>4, <2>3, <2>4, <2>5, <2>7, <2>8
<1>8. CASE CodecPullDropped
  <2>1. Returns(<<>>, <<>>) /\ AnySeq(task_queue')
    BY <1>2, <1>8 DEF CodecPullDropped, codecVars
  <2>. QED
    BY <1>1, <2>1, PassesNone
<1>. QED
  BY <1>6, <1>7, <1>8

LEMMA CodecPassesOn ==
  ASSUME NullIsNoValue, IInv, aroundCodec, CodecConnect \/ CodecClose
  PROVE  IInv'
<1>1. /\ Runs /\ Running.fn \in {"connect", "close"} /\ Running.layer = "CODEC"
      /\ Running.layer \in Layers /\ stateKept
  BY RunsIt, Neighbours
     DEF CodecConnect, CodecClose, codecSharedUnchanged, codecVars, stateKept, aroundCodec, netVars,
         tlsVars, resourceVars, layerVars
<1>2. /\ Shape /\ Down /\ Fits(Running) /\ AnySeq(task_queue')
  BY <1>1, RunningFits DEF Shape, aroundCodec, CodecConnect, CodecClose, codecVars, IInv
<1>3. rm # NULL => Follows(Running)
  BY <1>1, <1>2 DEF Fits, Reading
<1>4. CASE CodecConnect
  <2>1. PICK h : h = OnNext("CODEC", "connect", NULL, Running.state)
    OBVIOUS
  <2>2. Returns(<<>>, <<h>>) /\ Running.fn = "connect"
    BY <1>4, <2>1 DEF CodecConnect, IsRunning
  <2>3. h.fn = "connect" /\ h.layer = "USER" /\ h.state = Running.state /\ IsHandle(h)
    BY <2>1, HandlerFields, Neighbours DEF OnNext
  <2>4. Kind(h) = "other" /\ ~Inner(h)
    BY <2>3 DEF Kind, Inner
  <2>5. FitsNext(h)
    <3>1. NeedsSession(h) => NeedsSession(Running)
      BY <1>1, <2>2, <2>3, <2>4 DEF NeedsSession
    <3>2. Driven(h)
      BY <1>2, <2>3, <2>4, <3>1 DEF Driven, Fits
    <3>3. Reading(h)
      BY <1>1, <1>3, <2>2, <2>3 DEF Reading, Follows
    <3>. QED
      BY <2>3, <3>2, <3>3 DEF FitsNext, Formed, Opening, Placed, Ends, Dials
  <2>. QED
    BY <1>1, <1>2, <2>2, <2>3, <2>4, <2>5, PassesQueued
<1>5. CASE CodecClose
  <2>1. PICK h : /\ Returns(<<>>, <<h>>)
                 /\ \/ "CODEC" \in user_data /\ h = OnPrev("CODEC", "close", NULL, Running.state)
                    \/ /\ "CODEC" \notin user_data
                       /\ h = Handle("close_externally", "CODEC", NULL, Running.state)
    BY <1>5 DEF CodecClose
  <2>2. /\ IsHandle(h)
        /\ \/ h.fn = "close" /\ h.layer = "TLS"
           \/ h.fn = "close_externally" /\ h.layer = "CODEC" /\ ~Has("TLS") /\ rm = NULL
    BY <1>2, <2>1, HandlerFields, Neighbours DEF OnPrev, Down, Has
  <2>3. Kind(h) = "other" /\ ~Inner(h)
    BY <2>2 DEF Kind, Inner
  <2>4. Running.fn = "close"
    BY <1>5 DEF CodecClose, IsRunning
  <2>5. FitsNext(h)
    BY <1>1, <1>3, <2>2, <2>3, <2>4
       DEF FitsNext, Formed, Opening, Placed, Ends, Dials, Reading, Follows, Driven, NeedsSession
  <2>. QED
    BY <1>1, <1>2, <2>1, <2>3, <2>5, PassesQueued
<1>. QED
  BY <1>4, <1>5

LEMMA CodecInitKeeps ==
  ASSUME NullIsNoValue, IInv, aroundCodec, CodecInit
  PROVE  IInv'
<1>. DEFINE h == OnPrev("CODEC", "init", NULL, "OK")
<1>1. /\ Runs /\ Running.fn = "init" /\ Running.layer = "CODEC"
      /\ user_data' = user_data \cup {"CODEC"} /\ task_queue' = <<>> /\ push_cs' = "NONE"
      /\ Returns(<<>>, <<h>>)
      /\ UNCHANGED <<connection_state, io_timeouts, dangling, netVars, tlsVars, userVars>>
  BY RunsIt DEF CodecInit, codecSharedUnchanged, aroundCodec
<1>2. h.fn = "init" /\ h.layer = "TLS" /\ h.state = "OK" /\ IsHandle(h)
  BY HandlerFields, Neighbours DEF OnPrev
<1>. HIDE DEF h
<1>3. /\ Shape /\ Alone /\ Paths /\ Down /\ Files /\ Session /\ Fits(Running) /\ Opening(Running)
      /\ others = {} /\ Len(inFlight) = 1 /\ ~Connecting /\ phase # "select"
  BY <1>1, RunningFits DEF IInv, Opening
<1>4. /\ Leaves(<<>>, <<h>>) /\ DOMAIN layer_state' = Layers
      /\ \A l \in Layers : l # Running.layer => layer_state'[l] = layer_state[l]
  BY <1>1, <1>3, ReturnsOne
<1>5. Kind(h) = "other" /\ ~Inner(h)
  BY <1>2 DEF Kind, Inner
<1>6. Lines' /\ phase' = phase /\ Paths' /\ Len(inFlight') = 1 /\ flight' \subseteq {h}
  BY <1>3, <1>4, <1>5, <1>1, FlowQueues
<1>7. /\ ~Has("CODEC") /\ ~Has("TLS") /\ ~Has("IO") /\ rm = NULL /\ logic_handler = "NONE"
      /\ init_cs = "START" /\ to_write_buffer = NULL
      /\ connection_state = "OPENING" /\ on_socket = NULL /\ file_fds = {}
  BY <1>1, <1>3 DEF Fits, Placed, Lone, Down, Alone, Session
<1>8. layer_state'["USER"] = layer_state["USER"]
  BY <1>1, <1>4, Neighbours
<1>9. Shape' /\ Alone'
  BY <1>1, <1>3, <1>4, <1>6, <1>7, AnyLiteral
     DEF Shape, Alone, netVars, tlsVars, resourceVars, Connecting
<1>10. Down'
  BY <1>1, <1>3, <1>7, <1>8
     DEF Down, netVars, tlsVars, resourceVars, layerVars, Has, Connecting
<1>11. Files'
  BY <1>1, <1>3, <1>6, <1>7
     DEF Files, tlsVars, resourceVars, fileVars, Readable, AssertionsAreKnown, Runs, layerVars
<1>12. Session'
  BY <1>1, <1>3, <1>7
     DEF Session, Has, netVars, tlsVars, layerVars, Busy, IsSession, IsBuffer
<1>13. Fits(h)'
  <2>1. Formed(h)' /\ Lone(h)' /\ Reading(h)'
    BY <1>1, <1>2, <1>6, <1>7
       DEF Formed, IsHandle, Lone, Connecting, netVars, Reading, tlsVars, resourceVars
  <2>2. Placed(h)'
    BY <1>1, <1>2, <1>7 DEF Placed, Has, Ends, Dials, tlsVars, resourceVars, layerVars
  <2>3. Driven(h)'
    BY <1>2, <1>5 DEF Driven, NeedsSession
  <2>. QED
    BY <2>1, <2>2, <2>3 DEF Fits
<1>. QED
  BY <1>6, <1>9, <1>10, <1>11, <1>12, <1>13 DEF IInv

LEMMA CodecCloseExternallyKeeps ==
  ASSUME NullIsNoValue, IInv, aroundCodec, CodecCloseExternally
  PROVE  IInv'
<1>1. PICK h : h = OnNext("CODEC", "close_externally", NULL, Running.state)
  OBVIOUS
<1>2. PICK s : s = FailedConfirmations
  OBVIOUS
<1>3. /\ Runs /\ Running.fn = "close_externally" /\ Running.layer = "CODEC"
      /\ user_data' = user_data \ {"CODEC"} /\ task_queue' = <<>> /\ push_cs' = "NONE"
      /\ Returns(<<>>, Append(s, h))
      /\ UNCHANGED <<connection_state, io_timeouts, dangling, netVars, tlsVars, userVars>>
  BY <1>1, <1>2, RunsIt DEF CodecCloseExternally, codecSharedUnchanged, aroundCodec
<1>4. h.fn = "close_externally" /\ h.layer = "USER" /\ IsHandle(h)
  BY <1>1, HandlerFields, Neighbours DEF OnNext
<1>5. /\ Shape /\ Alone /\ Paths /\ Down /\ Files /\ Session /\ Fits(Running)
      /\ \A g \in others : Formed(g) /\ ~Opening(g) /\ Driven(g) /\ Placed(g)
      /\ ~Connecting /\ phase # "select"
  BY <1>3, RunningFits DEF IInv
<1>6. /\ ~Has("TLS") /\ ~Has("IO") /\ rm = NULL /\ logic_handler = "NONE"
      /\ to_write_buffer = NULL /\ on_socket = NULL /\ file_fds = {}
  BY <1>3, <1>5 DEF Fits, Placed, Ends, Down, Alone, Session
<1>7. AnySeq(s) /\ \A i \in DOMAIN s : IsHandle(s[i]) /\ s[i].layer = "USER" /\ s[i].fn = "push"
  BY <1>2, <1>5, FailedAreMany DEF Shape
<1>8. PICK queued : queued = Append(s, h)
  OBVIOUS
<1>9. /\ AnySeq(queued)
      /\ \A i \in DOMAIN queued : queued[i] = h \/ \E j \in DOMAIN s : queued[i] = s[j]
  <2>1. AnySeq(Append(s, h))
    BY <1>7, AnyAppend
  <2>2. \A i \in DOMAIN Append(s, h) : Append(s, h)[i] = h \/ \E j \in DOMAIN s : Append(s,
        h)[i] = s[j]
    BY <1>7, AnyAppended
  <2>. QED
    BY <1>8, <2>1, <2>2
<1>10. \A g : (g = h \/ \E j \in DOMAIN s : g = s[j]) => Fits(g)' /\ Kind(g) = "other" /\ ~Inner(g)
  <2>1. UNCHANGED <<rm, to_write_buffer, logic_handler>> /\ ~Has("TLS")' /\ ~Has("CODEC")'
    BY <1>3, <1>6 DEF tlsVars, resourceVars, layerVars, Has
  <2>2. Fits(h)' /\ Kind(h) = "other" /\ ~Inner(h)
    <3>1. Kind(h) = "other" /\ ~Inner(h) /\ ~Opening(h) /\ Formed(h)
      BY <1>4 DEF Kind, Inner, Opening, Formed
    <3>2. Driven(h)'
      BY <1>4, <3>1 DEF Driven, NeedsSession
    <3>. QED
      BY <1>4, <1>6, <2>1, <3>1, <3>2, QuietFits DEF Ends
  <2>3. ASSUME NEW j \in DOMAIN s PROVE Fits(s[j])' /\ Kind(s[j]) = "other" /\ ~Inner(s[j])
    BY <1>6, <1>7, <2>1, ManyFit
  <2>. QED
    BY <2>2, <2>3
<1>11. /\ Leaves(<<>>, queued) /\ DOMAIN layer_state' = Layers
       /\ layer_state'["USER"] = layer_state["USER"]
  BY <1>3, <1>5, <1>8, ReturnsAny, Neighbours
<1>. DEFINE new == {queued[i] : i \in DOMAIN queued}
<1>12. Lines' /\ phase' = phase /\ Paths' /\ flight' \subseteq others \cup new
  <2>1. \A i \in DOMAIN queued : ~Inner(queued[i]) /\ Kind(queued[i]) = "other"
    BY <1>9, <1>10
  <2>. QED
    BY <1>3, <1>5, <1>9, <1>11, <2>1, FlowMany
<1>13. \A g \in new : Fits(g)'
  BY <1>9, <1>10
<1>. HIDE DEF new
<1>14. Shape' /\ Alone'
  BY <1>3, <1>5, <1>6, <1>11, <1>12, AnyLiteral
     DEF Shape, Alone, netVars, tlsVars, resourceVars, Connecting
<1>15. Down'
  BY <1>3, <1>5, <1>6, <1>11
     DEF Down, netVars, tlsVars, resourceVars, layerVars, Has, Connecting
<1>16. Files'
  BY <1>3, <1>5, <1>6, <1>12
     DEF Files, tlsVars, resourceVars, fileVars, Readable, AssertionsAreKnown, Runs, layerVars
<1>17. Session'
  BY <1>3, <1>5, <1>6
     DEF Session, Has, netVars, tlsVars, layerVars, Busy, IsSession, IsBuffer
<1>18. ASSUME NEW g \in others PROVE Fits(g)'
  <2>1. UNCHANGED <<rm, on_socket, to_write_buffer, logic_handler, write_state>> /\ ~Has("TLS")'
        /\ ~Has("CODEC")' /\ ~Has("IO")'
    BY <1>3, <1>6 DEF netVars, tlsVars, resourceVars, layerVars, Has
  <2>2. Driven(g)'
    BY <1>5, <2>1 DEF Driven, Has, NeedsSession, Busy
  <2>. QED
    BY <1>5, <1>6, <2>1, <2>2, QuietFits
<1>. QED
  BY <1>12, <1>13, <1>14, <1>15, <1>16, <1>17, <1>18 DEF IInv

LEMMA CodecKeeps ==
  ASSUME NullIsNoValue, IInv, CodecNext, UNCHANGED <<netVars, tlsVars, userVars>>
  PROVE  IInv'
<1>1. aroundCodec
  BY DEF aroundCodec
<1>. QED
  BY <1>1, CodecPushKeeps, CodecPullKeeps, CodecPassesOn, CodecInitKeeps, CodecCloseExternallyKeeps
     DEF CodecNext

-----------------------------------------------------------------------------
(* The TLS layer: what it writes and reads.                                *)

\* What is not the TLS layer's.
aroundTls == UNCHANGED <<netVars, codecVars, userVars>>

LEMMA TlsShares ==
  ASSUME aroundTls, tlsSharedUnchanged
  PROVE  UNCHANGED <<socket, on_socket, connection_state, io_timeouts, dangling, fileVars,
                     file_system,
                     file_size, open_files, file_fds, task_queue, push_cs>>
BY DEF aroundTls, tlsSharedUnchanged, netVars, codecVars, fileVars

\* A step that changes the session and what is written to it.
LEMMA TlsSteps ==
  ASSUME IInv, Runs, Running.layer = "TLS",
         Running.fn \notin {"init", "connect", "close", "close_externally"},
         aroundTls, tlsSharedUnchanged, dataUnchanged, Has("TLS"),
         Lines', phase' = phase, Paths', DOMAIN layer_state' = Layers,
         layer_state'["USER"] = layer_state["USER"],
         logic_handler # "NONE", logic_handler' \in {logic_handler, "DATA"}, Session',
         write_state' \in {write_state, "WRITING"} \/ Free("record"),
         to_write_buffer' \in {to_write_buffer, NULL} \/ Free("part"),
         NEW new, flight' \subseteq others \cup new, \A h \in new : Fits(h)'
  PROVE  IInv'
<1>1. /\ Shape /\ Alone /\ Paths /\ Down /\ Files /\ Session /\ Fits(Running)
      /\ \A h \in others : Formed(h) /\ ~Opening(h) /\ ~Inner(h) /\ Driven(h) /\ Placed(h)
      /\ ~Connecting /\ phase # "select"
  BY RunningFits DEF IInv
<1>2. rm = NULL /\ rm' = NULL
  BY <1>1 DEF Fits, Reading, Follows, dataUnchanged
<1>3. /\ UNCHANGED <<user_data, connection_state, io_timeouts, dangling, socket, on_socket,
                     file_system, file_size, open_files, file_fds, task_queue, push_cs, init_cs>>
      /\ ~Connecting' /\ file_fds = {}
  BY <1>1, <1>2, TlsShares DEF dataUnchanged, Connecting, Alone
<1>4. Shape'
  BY <1>1, <1>3 DEF Shape, IsHandle
<1>5. Alone'
  BY <1>2, <1>3 DEF Alone
<1>6. Down'
  BY <1>1, <1>2, <1>3 DEF Down, Has
<1>7. Files'
  BY <1>1, <1>2, <1>3 DEF Files, Readable, AssertionsAreKnown, Runs
<1>8. ASSUME NEW h \in others PROVE Fits(h)'
  <2>1. Kind(h) = "record" => write_state' = "WRITING" \/ ~Has("TLS")
    BY <1>1 DEF Free, Driven
  <2>2. Kind(h) = "part" /\ Has("CODEC") => push_cs # "NONE" /\ to_write_buffer' = NULL
    BY <1>1 DEF Free, Driven
  <2>3. Driven(h)'
    BY <1>1, <1>3, <2>1, <2>2 DEF Driven, Has, Busy, NeedsSession, Inner
  <2>. QED
    BY <1>1, <1>2, <1>3, <2>3, QuietFits DEF Placed, Has
<1>. QED
  BY <1>4, <1>5, <1>6, <1>7, <1>8 DEF IInv

\* The library goes on in the handler that runs.
LEMMA LibraryGoesOn ==
  ASSUME IInv, Runs, Inner(Running), aroundTls, tlsSharedUnchanged, dataUnchanged, Has("TLS"),
         GoesOn,
         UNCHANGED logic_handler, Session',
         write_state' \in {write_state, "WRITING"} \/ Free("record"),
         to_write_buffer' \in {to_write_buffer, NULL} \/ Free("part"),
         Running.fn = "send_handler" => to_write_buffer' # NULL
  PROVE  IInv'
<1>1. /\ Shape /\ Paths /\ Fits(Running) /\ Driven(Running) /\ Lines
      /\ \A h \in flight : h = Running \/ h \in others
  BY RunningFits, RunningIsFirst DEF IInv, Fits, Shape
<1>2. Running.layer = "TLS" /\ Running.fn \in {"connect_handler", "send_handler", "recv_handler"}
  BY DEF Inner
<1>3. logic_handler \in {"CONNECT", "DATA"}
  BY <1>1, <1>2 DEF Driven, NeedsSession
<1>4. PICK h : h = Running
  OBVIOUS
<1>5. inFlight' = inFlight /\ flight' = flight
  BY DEF GoesOn, inFlight, flight
<1>6. /\ Lines' /\ Paths' /\ phase' = phase
      /\ DOMAIN layer_state' = Layers /\ layer_state' = layer_state
  BY <1>1, <1>5 DEF GoesOn, Lines, Paths, Once, Shape
<1>7. Fits(h)'
  <2>1. Formed(h) /\ ~Opening(h) /\ rm' = NULL
    BY <1>1, <1>2, <1>4 DEF Fits, Opening, Reading, Follows, dataUnchanged
  <2>2. Driven(h)'
    BY <1>1, <1>2, <1>4 DEF Driven, NeedsSession, Kind
  <2>. QED
    BY <1>2, <1>4, <2>1, <2>2, QuietFits DEF Ends
<1>. DEFINE new == {h}
<1>8. flight' \subseteq others \cup new /\ \A g \in new : Fits(g)'
  BY <1>1, <1>4, <1>5, <1>7
<1>. HIDE DEF new
<1>. QED
  BY <1>2, <1>3, <1>6, <1>8, TlsSteps

LEMMA TwoOfOne == \A a, b : <<a>> \o <<b>> = <<a, b>>
<1>. SUFFICES ASSUME NEW a, NEW b PROVE <<a>> \o <<b>> = <<a, b>>
  OBVIOUS
<1>. DEFINE one == <<a>>
            last == <<b>>
            two == <<a, b>>
            S == {a, b}
<1>1. /\ AnySeq(one) /\ AnySeq(last) /\ Len(one) = 1 /\ Len(last) = 1
      /\ one[1] = a /\ last[1] = b
  BY AnyLiteral
<1>2. one \in Seq(S) /\ last \in Seq(S) /\ two \in Seq(S)
  OBVIOUS
<1>3. Len(two) = 2 /\ two[1] = a /\ two[2] = b
  OBVIOUS
<1>. HIDE DEF one, last, two
<1>4. Len(one \o last) = 1 + 1
  BY <1>1, AnyConcat
<1>5. \A i \in 1..1 + 1 : (one \o last)[i] = IF i <= 1 THEN one[i] ELSE last[i - 1]
  <2>1. \A i \in 1..Len(one) + Len(last) :
          (one \o last)[i] = IF i <= Len(one) THEN one[i] ELSE last[i - Len(one)]
    BY <1>1, AnyConcat
  <2>. QED
    BY <1>1, <2>1
<1>6. (one \o last)[1] = a
  BY <1>1, <1>5, 1 \in 1..1 + 1, 1 <= 1
<1>7. (one \o last)[2] = b
  BY <1>1, <1>5, 2 \in 1..1 + 1, ~(2 <= 1), 2 - 1 = 1
<1>8. one \o last \in Seq(S)
  BY <1>2, ConcatProperties
<1>9. one \o last = two
  BY <1>2, <1>3, <1>4, <1>6, <1>7, <1>8, SeqEqual
<1>. QED
  BY <1>9 DEF one, last, two

\* A handler the library is called in runs on a layer that has a session.
LEMMA InHandlerHas ==
  ASSUME IInv, NEW fn, fn \in {"connect_handler", "send_handler", "recv_handler"}, InHandler(fn)
  PROVE  /\ Runs /\ Running.fn = fn /\ Running.layer = "TLS" /\ Running.layer \in Layers
         /\ Inner(Running) /\ Kind(Running) = "other"
         /\ Has("TLS") /\ Has("CODEC") /\ rm = NULL
         /\ Shape /\ Paths /\ Session /\ Driven(Running)
         /\ logic_handler = IF fn = "connect_handler" THEN "CONNECT" ELSE "DATA"
         /\ fn = "send_handler" => to_write_buffer # NULL
         /\ tls_context # NULL /\ IsSession(tls_context)
         /\ push_cs = "NONE" => to_write_buffer = NULL
         /\ Busy => write_state = "WRITING"
         /\ write_state # "WRITING" => Free("record")
         /\ to_write_buffer # NULL => Free("part")
<1>1. Runs /\ Running.fn = fn /\ Running.layer = "TLS" /\ CanServe("TLS")
  BY RunsIt DEF InHandler
<1>2. /\ Shape /\ Paths /\ Down /\ Session /\ Fits(Running) /\ Driven(Running)
      /\ \A h \in others : Driven(h)
  BY <1>1, RunningFits DEF IInv, Fits
<1>3. Inner(Running) /\ Kind(Running) = "other"
  BY <1>1 DEF Inner, Kind
<1>4. rm = NULL /\ Has("TLS") /\ Has("CODEC")
  BY <1>1, <1>2 DEF Fits, Reading, Follows, CanServe, Has, Down
<1>5. /\ logic_handler = IF fn = "connect_handler" THEN "CONNECT" ELSE "DATA"
      /\ fn = "send_handler" => to_write_buffer # NULL
  BY <1>1, <1>2, <1>4 DEF Driven, NeedsSession
<1>6. /\ write_state # "WRITING" => Free("record")
      /\ to_write_buffer # NULL => Free("part")
  BY <1>2, <1>4 DEF Free, Driven
<1>7. /\ tls_context # NULL /\ IsSession(tls_context)
      /\ push_cs = "NONE" => to_write_buffer = NULL
      /\ Busy => write_state = "WRITING"
  BY <1>2, <1>4, <1>5 DEF Session
<1>. QED
  BY <1>1, <1>2, <1>3, <1>4, <1>5, <1>6, <1>7, Neighbours

\* An assertion that is known to fail.
LEMMA AbortKeeps ==
  ASSUME IInv, Aborts, AssertionsAreKnown', aroundTls, tlsSharedUnchanged, dataUnchanged,
         UNCHANGED <<tls_context, logic_handler, write_state, to_write_buffer>>
  PROVE  IInv'
<1>1. /\ Shape /\ Alone /\ Paths /\ Down /\ Files /\ Session /\ \A h \in flight : Fits(h)
  BY DEF IInv
<1>2. /\ UNCHANGED <<user_data, rm, init_cs, tls_context, logic_handler, write_state,
                     to_write_buffer, stack, queue, layer_state, socket, on_socket,
                     connection_state, io_timeouts, dangling, file_system, file_size, open_files,
                     file_fds, task_queue, push_cs>>
      /\ inFlight' = inFlight /\ flight' = flight /\ phase' = "aborted"
  BY TlsShares DEF dataUnchanged, Aborts, inFlight, flight
<1>3. /\ Connecting' = Connecting /\ Busy' = Busy /\ Readable' = Readable
      /\ \A layer : Has(layer)' = Has(layer) /\ CanServe(layer)' = CanServe(layer)
  BY <1>2 DEF Connecting, Busy, Readable, Has, CanServe, NotOperational
<1>4. Shape' /\ Alone' /\ Paths' /\ Down'
  BY <1>1, <1>2, <1>3 DEF Shape, Lines, Alone, Paths, Once, Down, IsHandle
<1>5. Files' /\ Session'
  BY <1>1, <1>2, <1>3 DEF Files, Session, IsContext, IsHandle, IsSession, IsBuffer
<1>6. ASSUME NEW h \in flight PROVE Fits(h)'
  <2>1. Formed(h)' /\ Lone(h)' /\ Placed(h)' /\ Driven(h)'
    BY <1>1, <1>2, <1>3 DEF Fits, Formed, IsHandle, Lone, Placed, Driven, NeedsSession
  <2>2. Reading(h)'
    BY <1>1, <1>2, <1>3 DEF Fits, Reading, Requested, Follows
  <2>. QED
    BY <2>1, <2>2 DEF Fits
<1>. QED
  BY <1>2, <1>4, <1>5, <1>6 DEF IInv

\* The handler that runs returns, having handed at most one record to the network
\* layer, which did not have another, or fails because it lost one.
LEMMA RecordKeeps ==
  ASSUME IInv, NEW fn, fn \in {"connect_handler", "send_handler"}, InHandler(fn), NEW record,
         SendsRecord(record), aroundTls, tlsSharedUnchanged, dataUnchanged,
         UNCHANGED <<tls_context, logic_handler, to_write_buffer>>,
         fn = "connect_handler" => tls_context.script # <<>> /\ Head(tls_context.script) = "write"
  PROVE  IInv'
<1>1. /\ Runs /\ Running.fn = fn /\ Running.layer = "TLS" /\ Has("TLS") /\ rm = NULL
      /\ Shape /\ Paths /\ Session
      /\ logic_handler = IF fn = "connect_handler" THEN "CONNECT" ELSE "DATA"
      /\ fn = "send_handler" => to_write_buffer # NULL
      /\ Busy => write_state = "WRITING"
      /\ write_state # "WRITING" => Free("record")
  BY InHandlerHas
<1>2. /\ write_state \in {"NONE", "WRITING", "LOST"}
      /\ write_state' = IF write_state = "LOST" THEN "LOST" ELSE "WRITING"
  BY <1>1 DEF SendsRecord, Session
<1>3. UNCHANGED <<on_socket, push_cs, user_data, rm, init_cs>>
  BY TlsShares DEF dataUnchanged
<1>4. Session'
  BY <1>1, <1>2, <1>3 DEF Session, Busy, Has, IsSession, IsBuffer
<1>5. CASE write_state = "WRITING"
  <2>1. /\ Leaves(<<>>, <<>>) /\ DOMAIN layer_state' = Layers
        /\ layer_state'["USER"] = layer_state["USER"]
    BY <1>1, <1>5, ReturnsNone, Neighbours DEF SendsRecord
  <2>2. Lines' /\ phase' = phase /\ Paths' /\ flight' \subseteq others
    BY <1>1, <2>1, FlowNone
  <2>. DEFINE new == {}
  <2>3. flight' \subseteq others \cup new /\ \A g \in new : Fits(g)'
    BY <2>2
  <2>. HIDE DEF new
  <2>. QED
    BY <1>1, <1>2, <1>4, <2>1, <2>2, <2>3, TlsSteps
<1>6. CASE write_state = "NONE"
  <2>1. PICK h : h = OnPrev("TLS", "push", [msg |-> record, last |-> TRUE], "OK")
    OBVIOUS
  <2>2. h.fn = "push" /\ h.layer = "IO" /\ IsHandle(h)
    BY <2>1, HandlerFields, Neighbours DEF OnPrev
  <2>3. Kind(h) = "record" /\ ~Inner(h) /\ ~Opening(h) /\ Formed(h)
    BY <2>2 DEF Kind, Inner, Opening, Formed
  <2>4. Returns(<<>>, <<h>>)
    BY <1>6, <2>1 DEF SendsRecord, HandedOver
  <2>5. /\ Leaves(<<>>, <<h>>) /\ DOMAIN layer_state' = Layers
        /\ layer_state'["USER"] = layer_state["USER"]
    BY <1>1, <2>4, ReturnsOne, Neighbours
  <2>6. Lines' /\ phase' = phase /\ Paths' /\ flight' \subseteq others \cup {h}
    BY <1>1, <1>6, <2>3, <2>5, FlowQueues
  <2>7. Fits(h)'
    <3>1. Driven(h)'
      BY <1>1, <1>2, <1>3, <1>6, <2>2, <2>3 DEF Driven, NeedsSession, Busy, Has
    <3>. QED
      BY <1>1, <1>3, <2>2, <2>3, <3>1, QuietFits DEF Ends
  <2>. DEFINE new == {h}
  <2>8. flight' \subseteq others \cup new /\ \A g \in new : Fits(g)'
    BY <2>6, <2>7
  <2>. HIDE DEF new
  <2>. QED
    BY <1>1, <1>2, <1>4, <2>5, <2>6, <2>8, TlsSteps
<1>7. CASE write_state = "LOST"
  <2>1. Aborts /\ write_state' = write_state
    BY <1>2, <1>7 DEF SendsRecord
  <2>2. Running' = Running
    BY <2>1 DEF Aborts, Running
  <2>3. AssertionsAreKnown'
    BY <1>1, <1>7, <2>1, <2>2 DEF AssertionsAreKnown, WritesAfterLoss
  <2>. QED
    BY <2>1, <2>3, AbortKeeps
<1>. QED
  BY <1>2, <1>5, <1>6, <1>7

\* The end of the layer's connection, with an alert before it or without.
LEMMA GivesUpKeeps ==
  ASSUME NullIsNoValue, IInv, InHandler("connect_handler"), NEW reason, NEW records,
         GivesUp(reason, records), aroundTls, tlsSharedUnchanged,
         \/ records = <<>> /\ (UNCHANGED write_state \/ LosesRecord)
         \/ /\ records = <<HandedOver(Alert)>>
            /\ write_state = "NONE" /\ write_state' = "WRITING",
         dataUnchanged, UNCHANGED <<logic_handler, to_write_buffer>>
  PROVE  IInv'
<1>1. /\ Runs /\ Running.fn = "connect_handler" /\ Running.layer = "TLS" /\ Has("TLS") /\ rm = NULL
      /\ Shape /\ Paths /\ Session /\ logic_handler = "CONNECT"
      /\ tls_context # NULL /\ IsSession(tls_context)
      /\ Busy => write_state = "WRITING"
      /\ write_state # "WRITING" => Free("record")
  BY InHandlerHas
<1>2. /\ \/ write_state' = write_state
         \/ write_state = "NONE" /\ write_state' \in {"WRITING", "LOST"}
      /\ tls_context' = [tls_context EXCEPT !.failed = TRUE]
  BY DEF GivesUp, LosesRecord
<1>3. UNCHANGED <<on_socket, push_cs, user_data, rm, init_cs>>
  BY TlsShares DEF dataUnchanged
<1>4. IsSession(tls_context') /\ tls_context'.failed /\ tls_context' # NULL
  BY <1>1, <1>2 DEF IsSession, NullIsNoValue
<1>5. Session'
  BY <1>1, <1>2, <1>3, <1>4 DEF Session, Busy, Has, IsBuffer
<1>6. PICK c : c = Tls("close", reason) /\ Returns(<<>>, records \o <<c>>)
  BY DEF GivesUp
<1>7. c.fn = "close" /\ c.layer = "TLS" /\ IsHandle(c)
  BY <1>6, HandlerFields DEF Tls
<1>8. Fits(c)' /\ Kind(c) = "other" /\ ~Inner(c)
  BY <1>1, <1>3, <1>7, ManyFit
<1>9. PICK r : r = HandedOver(Alert)
  OBVIOUS
<1>10. r.fn = "push" /\ r.layer = "IO" /\ IsHandle(r)
  BY <1>9, HandlerFields, Neighbours DEF HandedOver, OnPrev
<1>11. Kind(r) = "record" /\ ~Inner(r) /\ ~Opening(r) /\ Formed(r)
  BY <1>10 DEF Kind, Inner, Opening, Formed
<1>12. CASE records = <<>>
  <2>1. Returns(<<>>, <<c>>)
    BY <1>6, <1>12
  <2>2. /\ Leaves(<<>>, <<c>>) /\ DOMAIN layer_state' = Layers
        /\ layer_state'["USER"] = layer_state["USER"]
    BY <1>1, <2>1, ReturnsOne, Neighbours
  <2>3. Lines' /\ phase' = phase /\ Paths' /\ flight' \subseteq others \cup {c}
    BY <1>1, <1>8, <2>2, FlowQueues
  <2>. DEFINE new == {c}
  <2>4. flight' \subseteq others \cup new /\ \A g \in new : Fits(g)'
    BY <1>8, <2>3
  <2>. HIDE DEF new
  <2>. QED
    BY <1>1, <1>2, <1>5, <1>12, <2>2, <2>3, <2>4, TlsSteps
<1>13. CASE records # <<>>
  <2>1. Returns(<<>>, <<r, c>>)
    <3>1. Returns(<<>>, <<r>> \o <<c>>)
      BY <1>6, <1>9, <1>13
    <3>2. <<r>> \o <<c>> = <<r, c>>
      BY TwoOfOne
    <3>. QED
      BY <3>1, <3>2
  <2>2. write_state = "NONE" /\ write_state' = "WRITING"
    BY <1>13
  <2>3. /\ Leaves(<<>>, <<r, c>>) /\ DOMAIN layer_state' = Layers
        /\ layer_state'["USER"] = layer_state["USER"]
    BY <1>1, <2>1, ReturnsAny, Neighbours
  <2>4. Lines' /\ phase' = phase /\ Paths' /\ flight' \subseteq others \cup {r, c}
    BY <1>1, <1>8, <1>11, <2>2, <2>3, FlowQueuesTwo
  <2>5. Fits(r)'
    <3>1. Driven(r)'
      BY <1>1, <1>3, <1>10, <1>11, <2>2 DEF Driven, NeedsSession, Busy, Has
    <3>. QED
      BY <1>1, <1>3, <1>10, <1>11, <3>1, QuietFits DEF Ends
  <2>. DEFINE new == {r, c}
  <2>6. flight' \subseteq others \cup new /\ \A g \in new : Fits(g)'
    BY <1>8, <2>4, <2>5
  <2>. HIDE DEF new
  <2>. QED
    BY <1>1, <1>5, <2>2, <2>3, <2>4, <2>6, TlsSteps
<1>. QED
  BY <1>12, <1>13

LEMMA HandshakeFailsKeeps ==
  ASSUME NullIsNoValue, IInv, InHandler("connect_handler"), HandshakeFails, aroundTls,
         tlsSharedUnchanged,
         dataUnchanged, UNCHANGED <<logic_handler, to_write_buffer>>
  PROVE  IInv'
<1>1. PICK reason, records :
        /\ GivesUp(reason, records)
        /\ \/ records = <<>> /\ (UNCHANGED write_state \/ LosesRecord)
           \/ /\ records = <<HandedOver(Alert)>>
              /\ write_state = "NONE" /\ write_state' = "WRITING"
  BY DEF HandshakeFails
<1>. QED
  BY <1>1, GivesUpKeeps

LEMMA PullsAgainKeeps ==
  ASSUME IInv, NEW fn, fn \in {"connect_handler", "recv_handler"}, InHandler(fn), NEW session,
         NEW h,
         Returns(<<>>, PullsAgain(session) \o <<h>>), Fits(h)', Kind(h) = "other", ~Inner(h),
         aroundTls, tlsSharedUnchanged, dataUnchanged, UNCHANGED <<write_state, to_write_buffer>>,
         logic_handler' \in {logic_handler, "DATA"}, Session'
  PROVE  IInv'
<1>1. /\ Runs /\ Running.fn = fn /\ Running.layer = "TLS" /\ Has("TLS") /\ rm = NULL
      /\ Shape /\ Paths /\ logic_handler \in {"CONNECT", "DATA"}
  BY InHandlerHas
<1>2. ASSUME NEW new, Lines', phase' = phase, Paths', DOMAIN layer_state' = Layers,
             layer_state'["USER"] = layer_state["USER"],
             flight' \subseteq others \cup new, \A g \in new : Fits(g)'
      PROVE  IInv'
  BY <1>1, <1>2, TlsSteps
<1>3. PICK p : p = Tls("pull", "WANT_READ")
  OBVIOUS
<1>4. p.fn = "pull" /\ p.layer = "TLS" /\ IsHandle(p) /\ p.state = "WANT_READ"
  BY <1>3, HandlerFields DEF Tls
<1>5. Kind(p) = "other" /\ ~Inner(p) /\ ~Opening(p) /\ Formed(p)
  BY <1>4 DEF Kind, Inner, Opening, Formed
<1>6. Fits(p)'
  <2>1. rm' = NULL /\ logic_handler' # "NONE"
    BY <1>1 DEF dataUnchanged
  <2>2. Driven(p)'
    BY <1>4, <1>5, <2>1 DEF Driven, NeedsSession
  <2>. QED
    BY <1>4, <1>5, <2>1, <2>2, QuietFits DEF Ends
<1>7. Returns(<<>>, <<h>>) \/ Returns(<<>>, <<p, h>>)
  <2>1. \/ Returns(<<>>, <<>> \o <<h>>)
        \/ Returns(<<>>, <<p>> \o <<h>>)
    BY <1>3 DEF PullsAgain
  <2>2. <<>> \o <<h>> = <<h>> /\ <<p>> \o <<h>> = <<p, h>>
    BY TwoOfOne
  <2>. QED
    BY <2>1, <2>2
<1>8. CASE Returns(<<>>, <<h>>)
  <2>1. /\ Leaves(<<>>, <<h>>) /\ DOMAIN layer_state' = Layers
        /\ layer_state'["USER"] = layer_state["USER"]
    BY <1>1, <1>8, ReturnsOne, Neighbours
  <2>2. Lines' /\ phase' = phase /\ Paths' /\ flight' \subseteq others \cup {h}
    BY <1>1, <2>1, FlowQueues
  <2>. DEFINE new == {h}
  <2>3. flight' \subseteq others \cup new /\ \A g \in new : Fits(g)'
    BY <2>2
  <2>. HIDE DEF new
  <2>. QED
    BY <1>2, <2>1, <2>2, <2>3
<1>9. CASE Returns(<<>>, <<p, h>>)
  <2>1. /\ Leaves(<<>>, <<p, h>>) /\ DOMAIN layer_state' = Layers
        /\ layer_state'["USER"] = layer_state["USER"]
    BY <1>1, <1>9, ReturnsAny, Neighbours
  <2>2. Lines' /\ phase' = phase /\ Paths' /\ flight' \subseteq others \cup {p, h}
    BY <1>1, <1>5, <2>1, FlowQueuesTwo
  <2>. DEFINE new == {p, h}
  <2>3. flight' \subseteq others \cup new /\ \A g \in new : Fits(g)'
    BY <1>6, <2>2
  <2>. HIDE DEF new
  <2>. QED
    BY <1>2, <2>1, <2>2, <2>3
<1>. QED
  BY <1>7, <1>8, <1>9

LEMMA SessionIsFunction ==
  ASSUME NEW s
  PROVE  IsSession(s) <=> s = [x \in {"script", "parts", "pending", "failed"} |-> s[x]]
BY DEF IsSession

LEMMA SessionWith ==
  ASSUME NullIsNoValue, NEW s, IsSession(s), NEW t, NEW x, NEW v, t = [s EXCEPT ![x] = v]
  PROVE  IsSession(t) /\ t # NULL
<1>. DEFINE fields == {"script", "parts", "pending", "failed"}
<1>1. s = [y \in fields |-> s[y]]
  BY SessionIsFunction
<1>2. t = [y \in fields |-> IF y = x THEN v ELSE s[y]]
  BY <1>1
<1>3. t = [y \in fields |-> t[y]]
  BY <1>2
<1>4. IsSession(t)
  BY <1>3, SessionIsFunction
<1>. QED
  BY <1>4 DEF IsSession, NullIsNoValue

LEMMA SessionValues ==
  ASSUME NullIsNoValue, IsSession(tls_context)
  PROVE  \A s :
           \/ s = FlightDone(tls_context)
           \/ s = PartRead(tls_context)
           \/ \E part : s = RecordRead(tls_context, part)
           \/ s = [tls_context EXCEPT !.failed = TRUE]
           \/ s = [tls_context EXCEPT !.pending = Tail(@)]
           => IsSession(s) /\ s # NULL
<1>1. ASSUME NEW s, NEW x, NEW v, s = [tls_context EXCEPT ![x] = v]
      PROVE  IsSession(s) /\ s # NULL
  BY <1>1, SessionWith
<1>2. ASSUME NEW s, NEW x, NEW v, NEW y, NEW w,
             s = [[tls_context EXCEPT ![x] = v] EXCEPT ![y] = w]
      PROVE  IsSession(s) /\ s # NULL
  <2>1. PICK r : r = [tls_context EXCEPT ![x] = v]
    OBVIOUS
  <2>2. IsSession(r) /\ s = [r EXCEPT ![y] = w]
    BY <1>1, <1>2, <2>1
  <2>. QED
    BY <2>2, SessionWith
<1>3. ASSUME NEW s, s = FlightDone(tls_context) PROVE IsSession(s) /\ s # NULL
  <2>1. PICK v : s = [[tls_context EXCEPT !["script"] = v] EXCEPT !["parts"] = 0]
    BY <1>3 DEF FlightDone
  <2>. QED
    BY <1>2, <2>1
<1>4. ASSUME NEW s, s = PartRead(tls_context) PROVE IsSession(s) /\ s # NULL
  <2>1. PICK v : s = [tls_context EXCEPT !["parts"] = v]
    BY <1>4 DEF PartRead
  <2>. QED
    BY <1>1, <2>1
<1>5. ASSUME NEW s, NEW part, s = RecordRead(tls_context, part) PROVE IsSession(s) /\ s # NULL
  <2>1. PICK v : s = [[tls_context EXCEPT !["parts"] = 0] EXCEPT !["pending"] = v]
    BY <1>5 DEF RecordRead
  <2>. QED
    BY <1>2, <2>1
<1>6. ASSUME NEW s, s = [tls_context EXCEPT !.failed = TRUE] PROVE IsSession(s) /\ s # NULL
  BY <1>6, SessionWith
<1>7. ASSUME NEW s, s = [tls_context EXCEPT !.pending = Tail(@)] PROVE IsSession(s) /\ s # NULL
  BY <1>7, SessionWith
<1>. QED
  BY <1>3, <1>4, <1>5, <1>6, <1>7

LEMMA ConnectWritesKeeps ==
  ASSUME NullIsNoValue, IInv, ConnectWrites, aroundTls
  PROVE  IInv'
<1>1. /\ InHandler("connect_handler") /\ tlsSharedUnchanged /\ dataUnchanged
      /\ tls_context.script # <<>> /\ Head(tls_context.script) = "write"
      /\ UNCHANGED <<logic_handler, to_write_buffer>>
  BY DEF ConnectWrites, Handshaking
<1>2. /\ Runs /\ Inner(Running) /\ Running.fn = "connect_handler" /\ Has("TLS") /\ Session
      /\ logic_handler = "CONNECT" /\ IsSession(tls_context)
      /\ Busy => write_state = "WRITING"
      /\ write_state # "WRITING" => Free("record")
  BY <1>1, InHandlerHas
<1>3. CASE SendsRecord(Flight(tls_context)) /\ UNCHANGED tls_context
  BY <1>1, <1>3, RecordKeeps
<1>4. CASE RecordWritten /\ GoesOn /\ tls_context' = FlightDone(tls_context)
  <2>1. write_state = "WRITTEN" /\ write_state' = "NONE" /\ GoesOn
    BY <1>4 DEF RecordWritten
  <2>2. IsSession(tls_context') /\ tls_context' # NULL
    BY <1>2, <1>4, SessionValues
  <2>3. Session'
    BY <1>1, <1>2, <2>1, <2>2, TlsShares DEF Session, Busy, Has, IsBuffer, dataUnchanged
  <2>. QED
    BY <1>1, <1>2, <2>1, <2>3, LibraryGoesOn
<1>5. CASE LosesRecord /\ GivesUp("CONNECT_ERROR", <<>>)
  <2>1. PICK reason, records : reason = "CONNECT_ERROR" /\ records = <<>>
    OBVIOUS
  <2>2. GivesUp(reason, records)
    BY <1>5, <2>1
  <2>. QED
    BY <1>1, <1>5, <2>1, <2>2, GivesUpKeeps
<1>. QED
  BY <1>3, <1>4, <1>5 DEF ConnectWrites

LEMMA ConnectReadsKeeps ==
  ASSUME NullIsNoValue, IInv, ConnectReads, aroundTls
  PROVE  IInv'
<1>1. /\ InHandler("connect_handler") /\ tlsSharedUnchanged /\ dataUnchanged
      /\ tls_context.script # <<>> /\ Head(tls_context.script) = "read" /\ ~tls_context.failed
      /\ UNCHANGED <<logic_handler, to_write_buffer>>
  BY DEF ConnectReads, Handshaking
<1>2. /\ Runs /\ Inner(Running) /\ Running.layer = "TLS" /\ Running.fn = "connect_handler"
      /\ Has("TLS") /\ Session /\ Shape /\ logic_handler = "CONNECT" /\ IsSession(tls_context)
      /\ Busy => write_state = "WRITING"
  BY <1>1, InHandlerHas
<1>3. write_state = "NONE"
  BY <1>1, <1>2 DEF Session
<1>4. CASE Returns(<<>>, <<>>) /\ UNCHANGED <<tls_context, raw_buffer, write_state>>
  <2>1. stateKept /\ AnySeq(task_queue')
    BY <1>1, <1>2, <1>4, TlsShares DEF stateKept, dataUnchanged, Shape, fileVars
  <2>. QED
    BY <1>2, <1>4, <2>1, PassesNone
<1>5. CASE /\ tls_context' = FlightDone(tls_context) \/ tls_context' = PartRead(tls_context)
           /\ GoesOn /\ UNCHANGED write_state
  <2>1. IsSession(tls_context') /\ tls_context' # NULL
    BY <1>2, <1>5, SessionValues
  <2>2. Session'
    BY <1>1, <1>2, <1>3, <1>5, <2>1, TlsShares DEF Session, Busy, Has, IsBuffer, dataUnchanged
  <2>. QED
    BY <1>1, <1>2, <1>5, <2>2, LibraryGoesOn
<1>6. CASE HandshakeFails
  BY <1>1, <1>6, HandshakeFailsKeeps
<1>. QED
  BY <1>4, <1>5, <1>6 DEF ConnectReads

LEMMA ConnectDoneKeeps ==
  ASSUME NullIsNoValue, IInv, ConnectDone, aroundTls
  PROVE  IInv'
<1>1. /\ InHandler("connect_handler") /\ tlsSharedUnchanged /\ dataUnchanged
      /\ tls_context.script = <<>> /\ ~tls_context.failed /\ logic_handler' = "DATA"
      /\ UNCHANGED <<tls_context, write_state, to_write_buffer>>
      /\ Returns(<<>>, PullsAgain(tls_context) \o <<OnNext("TLS", "connect", NULL, "OK")>>)
  BY DEF ConnectDone, Handshaking
<1>2. /\ Runs /\ Has("TLS") /\ Session /\ rm = NULL /\ logic_handler = "CONNECT"
      /\ IsSession(tls_context) /\ tls_context # NULL
  BY <1>1, InHandlerHas
<1>3. write_state = "NONE"
  BY <1>1, <1>2 DEF Session
<1>4. Session'
  BY <1>1, <1>2, <1>3, TlsShares DEF Session, Busy, Has, IsBuffer, IsSession, dataUnchanged
<1>5. PICK h : h = OnNext("TLS", "connect", NULL, "OK")
  OBVIOUS
<1>6. h.fn = "connect" /\ h.layer = "CODEC" /\ h.state = "OK" /\ IsHandle(h)
  BY <1>5, HandlerFields, Neighbours DEF OnNext
<1>7. Kind(h) = "other" /\ ~Inner(h) /\ ~Opening(h) /\ Formed(h)
  BY <1>6 DEF Kind, Inner, Opening, Formed
<1>8. Fits(h)'
  <2>1. Driven(h)'
    BY <1>1, <1>6, <1>7 DEF Driven, NeedsSession
  <2>. QED
    BY <1>1, <1>2, <1>6, <1>7, <2>1, QuietFits DEF Ends, dataUnchanged
<1>9. Returns(<<>>, PullsAgain(tls_context) \o <<h>>)
  BY <1>1, <1>5
<1>. QED
  BY <1>1, <1>4, <1>7, <1>8, <1>9, PullsAgainKeeps

LEMMA ConnectAgainKeeps ==
  ASSUME NullIsNoValue, IInv, ConnectAgain, aroundTls
  PROVE  IInv'
<1>1. /\ InHandler("connect_handler") /\ tlsSharedUnchanged /\ dataUnchanged /\ tls_context.failed
      /\ UNCHANGED <<logic_handler, to_write_buffer>>
  BY DEF ConnectAgain
<1>2. /\ Runs /\ Running.layer = "TLS" /\ Running.fn = "connect_handler"
      /\ Has("TLS") /\ Session /\ Shape /\ Paths /\ logic_handler = "CONNECT"
      /\ IsSession(tls_context) /\ tls_context # NULL
      /\ Busy => write_state = "WRITING"
      /\ write_state # "WRITING" => Free("record")
  BY <1>1, InHandlerHas
<1>3. CASE /\ Returns(<<>>, <<>>) /\ UNCHANGED tls_context
           /\ write_state' = IF write_state = "WRITTEN" THEN "NONE" ELSE write_state
  <2>1. Session'
    BY <1>1, <1>2, <1>3, TlsShares DEF Session, Busy, Has, IsBuffer, IsSession, dataUnchanged
  <2>2. /\ Leaves(<<>>, <<>>) /\ DOMAIN layer_state' = Layers
        /\ layer_state'["USER"] = layer_state["USER"]
    BY <1>2, <1>3, ReturnsNone, Neighbours
  <2>3. Lines' /\ phase' = phase /\ Paths' /\ flight' \subseteq others
    BY <1>2, <2>2, FlowNone
  <2>. DEFINE new == {}
  <2>4. flight' \subseteq others \cup new /\ \A g \in new : Fits(g)'
    BY <2>3
  <2>. HIDE DEF new
  <2>. QED
    BY <1>1, <1>2, <1>3, <2>1, <2>2, <2>3, <2>4, TlsSteps
<1>4. CASE HandshakeFails
  BY <1>1, <1>4, HandshakeFailsKeeps
<1>. QED
  BY <1>3, <1>4 DEF ConnectAgain

LEMMA SendWritesKeeps ==
  ASSUME NullIsNoValue, IInv, SendWrites, aroundTls
  PROVE  IInv'
<1>1. /\ InHandler("send_handler") /\ tlsSharedUnchanged /\ dataUnchanged
      /\ UNCHANGED <<tls_context, logic_handler, to_write_buffer>>
  BY DEF SendWrites
<1>2. to_write_buffer # NULL
  BY <1>1, InHandlerHas
<1>3. PICK record : SendsRecord(record)
  BY <1>2 DEF SendWrites
<1>. QED
  BY <1>1, <1>3, RecordKeeps

\* The buffer is written, or cannot be: the codec is told.
LEMMA WrittenKeeps ==
  ASSUME NullIsNoValue, IInv, InHandler("send_handler"), NEW state, state # "OK",
         WrittenState(state), write_state # "WRITING", write_state' \in {"NONE", "LOST"}, aroundTls,
         tlsSharedUnchanged, dataUnchanged,
         UNCHANGED <<tls_context, logic_handler>>
  PROVE  IInv'
<1>1. /\ Runs /\ Running.fn = "send_handler" /\ Running.layer = "TLS" /\ Has("TLS") /\ rm = NULL
      /\ Shape /\ Paths /\ Session /\ logic_handler = "DATA" /\ to_write_buffer # NULL
      /\ push_cs = "NONE" => to_write_buffer = NULL
      /\ Busy => write_state = "WRITING"
      /\ write_state # "WRITING" => Free("record")
      /\ to_write_buffer # NULL => Free("part")
  BY InHandlerHas
<1>2. PICK h : h = OnNext("TLS", "push", NULL, state)
  OBVIOUS
<1>3. Returns(<<>>, <<h>>) /\ to_write_buffer' = NULL
  BY <1>2 DEF WrittenState
<1>4. h.fn = "push" /\ h.layer = "CODEC" /\ h.state = state /\ IsHandle(h)
  BY <1>2, HandlerFields, Neighbours DEF OnNext
<1>5. Kind(h) = "part" /\ ~Inner(h) /\ ~Opening(h) /\ Formed(h)
  BY <1>4 DEF Kind, Inner, Opening, Formed
<1>6. UNCHANGED <<on_socket, push_cs, user_data, rm, init_cs>>
  BY TlsShares DEF dataUnchanged
<1>7. Session'
  BY <1>1, <1>3, <1>6 DEF Session, Busy, Has, IsSession
<1>8. Fits(h)'
  <2>1. Driven(h)'
    BY <1>1, <1>3, <1>4, <1>5, <1>6 DEF Driven, NeedsSession
  <2>. QED
    BY <1>1, <1>4, <1>5, <1>6, <2>1, QuietFits DEF Ends
<1>9. /\ Leaves(<<>>, <<h>>) /\ DOMAIN layer_state' = Layers
      /\ layer_state'["USER"] = layer_state["USER"]
  BY <1>1, <1>3, ReturnsOne, Neighbours
<1>10. Lines' /\ phase' = phase /\ Paths' /\ flight' \subseteq others \cup {h}
  BY <1>1, <1>5, <1>9, FlowQueues
<1>. DEFINE new == {h}
<1>11. flight' \subseteq others \cup new /\ \A g \in new : Fits(g)'
  BY <1>8, <1>10
<1>. HIDE DEF new
<1>. QED
  BY <1>1, <1>3, <1>7, <1>9, <1>10, <1>11, TlsSteps

LEMMA SendWrittenKeeps ==
  ASSUME NullIsNoValue, IInv, SendWritten, aroundTls
  PROVE  IInv'
<1>1. /\ InHandler("send_handler") /\ tlsSharedUnchanged /\ dataUnchanged
      /\ write_state = "WRITTEN" /\ write_state' = "NONE"
      /\ UNCHANGED <<tls_context, logic_handler>>
  BY DEF SendWritten, RecordWritten
<1>2. CASE WrittenState("WRITTEN")
  BY <1>1, <1>2, WrittenKeeps
<1>3. ASSUME NEW left, to_write_buffer' = [to_write_buffer EXCEPT !.left = left], GoesOn
      PROVE  IInv'
  <2>1. /\ Runs /\ Inner(Running) /\ Has("TLS") /\ Session /\ logic_handler = "DATA"
        /\ to_write_buffer # NULL /\ ~Busy /\ Free("record") /\ Free("part")
        /\ push_cs # "NONE"
    BY <1>1, InHandlerHas
  <2>2. IsBuffer(to_write_buffer)
    BY <2>1 DEF Session
  <2>3. to_write_buffer' = [data |-> to_write_buffer.data, left |-> left]
    BY <1>3, <2>2 DEF IsBuffer
  <2>4. IsBuffer(to_write_buffer') /\ to_write_buffer' # NULL
    BY <2>3 DEF IsBuffer, NullIsNoValue
  <2>5. Session'
    BY <1>1, <2>1, <2>4, TlsShares DEF Session, Busy, Has, IsSession, dataUnchanged
  <2>. QED
    BY <1>1, <1>3, <2>1, <2>4, <2>5, LibraryGoesOn
<1>. QED
  BY <1>2, <1>3 DEF SendWritten

LEMMA SendFailsKeeps ==
  ASSUME NullIsNoValue, IInv, SendFails, aroundTls
  PROVE  IInv'
BY WrittenKeeps DEF SendFails, LosesRecord

LEMMA RecvKeeps ==
  ASSUME NullIsNoValue, IInv, RecvHandler, aroundTls
  PROVE  IInv'
<1>1. /\ InHandler("recv_handler") /\ tlsSharedUnchanged /\ dataUnchanged
      /\ UNCHANGED <<logic_handler, write_state, to_write_buffer>>
  BY DEF RecvHandler, RecvWaits, RecvReads, RecvDelivers, RecvFails, RecvLacksMemory
<1>2. /\ Runs /\ Inner(Running) /\ Running.fn = "recv_handler" /\ Running.layer = "TLS"
      /\ Running.layer \in Layers /\ Has("TLS") /\ rm = NULL
      /\ Shape /\ Session /\ logic_handler = "DATA" /\ IsSession(tls_context)
  BY <1>1, InHandlerHas
<1>3. UNCHANGED <<on_socket, push_cs, user_data, rm, init_cs>>
  BY <1>1, TlsShares DEF dataUnchanged
<1>4. ASSUME IsSession(tls_context'), tls_context' # NULL PROVE Session'
  BY <1>1, <1>2, <1>3, <1>4 DEF Session, Busy, Has, IsBuffer
<1>5. CASE RecvWaits
  <2>1. stateKept /\ AnySeq(task_queue') /\ Returns(<<>>, <<>>)
    BY <1>1, <1>2, <1>3, <1>5, TlsShares DEF stateKept, Shape, RecvWaits
  <2>. QED
    BY <1>2, <2>1, PassesNone
<1>6. CASE RecvReads
  <2>1. GoesOn /\ (\/ tls_context' = PartRead(tls_context)
                   \/ \E part : tls_context' = RecordRead(tls_context, part))
    BY <1>6 DEF RecvReads
  <2>2. IsSession(tls_context') /\ tls_context' # NULL
    BY <1>2, <2>1, SessionValues
  <2>. QED
    BY <1>1, <1>2, <1>4, <2>1, <2>2, LibraryGoesOn
<1>7. CASE RecvDelivers
  <2>1. PICK data, session :
          /\ data = <<Head(tls_context.pending)>>
          /\ session = [tls_context EXCEPT !.pending = Tail(@)]
          /\ tls_context' = session
          /\ Returns(<<>>, PullsAgain(session) \o <<OnNext("TLS", "pull", [msgs |-> data], "OK")>>)
    BY <1>7 DEF RecvDelivers
  <2>2. PICK h : h = OnNext("TLS", "pull", [msgs |-> data], "OK")
    OBVIOUS
  <2>3. h.fn = "pull" /\ h.layer = "CODEC" /\ h.data = [msgs |-> data] /\ IsHandle(h)
    BY <2>2, HandlerFields, Neighbours DEF OnNext
  <2>4. Len(h.data.msgs) \in Nat
    BY <2>1, <2>3, AnyLiteral
  <2>5. Kind(h) = "other" /\ ~Inner(h) /\ ~Opening(h) /\ Formed(h)
    BY <2>3, <2>4 DEF Kind, Inner, Opening, Formed
  <2>6. Fits(h)'
    <3>1. Driven(h)'
      BY <2>3, <2>5 DEF Driven, NeedsSession
    <3>. QED
      BY <1>2, <1>3, <2>3, <2>5, <3>1, QuietFits DEF Ends
  <2>7. Session'
    BY <1>2, <1>4, <2>1, SessionValues
  <2>8. Returns(<<>>, PullsAgain(session) \o <<h>>)
    BY <2>1, <2>2
  <2>. QED
    BY <1>1, <2>5, <2>6, <2>7, <2>8, PullsAgainKeeps
<1>8. CASE RecvFails \/ RecvLacksMemory
  <2>1. PICK h : /\ h \in {Tls("close", "READ_ERROR"), Tls("close", "OUT_OF_MEMORY")}
                 /\ Returns(<<>>, <<h>>)
    BY <1>8 DEF RecvFails, RecvLacksMemory
  <2>2. tls_context' \in {tls_context, [tls_context EXCEPT !.failed = TRUE]}
    BY <1>8 DEF RecvFails, RecvLacksMemory
  <2>3. Session'
    <3>1. tls_context # NULL
      BY <1>1, InHandlerHas
    <3>2. CASE tls_context' = tls_context
      BY <1>2, <1>4, <3>1, <3>2 DEF IsSession
    <3>3. CASE tls_context' = [tls_context EXCEPT !.failed = TRUE]
      BY <1>2, <1>4, <3>3, SessionValues
    <3>. QED
      BY <2>2, <3>2, <3>3
  <2>4. h.fn = "close" /\ h.layer = "TLS" /\ IsHandle(h)
    BY <2>1, HandlerFields DEF Tls
  <2>5. Fits(h)' /\ Kind(h) = "other" /\ ~Inner(h)
    BY <1>2, <1>3, <2>4, ManyFit
  <2>6. /\ Leaves(<<>>, <<h>>) /\ DOMAIN layer_state' = Layers
        /\ layer_state'["USER"] = layer_state["USER"]
    BY <1>2, <2>1, ReturnsOne, Neighbours
  <2>7. Shape /\ Paths
    BY DEF IInv
  <2>8. Lines' /\ phase' = phase /\ Paths' /\ flight' \subseteq others \cup {h}
    BY <1>2, <2>5, <2>6, <2>7, FlowQueues
  <2>. DEFINE new == {h}
  <2>9. flight' \subseteq others \cup new /\ \A g \in new : Fits(g)'
    BY <2>5, <2>8
  <2>. HIDE DEF new
  <2>. QED
    BY <1>1, <1>2, <2>3, <2>6, <2>8, <2>9, TlsSteps
<1>. QED
  BY <1>5, <1>6, <1>7, <1>8 DEF RecvHandler

-----------------------------------------------------------------------------
(* The functions of the TLS layer.                                         *)

\* The handler that runs calls a handler of the library.
LEMMA CallKeeps ==
  ASSUME IInv, Runs, Running.layer = "TLS", Running.fn = "push", Has("TLS"), Shape, Paths,
         aroundTls, tlsSharedUnchanged, dataUnchanged, UNCHANGED <<tls_context, logic_handler>>,
         Session',
         write_state' \in {write_state, "WRITING"} \/ Free("record"),
         to_write_buffer' \in {to_write_buffer, NULL} \/ Free("part"),
         NEW h,
         \/ h = Tls("connect_handler", "OK") /\ logic_handler = "CONNECT"
         \/ h = Tls("send_handler", "OK") /\ logic_handler = "DATA" /\ to_write_buffer' # NULL,
         Returns(<<h>>, <<>>)
  PROVE  IInv'
<1>1. /\ h.fn \in {"connect_handler", "send_handler"} /\ h.layer = "TLS" /\ h.state = "OK"
      /\ IsHandle(h)
  BY HandlerFields DEF Tls
<1>2. Kind(h) = "other" /\ ~Opening(h) /\ Formed(h)
  BY <1>1 DEF Kind, Opening, Formed
<1>3. rm = NULL /\ rm' = NULL
  BY RunningFits DEF Fits, Reading, Follows, dataUnchanged
<1>4. Fits(h)'
  <2>1. /\ h.fn = "connect_handler" => logic_handler = "CONNECT"
        /\ h.fn = "send_handler" => logic_handler = "DATA" /\ to_write_buffer' # NULL
    BY HandlerFields DEF Tls
  <2>2. Driven(h)'
    BY <1>1, <1>2, <2>1 DEF Driven, NeedsSession
  <2>. QED
    BY <1>1, <1>2, <1>3, <2>2, QuietFits DEF Ends
<1>5. /\ Leaves(<<h>>, <<>>) /\ DOMAIN layer_state' = Layers
      /\ layer_state'["USER"] = layer_state["USER"]
  BY ReturnsNone, Neighbours
<1>6. Lines' /\ phase' = phase /\ Paths' /\ flight' \subseteq others \cup {h}
  BY <1>2, <1>5, FlowCalls
<1>. DEFINE new == {h}
<1>7. flight' \subseteq others \cup new /\ \A g \in new : Fits(g)'
  BY <1>4, <1>6
<1>. HIDE DEF new
<1>. QED
  BY <1>5, <1>6, <1>7, TlsSteps

LEMMA TlsPushKeeps ==
  ASSUME NullIsNoValue, IInv, TlsPush, aroundTls
  PROVE  IInv'
<1>1. /\ Runs /\ Running.fn = "push" /\ Running.layer = "TLS" /\ Running.state = "OK"
      /\ Has("TLS") /\ tlsSharedUnchanged /\ dataUnchanged
      /\ UNCHANGED <<tls_context, logic_handler, write_state>>
  BY RunsIt DEF TlsPush, CanServe, Has
<1>2. Shape /\ Paths /\ Down /\ Session /\ Driven(Running)
  BY <1>1, RunningFits DEF IInv, Fits
<1>3. Kind(Running) = "part" /\ Free("part") /\ Has("CODEC")
  BY <1>1, <1>2, Kinds, FreeOf DEF Paths, Down
<1>4. /\ push_cs # "NONE" /\ to_write_buffer = NULL /\ logic_handler = "DATA"
      /\ write_state \in {"NONE", "LOST"}
  BY <1>1, <1>2, <1>3 DEF Driven, NeedsSession, Session
<1>5. PICK h : h = Tls("send_handler", "OK")
  OBVIOUS
<1>6. /\ Returns(<<h>>, <<>>)
      /\ to_write_buffer' = [data |-> Running.data, left |-> RecordsOf(Running.data)]
  BY <1>4, <1>5 DEF TlsPush, CallsLogicHandler
<1>7. IsBuffer(to_write_buffer') /\ to_write_buffer' # NULL
  BY <1>6 DEF IsBuffer, NullIsNoValue
<1>8. Session'
  BY <1>1, <1>2, <1>4, <1>7, TlsShares DEF Session, Busy, Has, IsSession, dataUnchanged
<1>. QED
  BY <1>1, <1>2, <1>3, <1>4, <1>5, <1>6, <1>7, <1>8, CallKeeps

LEMMA TlsPushWrittenKeeps ==
  ASSUME NullIsNoValue, IInv, TlsPushWritten, aroundTls
  PROVE  IInv'
<1>1. /\ Runs /\ Running.fn = "push" /\ Running.layer = "TLS" /\ Running.state = "WRITTEN"
      /\ Has("TLS") /\ tlsSharedUnchanged /\ dataUnchanged
      /\ UNCHANGED <<tls_context, logic_handler, to_write_buffer>>
  BY RunsIt DEF TlsPushWritten, CanServe, Has
<1>2. Shape /\ Paths /\ Down /\ Session /\ Driven(Running)
  BY <1>1, RunningFits DEF IInv, Fits
<1>3. Kind(Running) = "record" /\ Free("record")
  BY <1>1, <1>2, Kinds, FreeOf DEF Paths
<1>4. ~Busy /\ write_state = "WRITING" /\ logic_handler \in {"CONNECT", "DATA"}
  BY <1>1, <1>2, <1>3 DEF Driven, Session
<1>5. /\ write_state' = "WRITTEN"
      /\ \/ logic_handler = "CONNECT" /\ Returns(<<Tls("connect_handler", "OK")>>, <<>>)
         \/ logic_handler = "DATA" /\ Returns(<<Tls("send_handler", "OK")>>, <<>>)
  BY <1>4 DEF TlsPushWritten, CallsLogicHandler
<1>6. PICK h : /\ \/ logic_handler = "CONNECT" /\ h = Tls("connect_handler", "OK")
                  \/ logic_handler = "DATA" /\ h = Tls("send_handler", "OK")
               /\ Returns(<<h>>, <<>>)
  BY <1>5
<1>7. Session'
  BY <1>1, <1>2, <1>4, <1>5, TlsShares DEF Session, Busy, Has, IsSession, IsBuffer, dataUnchanged
<1>8. \/ h = Tls("connect_handler", "OK") /\ logic_handler = "CONNECT"
      \/ h = Tls("send_handler", "OK") /\ logic_handler = "DATA" /\ to_write_buffer' # NULL
  BY <1>1, <1>2, <1>4, <1>6 DEF Session
<1>9. UNCHANGED <<tls_context, logic_handler>> /\ Returns(<<h>>, <<>>)
  BY <1>1, <1>6
<1>10. to_write_buffer' \in {to_write_buffer, NULL}
  BY <1>1
<1>. QED
  BY <1>1, <1>2, <1>3, <1>7, <1>8, <1>9, <1>10, CallKeeps

\* The functions that change nothing but what the library has to read.
LEMMA TlsPassesOn ==
  ASSUME NullIsNoValue, IInv, aroundTls,
         TlsPushDropped \/ TlsPull \/ TlsPullDropped \/ TlsConnect \/ TlsClose
  PROVE  IInv'
<1>1. /\ Runs /\ Running.layer = "TLS" /\ Running.layer \in Layers /\ Running.layer # "RESOURCE"
      /\ tlsSharedUnchanged
      /\ UNCHANGED <<user_data, rm, tls_context, init_cs, logic_handler, write_state,
                     to_write_buffer>>
  BY RunsIt, Neighbours DEF TlsPushDropped, TlsPull, TlsPullDropped, TlsConnect, TlsClose,
     layerUnchanged, layerVars, dataUnchanged
<1>2. stateKept
  BY <1>1, TlsShares DEF stateKept
<1>3. /\ Shape /\ Down /\ Session /\ Fits(Running) /\ AnySeq(task_queue')
      /\ rm # NULL => Follows(Running)
  BY <1>1, RunningFits, TlsShares DEF IInv, Shape, Fits, Reading
<1>4. CASE TlsPushDropped
  BY <1>1, <1>2, <1>3, <1>4, PassesNone DEF TlsPushDropped
<1>5. CASE TlsPull
  <2>1. rm = NULL /\ CanServe("TLS") /\ logic_handler \in {"CONNECT", "DATA"}
    <3>1. Running.fn = "pull" /\ Running.layer = "TLS" /\ CanServe("TLS")
      BY <1>5, RunsIt DEF TlsPull
    <3>. QED
      BY <1>3, <3>1 DEF Follows, Fits, Driven, Session, CanServe, Has
  <2>2. PICK h : /\ Returns(<<h>>, <<>>)
                 /\ \/ logic_handler = "CONNECT" /\ h = Tls("connect_handler", "OK")
                    \/ logic_handler = "DATA" /\ h = Tls("recv_handler", "OK")
    BY <1>5, <2>1 DEF TlsPull, CallsLogicHandler
  <2>3. /\ h.layer = "TLS" /\ IsHandle(h)
        /\ \/ logic_handler = "CONNECT" /\ h.fn = "connect_handler"
           \/ logic_handler = "DATA" /\ h.fn = "recv_handler"
    BY <2>2, HandlerFields DEF Tls
  <2>4. Kind(h) = "other"
    BY <2>3 DEF Kind
  <2>5. FitsNext(h)
    BY <2>1, <2>3, <2>4
       DEF FitsNext, Formed, Opening, Placed, Ends, Dials, Reading, Driven, NeedsSession
  <2>. QED
    BY <1>1, <1>2, <1>3, <2>2, <2>4, <2>5, PassesCalled
<1>6. CASE TlsPullDropped
  <2>1. PICK h : h = Tls("close", Running.state)
    OBVIOUS
  <2>2. Returns(<<>>, <<h>>) /\ rm = NULL
    BY <1>3, <1>6, <2>1, RunsIt DEF TlsPullDropped, Follows
  <2>3. h.fn = "close" /\ h.layer = "TLS" /\ IsHandle(h)
    BY <2>1, HandlerFields DEF Tls
  <2>4. Kind(h) = "other" /\ ~Inner(h)
    BY <2>3 DEF Kind, Inner
  <2>5. FitsNext(h)
    BY <2>2, <2>3, <2>4
       DEF FitsNext, Formed, Opening, Placed, Ends, Dials, Reading, Driven, NeedsSession
  <2>. QED
    BY <1>1, <1>2, <1>3, <2>2, <2>4, <2>5, PassesQueued
<1>7. CASE TlsConnect /\ CanServe("TLS") /\ Running.state = "OK"
  <2>1. PICK h : h = Tls("connect_handler", "OK")
    OBVIOUS
  <2>2. Returns(<<h>>, <<>>) /\ Running.fn = "connect"
    BY <1>7, <2>1, RunsIt DEF TlsConnect
  <2>3. logic_handler = "CONNECT" /\ rm = NULL
    BY <1>1, <1>3, <1>7, <2>2 DEF Fits, Placed, Dials
  <2>4. h.fn = "connect_handler" /\ h.layer = "TLS" /\ IsHandle(h)
    BY <2>1, HandlerFields DEF Tls
  <2>5. Kind(h) = "other"
    BY <2>4 DEF Kind
  <2>6. FitsNext(h)
    BY <2>3, <2>4, <2>5
       DEF FitsNext, Formed, Opening, Placed, Ends, Dials, Reading, Driven, NeedsSession
  <2>. QED
    BY <1>1, <1>2, <1>3, <2>2, <2>5, <2>6, PassesCalled
<1>8. CASE TlsConnect /\ ~(CanServe("TLS") /\ Running.state = "OK")
  <2>1. PICK h : h = OnNext("TLS", "connect", NULL, Running.state)
    OBVIOUS
  <2>2. Returns(<<>>, <<h>>) /\ Running.fn = "connect"
    BY <1>8, <2>1, RunsIt DEF TlsConnect
  <2>3. Running.state # "OK"
    BY <1>1, <1>3, <1>8, <2>2 DEF Fits, Placed, Dials
  <2>4. h.fn = "connect" /\ h.layer = "CODEC" /\ h.state = Running.state /\ IsHandle(h)
    BY <2>1, HandlerFields, Neighbours DEF OnNext
  <2>5. Kind(h) = "other" /\ ~Inner(h)
    BY <2>4 DEF Kind, Inner
  <2>6. Reading(h)
    BY <1>1, <1>3, <2>2, <2>3, <2>4 DEF Reading, Follows
  <2>7. FitsNext(h)
    BY <2>3, <2>4, <2>5, <2>6
       DEF FitsNext, Formed, Opening, Placed, Ends, Dials, Driven, NeedsSession
  <2>. QED
    BY <1>1, <1>2, <1>3, <2>2, <2>5, <2>7, PassesQueued
<1>9. CASE TlsClose
  <2>1. PICK h : /\ Returns(<<>>, <<h>>)
                 /\ \/ Has("TLS") /\ h = OnPrev("TLS", "close", NULL, Running.state)
                    \/ ~Has("TLS") /\ h = Tls("close_externally", Running.state)
    BY <1>9 DEF TlsClose, Has
  <2>2. Running.fn = "close"
    BY <1>9, RunsIt DEF TlsClose
  <2>3. /\ IsHandle(h)
        /\ \/ h.fn = "close" /\ h.layer = "IO"
           \/ h.fn = "close_externally" /\ h.layer = "TLS" /\ ~Has("IO")
    BY <1>3, <2>1, HandlerFields, Neighbours DEF OnPrev, Tls, Down
  <2>4. Kind(h) = "other" /\ ~Inner(h)
    BY <2>3 DEF Kind, Inner
  <2>5. Reading(h)
    BY <1>1, <1>3, <2>2, <2>3 DEF Reading, Follows
  <2>6. FitsNext(h)
    BY <2>3, <2>4, <2>5 DEF FitsNext, Formed, Opening, Placed, Ends, Dials, Driven, NeedsSession
  <2>. QED
    BY <1>1, <1>2, <1>3, <2>1, <2>4, <2>6, PassesQueued
<1>. QED
  BY <1>4, <1>5, <1>6, <1>7, <1>8, <1>9

\* The end of the connection, when the certificates are closed.
LEMMA TlsCloseExternallyKeeps ==
  ASSUME NullIsNoValue, IInv, TlsCloseExternally, aroundTls
  PROVE  IInv'
<1>1. /\ Runs /\ Running.fn = "close_externally" /\ Running.layer = "TLS"
      /\ tlsSharedUnchanged /\ ~(Has("TLS") /\ rm # NULL /\ MayUse(rm))
      /\ user_data' = user_data \ {"TLS"} /\ rm' = NULL /\ tls_context' = NULL
      /\ FreshLayer /\ TellsTheEnd
  BY RunsIt DEF TlsCloseExternally, Has
<1>2. /\ Shape /\ Alone /\ Paths /\ Down /\ Files /\ Session /\ Fits(Running)
      /\ \A g \in others : Formed(g) /\ ~Opening(g) /\ ~Inner(g) /\ Driven(g) /\ Placed(g)
      /\ ~Connecting /\ phase # "select"
  BY <1>1, RunningFits DEF IInv
<1>3. /\ UNCHANGED <<socket, on_socket, connection_state, io_timeouts, dangling, file_system,
                     file_size,
                     open_files, file_fds, task_queue, push_cs>>
      /\ init_cs' = "START" /\ logic_handler' = "NONE" /\ write_state' = "NONE"
      /\ to_write_buffer' = NULL
  BY <1>1, TlsShares DEF FreshLayer
<1>4. ~Has("IO") /\ on_socket = NULL
  BY <1>1, <1>2 DEF Fits, Placed, Ends, Down
<1>5. open_files = 0 /\ file_fds = {}
  <2>1. rm # NULL =>
          Has("TLS") /\ (rm.callback = NULL \/ rm.resource_handle = INVALID_HANDLE)
    BY <1>1, <1>2 DEF Down, Fits, Reading, Follows
  <2>2. rm # NULL => rm.resource_handle = INVALID_HANDLE
    <3>1. FileHandle >= 0
      BY DEF FileHandle
    <3>. QED
      BY <1>1, <1>2, <2>1, <3>1 DEF MayUse, Files
  <2>3. open_files = 0
    BY <1>2, <2>2 DEF Files
  <2>4. file_fds = {}
    <3>1. Running \in flight /\ Running # Coroutine("read_coroutine")
      BY <1>1, <1>2, RunningIsFirst, HandlerFields DEF Coroutine
    <3>. QED
      BY <1>2, <3>1 DEF Alone
  <2>. QED
    BY <2>3, <2>4
<1>6. PICK h : /\ Returns(<<>>, <<h>>)
               /\ \/ h = Tls("connect", Running.state) /\ Running.state # "OK"
                  \/ h = OnNext("TLS", "close_externally", NULL, Running.state)
  BY <1>1 DEF TellsTheEnd
<1>7. /\ IsHandle(h)
      /\ \/ h.fn = "connect" /\ h.layer = "TLS" /\ h.state # "OK"
         \/ h.fn = "close_externally" /\ h.layer = "CODEC"
  BY <1>6, HandlerFields, Neighbours DEF Tls, OnNext
<1>8. Kind(h) = "other" /\ ~Inner(h) /\ ~Opening(h) /\ Formed(h)
  BY <1>7 DEF Kind, Inner, Opening, Formed
<1>9. ~Has("TLS")' /\ ~Has("IO")' /\ Has("CODEC")' = Has("CODEC") /\ ~Connecting' /\ ~Busy'
  BY <1>1, <1>3, <1>4 DEF Has, Connecting, Busy
<1>10. /\ Leaves(<<>>, <<h>>) /\ DOMAIN layer_state' = Layers
       /\ layer_state'["USER"] = layer_state["USER"]
  BY <1>1, <1>2, <1>6, ReturnsOne, Neighbours
<1>11. Lines' /\ phase' = phase /\ Paths' /\ flight' \subseteq others \cup {h}
  BY <1>1, <1>2, <1>8, <1>10, FlowQueues
<1>12. Shape' /\ Alone'
  BY <1>1, <1>2, <1>3, <1>4, <1>5, <1>9, <1>10, <1>11 DEF Shape, Alone
<1>13. Down'
  BY <1>1, <1>2, <1>3, <1>4, <1>9, <1>10 DEF Down, Has
<1>14. Files'
  BY <1>1, <1>2, <1>3, <1>5, <1>11 DEF Files, Readable, AssertionsAreKnown, Runs
<1>15. Session'
  BY <1>1, <1>2, <1>3, <1>9 DEF Session
<1>16. ASSUME NEW g \in others PROVE Fits(g)'
  <2>1. Driven(g)'
    BY <1>2, <1>3, <1>9 DEF Driven, Has, Inner, NeedsSession
  <2>2. Ends(g, "USER") => ~Has("CODEC")'
    BY <1>2, <1>9 DEF Placed
  <2>. QED
    BY <1>1, <1>2, <1>9, <2>1, <2>2, QuietFits
<1>17. Fits(h)'
  <2>1. Driven(h)'
    BY <1>7, <1>8 DEF Driven, NeedsSession
  <2>. QED
    BY <1>1, <1>7, <1>8, <1>9, <2>1, QuietFits DEF Ends
<1>. QED
  BY <1>11, <1>12, <1>13, <1>14, <1>15, <1>16, <1>17 DEF IInv

-----------------------------------------------------------------------------
(* The steps with which the layer is opened: one handler at a time.        *)

LEMMA OneStep ==
  ASSUME IInv, Runs, others = {}, Len(inFlight) = 1, connection_state = "OPENING", file_fds' = {},
         NEW h, Kind(h) = "other", ~Inner(h), Leaves(<<>>, <<h>>) \/ Leaves(<<h>>, <<>>),
         DOMAIN layer_state' = Layers, AnySeq(task_queue'),
         UNCHANGED <<on_socket, connection_state, io_timeouts, dangling>>
  PROVE  /\ Shape' /\ Alone' /\ Paths' /\ phase' = phase /\ flight' \subseteq {h}
         /\ Len(inFlight') = 1 /\ ~Connecting'
<1>1. Shape /\ Paths /\ ~Connecting /\ phase # "select"
  BY RunningFits
<1>2. /\ Lines' /\ phase' = phase /\ Paths' /\ Len(inFlight') = 1
      /\ flight' \subseteq others \cup {h}
  <2>1. CASE Leaves(<<>>, <<h>>)
    BY <1>1, <2>1, FlowQueues
  <2>2. CASE Leaves(<<h>>, <<>>)
    BY <1>1, <2>2, FlowCalls
  <2>. QED
    BY <2>1, <2>2
<1>3. ~Connecting'
  BY <1>1 DEF Connecting
<1>4. Shape'
  BY <1>1, <1>2 DEF Shape, IsHandle
<1>5. Alone'
  BY <1>2, <1>3 DEF Alone
<1>. QED
  BY <1>2, <1>3, <1>4, <1>5

\* A request to the resource manager.
LEMMA AsksKeeps ==
  ASSUME NullIsNoValue, IInv, Runs, Running.layer = "TLS", others = {}, Len(inFlight) = 1,
         connection_state = "OPENING", file_fds = {}, aroundTls, tlsSharedUnchanged,
         NEW context, NEW fn, NEW callback, Asks(context, fn, callback),
         IsContext(context), context.resource_handle \in {INVALID_HANDLE, FileHandle},
         context.resource_handle = INVALID_HANDLE => open_files = 0,
         context.resource_handle = FileHandle => context.resource_size = file_size,
         context.data_offset \in Nat, context.data_offset > 0 => context.data_buffer # NULL,
         context.data_buffer # NULL => context.data_buffer \in Nat,
         IsHandle(callback), callback.layer = "TLS",
         (callback.fn = "init" /\ callback.state = "OK") \/ callback.fn = "close_externally",
         fn \in {"open_coroutine", "read_coroutine", "close_coroutine"},
         fn = "open_coroutine" =>
           callback.fn = "init" /\ init_cs' = "OPEN" /\ context.resource_handle = INVALID_HANDLE,
         fn = "read_coroutine" =>
           /\ callback.fn = "init" /\ init_cs' = "READ"
           /\ context.resource_handle = FileHandle /\ open_files = 1,
         fn = "close_coroutine" =>
           /\ callback.fn = "init" => init_cs' = "CLOSE"
           /\ context.resource_handle = FileHandle
           /\ Readable => context.data_buffer # NULL,
         Has("CODEC"), user_data' \in {user_data, user_data \cup {"TLS"}}, Has("TLS")',
         ~Has("IO"), logic_handler = "NONE",
         UNCHANGED <<logic_handler, write_state, to_write_buffer>>,
         tls_context' = NULL \/ IsSession(tls_context'), init_cs' = "CLOSE" => tls_context' # NULL
  PROVE  IInv'
<1>1. /\ Shape /\ Down /\ Files /\ Session /\ ~Connecting
  BY RunningFits DEF IInv
<1>2. /\ UNCHANGED <<socket, on_socket, connection_state, io_timeouts, dangling, file_system,
                     file_size,
                     open_files, file_fds, task_queue, push_cs>>
  BY TlsShares
<1>3. PICK h : h = Coroutine(fn)
  OBVIOUS
<1>4. h.fn = fn /\ h.layer = "RESOURCE" /\ IsHandle(h)
  BY <1>3, HandlerFields DEF Coroutine
<1>5. Kind(h) = "other" /\ ~Inner(h) /\ Formed(h)
  BY <1>4 DEF Kind, Inner, Formed
<1>6. Returns(<<>>, <<h>>) /\ rm' = [context EXCEPT !.callback = callback]
  BY <1>3 DEF Asks
<1>7. /\ rm' # NULL /\ rm'.callback = callback /\ rm'.resource_handle = context.resource_handle
      /\ rm'.resource_size = context.resource_size /\ rm'.data_offset = context.data_offset
      /\ rm'.data_buffer = context.data_buffer /\ IsContext(rm') /\ callback # NULL
  <2>1. rm' = [resource_handle |-> context.resource_handle, callback |-> callback,
               resource_size |-> context.resource_size, data_offset |-> context.data_offset,
               data_buffer |-> context.data_buffer]
    BY <1>6 DEF IsContext
  <2>2. callback # NULL
    BY DEF IsHandle, NullIsNoValue
  <2>. QED
    BY <2>1, <2>2 DEF IsContext, NullIsNoValue
<1>8. /\ Leaves(<<>>, <<h>>) /\ DOMAIN layer_state' = Layers
      /\ layer_state'["USER"] = layer_state["USER"]
  BY <1>1, <1>6, ReturnsOne, Neighbours
<1>9. /\ Shape' /\ Alone' /\ Paths' /\ phase' = phase /\ flight' \subseteq {h}
      /\ Len(inFlight') = 1 /\ ~Connecting'
  BY <1>1, <1>2, <1>5, <1>8, OneStep DEF Shape
<1>10. Down'
  BY <1>1, <1>2, <1>8, <1>9 DEF Down, Has
<1>11. Files'
  BY <1>1, <1>2, <1>7, <1>9 DEF Files, Readable, AssertionsAreKnown, Runs, IsHandle
<1>12. Session'
  <2>1. ~Busy'
    BY <1>1, <1>2 DEF Busy, Down
  <2>. QED
    BY <1>1, <1>2, <2>1 DEF Session, Has, IsSession, IsBuffer
<1>13. Fits(h)'
  <2>1. Formed(h)' /\ Lone(h)'
    BY <1>2, <1>5, <1>9 DEF Formed, IsHandle, Lone
  <2>2. Placed(h)'
    BY <1>4, <1>7 DEF Placed, Ends, Dials
  <2>3. Reading(h)'
    BY <1>2, <1>4, <1>7 DEF Reading, Requested, Readable
  <2>4. Driven(h)'
    BY <1>4, <1>5 DEF Driven, NeedsSession
  <2>. QED
    BY <2>1, <2>2, <2>3, <2>4 DEF Fits
<1>. QED
  BY <1>9, <1>10, <1>11, <1>12, <1>13 DEF IInv

\* iotc_tls_layer_close_externally closes the certificates first.
LEMMA TlsCloseFileKeeps ==
  ASSUME NullIsNoValue, IInv, TlsCloseFile, aroundTls
  PROVE  IInv'
<1>1. /\ Runs /\ Running.fn = "close_externally" /\ Running.layer = "TLS"
      /\ Has("TLS") /\ rm # NULL /\ MayUse(rm) /\ Asks(rm, "close_coroutine", Running)
      /\ tlsSharedUnchanged
      /\ UNCHANGED <<user_data, tls_context, init_cs, logic_handler, write_state, to_write_buffer>>
  BY RunsIt DEF TlsCloseFile, layerVars, Has
<1>2. /\ Alone /\ Down /\ Files /\ Session /\ Fits(Running) /\ others = {} /\ Len(inFlight) = 1
      /\ Running \in flight
  BY <1>1, RunningFits, RunningIsFirst DEF IInv
<1>3. connection_state = "OPENING" /\ Has("CODEC") /\ ~Has("IO") /\ logic_handler = "NONE"
  BY <1>1, <1>2 DEF Alone, Down
<1>4. file_fds = {}
  BY <1>1, <1>2, HandlerFields DEF Alone, Coroutine
<1>5. rm.resource_handle = FileHandle
  BY <1>1, <1>2 DEF MayUse, Files, INVALID_HANDLE, FileHandle
<1>6. Readable => rm.data_buffer # NULL
  BY <1>1, <1>2, <1>5 DEF Fits, Reading, Follows
<1>7. IsHandle(Running)
  BY <1>2 DEF Fits, Formed
<1>8. tls_context' = NULL \/ IsSession(tls_context')
  BY <1>1, <1>2 DEF Session, IsSession
<1>9. init_cs' = "CLOSE" => tls_context' # NULL
  BY <1>1, <1>2 DEF Session
<1>10. user_data' \in {user_data, user_data \cup {"TLS"}} /\ Has("TLS")'
  BY <1>1 DEF Has
<1>11. UNCHANGED <<logic_handler, write_state, to_write_buffer>>
  BY <1>1
<1>12. PICK fn : fn = "close_coroutine"
  OBVIOUS
<1>13. Asks(rm, fn, Running) /\ fn \in {"open_coroutine", "read_coroutine", "close_coroutine"}
  BY <1>1, <1>12
<1>14. /\ IsContext(rm) /\ rm.resource_handle \in {INVALID_HANDLE, FileHandle}
       /\ rm.resource_handle = INVALID_HANDLE => open_files = 0
       /\ rm.resource_handle = FileHandle => rm.resource_size = file_size
       /\ rm.data_offset \in Nat /\ (rm.data_offset > 0 => rm.data_buffer # NULL)
       /\ rm.data_buffer # NULL => rm.data_buffer \in Nat
  BY <1>1, <1>2 DEF Files
<1>. QED
  BY <1>1, <1>2, <1>3, <1>4, <1>5, <1>6, <1>7, <1>8, <1>9, <1>10, <1>11, <1>12, <1>13, <1>14,
     AsksKeeps

\* There is no memory for the layer's data, its context or its request.
LEMMA CannotInitKeeps ==
  ASSUME NullIsNoValue, IInv, IsRunning("init", "TLS"), init_cs = "START",
         aroundTls, tlsSharedUnchanged,
         NEW reason, reason # "OK", Returns(<<>>, <<Tls("connect", reason)>>),
         user_data' \in {user_data, user_data \cup {"TLS"}},
         \/ rm' = rm
         \/ rm' = NULL
         \/ Has("TLS")' /\ rm' = [NewContext EXCEPT !.callback = Running],
         UNCHANGED <<init_cs, tls_context, logic_handler, write_state, to_write_buffer>>
  PROVE  IInv'
<1>1. Runs /\ Running.fn = "init" /\ Running.layer = "TLS" /\ Running.layer \in Layers
  BY RunsIt, Neighbours
<1>2. /\ Shape /\ Alone /\ Down /\ Files /\ Session /\ Fits(Running) /\ ~Connecting
      /\ others = {} /\ Len(inFlight) = 1
  BY <1>1, RunningFits DEF IInv, Opening
<1>3. ~Has("TLS") /\ Has("CODEC") /\ Running.state = "OK" /\ connection_state = "OPENING"
  BY <1>1, <1>2 DEF Fits, Placed, Lone, Opening
<1>4. /\ ~Has("IO") /\ rm = NULL /\ tls_context = NULL /\ logic_handler = "NONE"
      /\ open_files = 0 /\ file_fds = {}
  BY <1>2, <1>3 DEF Down, Files, Alone
<1>5. /\ UNCHANGED <<socket, on_socket, connection_state, io_timeouts, dangling, file_system,
                     file_size, open_files, file_fds, task_queue, push_cs>>
  BY TlsShares
<1>6. rm' # NULL =>
        /\ Has("TLS")' /\ IsContext(rm') /\ rm'.resource_handle = INVALID_HANDLE
        /\ rm'.data_offset = 0 /\ rm'.data_buffer = NULL
        /\ IsHandle(rm'.callback) /\ rm'.callback.layer = "TLS"
        /\ rm'.callback.fn = "init" /\ rm'.callback.state = "OK"
  <2>1. IsHandle(Running)
    BY <1>2 DEF Fits, Formed
  <2>. QED
    BY <1>1, <1>3, <1>4, <2>1 DEF NewContext, IsContext
<1>7. PICK h : h = Tls("connect", reason)
  OBVIOUS
<1>8. h.fn = "connect" /\ h.layer = "TLS" /\ h.state = reason /\ IsHandle(h)
  BY <1>7, HandlerFields DEF Tls
<1>9. Kind(h) = "other" /\ ~Inner(h) /\ Formed(h) /\ ~Opening(h)
  BY <1>8 DEF Kind, Inner, Formed, Opening
<1>10. /\ Leaves(<<>>, <<h>>) /\ DOMAIN layer_state' = Layers
       /\ layer_state'["USER"] = layer_state["USER"]
  BY <1>1, <1>2, <1>7, ReturnsOne, Neighbours
<1>11. /\ Shape' /\ Alone' /\ Paths' /\ phase' = phase /\ flight' \subseteq {h}
       /\ Len(inFlight') = 1 /\ ~Connecting'
  BY <1>1, <1>2, <1>3, <1>4, <1>5, <1>9, <1>10, OneStep DEF Shape
<1>12. Down'
  BY <1>2, <1>3, <1>4, <1>5, <1>6, <1>10, <1>11 DEF Down, Has
<1>13. Files'
  <2>1. INVALID_HANDLE # FileHandle /\ 0 \in Nat /\ ~(0 > 0)
    BY DEF INVALID_HANDLE, FileHandle
  <2>. QED
    BY <1>1, <1>2, <1>4, <1>5, <1>6, <1>11, <2>1 DEF Files, AssertionsAreKnown, Runs
<1>14. Session'
  <2>1. ~Busy'
    BY <1>2, <1>4, <1>5 DEF Busy, Down
  <2>. QED
    BY <1>2, <1>3, <1>5, <2>1 DEF Session, Has, IsBuffer, IsSession
<1>15. Fits(h)'
  <2>1. Formed(h)' /\ Lone(h)'
    BY <1>9 DEF Formed, IsHandle, Lone
  <2>2. Placed(h)'
    BY <1>8, <1>9 DEF Placed, Ends, Dials, Opening
  <2>3. Reading(h)'
    <3>1. INVALID_HANDLE # FileHandle
      BY DEF INVALID_HANDLE, FileHandle
    <3>. QED
      BY <1>6, <1>8, <3>1 DEF Reading, Follows, Readable
  <2>4. Driven(h)'
    BY <1>8, <1>9 DEF Driven, NeedsSession
  <2>. QED
    BY <2>1, <2>2, <2>3, <2>4 DEF Fits
<1>. QED
  BY <1>11, <1>12, <1>13, <1>14, <1>15 DEF IInv

LEMMA OpensKeeps ==
  ASSUME NullIsNoValue, IInv, IsRunning("init", "TLS"), init_cs = "START",
         aroundTls, tlsSharedUnchanged, user_data' = user_data \cup {"TLS"},
         Asks(NewContext, "open_coroutine", Running), init_cs' = "OPEN",
         UNCHANGED <<tls_context, logic_handler, write_state, to_write_buffer>>
  PROVE  IInv'
<1>1. /\ Runs /\ Running.fn = "init" /\ Running.layer = "TLS" /\ init_cs = "START"
      /\ Asks(NewContext, "open_coroutine", Running)
      /\ tlsSharedUnchanged /\ user_data' = user_data \cup {"TLS"} /\ init_cs' = "OPEN"
      /\ UNCHANGED <<tls_context, logic_handler, write_state, to_write_buffer>>
  BY RunsIt
<1>2. /\ Alone /\ Down /\ Files /\ Session /\ Fits(Running) /\ others = {} /\ Len(inFlight) = 1
  BY <1>1, RunningFits DEF IInv, Opening
<1>3. ~Has("TLS") /\ Has("CODEC") /\ Running.state = "OK" /\ connection_state = "OPENING"
  BY <1>1, <1>2 DEF Fits, Placed, Lone, Opening
<1>4. /\ ~Has("IO") /\ rm = NULL /\ tls_context = NULL /\ logic_handler = "NONE"
      /\ open_files = 0 /\ file_fds = {}
  BY <1>2, <1>3 DEF Down, Files, Alone
<1>5. IsHandle(Running)
  BY <1>2 DEF Fits, Formed
<1>6. PICK context, fn : context = NewContext /\ fn = "open_coroutine"
  OBVIOUS
<1>7. /\ IsContext(context) /\ context.resource_handle = INVALID_HANDLE
      /\ context.data_offset = 0 /\ context.data_buffer = NULL
  BY <1>6 DEF NewContext, IsContext
<1>8. INVALID_HANDLE # FileHandle
  BY DEF INVALID_HANDLE, FileHandle
<1>9. Asks(context, fn, Running) /\ fn \in {"open_coroutine", "read_coroutine", "close_coroutine"}
  BY <1>1, <1>6
<1>10. user_data' \in {user_data, user_data \cup {"TLS"}} /\ Has("TLS")'
  BY <1>1 DEF Has
<1>11. context.data_offset \in Nat /\ ~(context.data_offset > 0)
  BY <1>7
<1>12. /\ tls_context' = NULL /\ init_cs' # "CLOSE"
       /\ UNCHANGED <<logic_handler, write_state, to_write_buffer>>
  BY <1>1, <1>4
<1>. QED
  BY <1>1, <1>2, <1>3, <1>4, <1>5, <1>6, <1>7, <1>8, <1>9, <1>10, <1>11, <1>12, AsksKeeps

LEMMA TlsInitKeeps ==
  ASSUME NullIsNoValue, IInv, TlsInit, aroundTls
  PROVE  IInv'
<1>1. /\ IsRunning("init", "TLS") /\ init_cs = "START" /\ tlsSharedUnchanged
      /\ UNCHANGED <<tls_context, logic_handler, write_state, to_write_buffer>>
  BY DEF TlsInit
<1>2. CASE /\ user_data' = user_data \cup {"TLS"}
           /\ Asks(NewContext, "open_coroutine", Running) /\ init_cs' = "OPEN"
  BY <1>1, <1>2, OpensKeeps
<1>3. ASSUME NEW reason, reason # "OK", Returns(<<>>, <<Tls("connect", reason)>>),
             UNCHANGED init_cs,
             \/ UNCHANGED <<user_data, rm>>
             \/ /\ user_data' = user_data \cup {"TLS"}
                /\ rm' \in {NULL, [NewContext EXCEPT !.callback = Running]}
      PROVE  IInv'
  BY <1>1, <1>3, CannotInitKeeps DEF Has
<1>4. CASE user_data' = user_data \cup {"TLS"} /\ CannotOpen
  <2>1. PICK reason : reason = "FAILED_LOADING_CERTIFICATE"
    OBVIOUS
  <2>2. reason # "OK" /\ Returns(<<>>, <<Tls("connect", reason)>>) /\ UNCHANGED init_cs
    BY <1>4, <2>1 DEF CannotOpen
  <2>3. rm' \in {NULL, [NewContext EXCEPT !.callback = Running]}
    BY <1>4 DEF CannotOpen
  <2>. QED
    BY <1>3, <1>4, <2>2, <2>3
<1>5. CASE /\ Returns(<<>>, <<Tls("connect", "OUT_OF_MEMORY")>>)
           /\ UNCHANGED <<user_data, rm, init_cs>>
  <2>1. PICK reason : reason = "OUT_OF_MEMORY"
    OBVIOUS
  <2>2. reason # "OK" /\ Returns(<<>>, <<Tls("connect", reason)>>)
    BY <1>5, <2>1
  <2>. QED
    BY <1>3, <1>5, <2>2
<1>. QED
  BY <1>2, <1>4, <1>5 DEF TlsInit

\* The layer's init is resumed: what it finds.
LEMMA ResumedInit ==
  ASSUME NullIsNoValue, IInv, NEW position, position # "START", ResumesInit(position)
  PROVE  /\ Runs /\ Running.fn = "init" /\ Running.layer = "TLS" /\ Running.layer \in Layers
         /\ init_cs = position
         /\ Shape /\ Alone /\ Paths /\ Down /\ Files /\ Session
         /\ others = {} /\ Len(inFlight) = 1 /\ connection_state = "OPENING" /\ ~Connecting
         /\ rm # NULL /\ Follows(Running) /\ IsHandle(Running)
         /\ Has("CODEC") /\ Has("TLS") /\ ~Has("IO") /\ logic_handler = "NONE" /\ file_fds = {}
<1>1. Runs /\ Running.fn = "init" /\ Running.layer = "TLS" /\ init_cs = position
  BY RunsIt DEF ResumesInit
<1>2. /\ Shape /\ Alone /\ Paths /\ Down /\ Files /\ Session /\ Fits(Running) /\ ~Connecting
      /\ others = {} /\ Len(inFlight) = 1 /\ Running \in flight
  BY <1>1, RunningFits, RunningIsFirst DEF IInv, Opening
<1>3. rm # NULL /\ Follows(Running) /\ connection_state = "OPENING" /\ IsHandle(Running)
  BY <1>1, <1>2 DEF Fits, Placed, Reading, Lone, Opening, Formed
<1>4. Has("CODEC") /\ Has("TLS") /\ ~Has("IO") /\ logic_handler = "NONE"
  BY <1>2, <1>3 DEF Down
<1>5. file_fds = {}
  BY <1>1, <1>2, HandlerFields DEF Alone, Coroutine
<1>. QED
  BY <1>1, <1>2, <1>3, <1>4, <1>5, Neighbours

\* The end of init after an error.
LEMMA InitFailsKeeps ==
  ASSUME NullIsNoValue, IInv, NEW position, position # "START", ResumesInit(position),
         NEW reason, reason # "OK", InitFails(reason), restOfInit, aroundTls,
         rm.resource_handle = FileHandle /\ Readable => rm.data_buffer # NULL
  PROVE  IInv'
<1>1. /\ Runs /\ Running.fn = "init" /\ Running.layer = "TLS" /\ Running.layer \in Layers
      /\ Shape /\ Alone /\ Paths /\ Down /\ Files /\ Session
      /\ others = {} /\ Len(inFlight) = 1 /\ connection_state = "OPENING" /\ ~Connecting
      /\ rm # NULL /\ Follows(Running)
      /\ Has("CODEC") /\ Has("TLS") /\ ~Has("IO") /\ logic_handler = "NONE" /\ file_fds = {}
  BY ResumedInit
<1>2. /\ UNCHANGED <<socket, on_socket, connection_state, io_timeouts, dangling, file_system,
                     file_size,
                     open_files, file_fds, task_queue, push_cs, user_data, write_state,
                     to_write_buffer, rm, logic_handler>>
      /\ tls_context' = NULL /\ init_cs' = "START"
  BY TlsShares DEF restOfInit, InitFails
<1>3. PICK h : h = Tls("connect", reason)
  OBVIOUS
<1>4. h.fn = "connect" /\ h.layer = "TLS" /\ h.state = reason /\ IsHandle(h)
  BY <1>3, HandlerFields DEF Tls
<1>5. Kind(h) = "other" /\ ~Inner(h) /\ Formed(h) /\ ~Opening(h)
  BY <1>4 DEF Kind, Inner, Formed, Opening
<1>6. /\ Leaves(<<>>, <<h>>) /\ DOMAIN layer_state' = Layers
      /\ layer_state'["USER"] = layer_state["USER"]
  BY <1>1, <1>3, ReturnsOne, Neighbours DEF InitFails
<1>7. /\ Shape' /\ Alone' /\ Paths' /\ phase' = phase /\ flight' \subseteq {h}
      /\ Len(inFlight') = 1 /\ ~Connecting'
  BY <1>1, <1>2, <1>5, <1>6, OneStep DEF Shape
<1>8. Down'
  BY <1>1, <1>2, <1>6, <1>7 DEF Down, Has
<1>9. Files'
  BY <1>1, <1>2, <1>7 DEF Files, Readable, AssertionsAreKnown, Runs, IsContext, IsHandle
<1>10. Session'
  <2>1. ~Busy'
    BY <1>1, <1>2 DEF Busy, Down
  <2>. QED
    BY <1>1, <1>2, <2>1 DEF Session, Has, IsBuffer
<1>11. Fits(h)'
  <2>1. Formed(h)' /\ Lone(h)'
    BY <1>5 DEF Formed, IsHandle, Lone
  <2>2. Placed(h)'
    BY <1>4, <1>5 DEF Placed, Ends, Dials, Opening
  <2>3. Reading(h)'
    BY <1>1, <1>2, <1>4 DEF Reading, Follows, Readable
  <2>4. Driven(h)'
    BY <1>4, <1>5 DEF Driven, NeedsSession
  <2>. QED
    BY <2>1, <2>2, <2>3, <2>4 DEF Fits
<1>. QED
  BY <1>7, <1>8, <1>9, <1>10, <1>11 DEF IInv

\* A request of the init that is resumed, which is called back with the state "OK".
LEMMA ResumedAsksKeeps ==
  ASSUME NullIsNoValue, IInv, NEW position, position # "START", ResumesInit(position), NEW fn,
         Asks(rm, fn, [Running EXCEPT !.state = "OK"]), restOfInit, aroundTls,
         fn \in {"read_coroutine", "close_coroutine"}, rm.resource_handle = FileHandle,
         fn = "read_coroutine" => init_cs' = "READ" /\ open_files = 1,
         fn = "close_coroutine" => init_cs' = "CLOSE" /\ (Readable => rm.data_buffer # NULL),
         UNCHANGED logic_handler, tls_context' = NULL \/ IsSession(tls_context'),
         init_cs' = "CLOSE" => tls_context' # NULL
  PROVE  IInv'
<1>1. /\ Runs /\ Running.fn = "init" /\ Running.layer = "TLS" /\ Files
      /\ others = {} /\ Len(inFlight) = 1 /\ connection_state = "OPENING"
      /\ rm # NULL /\ IsHandle(Running)
      /\ Has("CODEC") /\ Has("TLS") /\ ~Has("IO") /\ logic_handler = "NONE" /\ file_fds = {}
  BY ResumedInit
<1>2. tlsSharedUnchanged /\ UNCHANGED <<user_data, write_state, to_write_buffer, logic_handler>>
  BY DEF restOfInit
<1>3. PICK callback : callback = [Running EXCEPT !.state = "OK"]
  OBVIOUS
<1>4. callback = Handle("init", "TLS", Running.data, "OK")
  BY <1>1, <1>3 DEF IsHandle, Handle
<1>5. IsHandle(callback) /\ callback.layer = "TLS" /\ callback.fn = "init" /\ callback.state = "OK"
  BY <1>4, HandlerFields
<1>6. Asks(rm, fn, callback)
  BY <1>3
<1>7. user_data' \in {user_data, user_data \cup {"TLS"}} /\ Has("TLS")'
  BY <1>1, <1>2 DEF Has
<1>8. /\ IsContext(rm) /\ rm.resource_handle \in {INVALID_HANDLE, FileHandle}
      /\ rm.resource_handle = INVALID_HANDLE => open_files = 0
      /\ rm.resource_handle = FileHandle => rm.resource_size = file_size
      /\ rm.data_offset \in Nat /\ (rm.data_offset > 0 => rm.data_buffer # NULL)
      /\ rm.data_buffer # NULL => rm.data_buffer \in Nat
  BY <1>1 DEF Files
<1>. QED
  BY <1>1, <1>2, <1>5, <1>6, <1>7, <1>8, AsksKeeps

LEMMA TlsInitOpenedKeeps ==
  ASSUME NullIsNoValue, IInv, TlsInitOpened, aroundTls
  PROVE  IInv'
<1>1. PICK position : position = "OPEN"
  OBVIOUS
<1>2. ResumesInit(position) /\ position # "START" /\ restOfInit
  BY <1>1 DEF TlsInitOpened
<1>3. /\ Running.fn = "init" /\ init_cs = "OPEN" /\ rm # NULL /\ Follows(Running) /\ Session
      /\ Running.state = "OK" => rm.resource_handle = FileHandle /\ open_files = 1 /\ MayUse(rm)
      /\ Running.state # "OK" => rm.resource_handle = INVALID_HANDLE
  <2>1. Running.fn = "init" /\ init_cs = "OPEN" /\ rm # NULL /\ Follows(Running) /\ Session
    BY <1>1, <1>2, ResumedInit
  <2>2. rm.callback = NULL
    BY <2>1 DEF Follows
  <2>. QED
    BY <2>1, <2>2 DEF Follows, MayUse, FileHandle
<1>4. CASE Running.state # "OK"
  <2>1. PICK reason : InitFails(reason) /\ reason # "OK"
    BY <1>4 DEF TlsInitOpened
  <2>2. ~(rm.resource_handle = FileHandle)
    BY <1>3, <1>4 DEF FileHandle, INVALID_HANDLE
  <2>. QED
    BY <1>2, <2>1, <2>2, InitFailsKeeps
<1>5. CASE Running.state = "OK"
  <2>1. /\ Asks(rm, "read_coroutine", [Running EXCEPT !.state = "OK"])
        /\ init_cs' = "READ" /\ UNCHANGED <<tls_context, logic_handler>>
    BY <1>3, <1>5 DEF TlsInitOpened
  <2>2. tls_context' = NULL \/ IsSession(tls_context')
    BY <1>3, <2>1 DEF Session, IsSession
  <2>3. PICK fn : fn = "read_coroutine"
    OBVIOUS
  <2>4. Asks(rm, fn, [Running EXCEPT !.state = "OK"])
    BY <2>1, <2>3
  <2>. QED
    BY <1>2, <1>3, <1>5, <2>1, <2>2, <2>3, <2>4, ResumedAsksKeeps
<1>. QED
  BY <1>4, <1>5

LEMMA TlsInitReadKeeps ==
  ASSUME NullIsNoValue, IInv, TlsInitRead, aroundTls
  PROVE  IInv'
<1>1. PICK position : position = "READ"
  OBVIOUS
<1>2. ResumesInit(position) /\ position # "START" /\ restOfInit
  BY <1>1 DEF TlsInitRead
<1>3. /\ Running.fn = "init" /\ init_cs = "READ" /\ rm # NULL
      /\ rm.resource_handle = FileHandle /\ (Readable => rm.data_buffer # NULL)
  BY <1>1, <1>2, ResumedInit DEF Follows
<1>4. ASSUME NEW reason, reason # "OK", InitFails(reason) PROVE IInv'
  BY <1>2, <1>3, <1>4, InitFailsKeeps
<1>5. ASSUME NEW handshake, Asks(rm, "close_coroutine", [Running EXCEPT !.state = "OK"]),
             init_cs' = "CLOSE", tls_context' = NewSession(handshake), UNCHANGED logic_handler
      PROVE  IInv'
  <2>1. IsSession(tls_context') /\ tls_context' # NULL
    BY <1>5 DEF NewSession, IsSession, NullIsNoValue
  <2>2. PICK fn : fn = "close_coroutine"
    OBVIOUS
  <2>3. Asks(rm, fn, [Running EXCEPT !.state = "OK"])
    BY <1>5, <2>2
  <2>. QED
    BY <1>2, <1>3, <1>5, <2>1, <2>2, <2>3, ResumedAsksKeeps
<1>6. CASE Running.state # "OK"
  <2>1. PICK reason : InitFails(reason) /\ reason # "OK"
    BY <1>6 DEF TlsInitRead
  <2>. QED
    BY <1>4, <2>1
<1>7. CASE Running.state = "OK"
  <2>1. \/ \E handshake : /\ Asks(rm, "close_coroutine", [Running EXCEPT !.state = "OK"])
                          /\ init_cs' = "CLOSE" /\ tls_context' = NewSession(handshake)
                          /\ UNCHANGED logic_handler
        \/ \E reason : reason # "OK" /\ InitFails(reason)
    BY <1>7 DEF TlsInitRead
  <2>. QED
    BY <1>4, <1>5, <2>1
<1>. QED
  BY <1>6, <1>7

\* The session is there and the certificates are closed: the network layer is asked
\* for.
LEMMA TlsInitClosedKeeps ==
  ASSUME NullIsNoValue, IInv, TlsInitClosed, aroundTls
  PROVE  IInv'
<1>1. PICK position : position = "CLOSE"
  OBVIOUS
<1>2. ResumesInit(position) /\ position # "START" /\ restOfInit
  BY <1>1 DEF TlsInitClosed
<1>3. /\ Runs /\ Running.fn = "init" /\ Running.layer = "TLS" /\ Running.layer \in Layers
      /\ init_cs = "CLOSE"
      /\ Shape /\ Alone /\ Paths /\ Down /\ Files /\ Session
      /\ others = {} /\ Len(inFlight) = 1 /\ connection_state = "OPENING" /\ ~Connecting
      /\ rm # NULL /\ Follows(Running)
      /\ Has("CODEC") /\ Has("TLS") /\ ~Has("IO") /\ logic_handler = "NONE" /\ file_fds = {}
  BY <1>1, <1>2, ResumedInit
<1>4. CASE Running.state # "OK"
  <2>1. PICK reason : InitFails(reason) /\ reason # "OK"
    BY <1>4 DEF TlsInitClosed
  <2>2. rm.resource_handle = FileHandle /\ Readable => rm.data_buffer # NULL
    BY <1>3 DEF Follows
  <2>. QED
    BY <1>2, <2>1, <2>2, InitFailsKeeps
<1>5. CASE Running.state = "OK"
  <2>1. PICK h : h = OnPrev("TLS", "init", NULL, "OK")
    OBVIOUS
  <2>2. h.fn = "init" /\ h.layer = "IO" /\ h.state = "OK" /\ IsHandle(h)
    BY <2>1, HandlerFields, Neighbours DEF OnPrev
  <2>3. Kind(h) = "other" /\ ~Inner(h) /\ Formed(h)
    BY <2>2 DEF Kind, Inner, Formed
  <2>4. /\ Returns(<<>>, <<h>>) /\ rm' = NULL /\ logic_handler' = "CONNECT"
        /\ UNCHANGED <<socket, on_socket, connection_state, io_timeouts, dangling, file_system,
                       file_size, open_files, file_fds, task_queue, push_cs, user_data, write_state,
                       to_write_buffer, tls_context, init_cs>>
    BY <1>2, <1>5, <2>1, TlsShares DEF TlsInitClosed, restOfInit
  <2>5. /\ Leaves(<<>>, <<h>>) /\ DOMAIN layer_state' = Layers
        /\ layer_state'["USER"] = layer_state["USER"] /\ layer_state'["TLS"] = "CONNECTING"
    <3>1. StateAfter(layer_state["TLS"], h) = "CONNECTING"
      BY <2>2 DEF StateAfter
    <3>. QED
      BY <1>3, <2>4, <3>1, ReturnsOne, Neighbours
  <2>6. /\ Shape' /\ Alone' /\ Paths' /\ phase' = phase /\ flight' \subseteq {h}
        /\ Len(inFlight') = 1 /\ ~Connecting'
    BY <1>3, <2>3, <2>4, <2>5, OneStep DEF Shape
  <2>7. open_files = 0 /\ rm.resource_handle = INVALID_HANDLE
    BY <1>3, <1>5 DEF Follows, Files
  <2>8. Down'
    BY <1>3, <2>4, <2>5, <2>6 DEF Down, Has
  <2>9. Files'
    BY <1>3, <2>4, <2>6, <2>7 DEF Files, Readable, AssertionsAreKnown, Runs
  <2>10. Session'
    <3>1. ~Busy'
      BY <1>3, <2>4 DEF Busy, Down
    <3>. QED
      BY <1>3, <2>4, <3>1 DEF Session, Has, IsBuffer, IsSession
  <2>11. Fits(h)'
    <3>1. Formed(h)' /\ Lone(h)' /\ Reading(h)'
      BY <1>3, <2>3, <2>4, <2>6 DEF Formed, IsHandle, Lone, Reading
    <3>2. CanServe("TLS")' /\ ~Has("IO")' /\ Has("TLS")'
      BY <1>3, <2>4, <2>5 DEF CanServe, NotOperational, Has
    <3>3. Placed(h)'
      BY <2>2, <2>4, <3>2 DEF Placed, Ends
    <3>4. Driven(h)'
      BY <2>2, <2>3 DEF Driven, NeedsSession
    <3>. QED
      BY <3>1, <3>3, <3>4 DEF Fits
  <2>. QED
    BY <2>6, <2>8, <2>9, <2>10, <2>11 DEF IInv
<1>. QED
  BY <1>4, <1>5

LEMMA TlsKeeps ==
  ASSUME NullIsNoValue, IInv, TlsNext, UNCHANGED <<netVars, codecVars, userVars>>
  PROVE  IInv'
<1>1. aroundTls
  BY DEF aroundTls
<1>. QED
  BY <1>1, TlsInitKeeps, TlsInitOpenedKeeps, TlsInitReadKeeps, TlsInitClosedKeeps,
     ConnectWritesKeeps, ConnectReadsKeeps, ConnectDoneKeeps, ConnectAgainKeeps, SendWritesKeeps,
     SendWrittenKeeps, SendFailsKeeps, RecvKeeps, TlsPushKeeps, TlsPushWrittenKeeps, TlsPassesOn,
     TlsCloseFileKeeps, TlsCloseExternallyKeeps
     DEF TlsNext

-----------------------------------------------------------------------------
(* The coroutines of the resource manager.                                 *)

\* What is not the resource manager's.
aroundResource == UNCHANGED <<netVars, codecVars, tls_library, tls_context, layerVars, userVars>>

\* What a coroutine finds.
LEMMA CoroutineFinds ==
  ASSUME IInv, NEW fn, IsRunning(fn, "RESOURCE")
  PROVE  /\ Runs /\ Running.fn = fn /\ Running.layer = "RESOURCE" /\ Running \in flight
         /\ Shape /\ Alone /\ Paths /\ Down /\ Files /\ Session
         /\ others = {} /\ Len(inFlight) = 1 /\ connection_state = "OPENING" /\ ~Connecting
         /\ rm # NULL /\ Requested(Running) /\ Fits(Running)
         /\ Has("CODEC") /\ Has("TLS") /\ ~Has("IO") /\ logic_handler = "NONE"
         /\ fn # "read_coroutine" => file_fds = {}
<1>1. Runs /\ Running.fn = fn /\ Running.layer = "RESOURCE"
  BY RunsIt
<1>2. /\ Shape /\ Alone /\ Paths /\ Down /\ Files /\ Session /\ Fits(Running) /\ ~Connecting
      /\ others = {} /\ Len(inFlight) = 1 /\ Running \in flight
  BY <1>1, RunningFits, RunningIsFirst DEF IInv, Opening
<1>3. rm # NULL /\ Requested(Running) /\ connection_state = "OPENING"
  BY <1>1, <1>2 DEF Fits, Placed, Reading, Lone, Opening
<1>4. Has("CODEC") /\ Has("TLS") /\ ~Has("IO") /\ logic_handler = "NONE"
  BY <1>2, <1>3 DEF Down
<1>5. fn # "read_coroutine" => file_fds = {}
  BY <1>1, <1>2, HandlerFields DEF Alone, Coroutine
<1>. QED
  BY <1>1, <1>2, <1>3, <1>4, <1>5

LEMMA ResourceShares ==
  ASSUME aroundResource, coroutineUnchanged
  PROVE  UNCHANGED <<layer_state, user_data, connection_state, io_timeouts, dangling, file_system,
                     file_size, socket, on_socket, task_queue, push_cs, tls_context, init_cs,
                     logic_handler, write_state, to_write_buffer>>
BY DEF aroundResource, coroutineUnchanged, netVars, codecVars, layerVars

\* A coroutine ends, in the context it leaves: the handler that asked is resumed.
LEMMA EndsKeeps ==
  ASSUME NullIsNoValue, IInv, NEW fn, IsRunning(fn, "RESOURCE"), aroundResource, coroutineUnchanged,
         file_fds' = {}, open_files' \in {0, 1},
         IsContext(rm'), rm'.callback = NULL, rm'.resource_handle \in {INVALID_HANDLE, FileHandle},
         rm'.resource_handle = INVALID_HANDLE => open_files' = 0,
         rm'.resource_handle = FileHandle => rm'.resource_size = file_size,
         rm'.data_offset \in Nat, rm'.data_offset > 0 => rm'.data_buffer # NULL,
         rm'.data_buffer # NULL => rm'.data_buffer \in Nat,
         NEW h, IsHandle(h), h.layer = "TLS", h.fn \in {"init", "close_externally"},
         Leaves(<<>>, <<h>>) \/ Leaves(<<h>>, <<>>), Follows(h)'
  PROVE  IInv'
<1>1. /\ Runs /\ Shape /\ Down /\ Files /\ Session
      /\ others = {} /\ Len(inFlight) = 1 /\ connection_state = "OPENING" /\ ~Connecting
      /\ rm # NULL /\ Has("CODEC") /\ Has("TLS") /\ ~Has("IO") /\ logic_handler = "NONE"
  BY CoroutineFinds
<1>2. /\ UNCHANGED <<layer_state, user_data, connection_state, io_timeouts, dangling, file_system,
                     file_size, socket, on_socket, task_queue, push_cs, tls_context, init_cs,
                     logic_handler, write_state, to_write_buffer>>
  BY ResourceShares
<1>3. rm' # NULL
  BY DEF IsContext, NullIsNoValue
<1>4. Kind(h) = "other" /\ ~Inner(h) /\ Formed(h)
  BY DEF Kind, Inner, Formed
<1>5. /\ Shape' /\ Alone' /\ Paths' /\ phase' = phase /\ flight' \subseteq {h}
      /\ Len(inFlight') = 1 /\ ~Connecting'
  BY <1>1, <1>2, <1>4, OneStep DEF Shape
<1>6. Down'
  BY <1>1, <1>2, <1>5 DEF Down, Has
<1>7. Files'
  BY <1>1, <1>2, <1>3, <1>5 DEF Files, Readable, AssertionsAreKnown, Runs
<1>8. Session'
  <2>1. ~Busy'
    BY <1>1, <1>2 DEF Busy, Down
  <2>. QED
    BY <1>1, <1>2, <2>1 DEF Session, Has, IsBuffer, IsSession
<1>9. Fits(h)'
  <2>1. Formed(h)' /\ Lone(h)' /\ Reading(h)'
    BY <1>2, <1>4, <1>5, <1>1 DEF Formed, IsHandle, Lone, Reading
  <2>2. ~Has("IO")' /\ (h.fn = "init" => init_cs' # "START")
    BY <1>1, <1>2 DEF Has, Follows
  <2>3. Placed(h)'
    BY <1>3, <2>2 DEF Placed, Ends, Dials
  <2>4. Driven(h)'
    BY <1>4 DEF Driven, NeedsSession
  <2>. QED
    BY <2>1, <2>3, <2>4 DEF Fits
<1>. QED
  BY <1>5, <1>6, <1>7, <1>8, <1>9 DEF IInv

\* The callback that the request was made with.
LEMMA CallbackIs ==
  ASSUME Files, rm # NULL, rm.callback # NULL, NEW state, NEW h, h = WithState(rm.callback, state)
  PROVE  /\ IsHandle(h) /\ h.layer = "TLS" /\ h.fn = rm.callback.fn
         /\ h.fn \in {"init", "close_externally"}
         /\ h.fn = "init" => h.state = state
<1>1. /\ IsHandle(rm.callback) /\ rm.callback.layer = "TLS"
      /\ \/ rm.callback.fn = "init" /\ rm.callback.state = "OK"
         \/ rm.callback.fn = "close_externally"
  BY DEF Files
<1>2. PICK s : /\ h = Handle(rm.callback.fn, "TLS", rm.callback.data, s)
               /\ rm.callback.state = "OK" => s = state
  BY <1>1 DEF WithState, IsHandle, Handle
<1>. QED
  BY <1>1, <1>2, HandlerFields

\* A context without its callback.
LEMMA ContextIs ==
  ASSUME NEW c, IsContext(c), NEW d, d = [c EXCEPT !.callback = NULL]
  PROVE  /\ IsContext(d) /\ d.callback = NULL /\ d.resource_handle = c.resource_handle
         /\ d.resource_size = c.resource_size /\ d.data_offset = c.data_offset
         /\ d.data_buffer = c.data_buffer
<1>1. d = [resource_handle |-> c.resource_handle, callback |-> NULL,
           resource_size |-> c.resource_size, data_offset |-> c.data_offset,
           data_buffer |-> c.data_buffer]
  BY DEF IsContext
<1>. QED
  BY <1>1 DEF IsContext

LEMMA OpenKeeps ==
  ASSUME NullIsNoValue, IInv, OpenCoroutine, aroundResource
  PROVE  IInv'
<1>1. PICK fn : fn = "open_coroutine"
  OBVIOUS
<1>2. IsRunning(fn, "RESOURCE") /\ coroutineUnchanged /\ file_fds' = file_fds
  BY <1>1 DEF OpenCoroutine
<1>3. /\ Runs /\ Running.fn = "open_coroutine" /\ Files /\ rm # NULL /\ Requested(Running)
      /\ file_fds = {} /\ IsContext(rm)
  BY <1>1, <1>2, CoroutineFinds DEF Files
<1>4. /\ rm.callback # NULL /\ rm.callback.fn = "init" /\ init_cs = "OPEN"
      /\ rm.resource_handle = INVALID_HANDLE /\ open_files = 0
  BY <1>3 DEF Requested, Files
<1>5. init_cs' = "OPEN" /\ file_size' = file_size
  BY <1>2, <1>4, ResourceShares
<1>6. INVALID_HANDLE # FileHandle
  BY DEF INVALID_HANDLE, FileHandle
<1>7. ASSUME NEW error, error # "OK", EndsBadly(rm, error), UNCHANGED open_files
      PROVE  IInv'
  <2>1. PICK h : h = WithState(rm.callback, error)
    OBVIOUS
  <2>2. /\ IsHandle(h) /\ h.layer = "TLS" /\ h.fn = "init" /\ h.state = error
    BY <1>3, <1>4, <2>1, CallbackIs
  <2>3. Leaves(<<h>>, <<>>)
    BY <1>7, <2>1 DEF EndsBadly
  <2>4. /\ IsContext(rm') /\ rm'.callback = NULL /\ rm'.resource_handle = rm.resource_handle
        /\ rm'.resource_size = rm.resource_size /\ rm'.data_offset = rm.data_offset
        /\ rm'.data_buffer = rm.data_buffer
    BY <1>3, <1>7, ContextIs DEF EndsBadly
  <2>5. Follows(h)'
    BY <1>4, <1>5, <1>7, <2>2, <2>4 DEF Follows
  <2>6. /\ open_files' = 0 /\ rm'.data_offset \in Nat
        /\ rm'.data_offset > 0 => rm'.data_buffer # NULL
        /\ rm'.data_buffer # NULL => rm'.data_buffer \in Nat
    BY <1>3, <1>4, <1>7, <2>4 DEF Files
  <2>. QED
    BY <1>2, <1>3, <1>4, <1>6, <2>2, <2>3, <2>4, <2>5, <2>6, EndsKeeps
<1>8. ASSUME EndsWell([rm EXCEPT !.resource_size = file_size, !.resource_handle = FileHandle]),
             open_files' = open_files + 1
      PROVE  IInv'
  <2>1. PICK h : h = WithState(rm.callback, "OK")
    OBVIOUS
  <2>2. /\ IsHandle(h) /\ h.layer = "TLS" /\ h.fn = "init" /\ h.state = "OK"
    BY <1>3, <1>4, <2>1, CallbackIs
  <2>3. PICK c : c = [rm EXCEPT !.resource_size = file_size, !.resource_handle = FileHandle]
    OBVIOUS
  <2>4. Leaves(<<>>, <<h>>) /\ rm' = [c EXCEPT !.callback = NULL]
    BY <1>8, <2>1, <2>3 DEF EndsWell
  <2>5. c = [resource_handle |-> FileHandle, callback |-> rm.callback,
             resource_size |-> file_size, data_offset |-> rm.data_offset,
             data_buffer |-> rm.data_buffer]
    BY <1>3, <2>3 DEF IsContext
  <2>6. /\ IsContext(c) /\ c.resource_handle = FileHandle /\ c.resource_size = file_size
        /\ c.data_offset = rm.data_offset /\ c.data_buffer = rm.data_buffer
    BY <2>5 DEF IsContext
  <2>7. /\ IsContext(rm') /\ rm'.callback = NULL /\ rm'.resource_handle = FileHandle
        /\ rm'.resource_size = file_size /\ rm'.data_offset = rm.data_offset
        /\ rm'.data_buffer = rm.data_buffer
    BY <2>4, <2>6, ContextIs
  <2>8. open_files' = 1
    BY <1>4, <1>8
  <2>9. Follows(h)'
    BY <1>5, <2>2, <2>7, <2>8 DEF Follows
  <2>10. /\ rm'.data_offset \in Nat /\ (rm'.data_offset > 0 => rm'.data_buffer # NULL)
         /\ rm'.data_buffer # NULL => rm'.data_buffer \in Nat
    BY <1>3, <2>7 DEF Files
  <2>. QED
    BY <1>2, <1>3, <1>6, <2>2, <2>4, <2>7, <2>8, <2>9, <2>10, EndsKeeps
<1>. QED
  BY <1>7, <1>8 DEF OpenCoroutine

\* What a read returns: nothing is read unless it succeeds.
LEMMA ReadIs ==
  ASSUME NEW offset \in Nat, file_size \in Nat, NEW read \in ReadResults(offset)
  PROVE  /\ read.size \in Nat
         /\ read.state # "OK" => read.size = 0
         /\ read.state # "OK" /\ open_files = 1 => file_system # "memory"
<1>1. CASE file_system = "memory"
  <2>1. read \in MemoryReads(offset)
    BY <1>1 DEF ReadResults
  <2>2. CASE IsOpen
    <3>1. read.state = "OK" /\ read.size = IF offset < file_size THEN file_size - offset ELSE 0
      BY <2>1, <2>2 DEF MemoryReads
    <3>. QED
      BY <3>1
  <2>3. CASE ~IsOpen
    BY <2>1, <2>3 DEF MemoryReads, IsOpen
  <2>. QED
    BY <2>2, <2>3
<1>2. CASE file_system # "memory"
  <2>1. read \in PosixReads(offset)
    BY <1>2 DEF ReadResults
  <2>2. read.size = 0 \/ (read.size = 1 /\ read.state = "OK")
    BY <2>1 DEF PosixReads
  <2>. QED
    BY <1>2, <2>2
<1>. QED
  BY <1>1, <1>2

LEMMA ReadKeeps ==
  ASSUME NullIsNoValue, IInv, ReadCoroutine, aroundResource
  PROVE  IInv'
<1>1. PICK fn : fn = "read_coroutine"
  OBVIOUS
<1>2. IsRunning(fn, "RESOURCE") /\ coroutineUnchanged /\ open_files' = open_files
  BY <1>1 DEF ReadCoroutine
<1>3. /\ Runs /\ Running.fn = "read_coroutine" /\ rm # NULL /\ Requested(Running) /\ IsContext(rm)
      /\ Shape /\ Alone /\ Paths /\ Down /\ Files /\ Session
      /\ others = {} /\ Len(inFlight) = 1 /\ connection_state = "OPENING" /\ ~Connecting
      /\ Has("CODEC") /\ Has("TLS") /\ ~Has("IO") /\ logic_handler = "NONE"
  BY <1>1, <1>2, CoroutineFinds DEF Files
<1>4. /\ rm.callback # NULL /\ rm.callback.fn = "init" /\ init_cs = "READ"
      /\ rm.resource_handle = FileHandle /\ open_files = 1 /\ rm.resource_size = file_size
      /\ file_size \in Nat /\ rm.data_offset \in Nat
      /\ rm.data_offset > 0 => rm.data_buffer # NULL
      /\ rm.data_buffer # NULL => rm.data_buffer \in Nat
  BY <1>3 DEF Requested, Files
<1>5. PICK read, offset, state, context :
        /\ read \in ReadResults(ReadOffset)
        /\ offset = ReadOffset + read.size
        /\ state = ReadState(read.state, offset)
        /\ context = [rm EXCEPT !.data_offset = offset, !.data_buffer = BufferAfter(read)]
        /\ \/ state = "WANT_READ" /\ Leaves(<<>>, <<>>) /\ rm' = context
           \/ state = "OK" /\ EndsWell(context)
           \/ state \notin {"OK", "WANT_READ"} /\ EndsBadly(context, state)
        /\ file_fds' = FdsAfter(state)
  BY DEF ReadCoroutine
<1>6. ReadOffset \in Nat /\ (ReadOffset > 0 => rm.data_buffer # NULL)
  BY <1>4 DEF ReadOffset
<1>7. /\ read.size \in Nat /\ offset \in Nat
      /\ read.state # "OK" => read.size = 0 /\ offset = ReadOffset
      /\ read.state # "OK" => file_system # "memory"
  <2>1. /\ read.size \in Nat /\ (read.state # "OK" => read.size = 0)
        /\ read.state # "OK" => file_system # "memory"
    BY <1>4, <1>5, <1>6, ReadIs
  <2>. QED
    BY <1>5, <1>6, <2>1
<1>8. PICK buffer : /\ buffer = BufferAfter(read)
                    /\ buffer # NULL => buffer \in Nat
                    /\ read.state = "OK" => buffer # NULL
                    /\ offset > 0 => buffer # NULL
  <2>1. CASE read.state # "OK"
    <3>1. BufferAfter(read) = rm.data_buffer
      BY <2>1 DEF BufferAfter
    <3>. QED
      BY <1>4, <1>6, <1>7, <2>1, <3>1
  <2>2. CASE read.state = "OK"
    <3>1. BufferAfter(read) \in Nat
      BY <1>4, <1>7, <2>2 DEF BufferAfter
    <3>. QED
      BY <3>1, <2>2 DEF NullIsNoValue
  <2>. QED
    BY <2>1, <2>2
<1>9. context = [resource_handle |-> FileHandle, callback |-> rm.callback,
                 resource_size |-> file_size, data_offset |-> offset, data_buffer |-> buffer]
  <2>1. context = [rm EXCEPT !.data_offset = offset, !.data_buffer = buffer]
    BY <1>5, <1>8
  <2>. QED
    BY <1>3, <1>4, <2>1 DEF IsContext
<1>10. /\ IsContext(context) /\ context.callback = rm.callback
       /\ context.resource_handle = FileHandle
       /\ context.resource_size = file_size /\ context.data_offset = offset
       /\ context.data_buffer = buffer /\ context # NULL
  BY <1>9 DEF IsContext, NullIsNoValue
<1>11. /\ UNCHANGED <<layer_state, user_data, connection_state, io_timeouts, dangling, file_system,
                      file_size, socket, on_socket, task_queue, push_cs, tls_context, init_cs,
                      logic_handler, write_state, to_write_buffer>>
  BY <1>2, ResourceShares
<1>12. FileHandle # INVALID_HANDLE
  BY DEF FileHandle, INVALID_HANDLE
<1>13. CASE state = "WANT_READ" /\ Leaves(<<>>, <<>>) /\ rm' = context
  <2>1. file_fds' = {Coroutine("read_coroutine")}
    BY <1>5, <1>13 DEF FdsAfter
  <2>2. /\ Lines' /\ phase' = phase /\ Paths' /\ flight' = {} /\ Len(inFlight') = Len(inFlight) - 1
    BY <1>3, <1>13, FlowNone
  <2>3. Len(inFlight') <= 1
    BY <1>3, <2>2, 1 - 1 = 0, 0 <= 1
  <2>4. phase # "select" /\ ~Connecting' /\ ~Busy'
    BY <1>3, <1>11, RunningFits DEF Connecting, Busy, Down
  <2>5. Shape'
    BY <1>3, <1>11, <2>2, <2>4 DEF Shape, IsHandle
  <2>6. Alone'
    BY <1>3, <1>10, <1>11, <1>13, <2>1, <2>2, <2>3, <2>4 DEF Alone
  <2>7. Down'
    BY <1>3, <1>11, <2>4 DEF Down, Has
  <2>8. Files'
    BY <1>2, <1>3, <1>4, <1>7, <1>8, <1>10, <1>11, <1>12, <1>13, <2>2
       DEF Files, Readable, AssertionsAreKnown, Runs, IsContext, IsHandle
  <2>9. Session'
    BY <1>3, <1>11, <2>4 DEF Session, Has, IsBuffer, IsSession
  <2>. QED
    BY <2>2, <2>5, <2>6, <2>7, <2>8, <2>9 DEF IInv
<1>14. ASSUME state # "WANT_READ", rm' = [context EXCEPT !.callback = NULL], NEW h,
              h = WithState(rm.callback, state), Leaves(<<>>, <<h>>) \/ Leaves(<<h>>, <<>>)
       PROVE  IInv'
  <2>1. /\ IsHandle(h) /\ h.layer = "TLS" /\ h.fn = "init" /\ h.state = state
    BY <1>3, <1>4, <1>14, CallbackIs
  <2>2. /\ IsContext(rm') /\ rm'.callback = NULL /\ rm'.resource_handle = FileHandle
        /\ rm'.resource_size = file_size /\ rm'.data_offset = offset
        /\ rm'.data_buffer = buffer
    BY <1>10, <1>14, ContextIs
  <2>3. Readable => buffer # NULL
    <3>1. state = read.state /\ ~(offset < file_size)
      BY <1>4, <1>5, <1>14 DEF ReadState
    <3>2. CASE read.state = "OK"
      BY <1>8, <3>2
    <3>3. CASE read.state # "OK"
      <4>1. Readable => file_size > 0
        BY <1>7, <3>3 DEF Readable
      <4>2. file_size > 0 => offset > 0
        BY <1>4, <1>7, <3>1
      <4>. QED
        BY <1>8, <4>1, <4>2
    <3>. QED
      BY <3>2, <3>3
  <2>4. Follows(h)'
    <3>1. Readable' = Readable
      BY <1>11 DEF Readable
    <3>. QED
      BY <1>4, <1>11, <2>1, <2>2, <2>3, <3>1 DEF Follows
  <2>5. file_fds' = {}
    BY <1>5, <1>14 DEF FdsAfter
  <2>. QED
    BY <1>2, <1>4, <1>7, <1>8, <1>12, <1>14, <2>1, <2>2, <2>4, <2>5, EndsKeeps
<1>15. CASE state = "OK" /\ EndsWell(context)
  <2>1. PICK h : h = WithState(rm.callback, state)
    OBVIOUS
  <2>. QED
    BY <1>14, <1>15, <2>1 DEF EndsWell
<1>16. CASE state \notin {"OK", "WANT_READ"} /\ EndsBadly(context, state)
  <2>1. PICK h : h = WithState(rm.callback, state)
    OBVIOUS
  <2>. QED
    BY <1>14, <1>16, <2>1 DEF EndsBadly
<1>. QED
  BY <1>5, <1>13, <1>15, <1>16

LEMMA CloseKeeps ==
  ASSUME NullIsNoValue, IInv, CloseCoroutine, aroundResource
  PROVE  IInv'
<1>1. PICK fn : fn = "close_coroutine"
  OBVIOUS
<1>2. /\ IsRunning(fn, "RESOURCE") /\ coroutineUnchanged /\ file_fds' = file_fds
      /\ open_files' = OpenFilesAfterClose
  BY <1>1 DEF CloseCoroutine
<1>3. /\ Runs /\ Running.fn = "close_coroutine" /\ rm # NULL /\ Requested(Running) /\ IsContext(rm)
      /\ Running \in flight /\ Fits(Running)
      /\ Shape /\ Alone /\ Paths /\ Down /\ Files /\ Session
      /\ others = {} /\ Len(inFlight) = 1 /\ connection_state = "OPENING" /\ ~Connecting
      /\ Has("CODEC") /\ Has("TLS") /\ ~Has("IO") /\ logic_handler = "NONE" /\ file_fds = {}
  BY <1>1, <1>2, CoroutineFinds DEF Files
<1>4. /\ rm.callback # NULL /\ (rm.callback.fn = "init" => init_cs = "CLOSE")
      /\ rm.resource_handle = FileHandle /\ rm.resource_size = file_size
      /\ Readable => rm.data_buffer # NULL
      /\ rm.data_offset \in Nat /\ (rm.data_offset > 0 => rm.data_buffer # NULL)
      /\ rm.data_buffer # NULL => rm.data_buffer \in Nat
  BY <1>3 DEF Requested, Files
<1>5. open_files' = 0
  <2>1. open_files \in {0, 1}
    BY <1>3 DEF Files
  <2>. QED
    BY <1>2, <2>1 DEF OpenFilesAfterClose, IsOpen
<1>6. /\ UNCHANGED <<layer_state, user_data, connection_state, io_timeouts, dangling, file_system,
                     file_size, socket, on_socket, task_queue, push_cs, tls_context, init_cs,
                     logic_handler, write_state, to_write_buffer>>
  BY <1>2, ResourceShares
<1>7. INVALID_HANDLE # FileHandle
  BY DEF INVALID_HANDLE, FileHandle
<1>8. Readable' = Readable
  BY <1>6 DEF Readable
<1>9. ASSUME NEW result, result # "OK", EndsBadly(rm, result)
      PROVE  IInv'
  <2>1. PICK h : h = WithState(rm.callback, result)
    OBVIOUS
  <2>2. /\ IsHandle(h) /\ h.layer = "TLS" /\ h.fn = rm.callback.fn
        /\ h.fn \in {"init", "close_externally"} /\ (h.fn = "init" => h.state = result)
    BY <1>3, <1>4, <2>1, CallbackIs
  <2>3. Leaves(<<h>>, <<>>)
    BY <1>9, <2>1 DEF EndsBadly
  <2>4. /\ IsContext(rm') /\ rm'.callback = NULL /\ rm'.resource_handle = rm.resource_handle
        /\ rm'.resource_size = rm.resource_size /\ rm'.data_offset = rm.data_offset
        /\ rm'.data_buffer = rm.data_buffer
    BY <1>3, <1>9, ContextIs DEF EndsBadly
  <2>5. Follows(h)'
    BY <1>4, <1>6, <1>8, <1>9, <2>2, <2>4 DEF Follows
  <2>. QED
    BY <1>2, <1>3, <1>4, <1>5, <1>6, <1>7, <2>2, <2>3, <2>4, <2>5, EndsKeeps
<1>10. ASSUME EndsWell([rm EXCEPT !.resource_handle = INVALID_HANDLE])
       PROVE  IInv'
  <2>1. PICK h : h = WithState(rm.callback, "OK")
    OBVIOUS
  <2>2. /\ IsHandle(h) /\ h.layer = "TLS" /\ h.fn = rm.callback.fn
        /\ h.fn \in {"init", "close_externally"} /\ (h.fn = "init" => h.state = "OK")
    BY <1>3, <1>4, <2>1, CallbackIs
  <2>3. PICK c : c = [rm EXCEPT !.resource_handle = INVALID_HANDLE]
    OBVIOUS
  <2>4. Leaves(<<>>, <<h>>) /\ rm' = [c EXCEPT !.callback = NULL]
    BY <1>10, <2>1, <2>3 DEF EndsWell
  <2>5. c = [resource_handle |-> INVALID_HANDLE, callback |-> rm.callback,
             resource_size |-> rm.resource_size, data_offset |-> rm.data_offset,
             data_buffer |-> rm.data_buffer]
    BY <1>3, <2>3 DEF IsContext
  <2>6. /\ IsContext(c) /\ c.resource_handle = INVALID_HANDLE
        /\ c.data_offset = rm.data_offset /\ c.data_buffer = rm.data_buffer
    BY <2>5 DEF IsContext
  <2>7. /\ IsContext(rm') /\ rm'.callback = NULL /\ rm'.resource_handle = INVALID_HANDLE
        /\ rm'.data_offset = rm.data_offset /\ rm'.data_buffer = rm.data_buffer
    BY <2>4, <2>6, ContextIs
  <2>8. Follows(h)'
    BY <1>4, <1>6, <1>7, <2>2, <2>7 DEF Follows
  <2>. QED
    BY <1>2, <1>3, <1>4, <1>5, <1>7, <2>2, <2>4, <2>7, <2>8, EndsKeeps
<1>11. ASSUME rm.data_buffer = NULL, Aborts, UNCHANGED rm
       PROVE  IInv'
  <2>1. ~Readable /\ inFlight' = inFlight /\ flight' = flight /\ phase' = "aborted" /\ rm' = rm
        /\ stack' = stack /\ queue' = queue
    BY <1>4, <1>11 DEF Aborts, inFlight, flight
  <2>2. ~Connecting' /\ ~Busy' /\ file_fds' = {}
    BY <1>2, <1>3, <1>6 DEF Connecting, Busy, Down
  <2>3. Shape' /\ Alone' /\ Paths'
    BY <1>3, <1>6, <2>1, <2>2 DEF Shape, Alone, Paths, Lines, Once, IsHandle
  <2>4. Down'
    BY <1>3, <1>6, <2>2 DEF Down, Has
  <2>5. Files'
    <3>1. Running' = Running
      BY <2>1 DEF Running
    <3>2. file_size = 0 /\ file_system # "memory"
      BY <1>3, <2>1 DEF Files, Readable
    <3>3. AssertionsAreKnown'
      BY <1>3, <1>6, <3>1, <3>2 DEF AssertionsAreKnown, ClosesEmptyFile
    <3>. QED
      BY <1>3, <1>4, <1>5, <1>6, <1>7, <1>8, <2>1, <2>2, <3>3 DEF Files, IsContext, IsHandle
  <2>6. Session'
    BY <1>3, <1>6, <2>2 DEF Session, Has, IsBuffer, IsSession
  <2>7. Running.fn = "close_coroutine" /\ Running.layer = "RESOURCE" /\ IsHandle(Running)
    BY <1>1, <1>2, <1>3, RunsIt DEF Fits, Formed
  <2>8. PICK h : h = Running
    OBVIOUS
  <2>9. flight' \subseteq {h}
    BY <1>3, <2>1, <2>8, RunningIsFirst
  <2>10. Fits(h)'
    <3>1. Kind(h) = "other" /\ Formed(h)
      BY <2>7, <2>8 DEF Kind, Formed
    <3>2. Formed(h)' /\ Lone(h)'
      BY <1>3, <1>6, <2>1, <2>2, <3>1 DEF Formed, IsHandle, Lone
    <3>3. Placed(h)'
      BY <1>3, <2>1, <2>7, <2>8 DEF Placed, Ends, Dials
    <3>4. Reading(h)'
      BY <1>4, <1>6, <1>8, <2>1, <2>7, <2>8 DEF Reading, Requested
    <3>5. Driven(h)'
      BY <2>7, <2>8, <3>1 DEF Driven, NeedsSession
    <3>. QED
      BY <3>2, <3>3, <3>4, <3>5 DEF Fits
  <2>. QED
    BY <2>3, <2>4, <2>5, <2>6, <2>9, <2>10 DEF IInv
<1>. QED
  BY <1>9, <1>10, <1>11 DEF CloseCoroutine

LEMMA ResourceKeeps ==
  ASSUME NullIsNoValue, IInv, ResourceNext,
         UNCHANGED <<netVars, codecVars, tls_library, tls_context, layerVars, userVars>>
  PROVE  IInv'
<1>1. aroundResource
  BY DEF aroundResource
<1>. QED
  BY <1>1, OpenKeeps, ReadKeeps, CloseKeeps DEF ResourceNext

-----------------------------------------------------------------------------
(* What is above the codec.                                                *)

\* The user learns that the connection is open, or that it has ended.
LEMMA UserSteps ==
  ASSUME IInv, Runs, layersUnchanged, Leaves(<<>>, <<>>), rm = NULL,
         DOMAIN layer_state' = Layers,
         connection_state' \in {"UNINITIALIZED", "CLOSED", "OPEN_FAILED"} => ~Has("CODEC"),
         layer_state'["USER"] = "CONNECTED" =>
           connection_state' = "OPENED" /\ (Has("TLS") => logic_handler = "DATA")
  PROVE  IInv'
<1>1. /\ Shape /\ Alone /\ Paths /\ Down /\ Files /\ Session
      /\ \A h \in others : Formed(h) /\ ~Opening(h) /\ Driven(h) /\ Placed(h)
      /\ ~Connecting /\ phase # "select"
  BY RunningFits DEF IInv
<1>2. /\ UNCHANGED <<user_data, io_timeouts, dangling, socket, on_socket, file_system, file_size,
                     open_files, rm, file_fds, tls_context, init_cs, logic_handler, write_state,
                     to_write_buffer, task_queue, push_cs>>
      /\ ~Connecting' /\ file_fds = {}
  BY <1>1 DEF layersUnchanged, netVars, codecVars, tlsVars, resourceVars, fileVars, layerVars,
     Connecting, Alone
<1>3. Lines' /\ phase' = phase /\ Paths' /\ flight' \subseteq others
  BY <1>1, FlowNone
<1>4. Shape'
  BY <1>1, <1>2, <1>3 DEF Shape, IsHandle
<1>5. Alone'
  BY <1>2 DEF Alone
<1>6. Down'
  BY <1>1, <1>2 DEF Down, Has
<1>7. Files'
  BY <1>1, <1>2, <1>3 DEF Files, Readable, AssertionsAreKnown, Runs
<1>8. Session'
  BY <1>1, <1>2 DEF Session, Busy, Has, IsSession, IsBuffer
<1>9. ASSUME NEW h \in others PROVE Fits(h)'
  <2>1. Driven(h)'
    BY <1>1, <1>2 DEF Driven, Has, Busy, NeedsSession
  <2>. QED
    BY <1>1, <1>2, <2>1, QuietFits DEF Placed, Has
<1>. QED
  BY <1>3, <1>4, <1>5, <1>6, <1>7, <1>8, <1>9 DEF IInv

LEMMA UserKeepsState ==
  ASSUME Shape, layersUnchanged, connection_state' = connection_state
  PROVE  stateKept /\ AnySeq(task_queue')
BY DEF layersUnchanged, stateKept, netVars, codecVars, tlsVars, resourceVars, layerVars, Shape

LEMMA UserInitKeeps ==
  ASSUME NullIsNoValue, IInv, UserInit
  PROVE  IInv'
<1>1. PICK h : h = OnPrev("USER", "init", NULL, "OK")
  OBVIOUS
<1>2. /\ Runs /\ Running.fn = "init" /\ Running.layer = "USER" /\ Returns(<<>>, <<h>>)
      /\ layersUnchanged /\ connection_state' = connection_state /\ Running.layer \in Layers
  BY <1>1, RunsIt, Neighbours DEF UserInit
<1>3. h.fn = "init" /\ h.layer = "CODEC" /\ IsHandle(h)
  BY <1>1, HandlerFields, Neighbours DEF OnPrev
<1>4. Shape /\ Down /\ Fits(Running)
  BY <1>2, RunningFits DEF IInv
<1>5. Kind(h) = "other" /\ ~Inner(h)
  BY <1>3 DEF Kind, Inner
<1>6. FitsNext(h)
  <2>1. rm = NULL
    BY <1>2, <1>4 DEF Fits, Reading, Follows
  <2>2. Placed(h)
    BY <1>2, <1>3, <1>4 DEF Fits, Placed, Ends, Dials
  <2>. QED
    BY <1>2, <1>3, <1>5, <2>1, <2>2
       DEF FitsNext, Formed, Opening, Dials, Reading, Driven, NeedsSession
<1>. QED
  BY <1>2, <1>3, <1>4, <1>5, <1>6, PassesQueued, UserKeepsState

\* The user answers with a close.
LEMMA UserClosesKeeps ==
  ASSUME NullIsNoValue, IInv, Runs, Running.layer = "USER", layersUnchanged,
         connection_state' = connection_state,
         Running.fn = "pull" \/ (Running.fn = "connect" /\ Running.state # "OK"),
         NEW state, Returns(<<>>, <<OnPrev("USER", "close", NULL, state)>>)
  PROVE  IInv'
<1>1. PICK h : h = OnPrev("USER", "close", NULL, state)
  OBVIOUS
<1>2. Returns(<<>>, <<h>>) /\ Running.layer \in Layers
  BY <1>1, Neighbours
<1>3. h.fn = "close" /\ h.layer = "CODEC" /\ IsHandle(h)
  BY <1>1, HandlerFields, Neighbours DEF OnPrev
<1>4. Shape /\ Fits(Running)
  BY RunningFits
<1>5. Kind(h) = "other" /\ ~Inner(h)
  BY <1>3 DEF Kind, Inner
<1>6. FitsNext(h)
  <2>1. Reading(h)
    BY <1>3, <1>4 DEF Fits, Reading, Follows
  <2>. QED
    BY <1>3, <1>5, <2>1
       DEF FitsNext, Formed, Opening, Placed, Ends, Dials, Driven, NeedsSession
<1>. QED
  BY <1>2, <1>3, <1>4, <1>5, <1>6, PassesQueued, UserKeepsState

LEMMA UserConnectKeeps ==
  ASSUME NullIsNoValue, IInv, UserConnect
  PROVE  IInv'
<1>1. Runs /\ Running.fn = "connect" /\ Running.layer = "USER" /\ layersUnchanged
  BY RunsIt DEF UserConnect
<1>2. Shape /\ Fits(Running) /\ DOMAIN layer_state = Layers
  BY <1>1, RunningFits DEF Shape
<1>3. CASE Running.state = "OK"
  <2>1. /\ Leaves(<<>>, <<>>) /\ connection_state' = "OPENED"
        /\ layer_state' = [layer_state EXCEPT !["USER"] = "CONNECTED"]
    BY <1>3 DEF UserConnect
  <2>2. rm = NULL /\ (Has("TLS") => logic_handler = "DATA")
    BY <1>1, <1>2, <1>3 DEF Fits, Reading, Follows, Driven, NeedsSession
  <2>3. DOMAIN layer_state' = Layers
    BY <1>2, <2>1
  <2>. QED
    BY <1>1, <2>1, <2>2, <2>3, UserSteps
<1>4. CASE Running.state # "OK"
  <2>1. PICK state : state = Running.state
    OBVIOUS
  <2>2. /\ Returns(<<>>, <<OnPrev("USER", "close", NULL, state)>>)
        /\ connection_state' = connection_state
    BY <1>4, <2>1 DEF UserConnect
  <2>. QED
    BY <1>1, <1>4, <2>2, UserClosesKeeps
<1>. QED
  BY <1>3, <1>4

LEMMA UserGetsKeeps ==
  ASSUME NullIsNoValue, IInv, UserConfirmed \/ UserPull
  PROVE  IInv'
<1>1. /\ Runs /\ Running.layer = "USER" /\ Running.layer # "RESOURCE" /\ layersUnchanged
      /\ connection_state' = connection_state
  BY RunsIt DEF UserConfirmed, UserPull
<1>2. Shape
  BY DEF IInv
<1>3. CASE Returns(<<>>, <<>>)
  BY <1>1, <1>2, <1>3, PassesNone, UserKeepsState
<1>4. CASE UserPull /\ Returns(<<>>, <<OnPrev("USER", "close", NULL, "OK")>>)
  <2>1. PICK state : state = "OK"
    OBVIOUS
  <2>2. Returns(<<>>, <<OnPrev("USER", "close", NULL, state)>>) /\ Running.fn = "pull"
    BY <1>4, <2>1, RunsIt DEF UserPull
  <2>. QED
    BY <1>1, <2>2, UserClosesKeeps
<1>. QED
  BY <1>3, <1>4 DEF UserConfirmed, UserPull

LEMMA UserCloseExternallyKeeps ==
  ASSUME NullIsNoValue, IInv, UserCloseExternally
  PROVE  IInv'
<1>1. /\ Runs /\ Running.fn = "close_externally" /\ Running.layer = "USER" /\ layersUnchanged
      /\ Leaves(<<>>, <<>>) /\ layer_state' = [layer_state EXCEPT !["USER"] = "CLOSED"]
  BY RunsIt DEF UserCloseExternally
<1>2. Shape /\ Down /\ Fits(Running) /\ DOMAIN layer_state = Layers
  BY <1>1, RunningFits DEF Shape, IInv
<1>3. ~Has("CODEC") /\ rm = NULL
  BY <1>1, <1>2 DEF Fits, Placed, Ends, Down
<1>4. DOMAIN layer_state' = Layers /\ layer_state'["USER"] # "CONNECTED"
  BY <1>1, <1>2, Neighbours
<1>. QED
  BY <1>1, <1>3, <1>4, UserSteps

LEMMA UserKeeps ==
  ASSUME NullIsNoValue, IInv, UserNext
  PROVE  IInv'
BY UserInitKeeps, UserConnectKeeps, UserGetsKeeps, UserCloseExternallyKeeps DEF UserNext

-----------------------------------------------------------------------------
(* What the user asks for.                                                 *)

\* It is put behind what is queued.
LEMMA FlowAsked ==
  ASSUME Shape, Paths, Idle, NEW h, Kind(h) = "other", ~Inner(h),
         stack' = stack, queue' = Append(queue, h)
  PROVE  /\ Lines' /\ Paths' /\ flight' \subseteq flight \cup {h}
         /\ flight = {} => Len(inFlight') = 1
<1>. DEFINE n == Len(queue)
<1>1. /\ stack = <<>> /\ AnySeq(queue) /\ n \in Nat /\ DOMAIN queue = 1..n
      /\ \A i \in DOMAIN queue : ~Inner(queue[i])
  BY AnySeqParts DEF Idle, Shape, Lines
<1>2. /\ AnySeq(queue') /\ Len(queue') = n + 1 /\ DOMAIN queue' = 1..n + 1
      /\ \A i \in 1..n + 1 : queue'[i] = IF i <= n THEN queue[i] ELSE h
  <2>1. AnySeq(queue') /\ queue' = queue \o <<h>> /\ Len(queue') = n + 1
    BY <1>1, AnyAppend
  <2>2. AnySeq(<<h>>) /\ Len(<<h>>) = 1 /\ <<h>>[1] = h
    BY AnyLiteral
  <2>3. \A i \in 1..n + 1 : (queue \o <<h>>)[i] = IF i <= n THEN queue[i] ELSE <<h>>[i - n]
    BY <1>1, <2>2, AnyConcat
  <2>4. \A i \in 1..n + 1 : ~(i <= n) => i - n = 1
    BY <1>1
  <2>. QED
    BY <1>1, <2>1, <2>2, <2>3, <2>4, AnySeqParts
<1>3. /\ Len(stack) = 0 /\ inFlight = queue /\ inFlight' = queue'
  <2>1. ASSUME NEW s, AnySeq(s) PROVE <<>> \o s = s
    BY <2>1 DEF AnySeq
  <2>. QED
    BY <1>1, <1>2, <2>1 DEF inFlight
<1>4. /\ flight = {queue[i] : i \in 1..n}
      /\ flight' = {queue'[i] : i \in 1..n + 1}
  BY <1>1, <1>2, <1>3 DEF flight
<1>5. flight = {} => n = 0
  <2>1. n > 0 => 1 \in 1..n
    BY <1>1
  <2>. QED
    BY <1>1, <1>4, <2>1
<1>6. ASSUME NEW kind \in {"record", "part"}, Once(kind) PROVE Once(kind)'
  <2>1. ASSUME NEW i \in 1..n + 1, NEW j \in 1..n + 1,
               Kind(queue'[i]) = kind, Kind(queue'[j]) = kind
        PROVE  i = j
    <3>1. i <= n /\ j <= n
      BY <1>2, <2>1
    <3>2. i \in 1..n /\ j \in 1..n /\ queue'[i] = queue[i] /\ queue'[j] = queue[j]
      BY <1>1, <1>2, <3>1
    <3>. QED
      BY <1>1, <1>3, <1>6, <2>1, <3>2 DEF Once
  <2>. QED
    BY <1>2, <1>3, <2>1 DEF Once
<1>. HIDE DEF n
<1>7. Lines'
  <2>1. AnySeq(stack') /\ Len(stack') <= 1
    BY <1>1, <1>3 DEF Shape, Lines
  <2>2. \A i \in DOMAIN queue' : ~Inner(queue'[i])
    <3>1. \A i \in 1..n + 1 : i <= n => i \in 1..n
      BY <1>1
    <3>. QED
      BY <1>1, <1>2, <3>1
  <2>. QED
    BY <1>2, <2>1, <2>2 DEF Lines
<1>8. flight' \subseteq flight \cup {h}
  <2>1. \A i \in 1..n + 1 : i <= n => i \in 1..n
    BY <1>1
  <2>. QED
    BY <1>2, <1>4, <2>1
<1>9. flight = {} => Len(inFlight') = 1
  BY <1>2, <1>3, <1>5, 0 + 1 = 1
<1>. QED
  BY <1>6, <1>7, <1>8, <1>9 DEF Paths

LEMMA AskedKeeps ==
  ASSUME IInv, NEW h, Asked(h), IsHandle(h), AskedFor(h), socket' = socket, on_socket' = on_socket,
         rm = NULL, ~Connecting, \A g \in flight : ~Opening(g),
         Opening(h) => ~Has("CODEC") /\ flight = {} /\ connection_state' = "OPENING",
         NeedsSession(h) /\ Has("TLS") => logic_handler = "DATA",
         connection_state' \in {"OPENING", "OPENED"},
         StateAfter(layer_state["USER"], h) = "CONNECTED" =>
           layer_state["USER"] = "CONNECTED" /\ connection_state' = "OPENED"
  PROVE  IInv'
<1>1. /\ Shape /\ Alone /\ Paths /\ Down /\ Files /\ Session /\ \A g \in flight : Fits(g)
  BY DEF IInv
<1>2. /\ Idle /\ queue' = Append(queue, h) /\ phase' = phase /\ stack' = stack
      /\ UNCHANGED <<user_data, io_timeouts, dangling, file_system, file_size, open_files, rm,
                     file_fds, tls_context, init_cs, logic_handler, write_state, to_write_buffer,
                     task_queue, push_cs>>
  BY DEF Asked, codecVars, tlsVars, resourceVars, fileVars, layerVars
<1>3. DOMAIN layer_state' = Layers /\ layer_state'["USER"] = StateAfter(layer_state["USER"], h)
      /\ layer_state'["TLS"] = layer_state["TLS"]
  <2>1. layer_state' = [layer_state EXCEPT !["USER"] = StateAfter(layer_state["USER"], h)]
    BY DEF Asked
  <2>. QED
    BY <1>1, <2>1, Neighbours DEF Shape
<1>4. /\ Kind(h) = "other" /\ ~Inner(h) /\ Formed(h) /\ ~Dials(h) /\ h.fn # "close_externally"
      /\ h.layer # "RESOURCE"
      /\ Opening(h) => h.layer = "USER" /\ h.fn = "init"
      /\ ~Opening(h) => h.fn # "init"
  BY DEF Kind, Inner, Formed, Dials, AskedFor, Opening
<1>5. /\ Lines' /\ Paths' /\ flight' \subseteq flight \cup {h}
      /\ flight = {} => Len(inFlight') = 1
  BY <1>1, <1>2, <1>4, FlowAsked
<1>6. ~Connecting' /\ (~Busy => ~Busy') /\ file_fds' = {}
  BY <1>1, <1>2 DEF Connecting, Busy, Alone
<1>7. Shape'
  <2>1. /\ stack = <<>> /\ phase = "select" /\ \A g \in flight : AskedFor(g)
    BY <1>1, <1>2 DEF Shape, Idle
  <2>2. \A g \in flight' : AskedFor(g)'
    BY <1>5, <2>1 DEF AskedFor
  <2>. QED
    BY <1>1, <1>2, <1>3, <1>5, <2>1, <2>2 DEF Shape, IsHandle
<1>8. Alone'
  BY <1>2, <1>6 DEF Alone
<1>9. Down'
  BY <1>1, <1>2, <1>3, <1>6 DEF Down, Has
<1>10. Files'
  BY <1>1, <1>2, <1>6 DEF Files, AssertionsAreKnown, Idle
<1>11. Session'
  BY <1>1, <1>2, <1>6 DEF Session, Has, Busy, IsSession, IsBuffer
<1>12. ASSUME NEW g \in flight PROVE Fits(g)'
  <2>1. Formed(g) /\ ~Opening(g) /\ Driven(g) /\ Placed(g)
    BY <1>1 DEF Fits
  <2>2. Driven(g)'
    BY <1>2, <1>6, <2>1 DEF Driven, Has, NeedsSession
  <2>. QED
    BY <1>2, <2>1, <2>2, QuietFits DEF Placed, Has
<1>13. Fits(h)'
  <2>1. Formed(h)' /\ Reading(h)'
    BY <1>2, <1>4 DEF Formed, IsHandle, Reading
  <2>2. Lone(h)'
    BY <1>5, <1>6 DEF Lone, Opening
  <2>3. Driven(h)'
    <3>1. h.layer = "TLS" => FALSE
      BY DEF AskedFor
    <3>. QED
      BY <1>2, <1>4, <3>1 DEF Driven, NeedsSession, Has
  <2>4. Placed(h)'
    <3>1. h.layer # "TLS" /\ h.layer # "IO"
      BY DEF AskedFor
    <3>. QED
      BY <1>2, <1>4, <3>1 DEF Placed, Ends, Dials, Has
  <2>. QED
    BY <2>1, <2>2, <2>3, <2>4 DEF Fits
<1>. QED
  BY <1>5, <1>7, <1>8, <1>9, <1>10, <1>11, <1>12, <1>13 DEF IInv

\* Nothing opens the connection any more.
LEMMA NothingOpens ==
  ASSUME IInv, Idle, connection_state # "OPENING"
  PROVE  /\ rm = NULL /\ ~Connecting /\ \A g \in flight : ~Opening(g)
         /\ connection_state # "OPENED" => flight = {}
<1>1. Shape /\ Alone /\ \A g \in flight : Fits(g)
  BY DEF IInv
<1>2. rm = NULL /\ ~Connecting /\ \A g \in flight : ~Opening(g)
  BY <1>1 DEF Alone, Fits, Lone
<1>3. connection_state # "OPENED" => flight = {}
  <2>1. connection_state # "OPENED" => queue = <<>> /\ stack = <<>>
    BY <1>1 DEF Shape, Idle
  <2>2. Len(stack) + Len(queue) = Len(inFlight) /\ (flight = {} <=> Len(inFlight) = 0)
    BY <1>1, InFlight
  <2>. QED
    BY <2>1, <2>2, 0 + 0 = 0, AnyLiteral
<1>. QED
  BY <1>2, <1>3

LEMMA AsksAll ==
  ASSUME NullIsNoValue, IInv, Open \/ (\E m \in UserMessages : Send(m)) \/ Shutdown
  PROVE  IInv'
<1>1. Shape /\ Down
  BY DEF IInv
<1>2. CASE Open
  <2>1. PICK h : h = Handle("init", "USER", NULL, "OK")
    OBVIOUS
  <2>2. /\ Asked(h) /\ Idle /\ connection_state' = "OPENING" /\ socket' = socket
        /\ on_socket' = on_socket /\ connection_state \in {"UNINITIALIZED", "CLOSED", "OPEN_FAILED"}
    BY <1>2, <2>1 DEF Open, Asked
  <2>3. h.fn = "init" /\ h.layer = "USER" /\ IsHandle(h)
    BY <2>1, HandlerFields
  <2>4. AskedFor(h) /\ ~NeedsSession(h)
    BY <2>3 DEF AskedFor, NeedsSession, Kind
  <2>5. ~Has("CODEC") /\ StateAfter(layer_state["USER"], h) # "CONNECTED"
    BY <1>1, <2>2, <2>3 DEF Down, StateAfter
  <2>6. rm = NULL /\ ~Connecting /\ flight = {} /\ \A g \in flight : ~Opening(g)
    BY <2>2, NothingOpens
  <2>. QED
    BY <2>2, <2>3, <2>4, <2>5, <2>6, AskedKeeps
<1>3. ASSUME NEW h, Asked(h), Idle, IsHandle(h), h.layer = "CODEC",
             h.fn = "close" \/ (h.fn = "push" /\ h.state = "OK"),
             layer_state["USER"] = "CONNECTED", connection_state' = connection_state,
             netVars' = netVars
      PROVE  IInv'
  <2>1. connection_state = "OPENED" /\ (Has("TLS") => logic_handler = "DATA")
    BY <1>1, <1>3 DEF Down
  <2>2. AskedFor(h) /\ ~Opening(h)
    BY <1>3 DEF AskedFor, Opening
  <2>3. rm = NULL /\ ~Connecting /\ \A g \in flight : ~Opening(g)
    BY <1>3, <2>1, NothingOpens
  <2>4. socket' = socket /\ on_socket' = on_socket
    BY <1>3 DEF netVars
  <2>. QED
    BY <1>3, <2>1, <2>2, <2>3, <2>4, AskedKeeps
<1>4. ASSUME NEW m \in UserMessages, Send(m) PROVE IInv'
  <2>1. PICK h : h = OnPrev("USER", "push", m, "OK")
    OBVIOUS
  <2>2. /\ Asked(h) /\ Idle /\ layer_state["USER"] = "CONNECTED"
        /\ connection_state' = connection_state /\ netVars' = netVars
    BY <1>4, <2>1 DEF Send, Asked
  <2>. QED
    BY <1>3, <2>1, <2>2, HandlerFields, Neighbours DEF OnPrev
<1>5. CASE Shutdown
  <2>1. PICK h : h = OnPrev("USER", "close", NULL, "OK")
    OBVIOUS
  <2>2. /\ Asked(h) /\ Idle /\ layer_state["USER"] = "CONNECTED"
        /\ connection_state' = connection_state /\ netVars' = netVars
    BY <1>5, <2>1 DEF Shutdown, Asked
  <2>. QED
    BY <1>3, <2>1, <2>2, HandlerFields, Neighbours DEF OnPrev
<1>. QED
  BY <1>2, <1>4, <1>5

-----------------------------------------------------------------------------
(* The event loop.                                                         *)

\* A turn of the loop that changes its phase at most.
LEMMA PhaseKeeps ==
  ASSUME IInv, UNCHANGED <<stack, queue, layer_state, user_data, connection_state, io_timeouts,
                           dangling, netVars, codecVars, tlsVars>>,
         phase' = "select" => phase = "select" \/ (stack = <<>> /\ queue = <<>>),
         phase' = "aborted" => phase = "aborted"
  PROVE  IInv'
<1>1. /\ Shape /\ Alone /\ Paths /\ Down /\ Files /\ Session /\ \A h \in flight : Fits(h)
  BY DEF IInv
<1>2. /\ UNCHANGED <<layer_state, user_data, connection_state, io_timeouts, dangling, socket,
                     on_socket, file_system, file_size, open_files, rm, file_fds, tls_context,
                     init_cs, logic_handler, write_state, to_write_buffer, task_queue, push_cs>>
      /\ inFlight' = inFlight /\ flight' = flight /\ stack' = stack /\ queue' = queue
  BY DEF netVars, codecVars, tlsVars, resourceVars, fileVars, layerVars, inFlight, flight
<1>3. (Connecting <=> Connecting') /\ (Busy <=> Busy')
  BY <1>2 DEF Connecting, Busy
<1>4. stack = <<>> /\ queue = <<>> => flight = {}
  BY <1>1, InFlight, 0 + 0 = 0, AnyLiteral
<1>5. Shape'
  BY <1>1, <1>2, <1>4 DEF Shape, Lines, IsHandle, AskedFor
<1>6. Alone' /\ Paths'
  BY <1>1, <1>2, <1>3 DEF Alone, Paths, Once
<1>7. Down'
  BY <1>1, <1>2, <1>3 DEF Down, Has, CanServe, NotOperational
<1>8. Files'
  <2>1. Running' = Running
    BY <1>2 DEF Running
  <2>2. AssertionsAreKnown'
    BY <1>1, <1>2, <2>1
       DEF Files, AssertionsAreKnown, WritesAfterLoss, ClosesEmptyFile
  <2>. QED
    BY <1>1, <1>2, <2>2 DEF Files, IsContext, IsHandle
<1>9. Session'
  BY <1>1, <1>2, <1>3 DEF Session, Has, IsBuffer, IsSession
<1>10. ASSUME NEW h \in flight PROVE Fits(h)'
  <2>1. Formed(h) /\ Lone(h) /\ Placed(h) /\ Reading(h) /\ Driven(h)
    BY <1>1 DEF Fits
  <2>2. Formed(h)' /\ Lone(h)'
    BY <1>2, <1>3, <2>1 DEF Formed, IsHandle, Lone
  <2>3. Placed(h)'
    BY <1>2, <2>1 DEF Placed, Has, CanServe, NotOperational
  <2>4. Reading(h)'
    BY <1>2, <2>1 DEF Reading, Requested, Follows, Readable
  <2>5. Driven(h)'
    BY <1>2, <1>3, <2>1 DEF Driven, NeedsSession, Has
  <2>. QED
    BY <2>2, <2>3, <2>4, <2>5 DEF Fits
<1>. QED
  BY <1>2, <1>5, <1>6, <1>7, <1>8, <1>9, <1>10 DEF IInv

\* The handler of what is ready is called, and runs before what is queued.
LEMMA FlowReady ==
  ASSUME Shape, Idle, NEW h, stack' = <<h>>, queue' = queue
  PROVE  /\ Lines' /\ Paths' /\ flight' \subseteq flight \cup {h}
         /\ flight = {} => Len(inFlight') = 1
<1>. DEFINE n == Len(queue)
<1>1. /\ stack = <<>> /\ AnySeq(queue) /\ n \in Nat /\ DOMAIN queue = 1..n
      /\ \A i \in DOMAIN queue : ~Inner(queue[i]) /\ queue[i] \in flight
      /\ \A g \in flight : AskedFor(g)
  BY AnySeqParts, InFlight DEF Idle, Shape, Lines
<1>2. AnySeq(stack') /\ Len(stack') = 1 /\ stack'[1] = h
  BY AnyLiteral
<1>3. /\ Len(inFlight') = 1 + n /\ DOMAIN inFlight' = 1..1 + n
      /\ \A i \in 1..1 + n : inFlight'[i] = IF i <= 1 THEN h ELSE queue[i - 1]
  <2>1. /\ Len(stack' \o queue) = 1 + n /\ DOMAIN (stack' \o queue) = 1..1 + n
        /\ \A i \in 1..1 + n : (stack' \o queue)[i] = IF i <= 1 THEN stack'[i] ELSE queue[i - 1]
    BY <1>1, <1>2, AnyConcat
  <2>2. \A i \in 1..1 + n : i <= 1 => i = 1
    BY <1>1
  <2>. QED
    BY <1>2, <2>1, <2>2 DEF inFlight
<1>. HIDE DEF n
<1>4. Lines'
  BY <1>1, <1>2, 1 <= 1 DEF Lines
<1>5. \A i \in 1..1 + n : i # 1 => i - 1 \in 1..n /\ ~(i <= 1)
  BY <1>1
<1>6. \A i \in 1..1 + n : i # 1 => inFlight'[i] \in flight
  BY <1>1, <1>3, <1>5
<1>7. flight' \subseteq flight \cup {h}
  <2>1. 1 \in 1..1 + n => inFlight'[1] = h
    BY <1>3
  <2>. QED
    BY <1>3, <1>6, <2>1 DEF flight
<1>8. ASSUME NEW kind \in {"record", "part"} PROVE Once(kind)'
  <2>1. \A g \in flight : Kind(g) # kind
    BY <1>1 DEF Kind, AskedFor
  <2>. QED
    BY <1>3, <1>6, <2>1 DEF Once
<1>9. flight = {} => Len(inFlight') = 1
  <2>1. n > 0 => 1 \in 1..n
    BY <1>1
  <2>2. 1 \in 1..n => queue[1] \in flight
    BY <1>1
  <2>3. flight = {} => ~(n > 0)
    BY <2>1, <2>2
  <2>4. flight = {} => n = 0
    BY <1>1, <2>3
  <2>. QED
    BY <1>3, <2>4, 1 + 0 = 1
<1>. QED
  BY <1>4, <1>7, <1>8, <1>9 DEF Paths

LEMMA ReadyKeeps ==
  ASSUME NullIsNoValue, IInv, Ready
  PROVE  IInv'
<1>1. PICK h : h = on_socket
  OBVIOUS
<1>2. /\ Idle /\ h # NULL /\ phase' = "timers" /\ stack' = <<h>> /\ queue' = queue
      /\ on_socket' = PullHandle
      /\ UNCHANGED <<layer_state, user_data, connection_state, io_timeouts, dangling, socket,
                     file_system, file_size, open_files, rm, file_fds, tls_context, init_cs,
                     logic_handler, write_state, to_write_buffer, task_queue, push_cs>>
  BY <1>1 DEF Ready, SocketReady, sharedUnchanged, codecVars, tlsVars, resourceVars, fileVars,
     layerVars
<1>3. /\ Shape /\ Alone /\ Paths /\ Down /\ Files /\ Session /\ \A g \in flight : Fits(g)
  BY DEF IInv
<1>4. /\ IsHandle(h) /\ h.layer = "IO" /\ h.fn \in {"connect", "push", "pull"}
      /\ \A g \in flight : AskedFor(g)
  BY <1>1, <1>2, <1>3 DEF Shape, Idle
<1>5. IsHandle(PullHandle) /\ PullHandle.layer = "IO" /\ PullHandle.fn = "pull"
  BY HandlerFields DEF PullHandle
<1>6. Has("IO") /\ Has("TLS") /\ Has("CODEC") /\ rm = NULL /\ file_fds = {}
  BY <1>1, <1>2, <1>3 DEF Down, Alone
<1>7. ~Connecting' /\ ~Busy'
  BY <1>2, <1>5 DEF Connecting, Busy
<1>8. /\ Lines' /\ Paths' /\ flight' \subseteq flight \cup {h}
      /\ flight = {} => Len(inFlight') = 1
  BY <1>2, <1>3, FlowReady
<1>9. Shape'
  BY <1>2, <1>3, <1>5, <1>8 DEF Shape
<1>10. Alone'
  BY <1>2, <1>6, <1>7 DEF Alone
<1>11. Down'
  BY <1>2, <1>3, <1>6, <1>7 DEF Down, Has
<1>12. Files'
  BY <1>2, <1>3, <1>6 DEF Files, Readable, AssertionsAreKnown, Runs
<1>13. Session'
  BY <1>2, <1>3, <1>7 DEF Session, Has, IsBuffer, IsSession
<1>14. ASSUME NEW g \in flight PROVE Fits(g)'
  <2>1. Formed(g) /\ Lone(g) /\ Driven(g) /\ Placed(g) /\ AskedFor(g)
    BY <1>3, <1>4 DEF Fits
  <2>2. ~Opening(g)
    BY <1>6, <2>1 DEF Opening, AskedFor, Placed
  <2>3. Driven(g)'
    BY <1>2, <1>7, <2>1 DEF Driven, Has, NeedsSession
  <2>. QED
    BY <1>2, <1>6, <2>1, <2>2, <2>3, QuietFits DEF Placed, Has
<1>15. Fits(h)'
  <2>1. Formed(h)' /\ Reading(h)'
    BY <1>2, <1>4, <1>6 DEF Formed, IsHandle, Reading
  <2>2. h.fn = "connect" => Connecting
    BY <1>1, <1>2 DEF Connecting
  <2>3. h.fn = "push" => Busy
    BY <1>1, <1>2 DEF Busy
  <2>4. Lone(h)'
    <3>1. Connecting => inFlight = <<>> /\ connection_state = "OPENING"
      BY <1>3 DEF Alone
    <3>2. inFlight = <<>> => flight = {}
      BY DEF flight
    <3>. QED
      BY <1>2, <1>4, <1>7, <1>8, <2>2, <3>1, <3>2 DEF Lone, Opening
  <2>5. Placed(h)'
    <3>1. Connecting => CanServe("TLS")' /\ logic_handler' = "CONNECT" /\ rm' = NULL
      BY <1>2, <1>3 DEF Down, CanServe, NotOperational
    <3>. QED
      BY <1>2, <1>4, <1>6, <2>2, <3>1 DEF Placed, Ends, Dials, Has
  <2>6. Driven(h)'
    <3>1. Kind(h) = "record" => h.fn = "push"
      BY <1>4 DEF Kind
    <3>2. Kind(h) # "part"
      BY <1>4 DEF Kind
    <3>3. Busy => write_state' = "WRITING"
      BY <1>2, <1>3, <1>6 DEF Session
    <3>. QED
      BY <1>4, <1>7, <2>3, <3>1, <3>2, <3>3 DEF Driven, NeedsSession
  <2>. QED
    BY <2>1, <2>4, <2>5, <2>6 DEF Fits
<1>. QED
  BY <1>8, <1>9, <1>10, <1>11, <1>12, <1>13, <1>14, <1>15 DEF IInv

LEMMA ReadsFileKeeps ==
  ASSUME NullIsNoValue, IInv, ReadsFile
  PROVE  IInv'
<1>1. PICK h : /\ h \in file_fds /\ Idle /\ stack' = <<h>> /\ phase' = "timers" /\ queue' = queue
               /\ UNCHANGED <<layer_state, user_data, connection_state, io_timeouts, dangling,
                              socket, on_socket, file_system, file_size, open_files, rm, file_fds,
                              tls_context, init_cs, logic_handler, write_state, to_write_buffer,
                              task_queue, push_cs>>
  BY DEF ReadsFile, FileReady, netVars, codecVars, resourceVars, fileVars, layerVars
<1>2. /\ Shape /\ Alone /\ Paths /\ Down /\ Files /\ Session
  BY DEF IInv
<1>3. /\ h = Coroutine("read_coroutine") /\ file_fds = {h} /\ rm # NULL
      /\ connection_state = "OPENING" /\ \A g \in flight : g = h
  BY <1>1, <1>2 DEF Alone
<1>4. IsHandle(h) /\ h.layer = "RESOURCE" /\ h.fn = "read_coroutine"
  BY <1>3, HandlerFields DEF Coroutine
<1>5. flight = {} /\ ~Connecting
  <2>1. \A g \in flight : AskedFor(g)
    BY <1>1, <1>2 DEF Shape, Idle
  <2>2. ~AskedFor(h)
    BY <1>4 DEF AskedFor
  <2>. QED
    BY <1>2, <1>3, <2>1, <2>2 DEF Down
<1>6. Lines' /\ Paths' /\ flight' \subseteq {h} /\ Len(inFlight') = 1
  BY <1>1, <1>2, <1>5, FlowReady
<1>7. ~Connecting' /\ (Busy' <=> Busy)
  BY <1>1, <1>5 DEF Connecting, Busy
<1>8. Shape'
  BY <1>1, <1>2, <1>6 DEF Shape, IsHandle
<1>9. Alone'
  BY <1>1, <1>3, <1>6, <1>7, 1 <= 1 DEF Alone
<1>10. Down'
  BY <1>1, <1>2, <1>7 DEF Down, Has
<1>11. Files'
  BY <1>1, <1>2 DEF Files, Readable, AssertionsAreKnown, Runs, IsContext, IsHandle
<1>12. Session'
  BY <1>1, <1>2, <1>7 DEF Session, Has, IsBuffer, IsSession
<1>13. Fits(h)'
  <2>1. Formed(h)' /\ Lone(h)'
    BY <1>1, <1>3, <1>4, <1>6, <1>7 DEF Formed, IsHandle, Lone
  <2>2. Placed(h)'
    BY <1>1, <1>3, <1>4 DEF Placed, Ends, Dials
  <2>3. Reading(h)'
    BY <1>1, <1>2, <1>3, <1>4 DEF Reading, Requested, Files
  <2>4. Driven(h)'
    BY <1>4 DEF Driven, NeedsSession, Kind
  <2>. QED
    BY <2>1, <2>2, <2>3, <2>4 DEF Fits
<1>. QED
  BY <1>6, <1>8, <1>9, <1>10, <1>11, <1>12, <1>13 DEF IInv

LEMMA LoopKeeps ==
  ASSUME NullIsNoValue, IInv, SkipSockets \/ TimersDone \/ QueueDone
  PROVE  IInv'
<1>1. UNCHANGED <<stack, queue, layer_state, user_data, connection_state, io_timeouts, dangling,
                  netVars, codecVars, tlsVars>>
  BY DEF SkipSockets, TimersDone, QueueDone, loopUnchanged, layersUnchanged
<1>. QED
  BY <1>1, PhaseKeeps DEF SkipSockets, TimersDone, QueueDone

-----------------------------------------------------------------------------
(* The theorems.                                                           *)

LEMMA InitFits == ASSUME NullIsNoValue, Init PROVE IInv
<1>1. /\ phase = "select" /\ stack = <<>> /\ queue = <<>> /\ user_data = {}
      /\ layer_state = [l \in Layers |-> "NONE"] /\ connection_state = "UNINITIALIZED"
      /\ io_timeouts = {} /\ dangling = {} /\ socket = "NONE" /\ on_socket = NULL
      /\ task_queue = <<>> /\ push_cs = "NONE"
      /\ file_size \in FileSizes /\ open_files = 0 /\ rm = NULL /\ file_fds = {}
      /\ tls_context = NULL /\ init_cs = "START" /\ logic_handler = "NONE"
      /\ write_state = "NONE" /\ to_write_buffer = NULL
  BY DEF Init, ChainInit, NetInit, CodecInitState, TlsStart, ResourceInit, FileInit
<1>2. /\ ~Connecting /\ ~Busy /\ \A l : ~Has(l)
  BY <1>1 DEF Connecting, Busy, Has
<1>3. Lines
  BY <1>1, AnyLiteral, 0 <= 1 DEF Lines
<1>4. Shape
  <2>1. flight = {}
    <3>1. stack \o queue = <<>>
      BY <1>1
    <3>2. DOMAIN inFlight = {}
      BY <3>1, AnyLiteral DEF inFlight
    <3>. QED
      BY <3>2 DEF flight
  <2>. QED
    BY <1>1, <1>3, <2>1, AnyLiteral DEF Shape
<1>5. flight = {} /\ DOMAIN inFlight = {}
  <2>1. Len(inFlight) = 0 /\ DOMAIN inFlight = 1..Len(inFlight)
    BY <1>1, <1>4, InFlight, 0 + 0 = 0, AnyLiteral
  <2>2. 1..0 = {}
    OBVIOUS
  <2>. QED
    BY <2>1, <2>2 DEF flight
<1>6. Alone /\ Paths
  BY <1>1, <1>2, <1>5 DEF Alone, Paths, Once
<1>7. Down
  BY <1>1, <1>2, Neighbours DEF Down
<1>8. Files
  BY <1>1, TlsClientAssumptions DEF Files, AssertionsAreKnown
<1>9. Session
  BY <1>1, <1>2 DEF Session
<1>. QED
  BY <1>4, <1>5, <1>6, <1>7, <1>8, <1>9 DEF IInv

LEMMA NextKeeps == ASSUME NullIsNoValue, IInv, [Next]_vars PROVE IInv'
<1>1. CASE Handlers
  BY <1>1, NetKeeps, CodecKeeps, TlsKeeps, ResourceKeeps, UserKeeps DEF Handlers
<1>2. CASE Open \/ (\E m \in UserMessages : Send(m)) \/ Shutdown
  BY <1>2, AsksAll
<1>3. CASE Ready \/ ReadsFile \/ SkipSockets \/ TimersDone \/ QueueDone
  BY <1>3, ReadyKeeps, ReadsFileKeeps, LoopKeeps
<1>4. CASE UNCHANGED vars
  <2>1. UNCHANGED <<chainVars, netVars, codecVars, tlsVars>>
    BY <1>4 DEF vars
  <2>2. UNCHANGED <<phase, stack, queue, layer_state, user_data, connection_state, io_timeouts,
                    dangling>>
    BY <2>1 DEF chainVars
  <2>. QED
    BY <2>1, <2>2, PhaseKeeps
<1>. QED
  BY <1>1, <1>2, <1>3, <1>4 DEF Next

\* IInv is an inductive invariant of the program, whatever the handshakes, the
\* messages and what the server answers: every handler that is called or queued fits
\* to the layers that are initialized, to the context of the resource manager, to the
\* session and to the buffer that is being written.
THEOREM TlsClientInvariant == ASSUME NullIsNoValue PROVE Spec => []IInv
<1>1. Init => IInv
  BY InitFits
<1>2. IInv /\ [Next]_vars => IInv'
  BY NextKeeps
<1>. QED
  BY <1>1, <1>2, PTL DEF Spec

\* No assertion of the layers and of the resource manager fails but the two that are
\* known to, a write after a record that was lost for want of memory and the close of
\* an empty file, and no null pointer is followed.
THEOREM AssertionsStayKnown == ASSUME NullIsNoValue PROVE Spec => []AssertionsAreKnown
<1>1. IInv => AssertionsAreKnown
  BY DEF IInv, Files
<1>2. Spec => []IInv
  BY TlsClientInvariant
<1>. QED
  BY <1>1, <1>2, PTL

\* What a handler is called with is still there when it runs: the library's buffer
\* until the network layer has written it, which does not copy it, and the context of
\* the resource manager with its callback until the coroutine has ended.
THEOREM MemoryStays == ASSUME NullIsNoValue PROVE Spec => []MemoryIsThere
<1>1. IInv => MemoryIsThere
  <2>. SUFFICES ASSUME IInv,
                       NEW h \in ToSet(stack) \cup ToSet(queue) \cup file_fds
                                  \cup ({on_socket} \ {NULL})
                PROVE  /\ h.layer = "IO" /\ h.fn = "push" /\ CanServe("IO") => tls_context # NULL
                       /\ h.layer = "RESOURCE" => rm # NULL /\ rm.callback # NULL
    BY DEF MemoryIsThere
  <2>1. /\ Shape /\ Alone /\ Down /\ Files /\ Session /\ \A g \in flight : Fits(g)
    BY DEF IInv
  <2>2. CanServe("IO") => tls_context # NULL
    BY <2>1 DEF CanServe, Down, Session, Has
  <2>3. CASE h \in flight
    <3>1. Placed(h) /\ Reading(h)
      BY <2>1, <2>3 DEF Fits
    <3>. QED
      BY <2>2, <3>1 DEF Placed, Reading, Requested
  <2>4. CASE h \in file_fds
    BY <2>1, <2>2, <2>4 DEF Alone, Files
  <2>5. CASE h = on_socket /\ on_socket # NULL
    BY <2>1, <2>2, <2>5 DEF Shape
  <2>6. ToSet(stack) \cup ToSet(queue) \subseteq flight
    <3>1. /\ AnySeq(stack) /\ AnySeq(queue)
          /\ Len(stack) \in Nat /\ Len(queue) \in Nat /\ DOMAIN stack = 1..Len(stack)
      BY <2>1, AnySeqParts DEF Shape, Lines
    <3>2. /\ DOMAIN inFlight = 1..Len(stack) + Len(queue)
          /\ \A i \in 1..Len(stack) + Len(queue) :
               inFlight[i] = IF i <= Len(stack) THEN stack[i] ELSE queue[i - Len(stack)]
      BY <3>1, AnyConcat DEF inFlight
    <3>3. \A i \in 1..Len(stack) : i \in 1..Len(stack) + Len(queue) /\ i <= Len(stack)
      BY <3>1
    <3>4. \A i \in DOMAIN stack : stack[i] \in flight
      BY <3>1, <3>2, <3>3 DEF flight
    <3>5. \A i \in DOMAIN queue : queue[i] \in flight
      BY <2>1, InFlight
    <3>. QED
      BY <3>4, <3>5 DEF ToSet
  <2>. QED
    BY <2>3, <2>4, <2>5, <2>6
<1>2. Spec => []IInv
  BY TlsClientInvariant
<1>. QED
  BY <1>1, <1>2, PTL

\* An attempt that failed and a connection that ended, wherever the certificates and
\* the handshake were, leave no file open, no session, no request and no socket.
THEOREM NothingStays == ASSUME NullIsNoValue PROVE Spec => []NothingIsLeft
<1>1. IInv => NothingIsLeft
  BY DEF IInv, NothingIsLeft, Down, Alone, Files, Session, Has
<1>2. Spec => []IInv
  BY TlsClientInvariant
<1>. QED
  BY <1>1, <1>2, PTL

-----------------------------------------------------------------------------
(* What was received is taken.                                             *)

\* h takes what is left to read.
Reads(h) == h.layer = "TLS" /\ h.fn \in {"pull", "recv_handler"}

Unread == raw_buffer # <<>> \/ Pending(tls_context) > 0

\* While there is something left to read, a handler that takes it is under way.
Taken ==
  /\ tls_context # NULL => AnySeq(tls_context.pending)
  /\ logic_handler = "DATA" =>
       /\ layer_state["TLS"] \in {"CONNECTED", "CLOSING", "CLOSED"}
       /\ CanServe("TLS") /\ Unread => \E h \in flight : Reads(h)

\* No handler is lost: all but the one that runs stay, with those it calls and queues.
LEMMA FlowStays ==
  ASSUME Shape, Runs, NEW direct, NEW queued, AnySeq(direct), AnySeq(queued), Leaves(direct, queued)
  PROVE  /\ others \subseteq flight'
         /\ \A i \in DOMAIN direct : direct[i] \in flight'
         /\ \A i \in DOMAIN queued : queued[i] \in flight'
<1>. DEFINE d == Len(direct)
            q == Len(queued)
            n == Len(inFlight)
<1>1. /\ d \in Nat /\ q \in Nat /\ n \in Nat /\ n > 0
      /\ DOMAIN direct = 1..d /\ DOMAIN queued = 1..q
  BY AnySeqParts, InFlight, RunningIsFirst
<1>2. /\ Len(inFlight') = d + (n - 1) + q /\ DOMAIN inFlight' = 1..d + (n - 1) + q
      /\ \A i \in 1..d + (n - 1) + q :
           inFlight'[i] = IF i <= d THEN direct[i]
                          ELSE IF i <= d + (n - 1) THEN inFlight[i - d + 1]
                          ELSE queued[i - d - (n - 1)]
  BY Flow
<1>3. others = {inFlight[i] : i \in 2..n}
  BY DEF others
<1>. HIDE DEF d, q, n
<1>4. \A i \in 1..d + (n - 1) + q : inFlight'[i] \in flight'
  BY <1>2 DEF flight
<1>5. ASSUME NEW i \in 2..n PROVE inFlight[i] \in flight'
  <2>. DEFINE k == i + d - 1
  <2>1. /\ k \in 1..d + (n - 1) + q /\ ~(k <= d) /\ k <= d + (n - 1) /\ k - d + 1 = i
    BY <1>1
  <2>. HIDE DEF k
  <2>. QED
    BY <1>2, <1>4, <2>1
<1>6. ASSUME NEW i \in 1..d PROVE direct[i] \in flight'
  <2>1. i \in 1..d + (n - 1) + q /\ i <= d
    BY <1>1
  <2>. QED
    BY <1>2, <1>4, <2>1
<1>7. ASSUME NEW i \in 1..q PROVE queued[i] \in flight'
  <2>. DEFINE k == i + d + (n - 1)
  <2>1. /\ k \in 1..d + (n - 1) + q /\ ~(k <= d) /\ ~(k <= d + (n - 1)) /\ k - d - (n - 1) = i
    BY <1>1
  <2>. HIDE DEF k
  <2>. QED
    BY <1>2, <1>4, <2>1
<1>. QED
  BY <1>1, <1>3, <1>5, <1>6, <1>7

LEMMA OthersStay ==
  ASSUME IInv, Runs, ~Reads(Running), NEW direct, NEW queued, AnySeq(direct), AnySeq(queued),
         Leaves(direct, queued)
  PROVE  \A h \in flight : Reads(h) => h \in flight'
<1>1. Shape
  BY DEF IInv
<1>2. others \subseteq flight' /\ \A h \in flight : h = Running \/ h \in others
  BY <1>1, FlowStays, RunningIsFirst
<1>. QED
  BY <1>2

\* A step that reads nothing.
LEMMA TakenStays ==
  ASSUME Taken, UNCHANGED <<tls_context, raw_buffer, logic_handler>>,
         logic_handler = "DATA" =>
           /\ layer_state'["TLS"] \in {"CONNECTED", "CLOSING", "CLOSED"}
           /\ CanServe("TLS")' => CanServe("TLS") /\ \A h \in flight : Reads(h) => h \in flight'
  PROVE  Taken'
BY DEF Taken, Unread, Pending, Reads

\* A step that leaves the layer alone.
LEMMA TakenElsewhere ==
  ASSUME Taken, UNCHANGED <<tls_context, raw_buffer, logic_handler>>,
         logic_handler = "DATA" =>
           /\ layer_state'["TLS"] = layer_state["TLS"] /\ (Has("TLS")' => Has("TLS"))
           /\ \A h \in flight : Reads(h) => h \in flight'
  PROVE  Taken'
BY TakenStays DEF Taken, CanServe, NotOperational, Has

LEMMA AnyTwo ==
  \A a, b : AnySeq(<<a, b>>) /\ DOMAIN <<a, b>> = {1, 2} /\ <<a, b>>[1] = a /\ <<a, b>>[2] = b
<1>1. ASSUME NEW a, NEW b
      PROVE  AnySeq(<<a, b>>) /\ DOMAIN <<a, b>> = {1, 2} /\ <<a, b>>[1] = a /\ <<a, b>>[2] = b
  <2>1. <<a, b>> \in Seq({a, b})
    OBVIOUS
  <2>2. DOMAIN <<a, b>> = {1, 2} /\ <<a, b>>[1] = a /\ <<a, b>>[2] = b
    OBVIOUS
  <2>. QED
    BY <2>1, <2>2, IsAnySeq
<1>. QED
  BY <1>1

\* The same of the handlers of the other layers.
LEMMA TakenAbove ==
  ASSUME IInv, Taken, Runs, Running.layer \in Layers, Running.layer # "TLS",
         UNCHANGED <<tls_context, raw_buffer, logic_handler>>, Has("TLS")' => Has("TLS")
  PROVE  /\ \A queued : AnySeq(queued) /\ Returns(<<>>, queued) => Taken'
         /\ Returns(<<>>, <<>>) => Taken'
         /\ \A h : Returns(<<>>, <<h>>) => Taken'
         /\ \A a, b : Returns(<<>>, <<a, b>>) => Taken'
         /\ Leaves(<<>>, <<>>) /\ layer_state'["TLS"] = layer_state["TLS"] => Taken'
         /\ Aborts => Taken'
<1>1. Shape /\ ~Reads(Running)
  BY DEF IInv, Reads
<1>2. AnySeq(<<>>)
  BY AnyLiteral
<1>3. ASSUME NEW queued, AnySeq(queued), Leaves(<<>>, queued),
             layer_state'["TLS"] = layer_state["TLS"]
      PROVE  Taken'
  <2>1. PICK none : none = <<>>
    OBVIOUS
  <2>2. AnySeq(none) /\ Leaves(none, queued)
    BY <1>2, <1>3, <2>1
  <2>3. \A h \in flight : Reads(h) => h \in flight'
    BY <1>1, <1>3, <2>2, OthersStay
  <2>. QED
    BY <1>3, <2>3, TakenElsewhere
<1>4. ASSUME NEW queued, AnySeq(queued), Returns(<<>>, queued) PROVE Taken'
  <2>1. Leaves(<<>>, queued) /\ layer_state'["TLS"] = layer_state["TLS"]
    BY <1>1, <1>4, ReturnsAny, Neighbours
  <2>. QED
    BY <1>3, <1>4, <2>1
<1>5. ASSUME Aborts PROVE Taken'
  <2>1. flight' = flight /\ layer_state' = layer_state
    BY <1>5 DEF Aborts, flight, inFlight
  <2>. QED
    BY <2>1, TakenElsewhere
<1>6. ASSUME NEW h, Returns(<<>>, <<h>>) PROVE Taken'
  BY <1>4, <1>6, AnyLiteral
<1>7. ASSUME NEW a, NEW b, Returns(<<>>, <<a, b>>) PROVE Taken'
  BY <1>4, <1>7, AnyTwo
<1>8. Returns(<<>>, <<>>) => Taken'
  BY <1>2, <1>4
<1>9. Leaves(<<>>, <<>>) /\ layer_state'["TLS"] = layer_state["TLS"] => Taken'
  BY <1>2, <1>3
<1>. QED
  BY <1>4, <1>5, <1>6, <1>7, <1>8, <1>9

LEMMA NetTakes ==
  ASSUME IInv, Taken, NetNext, UNCHANGED <<codecVars, tlsVars, userVars>>
  PROVE  Taken'
<1>1. UNCHANGED <<tls_context, raw_buffer, logic_handler>>
  BY DEF tlsVars, layerVars
<1>2. Runs /\ Running.layer = "IO" /\ Running.layer \in Layers /\ Running.layer # "TLS"
  BY RunsIt, Neighbours
     DEF NetNext, IoInit, IoConnectStart, IoConnectResume, IoPush, IoPushBusy, IoPushDropped,
         IoPull,
         IoPullReset, IoClose, IoCloseExternally
<1>3. Has("TLS")' => Has("TLS")
  BY DEF Has, NetNext, IoInit, IoConnectStart, IoConnectResume, IoPush, IoPushBusy, IoPushDropped,
         IoPull, IoPullReset, IoClose, IoCloseExternally
<1>4. /\ Returns(<<>>, <<>>) => Taken'
      /\ \A h : Returns(<<>>, <<h>>) => Taken'
      /\ Aborts => Taken'
  BY <1>1, <1>2, <1>3, TakenAbove
<1>. QED
  BY <1>4
     DEF NetNext, IoInit, IoConnectStart, IoConnectResume, IoPush, IoPushBusy, IoPushDropped,
         IoPull,
         IoPullReset, IoClose, IoCloseExternally

LEMMA CodecTakes ==
  ASSUME IInv, Taken, CodecNext, UNCHANGED <<netVars, tlsVars, userVars>>
  PROVE  Taken'
<1>1. UNCHANGED <<tls_context, raw_buffer, logic_handler, rm>>
  BY DEF tlsVars, layerVars, resourceVars
<1>2. Runs /\ Running.layer = "CODEC" /\ Running.layer \in Layers /\ Running.layer # "TLS"
  BY RunsIt, Neighbours
     DEF CodecNext, CodecInit, CodecPushMessage, CodecPushPayload, CodecPushWritten,
         CodecPushDropped, CodecPull, CodecPullMalformed, CodecPullDropped, CodecConnect,
         CodecClose,
         CodecCloseExternally
<1>3. Has("TLS")' => Has("TLS")
  BY DEF Has, CodecNext, CodecInit, CodecPushMessage, CodecPushPayload, CodecPushWritten,
         CodecPushDropped, CodecPull, CodecPullMalformed, CodecPullDropped, CodecConnect,
         CodecClose,
         CodecCloseExternally
<1>4. /\ \A queued : AnySeq(queued) /\ Returns(<<>>, queued) => Taken'
      /\ Returns(<<>>, <<>>) => Taken'
      /\ \A h : Returns(<<>>, <<h>>) => Taken'
      /\ \A a, b : Returns(<<>>, <<a, b>>) => Taken'
      /\ Aborts => Taken'
  BY <1>1, <1>2, <1>3, TakenAbove
<1>5. AnySeq(task_queue) /\ Fits(Running)
  BY <1>2, RunningFits DEF Shape
<1>6. \A n \in Nat : AnySeq(Decoded(n))
  <2>1. ASSUME NEW n \in Nat, NEW s, s = Decoded(n) PROVE AnySeq(s)
    <3>1. s = [i \in 1..n |-> s[i]]
      BY <2>1 DEF Decoded
    <3>. QED
      BY <3>1, AnyFunction
  <2>. QED
    BY <2>1
<1>7. AnySeq(FailedConfirmations)
  <2>1. PICK s : s = FailedConfirmations
    OBVIOUS
  <2>. QED
    BY <1>5, <2>1, FailedAreMany
<1>8. CASE CodecPull \/ CodecPullMalformed \/ CodecPullDropped
  <2>1. Len(Running.data.msgs) \in Nat
    <3>1. Running.fn = "pull"
      BY <1>8, RunsIt DEF CodecPull, CodecPullMalformed, CodecPullDropped
    <3>. QED
      BY <1>2, <1>5, <3>1 DEF Fits, Formed
  <2>2. CASE CodecPull
    BY <1>4, <1>6, <2>1, <2>2 DEF CodecPull
  <2>3. CASE CodecPullMalformed
    <3>1. PICK n \in 0..Len(Running.data.msgs) - 1 :
            Returns(<<>>, Decoded(n) \o FailedConfirmations
                          \o <<OnPrev("CODEC", "close", NULL, "ERROR")>>)
      BY <2>3 DEF CodecPullMalformed
    <3>2. n \in Nat
      BY <2>1
    <3>3. PICK r, s, c : /\ r = Decoded(n) /\ s = FailedConfirmations
                         /\ c = <<OnPrev("CODEC", "close", NULL, "ERROR")>>
      OBVIOUS
    <3>4. AnySeq(r) /\ AnySeq(s) /\ AnySeq(c)
      BY <1>6, <1>7, <3>2, <3>3, AnyLiteral
    <3>5. AnySeq((r \o s) \o c)
      BY <3>4, AnyConcat
    <3>. QED
      BY <1>4, <3>1, <3>3, <3>5
  <2>4. CASE CodecPullDropped
    BY <1>4, <2>4 DEF CodecPullDropped
  <2>. QED
    BY <1>8, <2>2, <2>3, <2>4
<1>9. CASE CodecCloseExternally
  <2>1. PICK h : Returns(<<>>, Append(FailedConfirmations, h))
    BY <1>9 DEF CodecCloseExternally
  <2>. QED
    BY <1>4, <1>7, <2>1, AnyAppend
<1>10. CASE \/ CodecInit \/ CodecPushMessage \/ CodecPushPayload \/ CodecPushWritten
            \/ CodecPushDropped \/ CodecConnect \/ CodecClose
  BY <1>4, <1>10
     DEF CodecInit, CodecPushMessage, CodecPushPayload, CodecPushWritten, CodecPushDropped,
         CodecConnect, CodecClose
<1>. QED
  BY <1>8, <1>9, <1>10 DEF CodecNext

\* The resource manager runs before there is a logic handler.
LEMMA ResourceTakes ==
  ASSUME IInv, Taken, ResourceNext,
         UNCHANGED <<netVars, codecVars, tls_library, tls_context, layerVars, userVars>>
  PROVE  Taken'
<1>1. Runs /\ Running.layer = "RESOURCE"
  BY RunsIt DEF ResourceNext, OpenCoroutine, ReadCoroutine, CloseCoroutine
<1>2. logic_handler = "NONE"
  BY <1>1, RunningFits DEF Fits, Placed, IInv, Down
<1>. QED
  BY <1>2, TakenStays DEF layerVars

LEMMA UserTakes ==
  ASSUME IInv, Taken, UserNext
  PROVE  Taken'
<1>1. /\ UNCHANGED <<tls_context, raw_buffer, logic_handler, user_data>>
      /\ Runs /\ Running.layer = "USER" /\ Running.layer \in Layers /\ Running.layer # "TLS"
  BY RunsIt, Neighbours
     DEF UserNext, UserInit, UserConnect, UserConfirmed, UserPull, UserCloseExternally,
         layersUnchanged, tlsVars, layerVars
<1>2. /\ Returns(<<>>, <<>>) => Taken'
      /\ \A h : Returns(<<>>, <<h>>) => Taken'
      /\ Leaves(<<>>, <<>>) /\ layer_state'["TLS"] = layer_state["TLS"] => Taken'
  BY <1>1, TakenAbove DEF Has
<1>3. "TLS" \in DOMAIN layer_state
  BY Neighbours DEF IInv, Shape
<1>. QED
  BY <1>2, <1>3 DEF UserNext, UserInit, UserConnect, UserConfirmed, UserPull, UserCloseExternally

\* What the user asks for, what is ready and the loop.
LEMMA AsksTake ==
  ASSUME IInv, Taken, NEW h, Asked(h)
  PROVE  Taken'
<1>1. /\ UNCHANGED <<tls_context, raw_buffer, logic_handler, user_data>>
      /\ layer_state'["TLS"] = layer_state["TLS"]
  BY Neighbours DEF Asked, tlsVars, layerVars, IInv, Shape
<1>2. Shape /\ stack = <<>> /\ AnySeq(queue) /\ queue' = Append(queue, h) /\ stack' = stack
  BY DEF Asked, Idle, IInv, Shape, Lines
<1>3. AnySeq(inFlight) /\ inFlight = queue
  BY <1>2, InFlight, ConcatEmptySeq DEF inFlight, AnySeq
<1>4. AnySeq(Append(queue, h)) /\ inFlight' = Append(queue, h)
  BY <1>2, AnyAppend, ConcatEmptySeq DEF inFlight, AnySeq
<1>5. \A i \in DOMAIN queue : i \in DOMAIN Append(queue, h) /\ Append(queue, h)[i] = queue[i]
  <2>1. PICK one : one = <<h>>
    OBVIOUS
  <2>2. AnySeq(one) /\ Len(one) = 1 /\ Append(queue, h) = queue \o one
    BY <1>2, <2>1, AnyLiteral, AnyAppend
  <2>3. /\ DOMAIN (queue \o one) = 1..Len(queue) + Len(one)
        /\ \A i \in 1..Len(queue) + Len(one) :
             (queue \o one)[i] = IF i <= Len(queue) THEN queue[i] ELSE one[i - Len(queue)]
    BY <1>2, <2>2, AnyConcat
  <2>4. Len(queue) \in Nat /\ DOMAIN queue = 1..Len(queue)
    BY <1>2, AnySeqParts
  <2>5. \A i \in 1..Len(queue) : i \in 1..Len(queue) + Len(one) /\ i <= Len(queue)
    BY <2>2, <2>4
  <2>. QED
    BY <2>2, <2>3, <2>4, <2>5
<1>6. \A g \in flight : g \in flight'
  BY <1>3, <1>4, <1>5 DEF flight
<1>. QED
  BY <1>1, <1>6, TakenElsewhere DEF Has

LEMMA LoopTakes ==
  ASSUME IInv, Taken, Ready \/ ReadsFile \/ SkipSockets \/ TimersDone \/ QueueDone
  PROVE  Taken'
<1>1. CASE SkipSockets \/ TimersDone \/ QueueDone
  <2>1. /\ UNCHANGED <<tls_context, raw_buffer, logic_handler, user_data, layer_state>>
        /\ flight' = flight
    BY <1>1 DEF SkipSockets, TimersDone, QueueDone, loopUnchanged, layersUnchanged, tlsVars,
       layerVars,
       flight, inFlight
  <2>. QED
    BY <2>1, TakenElsewhere DEF Has
<1>2. CASE ReadsFile
  <2>1. file_fds # {} /\ UNCHANGED <<tls_context, raw_buffer, logic_handler>>
    BY <1>2 DEF ReadsFile, FileReady, layerVars
  <2>2. logic_handler = "NONE"
    BY <2>1 DEF IInv, Alone, Down
  <2>. QED
    BY <2>1, <2>2, TakenStays
<1>3. CASE Ready
  <2>1. /\ UNCHANGED <<tls_context, raw_buffer, logic_handler, user_data, layer_state, queue>>
        /\ stack = <<>> /\ stack' = <<on_socket>>
    BY <1>3 DEF Ready, SocketReady, Idle, tlsVars, layerVars
  <2>2. AnySeq(queue) /\ inFlight = queue
    BY <2>1, ConcatEmptySeq DEF inFlight, IInv, Shape, Lines, AnySeq
  <2>3. PICK one : one = <<on_socket>>
    OBVIOUS
  <2>4. AnySeq(one) /\ Len(one) = 1 /\ inFlight' = one \o queue
    BY <2>1, <2>3, AnyLiteral DEF inFlight
  <2>5. /\ DOMAIN (one \o queue) = 1..Len(one) + Len(queue)
        /\ \A i \in 1..Len(one) + Len(queue) :
             (one \o queue)[i] = IF i <= Len(one) THEN one[i] ELSE queue[i - Len(one)]
    BY <2>2, <2>4, AnyConcat
  <2>6. Len(queue) \in Nat /\ DOMAIN queue = 1..Len(queue)
    BY <2>2, AnySeqParts
  <2>7. ASSUME NEW i \in 1..Len(queue) PROVE queue[i] \in flight'
    <3>. DEFINE k == i + 1
    <3>1. k \in 1..Len(one) + Len(queue) /\ ~(k <= Len(one)) /\ k - Len(one) = i
      BY <2>4, <2>6
    <3>. HIDE DEF k
    <3>2. k \in DOMAIN inFlight' /\ inFlight'[k] = queue[i]
      BY <2>4, <2>5, <3>1
    <3>. QED
      BY <3>2 DEF flight
  <2>8. \A g \in flight : g \in flight'
    BY <2>2, <2>6, <2>7 DEF flight
  <2>. QED
    BY <2>1, <2>8, TakenElsewhere DEF Has
<1>. QED
  BY <1>1, <1>2, <1>3

\* The state of the layer that asks for two handlers.
StateAfterAll(s, queued) == FoldLeft(StateAfter, s, queued)

LEMMA StateAfterTwo ==
  \A s, a, b : StateAfterAll(s, <<a, b>>) = StateAfter(StateAfter(s, a), b)
<1>. SUFFICES ASSUME NEW s, NEW a, NEW b
              PROVE  FoldLeft(StateAfter, s, <<a, b>>) = StateAfter(StateAfter(s, a), b)
  BY DEF StateAfterAll
<1>. DEFINE next(f, t) == IF t = {} THEN s ELSE StateAfter(f[t \ {Max(t)}], <<a, b>>[Max(t)])
            iter == CHOOSE f : f = [t \in SUBSET {1, 2} |-> next(f, t)]
            result == [t \in SUBSET {1, 2} |->
                         IF t = {} THEN s
                         ELSE IF t = {1} THEN StateAfter(s, a)
                         ELSE IF t = {2} THEN StateAfter(s, b)
                         ELSE StateAfter(StateAfter(s, a), b)]
<1>1. DOMAIN <<a, b>> = {1, 2} /\ <<a, b>>[1] = a /\ <<a, b>>[2] = b
  OBVIOUS
<1>2. FoldLeft(StateAfter, s, <<a, b>>) = iter[{1, 2}]
  BY <1>1 DEF FoldLeft, MapThenFoldSet
<1>3. /\ Max({1}) = 1 /\ Max({2}) = 2 /\ Max({1, 2}) = 2
      /\ {1} \ {1} = {} /\ {2} \ {2} = {} /\ {1, 2} \ {2} = {1}
      /\ {1} # {} /\ {2} # {} /\ {1, 2} # {} /\ {2} # {1} /\ {1, 2} # {1} /\ {1, 2} # {2}
  BY DEF Max
<1>4. \A t \in SUBSET {1, 2} : t = {} \/ t = {1} \/ t = {2} \/ t = {1, 2}
  OBVIOUS
<1>5. {} \in SUBSET {1, 2} /\ {1} \in SUBSET {1, 2} /\ {2} \in SUBSET {1, 2} /\ {1,
      2} \in SUBSET {1, 2}
  OBVIOUS
<1>6. result = [t \in SUBSET {1, 2} |-> next(result, t)]
  <2>1. /\ result[{}] = s /\ result[{1}] = StateAfter(s, a) /\ result[{2}] = StateAfter(s, b)
        /\ result[{1, 2}] = StateAfter(StateAfter(s, a), b)
    BY <1>3, <1>5
  <2>. DEFINE r == result
  <2>2. r = [t \in SUBSET {1, 2} |-> r[t]]
    OBVIOUS
  <2>3. /\ r[{}] = s /\ r[{1}] = StateAfter(s, a) /\ r[{2}] = StateAfter(s, b)
        /\ r[{1, 2}] = StateAfter(StateAfter(s, a), b)
    BY <2>1
  <2>. HIDE DEF r
  <2>4. next(r, {}) = r[{}]
    BY <2>3
  <2>5. next(r, {1}) = r[{1}]
    BY <1>1, <1>3, <2>3
  <2>6. next(r, {2}) = r[{2}]
    BY <1>1, <1>3, <2>3
  <2>7. next(r, {1, 2}) = r[{1, 2}]
    BY <1>1, <1>3, <2>3
  <2>8. \A t \in SUBSET {1, 2} : next(r, t) = r[t]
    BY <1>4, <2>4, <2>5, <2>6, <2>7
  <2>9. r = [t \in SUBSET {1, 2} |-> next(r, t)]
    BY <2>2, <2>8
  <2>. QED
    BY <2>9 DEF r
<1>7. iter = [t \in SUBSET {1, 2} |-> next(iter, t)]
  BY <1>6
<1>. HIDE DEF iter, result
<1>8. iter[{}] = s
  BY <1>5, <1>7
<1>9. iter[{1}] = StateAfter(s, a)
  BY <1>1, <1>3, <1>5, <1>7, <1>8
<1>10. iter[{1, 2}] = StateAfter(StateAfter(s, a), b)
  BY <1>1, <1>3, <1>5, <1>7, <1>9
<1>. QED
  BY <1>2, <1>10

LEMMA WithField ==
  ASSUME NEW s, IsSession(s), NEW x, NEW v, NEW t, t = [s EXCEPT ![x] = v]
  PROVE  t.pending = IF x = "pending" THEN v ELSE s.pending
<1>1. s = [y \in {"script", "parts", "pending", "failed"} |-> s[y]]
  BY SessionIsFunction
<1>. QED
  BY <1>1

\* What the library makes of what the session has for the layer.
LEMMA PendingIs ==
  ASSUME NullIsNoValue, IsSession(tls_context), AnySeq(tls_context.pending)
  PROVE  /\ \A s : \/ s = FlightDone(tls_context)
                   \/ s = PartRead(tls_context)
                   \/ s = [tls_context EXCEPT !.failed = TRUE]
                   => s.pending = tls_context.pending
         /\ \A part : AnySeq(RecordRead(tls_context, part).pending)
         /\ [tls_context EXCEPT !.pending = Tail(@)].pending = Tail(tls_context.pending)
<1>1. ASSUME NEW s, NEW x, NEW v, x # "pending", s = [tls_context EXCEPT ![x] = v]
      PROVE  s.pending = tls_context.pending /\ IsSession(s)
  <2>1. s.pending = tls_context.pending
    BY <1>1, WithField
  <2>2. IsSession(s)
    BY <1>1, SessionWith
  <2>. QED
    BY <2>1, <2>2
<1>2. ASSUME NEW s, s = FlightDone(tls_context) PROVE s.pending = tls_context.pending
  <2>1. PICK r, v : r = [tls_context EXCEPT !["script"] = v] /\ s = [r EXCEPT !["parts"] = 0]
    BY <1>2 DEF FlightDone
  <2>2. r.pending = tls_context.pending /\ IsSession(r)
    BY <1>1, <2>1
  <2>3. s = [r EXCEPT !["parts"] = 0]
    BY <2>1
  <2>4. s.pending = r.pending
    BY <2>2, <2>3, WithField
  <2>. QED
    BY <2>2, <2>4
<1>3. ASSUME NEW s, s = PartRead(tls_context) PROVE s.pending = tls_context.pending
  <2>1. PICK v : s = [tls_context EXCEPT !["parts"] = v]
    BY <1>3 DEF PartRead
  <2>. QED
    BY <1>1, <2>1
<1>4. ASSUME NEW s, s = [tls_context EXCEPT !.failed = TRUE] PROVE s.pending = tls_context.pending
  BY <1>1, <1>4
<1>5. ASSUME NEW part PROVE AnySeq(RecordRead(tls_context, part).pending)
  <2>1. PICK units : units = [i \in 1..2 |-> [record |-> part.record, unit |-> i]]
    OBVIOUS
  <2>2. AnySeq(units)
    <3>1. units = [i \in 1..2 |-> units[i]]
      BY <2>1
    <3>. QED
      BY <3>1, AnyFunction
  <2>3. PICK r : r = [tls_context EXCEPT !["parts"] = 0]
    OBVIOUS
  <2>4. r.pending = tls_context.pending /\ IsSession(r)
    BY <1>1, <2>3
  <2>5. PICK s, v : /\ s = RecordRead(tls_context, part) /\ s = [r EXCEPT !["pending"] = v]
                    /\ v = r.pending \o units
    BY <2>1, <2>3 DEF RecordRead
  <2>6. s = [r EXCEPT !["pending"] = v]
    BY <2>5
  <2>7. s.pending = v
    <3>1. r = [y \in {"script", "parts", "pending", "failed"} |-> r[y]]
      BY <2>4, SessionIsFunction
    <3>. QED
      BY <2>6, <3>1
  <2>8. AnySeq(tls_context.pending \o units)
    BY <2>2, AnyConcat
  <2>. QED
    BY <2>4, <2>5, <2>7, <2>8
<1>6. [tls_context EXCEPT !.pending = Tail(@)].pending = Tail(tls_context.pending)
  BY WithField
<1>. QED
  BY <1>2, <1>3, <1>4, <1>5, <1>6

\* Until the handshake is done there is nothing to take.
LEMMA TakenBefore ==
  ASSUME logic_handler' # "DATA", tls_context' # NULL => AnySeq(tls_context.pending)'
  PROVE  Taken'
BY DEF Taken

LEMMA InitTakes ==
  ASSUME NullIsNoValue, IInv, Taken,
         \/ TlsInit \/ TlsInitOpened \/ TlsInitRead \/ TlsInitClosed
         \/ TlsCloseFile \/ TlsCloseExternally
  PROVE  Taken'
<1>1. CASE TlsInit
  <2>1. /\ Runs /\ Running.fn = "init" /\ Running.layer = "TLS" /\ init_cs = "START"
        /\ UNCHANGED <<tls_context, logic_handler>>
    BY <1>1, RunsIt DEF TlsInit
  <2>2. logic_handler = "NONE"
    BY <2>1, RunningFits DEF Fits, Placed, IInv, Down
  <2>. QED
    BY <2>1, <2>2, TakenBefore DEF Taken
<1>2. CASE TlsInitOpened \/ TlsInitRead \/ TlsInitClosed
  <2>1. logic_handler = "NONE"
    BY <1>2, ResumedInit DEF TlsInitOpened, TlsInitRead, TlsInitClosed
  <2>2. logic_handler' \in {logic_handler, "CONNECT"}
    BY <1>2 DEF TlsInitOpened, TlsInitRead, TlsInitClosed, InitFails
  <2>3. \/ tls_context' \in {tls_context, NULL}
        \/ \E handshake : tls_context' = NewSession(handshake)
    BY <1>2 DEF TlsInitOpened, TlsInitRead, TlsInitClosed, InitFails
  <2>4. \A handshake : AnySeq(NewSession(handshake).pending)
    BY AnyLiteral DEF NewSession
  <2>. QED
    BY <2>1, <2>2, <2>3, <2>4, TakenBefore DEF Taken
<1>3. CASE TlsCloseFile
  <2>1. rm # NULL /\ UNCHANGED <<tls_context, logic_handler>>
    BY <1>3 DEF TlsCloseFile, layerVars
  <2>2. logic_handler = "NONE"
    BY <2>1 DEF IInv, Down
  <2>. QED
    BY <2>1, <2>2, TakenBefore DEF Taken
<1>4. CASE TlsCloseExternally
  BY <1>4, TakenBefore DEF TlsCloseExternally, FreshLayer
<1>. QED
  BY <1>1, <1>2, <1>3, <1>4

LEMMA ConnectTakes ==
  ASSUME NullIsNoValue, IInv, Taken, ConnectWrites \/ ConnectReads \/ ConnectAgain
  PROVE  Taken'
<1>1. InHandler("connect_handler") /\ logic_handler' = logic_handler
  BY DEF ConnectWrites, ConnectReads, ConnectAgain, Handshaking
<1>2. logic_handler = "CONNECT" /\ tls_context # NULL /\ IsSession(tls_context)
  BY <1>1, InHandlerHas
<1>3. AnySeq(tls_context.pending)
  BY <1>2 DEF Taken
<1>4. \/ tls_context' = tls_context
      \/ tls_context' = FlightDone(tls_context)
      \/ tls_context' = PartRead(tls_context)
      \/ tls_context' = [tls_context EXCEPT !.failed = TRUE]
  BY DEF ConnectWrites, ConnectReads, ConnectAgain, HandshakeFails, GivesUp
<1>5. tls_context'.pending = tls_context.pending
  BY <1>2, <1>3, <1>4, PendingIs
<1>. QED
  BY <1>1, <1>2, <1>3, <1>5, TakenBefore

\* What the layer queues when it has input left.
LEMMA PullsWhatIsLeft ==
  ASSUME IInv, Runs, Running.layer = "TLS", Taken, NEW session, NEW h,
         h.fn \in {"connect", "pull"}, h.fn = "connect" => h.state = "OK",
         Returns(<<>>, PullsAgain(session) \o <<h>>)
  PROVE  /\ layer_state'["TLS"] = StateAfter(layer_state["TLS"], h)
         /\ raw_buffer # <<>> \/ Pending(session) > 0 => \E g \in flight' : Reads(g)
<1>1. Shape /\ Running.layer \in Layers
  BY Neighbours DEF IInv
<1>2. PICK p, none : p = Tls("pull", "WANT_READ") /\ none = <<>>
  OBVIOUS
<1>3. p.fn = "pull" /\ p.layer = "TLS" /\ Reads(p) /\ AnySeq(none)
  BY <1>2, HandlerFields, AnyLiteral DEF Tls, Reads
<1>4. CASE raw_buffer # <<>> \/ Pending(session) > 0
  <2>1. PICK two : two = <<p, h>>
    OBVIOUS
  <2>2. Returns(none, two)
    <3>1. Returns(<<>>, <<p>> \o <<h>>)
      BY <1>2, <1>4 DEF PullsAgain
    <3>. QED
      BY <1>2, <2>1, <3>1, TwoOfOne
  <2>3. AnySeq(two) /\ 1 \in DOMAIN two /\ two[1] = p
    BY <2>1, AnyTwo
  <2>4. Leaves(none, two) /\ layer_state'["TLS"] = StateAfterAll(layer_state["TLS"], two)
    BY <1>1, <2>2, ReturnsAny DEF StateAfterAll
  <2>5. p \in flight'
    BY <1>1, <1>3, <2>3, <2>4, FlowStays
  <2>6. layer_state'["TLS"] = StateAfter(StateAfter(layer_state["TLS"], p), h)
    BY <2>1, <2>4, StateAfterTwo
  <2>7. StateAfter(layer_state["TLS"], p) = layer_state["TLS"]
    BY <1>3 DEF StateAfter
  <2>. QED
    BY <1>3, <2>5, <2>6, <2>7
<1>5. CASE ~(raw_buffer # <<>> \/ Pending(session) > 0)
  <2>1. Returns(<<>>, <<h>>)
    <3>1. Returns(<<>>, <<>> \o <<h>>)
      BY <1>5 DEF PullsAgain
    <3>. QED
      BY <3>1, TwoOfOne
  <2>. QED
    BY <1>1, <1>5, <2>1, ReturnsOne
<1>. QED
  BY <1>4, <1>5

LEMMA ConnectDoneTakes ==
  ASSUME NullIsNoValue, IInv, Taken, ConnectDone
  PROVE  Taken'
<1>1. /\ InHandler("connect_handler") /\ logic_handler' = "DATA" /\ UNCHANGED <<tls_context,
                                                                                raw_buffer>>
      /\ Returns(<<>>, PullsAgain(tls_context) \o <<OnNext("TLS", "connect", NULL, "OK")>>)
  BY DEF ConnectDone, Handshaking
<1>2. Runs /\ Running.layer = "TLS" /\ tls_context # NULL
  BY <1>1, InHandlerHas
<1>3. PICK h : h = OnNext("TLS", "connect", NULL, "OK")
  OBVIOUS
<1>4. h.fn = "connect" /\ h.state = "OK"
  BY <1>3, HandlerFields, Neighbours DEF OnNext
<1>5. /\ layer_state'["TLS"] = StateAfter(layer_state["TLS"], h)
      /\ raw_buffer # <<>> \/ Pending(tls_context) > 0 => \E g \in flight' : Reads(g)
  BY <1>1, <1>2, <1>3, <1>4, PullsWhatIsLeft
<1>6. layer_state'["TLS"] = "CONNECTED"
  BY <1>4, <1>5 DEF StateAfter
<1>7. (raw_buffer # <<>> \/ Pending(tls_context) > 0)' => \E g \in flight' : Reads(g)
  BY <1>1, <1>5 DEF Pending
<1>. QED
  BY <1>1, <1>2, <1>6, <1>7 DEF Taken, Unread, Reads

LEMMA RecvTakes ==
  ASSUME NullIsNoValue, IInv, Taken, RecvHandler
  PROVE  Taken'
<1>1. InHandler("recv_handler") /\ logic_handler' = logic_handler /\ user_data' = user_data
  BY DEF RecvHandler, RecvWaits, RecvReads, RecvDelivers, RecvFails, RecvLacksMemory,
     dataUnchanged
<1>2. /\ Runs /\ Running.fn = "recv_handler" /\ Running.layer = "TLS" /\ Running.layer \in Layers
      /\ Has("TLS") /\ Shape /\ logic_handler = "DATA"
      /\ tls_context # NULL /\ IsSession(tls_context)
  BY <1>1, InHandlerHas
<1>3. /\ AnySeq(tls_context.pending) /\ layer_state["TLS"] = "CONNECTED"
      /\ Reads(Running) /\ Running \in flight
  BY <1>1, <1>2, RunningIsFirst DEF Taken, InHandler, CanServe, NotOperational, Reads
<1>4. CASE RecvWaits
  <2>1. /\ Returns(<<>>, <<>>) /\ UNCHANGED <<tls_context, raw_buffer>>
        /\ tls_context.pending = <<>> /\ raw_buffer = <<>>
    BY <1>4 DEF RecvWaits
  <2>2. layer_state'["TLS"] = layer_state["TLS"]
    BY <1>2, <2>1, ReturnsNone
  <2>3. ~Unread'
    <3>1. Len(tls_context.pending) = 0
      BY <1>3, <2>1, AnySeqParts
    <3>. QED
      BY <2>1, <3>1 DEF Unread, Pending
  <2>. QED
    BY <1>1, <1>3, <2>1, <2>2, <2>3 DEF Taken
<1>5. CASE RecvReads
  <2>1. /\ GoesOn
        /\ \/ tls_context' = PartRead(tls_context)
           \/ \E part : tls_context' = RecordRead(tls_context, part)
    BY <1>5 DEF RecvReads
  <2>2. AnySeq(tls_context'.pending)
    BY <1>2, <1>3, <2>1, PendingIs
  <2>3. layer_state'["TLS"] = layer_state["TLS"] /\ Running \in flight'
    BY <1>3, <2>1 DEF GoesOn, flight, inFlight
  <2>. QED
    BY <1>1, <1>3, <2>2, <2>3 DEF Taken, Reads
<1>6. CASE RecvDelivers
  <2>1. PICK data, session :
          /\ session = [tls_context EXCEPT !.pending = Tail(@)]
          /\ tls_context' = session /\ raw_buffer' = raw_buffer
          /\ Returns(<<>>, PullsAgain(session) \o <<OnNext("TLS", "pull", data, "OK")>>)
    BY <1>6 DEF RecvDelivers
  <2>2. PICK h : h = OnNext("TLS", "pull", data, "OK")
    OBVIOUS
  <2>3. h.fn = "pull"
    BY <2>2, HandlerFields, Neighbours DEF OnNext
  <2>4. /\ layer_state'["TLS"] = StateAfter(layer_state["TLS"], h)
        /\ raw_buffer # <<>> \/ Pending(session) > 0 => \E g \in flight' : Reads(g)
    BY <1>2, <2>1, <2>2, <2>3, PullsWhatIsLeft
  <2>5. layer_state'["TLS"] = layer_state["TLS"]
    BY <2>3, <2>4 DEF StateAfter
  <2>6. AnySeq(session.pending)
    <3>1. session.pending = Tail(tls_context.pending)
      BY <1>2, <1>3, <2>1, PendingIs
    <3>2. tls_context.pending # <<>>
      BY <1>6 DEF RecvDelivers
    <3>. QED
      BY <1>3, <3>1, <3>2, AnySeqParts
  <2>7. Unread' => \E g \in flight' : Reads(g)
    BY <2>1, <2>4 DEF Unread, Pending
  <2>. QED
    BY <1>1, <1>3, <2>1, <2>5, <2>6, <2>7 DEF Taken, Reads
<1>7. CASE RecvFails \/ RecvLacksMemory
  <2>1. PICK h : /\ h \in {Tls("close", "READ_ERROR"), Tls("close", "OUT_OF_MEMORY")}
                 /\ Returns(<<>>, <<h>>)
    BY <1>7 DEF RecvFails, RecvLacksMemory
  <2>2. \/ tls_context' = tls_context
        \/ tls_context' = [tls_context EXCEPT !.failed = TRUE]
    BY <1>7 DEF RecvFails, RecvLacksMemory
  <2>3. h.fn = "close"
    BY <2>1, HandlerFields DEF Tls
  <2>4. layer_state'["TLS"] = "CLOSING"
    BY <1>2, <1>3, <2>1, <2>3, ReturnsOne DEF StateAfter
  <2>5. AnySeq(tls_context'.pending)
    BY <1>2, <1>3, <2>2, PendingIs
  <2>. QED
    BY <2>4, <2>5 DEF Taken, CanServe, NotOperational
<1>. QED
  BY <1>4, <1>5, <1>6, <1>7 DEF RecvHandler

\* A handler of the layer that reads nothing, and what it asks for.
LEMMA TakenThere ==
  ASSUME IInv, Taken, Runs, ~Reads(Running), Running.layer = "TLS",
         UNCHANGED <<tls_context, raw_buffer, logic_handler, user_data>>
  PROVE  /\ Returns(<<>>, <<>>) => Taken'
         /\ \A h : Returns(<<h>>, <<>>) => Taken'
         /\ \A h : Returns(<<>>, <<h>>) /\ h.fn = "push" => Taken'
         /\ \A h : /\ Returns(<<>>, <<h>>)
                   /\ h.fn = "close" \/ (h.fn = "connect" /\ h.state # "OK")
                   => Taken'
         /\ GoesOn \/ Aborts => Taken'
<1>1. Shape /\ Running.layer \in Layers
  BY Neighbours DEF IInv
<1>2. PICK none : none = <<>>
  OBVIOUS
<1>3. AnySeq(none)
  BY <1>2, AnyLiteral
<1>4. ASSUME NEW direct, NEW queued, AnySeq(direct), AnySeq(queued), Leaves(direct, queued),
             layer_state'["TLS"] = layer_state["TLS"]
      PROVE  Taken'
  <2>1. \A h \in flight : Reads(h) => h \in flight'
    BY <1>4, OthersStay
  <2>. QED
    BY <1>4, <2>1, TakenElsewhere DEF Has
<1>5. ASSUME Returns(<<>>, <<>>) PROVE Taken'
  <2>1. Leaves(none, none) /\ layer_state'["TLS"] = layer_state["TLS"]
    BY <1>1, <1>2, <1>5, ReturnsNone
  <2>. QED
    BY <1>3, <1>4, <2>1
<1>6. ASSUME NEW h, Returns(<<h>>, <<>>) PROVE Taken'
  <2>1. PICK one : one = <<h>>
    OBVIOUS
  <2>2. Leaves(one, none) /\ layer_state'["TLS"] = layer_state["TLS"] /\ AnySeq(one)
    BY <1>1, <1>2, <1>6, <2>1, ReturnsNone, AnyLiteral
  <2>. QED
    BY <1>3, <1>4, <2>2
<1>7. ASSUME NEW h, Returns(<<>>, <<h>>)
      PROVE  /\ layer_state'["TLS"] = StateAfter(layer_state["TLS"], h)
             /\ layer_state'["TLS"] = layer_state["TLS"] => Taken'
  <2>1. PICK one : one = <<h>>
    OBVIOUS
  <2>2. Leaves(none, one) /\ AnySeq(one)
    BY <1>1, <1>2, <1>7, <2>1, ReturnsOne, AnyLiteral
  <2>3. layer_state'["TLS"] = StateAfter(layer_state["TLS"], h)
    BY <1>1, <1>7, ReturnsOne
  <2>. QED
    BY <1>3, <1>4, <2>2, <2>3
<1>8. ASSUME NEW h, Returns(<<>>, <<h>>), h.fn = "push" PROVE Taken'
  BY <1>7, <1>8 DEF StateAfter
<1>9. ASSUME NEW h, Returns(<<>>, <<h>>), h.fn = "close" \/ (h.fn = "connect" /\ h.state # "OK")
      PROVE  Taken'
  <2>1. layer_state'["TLS"] = StateAfter(layer_state["TLS"], h)
    BY <1>7, <1>9
  <2>2. logic_handler = "DATA" => layer_state'["TLS"] \in {"CLOSING", "CLOSED"}
    BY <1>9, <2>1 DEF StateAfter, Taken
  <2>. QED
    BY <2>2, TakenStays DEF CanServe, NotOperational
<1>10. ASSUME GoesOn \/ Aborts PROVE Taken'
  <2>1. flight' = flight /\ layer_state' = layer_state
    BY <1>10 DEF GoesOn, Aborts, flight, inFlight
  <2>. QED
    BY <2>1, TakenElsewhere DEF Has
<1>. QED
  BY <1>5, <1>6, <1>8, <1>9, <1>10

LEMMA SendTakes ==
  ASSUME IInv, Taken,
         SendWrites \/ SendWritten \/ SendFails \/ TlsPush \/ TlsPushWritten \/ TlsPushDropped
  PROVE  Taken'
<1>1. /\ Runs /\ Running.layer = "TLS" /\ ~Reads(Running)
      /\ UNCHANGED <<tls_context, raw_buffer, logic_handler, user_data>>
  BY RunsIt
     DEF SendWrites, SendWritten, SendFails, TlsPush, TlsPushWritten, TlsPushDropped, InHandler,
         Reads,
         dataUnchanged, layerUnchanged, layerVars
<1>2. /\ Returns(<<>>, <<>>) => Taken'
      /\ \A h : Returns(<<h>>, <<>>) => Taken'
      /\ \A h : Returns(<<>>, <<h>>) /\ h.fn = "push" => Taken'
      /\ GoesOn \/ Aborts => Taken'
  BY <1>1, TakenThere
<1>3. ASSUME NEW record, SendsRecord(record) PROVE Taken'
  <2>1. PICK h : h = HandedOver(record)
    OBVIOUS
  <2>2. h.fn = "push" /\ (Returns(<<>>, <<>>) \/ Returns(<<>>, <<h>>) \/ Aborts)
    BY <1>3, <2>1, HandlerFields, Neighbours DEF SendsRecord, HandedOver, OnPrev
  <2>. QED
    BY <1>2, <2>2
<1>4. ASSUME NEW state, WrittenState(state) PROVE Taken'
  <2>1. PICK h : h = OnNext("TLS", "push", NULL, state)
    OBVIOUS
  <2>2. h.fn = "push" /\ Returns(<<>>, <<h>>)
    BY <1>4, <2>1, HandlerFields, Neighbours DEF WrittenState, OnNext
  <2>. QED
    BY <1>2, <2>2
<1>5. ASSUME NEW data_handler, CallsLogicHandler(data_handler) PROVE Taken'
  BY <1>2, <1>5 DEF CallsLogicHandler
<1>. QED
  BY <1>2, <1>3, <1>4, <1>5
     DEF SendWrites, SendWritten, SendFails, TlsPush, TlsPushWritten, TlsPushDropped

LEMMA PullTakes ==
  ASSUME IInv, Taken, TlsPull \/ TlsPullDropped
  PROVE  Taken'
<1>1. CASE TlsPull
  <2>1. /\ Runs /\ Running.layer = "TLS" /\ CallsLogicHandler("recv_handler") /\ Shape
        /\ UNCHANGED <<tls_context, logic_handler>>
    BY <1>1, RunsIt DEF TlsPull, IInv
  <2>2. CASE logic_handler = "DATA"
    <3>1. PICK h, one, none : h = Tls("recv_handler", "OK") /\ one = <<h>> /\ none = <<>>
      OBVIOUS
    <3>2. Returns(one,
          <<>>) /\ Reads(h) /\ AnySeq(one) /\ 1 \in DOMAIN one /\ one[1] = h /\ AnySeq(none)
      BY <2>1, <2>2, <3>1, HandlerFields, AnyLiteral DEF CallsLogicHandler, Reads, Tls
    <3>3. Leaves(one, none) /\ layer_state'["TLS"] = layer_state["TLS"]
      BY <2>1, <3>1, <3>2, ReturnsNone, Neighbours
    <3>4. h \in flight'
      BY <2>1, <3>2, <3>3, FlowStays
    <3>. QED
      BY <2>1, <3>2, <3>3, <3>4 DEF Taken
  <2>3. CASE logic_handler # "DATA"
    BY <2>1, <2>3, TakenBefore DEF Taken
  <2>. QED
    BY <2>2, <2>3
<1>2. CASE TlsPullDropped
  <2>1. /\ Runs /\ Running.layer = "TLS" /\ ~CanServe("TLS") /\ Shape
        /\ UNCHANGED <<tls_context, raw_buffer, logic_handler, user_data>>
    BY <1>2, RunsIt DEF TlsPullDropped, layerUnchanged, layerVars, IInv
  <2>2. PICK h : h = Tls("close", Running.state)
    OBVIOUS
  <2>3. h.fn = "close" /\ Returns(<<>>, <<h>>)
    BY <1>2, <2>2, HandlerFields DEF TlsPullDropped, Tls
  <2>4. layer_state'["TLS"] = StateAfter(layer_state["TLS"], h)
    BY <2>1, <2>3, ReturnsOne, Neighbours
  <2>5. ~CanServe("TLS")' /\ (logic_handler = "DATA" => layer_state'["TLS"] \in {"CONNECTED",
        "CLOSING", "CLOSED"})
    BY <2>1, <2>3, <2>4 DEF StateAfter, CanServe, NotOperational, Taken
  <2>. QED
    BY <2>1, <2>5, TakenStays
<1>. QED
  BY <1>1, <1>2

LEMMA ConnectAndCloseTake ==
  ASSUME IInv, Taken, TlsConnect \/ TlsClose
  PROVE  Taken'
<1>1. /\ Runs /\ Running.layer = "TLS" /\ ~Reads(Running)
      /\ UNCHANGED <<tls_context, raw_buffer, logic_handler, user_data>>
  BY RunsIt DEF TlsConnect, TlsClose, Reads, layerUnchanged, layerVars
<1>2. /\ \A h : Returns(<<h>>, <<>>) => Taken'
      /\ \A h : /\ Returns(<<>>, <<h>>)
                /\ h.fn = "close" \/ (h.fn = "connect" /\ h.state # "OK")
                => Taken'
  BY <1>1, TakenThere
<1>3. CASE TlsConnect
  <2>1. CASE CanServe("TLS") /\ Running.state = "OK"
    BY <1>2, <1>3, <2>1 DEF TlsConnect
  <2>2. CASE ~(CanServe("TLS") /\ Running.state = "OK")
    <3>1. PICK h : h = OnNext("TLS", "connect", NULL, Running.state)
      OBVIOUS
    <3>2. h.fn = "connect" /\ h.state = Running.state /\ Returns(<<>>, <<h>>)
      BY <1>3, <2>2, <3>1, HandlerFields, Neighbours DEF TlsConnect, OnNext
    <3>3. Running.state # "OK"
      <4>1. Running.fn = "connect" /\ Fits(Running)
        BY <1>1, <1>3, RunningFits, RunsIt DEF TlsConnect
      <4>. QED
        BY <1>1, <2>2, <4>1 DEF Fits, Placed, Dials
    <3>. QED
      BY <1>2, <3>2, <3>3
  <2>. QED
    BY <2>1, <2>2
<1>4. CASE TlsClose
  <2>1. CASE "TLS" \in user_data
    <3>1. PICK h : h = OnPrev("TLS", "close", NULL, Running.state)
      OBVIOUS
    <3>2. Returns(<<>>, <<h>>) /\ (h.fn = "close" \/ (h.fn = "connect" /\ h.state # "OK"))
      BY <1>4, <2>1, <3>1, HandlerFields, Neighbours DEF TlsClose, OnPrev
    <3>. QED
      BY <1>2, <3>2
  <2>2. CASE "TLS" \notin user_data
    <3>1. logic_handler = "NONE"
      BY <2>2 DEF IInv, Down, Has
    <3>. QED
      BY <1>1, <3>1, TakenStays
  <2>. QED
    BY <2>1, <2>2
<1>. QED
  BY <1>3, <1>4

LEMMA NextTakes ==
  ASSUME NullIsNoValue, IInv, Taken, [Next]_vars
  PROVE  Taken'
<1>1. CASE UNCHANGED vars
  <2>1. /\ UNCHANGED <<tls_context, raw_buffer, logic_handler, user_data, layer_state>>
        /\ flight' = flight
    BY <1>1 DEF vars, chainVars, tlsVars, layerVars, flight, inFlight
  <2>. QED
    BY <2>1, TakenElsewhere DEF Has
<1>2. CASE TlsNext
  BY <1>2, InitTakes, ConnectTakes, ConnectDoneTakes, RecvTakes, SendTakes, PullTakes,
     ConnectAndCloseTake DEF TlsNext
<1>3. CASE Open \/ (\E m \in UserMessages : Send(m)) \/ Shutdown
  BY <1>3, AsksTake DEF Open, Send, Shutdown
<1>. QED
  BY <1>1, <1>2, <1>3, NetTakes, CodecTakes, ResourceTakes, UserTakes, LoopTakes DEF Next, Handlers

LEMMA InitTaken == ASSUME Init PROVE Taken
BY DEF Init, TlsStart, Taken

\* While nothing is under way the TLS layer has nothing left to read: what arrived with
\* the end of the handshake or with another record was taken (NothingIsStuck).
THEOREM NothingStaysStuck == ASSUME NullIsNoValue PROVE Spec => []NothingIsStuck
<1>1. Init => IInv /\ Taken
  BY InitFits, InitTaken
<1>2. IInv /\ Taken /\ [Next]_vars => (IInv /\ Taken)'
  BY NextKeeps, NextTakes
<1>3. ASSUME IInv, Taken PROVE NothingIsStuck
  <2>. SUFFICES ASSUME Quiet, logic_handler = "DATA", CanServe("TLS")
                PROVE  raw_buffer = <<>> /\ Pending(tls_context) = 0
    BY DEF NothingIsStuck
  <2>1. flight = {}
    <3>1. stack = <<>> /\ queue = <<>> /\ Shape
      BY <1>3 DEF Quiet, Idle, IInv
    <3>2. Len(inFlight) = Len(stack) + Len(queue) /\ Len(<<>>) = 0
      BY <3>1, InFlight
    <3>3. Len(inFlight) = 0
      BY <3>1, <3>2
    <3>. QED
      BY <3>1, <3>3, InFlight
  <2>2. ~Unread
    BY <1>3, <2>1 DEF Taken
  <2>3. tls_context # NULL
    BY <1>3 DEF IInv, Session
  <2>4. Pending(tls_context) \in Nat
    BY <1>3, <2>3, AnySeqParts DEF Taken, Pending
  <2>. QED
    BY <2>2, <2>4 DEF Unread
<1>. QED
  BY <1>1, <1>2, <1>3, PTL DEF Spec
=============================================================================
