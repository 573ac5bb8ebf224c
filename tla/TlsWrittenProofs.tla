--------------------------- MODULE TlsWrittenProofs ---------------------------
(***************************************************************************)
(* A message that TlsClient reports written was written, on top of the     *)
(* invariant of TlsClientProofs.                                           *)
(*                                                                         *)
(* Above relates what the user, the codec and the handlers between them    *)
(* know of a message; Progress how far the TLS layer is with the part in   *)
(* hand.  Above needs Progress where the layer reports a part, Progress    *)
(* needs Above where the handshake ends.                                   *)
(***************************************************************************)
EXTENDS TlsClientProofs, WellFoundedInduction

-----------------------------------------------------------------------------
(* What is known of a message and of its records.                          *)

\* The handlers that tell that the connection is open,
Connected(h) == h.layer \in {"CODEC", "USER"} /\ h.fn = "connect" /\ h.state = "OK"

\* that take a message to the codec, and that tell what became of it.
Message(h) == h.layer = "CODEC" /\ h.fn = "push" /\ h.state = "OK"
Told(h) == h.layer = "USER" /\ h.fn = "push"
Carries(h, m) == (Message(h) \/ Told(h)) /\ h.data = m
Marked(h) == Connected(h) \/ Message(h) \/ Told(h)

\* Of the handlers in S at most one is called or queued.
OnceIn(S) ==
  \A i, j \in DOMAIN inFlight : inFlight[i] \in S /\ inFlight[j] \in S => i = j

OnceConnected ==
  \A i, j \in DOMAIN inFlight : Connected(inFlight[i]) /\ Connected(inFlight[j]) => i = j
OnceCarried(m) ==
  \A i, j \in DOMAIN inFlight : Carries(inFlight[i], m) /\ Carries(inFlight[j], m) => i = j

OpenOrLater == layer_state["CODEC"] \in {"CONNECTED", "CLOSING", "CLOSED"}

\* Nothing is written before all layers know that the connection is open.
Opened ==
  /\ OnceConnected
  /\ push_cs # "NONE" \/ layer_state["USER"] = "CONNECTED" => OpenOrLater
  /\ push_cs # "NONE" /\ Has("TLS") => logic_handler = "DATA"
  /\ push_cs # "NONE" => Has("CODEC") /\ connection_state # "OPENING"
  /\ \A h \in flight :
       /\ Message(h) => OpenOrLater /\ connection_state # "OPENING"
       /\ Connected(h) =>
            /\ h.layer = "USER" => OpenOrLater
            /\ push_cs = "NONE" /\ layer_state["USER"] # "CONNECTED"
            /\ \A g \in flight : ~Message(g)

Waits(m) == \E i \in DOMAIN task_queue : task_queue[i] = m

\* A message that was sent is in one place until it is confirmed.
OnePlace(m) ==
  /\ OnceCarried(m)
  /\ \A i, j \in DOMAIN task_queue : task_queue[i] = m /\ task_queue[j] = m => i = j
  /\ \A h \in flight : Carries(h, m) => m \in sent /\ ~Waits(m) /\ confirmed[m] = <<>>
  /\ Waits(m) => m \in sent /\ confirmed[m] = <<>>
  /\ confirmed[m] # <<>> => m \in sent /\ \E state : confirmed[m] = <<state>>

Places ==
  /\ DOMAIN confirmed = UserMessages
  /\ \A m \in UserMessages : OnePlace(m)

MessageReceived(m) ==
  \A last \in {~HasPayload(m), TRUE} : PartReceived([msg |-> m, last |-> last])

\* The part of the message in hand that is being written.
InHand ==
  [msg |-> Head(task_queue), last |-> push_cs = "PAYLOAD" \/ ~HasPayload(Head(task_queue))]

\* The handlers that take that part to the TLS layer, and tell that it was written.
Handing(h) == h.layer = "TLS" /\ h.fn = "push" /\ h.state = "OK"
PartDone(h) == h.layer = "CODEC" /\ h.fn = "push" /\ h.state = "WRITTEN"

\* What the codec is told of it.
Handed ==
  /\ push_cs \in {"NONE", "HEADER", "PAYLOAD"}
  /\ push_cs = "NONE" => task_queue = <<>>
  /\ CanServe("CODEC") /\ push_cs # "NONE" => task_queue # <<>>
  /\ CanServe("CODEC") /\ push_cs = "PAYLOAD" =>
       HasPayload(Head(task_queue)) /\ PartReceived([msg |-> Head(task_queue), last |-> FALSE])
  /\ CanServe("CODEC") /\ to_write_buffer # NULL => to_write_buffer.data = InHand
  /\ \A h \in flight : CanServe("CODEC") =>
       /\ Handing(h) => h.data = InHand
       /\ PartDone(h) => PartReceived(InHand)

\* The messages that are, or will be, reported written.
Reported ==
  /\ \A m \in UserMessages : confirmed[m] = <<"WRITTEN">> => MessageReceived(m)
  /\ \A h \in flight : Told(h) /\ h.state = "WRITTEN" => MessageReceived(h.data)

\* How far the TLS layer is with the part in hand.
RecordIs(h) == h.data = [msg |-> Record, last |-> TRUE]
Reached == RecordReceived(to_write_buffer.data, to_write_buffer.left - 1)
RecordDone(h) == h.layer = "TLS" /\ h.fn = "push" /\ h.state = "WRITTEN"

Progress ==
  to_write_buffer # NULL =>
    /\ to_write_buffer.left \in 1..RecordsOf(to_write_buffer.data)
    /\ \A left \in to_write_buffer.left..RecordsOf(to_write_buffer.data) - 1 :
         RecordReceived(to_write_buffer.data, left)
    /\ Has("TLS") /\ logic_handler = "DATA" =>
         /\ write_state = "WRITTEN" => Reached
         /\ Busy => RecordIs(on_socket)
         /\ \A h \in flight :
              /\ h.layer = "IO" /\ h.fn = "push" => RecordIs(h)
              /\ RecordDone(h) => Reached

Above == Opened /\ Places /\ Handed /\ Reported

-----------------------------------------------------------------------------
(* Numbers, and handlers that follow one another.                          *)

\* Every set of numbers has a least one.
LEMMA Least ==
  ASSUME NEW T \in SUBSET Nat, T # {}
  PROVE  \E m \in T : \A k \in T : m <= k
<1>1. PICK R : R = {ss \in Nat \X Nat : ss[1] < ss[2]}
  OBVIOUS
<1>2. IsWellFoundedOn(R, Nat)
  BY NatLessThanWellFounded, <1>1 DEF OpToRel
<1>3. PICK m \in T : \A y \in T : ~ (<<y, m>> \in R)
  BY <1>2, WFMin
<1>4. ASSUME NEW k \in T PROVE m <= k
  <2>1. m \in Nat /\ k \in Nat
    OBVIOUS
  <2>2. <<k, m>> \in Nat \X Nat /\ <<k, m>>[1] = k /\ <<k, m>>[2] = m
    BY <2>1
  <2>3. ~(k < m)
    BY <1>1, <1>3, <2>2
  <2>. QED
    BY <2>1, <2>3
<1>. QED
  BY <1>4

\* The state of a layer after it has queued handlers of which none but the last, or
\* none at all, changes it.
LEMMA StateAfterMany ==
  ASSUME NEW s, NEW n \in Nat, NEW queued, DOMAIN queued = 1..n,
         \A i \in 1..n - 1 : StateAfter(s, queued[i]) = s
  PROVE  /\ n = 0 => FoldLeft(StateAfter, s, queued) = s
         /\ n > 0 => FoldLeft(StateAfter, s, queued) = StateAfter(s, queued[n])
<1>. DEFINE next(f, t) == IF t = {} THEN s ELSE StateAfter(f[t \ {Max(t)}], queued[Max(t)])
            iter == CHOOSE f : f = [t \in SUBSET (1..n) |-> next(f, t)]
            result == [t \in SUBSET (1..n) |-> IF n \in t THEN StateAfter(s, queued[n]) ELSE s]
<1>1. FoldLeft(StateAfter, s, queued) = iter[1..n]
  BY DEF FoldLeft, MapThenFoldSet
<1>2. ASSUME NEW t \in SUBSET (1..n), t # {}
      PROVE  Max(t) \in t /\ \A k \in t : Max(t) >= k
  <2>1. PICK up : up = {n - k : k \in t}
    OBVIOUS
  <2>2. up \in SUBSET Nat /\ up # {}
    <3>1. \A k \in t : n - k \in Nat
      OBVIOUS
    <3>. QED
      BY <1>2, <2>1, <3>1
  <2>3. PICK m \in up : \A k \in up : m <= k
    BY <2>2, Least
  <2>4. PICK l \in t : m = n - l
    BY <2>1, <2>3
  <2>5. ASSUME NEW k \in t PROVE l >= k
    <3>1. n - k \in up
      BY <2>1
    <3>2. n - l <= n - k /\ k \in Int /\ l \in Int
      BY <2>3, <2>4, <3>1
    <3>. QED
      BY <3>2
  <2>. QED
    BY <2>5 DEF Max
<1>3. result = [t \in SUBSET (1..n) |-> next(result, t)]
  <2>1. ASSUME NEW t \in SUBSET (1..n) PROVE result[t] = next(result, t)
    <3>1. CASE t = {}
      BY <3>1
    <3>2. CASE t # {}
      <4>1. PICK k : k = Max(t)
        OBVIOUS
      <4>2. k \in t /\ (\A l \in t : k >= l) /\ k \in 1..n /\ t \ {k} \in SUBSET (1..n)
        BY <1>2, <3>2, <4>1
      <4>3. CASE n \in t
        <5>1. k = n
          BY <4>2, <4>3
        <5>. QED
          BY <3>2, <4>1, <4>2, <4>3, <5>1
      <4>4. CASE n \notin t
        <5>1. k \in 1..n - 1
          BY <4>2, <4>4
        <5>. QED
          BY <3>2, <4>1, <4>2, <4>4, <5>1
      <4>. QED
        BY <4>3, <4>4
    <3>. QED
      BY <3>1, <3>2
  <2>. HIDE DEF next
  <2>. QED
    BY <2>1
<1>4. iter = [t \in SUBSET (1..n) |-> next(iter, t)]
  <2>. HIDE DEF next
  <2>. QED
  BY <1>3
<1>. HIDE DEF iter
<1>5. iter[{}] = s
  BY <1>4
<1>6. ASSUME NEW k \in 1..n
      PROVE  iter[1..k] = StateAfter(iter[1..k - 1], queued[k])
  <2>1. 1..k \in SUBSET (1..n) /\ 1..k # {}
    OBVIOUS
  <2>2. Max(1..k) = k
    BY <1>2, <2>1
  <2>3. (1..k) \ {k} = 1..k - 1
    OBVIOUS
  <2>4. iter[1..k] = next(iter, 1..k)
    BY <1>4, <2>1
  <2>. QED
    BY <2>1, <2>2, <2>3, <2>4
<1>7. \A k \in 0..n - 1 : iter[1..k] = s
  <2>1. PICK bad : bad = {k \in 0..n - 1 : iter[1..k] # s}
    OBVIOUS
  <2>2. ASSUME bad # {} PROVE FALSE
    <3>1. bad \in SUBSET Nat
      BY <2>1
    <3>2. PICK m \in bad : \A k \in bad : m <= k
      BY <2>2, <3>1, Least
    <3>3. m \in 0..n - 1 /\ iter[1..m] # s
      BY <2>1, <3>2
    <3>4. m # 0
      <4>1. 1..0 = {}
        OBVIOUS
      <4>. QED
        BY <1>5, <3>3, <4>1
    <3>5. m \in 1..n /\ m \in 1..n - 1 /\ m - 1 \in 0..n - 1 /\ ~(m <= m - 1)
      BY <3>3, <3>4
    <3>6. iter[1..m - 1] = s
      BY <2>1, <3>2, <3>5
    <3>. QED
      BY <1>6, <3>3, <3>5, <3>6
  <2>. QED
    BY <2>1, <2>2
<1>8. n = 0 => iter[1..n] = s
  <2>1. 1..0 = {}
    OBVIOUS
  <2>. QED
    BY <1>5, <2>1
<1>9. n > 0 => iter[1..n] = StateAfter(s, queued[n])
  <2>1. n > 0 => n \in 1..n /\ n - 1 \in 0..n - 1
    OBVIOUS
  <2>. QED
    BY <1>6, <1>7, <2>1
<1>. QED
  BY <1>1, <1>8, <1>9

-----------------------------------------------------------------------------
(* What stays of a set of handlers.                                        *)

LEMMA FlowOnceIn ==
  ASSUME Shape, Runs, NEW direct, NEW queued, AnySeq(direct), AnySeq(queued),
         Leaves(direct, queued), NEW S, OnceIn(S), \A i \in DOMAIN direct : direct[i] \notin S,
         \/ \A i \in DOMAIN queued : queued[i] \notin S
         \/ /\ \A h \in others : h \notin S
            /\ \A i, j \in DOMAIN queued : queued[i] \in S /\ queued[j] \in S => i = j
  PROVE  OnceIn(S)'
<1>. DEFINE d == Len(direct)
            q == Len(queued)
            n == Len(inFlight)
<1>1. /\ d \in Nat /\ q \in Nat /\ n \in Nat /\ n > 0
      /\ DOMAIN direct = 1..d /\ DOMAIN queued = 1..q /\ DOMAIN inFlight = 1..n
  BY AnySeqParts, InFlight, RunningIsFirst
<1>2. /\ DOMAIN inFlight' = 1..d + (n - 1) + q
      /\ \A i \in 1..d + (n - 1) + q :
           inFlight'[i] = IF i <= d THEN direct[i]
                          ELSE IF i <= d + (n - 1) THEN inFlight[i - d + 1]
                          ELSE queued[i - d - (n - 1)]
  BY Flow
<1>3. /\ \A i \in 1..d : direct[i] \notin S
      /\ \A i, j \in 1..n : inFlight[i] \in S /\ inFlight[j] \in S => i = j
      /\ \/ \A i \in 1..q : queued[i] \notin S
         \/ /\ \A i \in 2..n : inFlight[i] \notin S
            /\ \A i, j \in 1..q : queued[i] \in S /\ queued[j] \in S => i = j
  BY <1>1 DEF OnceIn, others
<1>. HIDE DEF d, q, n
<1>4. ASSUME NEW i \in 1..d + (n - 1) + q, NEW j \in 1..d + (n - 1) + q,
             inFlight'[i] \in S, inFlight'[j] \in S
      PROVE  i = j
  <2>1. ASSUME NEW k \in 1..d + (n - 1) + q, inFlight'[k] \in S
        PROVE  \/ k - d + 1 \in 2..n /\ inFlight[k - d + 1] \in S
               \/ k - d - (n - 1) \in 1..q /\ queued[k - d - (n - 1)] \in S
    <3>1. CASE k <= d
      <4>1. k \in 1..d
        BY <1>1, <3>1
      <4>. QED
        BY <1>2, <1>3, <2>1, <3>1, <4>1
    <3>2. CASE ~(k <= d) /\ k <= d + (n - 1)
      <4>1. k - d + 1 \in 2..n
        BY <1>1, <3>2
      <4>. QED
        BY <1>2, <2>1, <3>2, <4>1
    <3>3. CASE ~(k <= d) /\ ~(k <= d + (n - 1))
      <4>1. k - d - (n - 1) \in 1..q
        BY <1>1, <3>3
      <4>. QED
        BY <1>2, <2>1, <3>3, <4>1
    <3>. QED
      BY <3>1, <3>2, <3>3
  <2>2. CASE \A k \in 1..q : queued[k] \notin S
    <3>1. /\ i - d + 1 \in 1..n /\ inFlight[i - d + 1] \in S
          /\ j - d + 1 \in 1..n /\ inFlight[j - d + 1] \in S
      BY <1>1, <1>4, <2>1, <2>2
    <3>2. i - d + 1 = j - d + 1
      BY <1>3, <3>1
    <3>. QED
      BY <1>1, <3>2
  <2>3. CASE /\ \A k \in 2..n : inFlight[k] \notin S
             /\ \A k, l \in 1..q : queued[k] \in S /\ queued[l] \in S => k = l
    <3>1. /\ i - d - (n - 1) \in 1..q /\ queued[i - d - (n - 1)] \in S
          /\ j - d - (n - 1) \in 1..q /\ queued[j - d - (n - 1)] \in S
      BY <1>4, <2>1, <2>3
    <3>2. i - d - (n - 1) = j - d - (n - 1)
      BY <2>3, <3>1
    <3>. QED
      BY <1>1, <3>2
  <2>. QED
    BY <1>3, <2>2, <2>3
<1>. QED
  BY <1>2, <1>4 DEF OnceIn

\* The same of one that is behind those in flight.
LEMMA AskedOnceIn ==
  ASSUME Shape, Idle, NEW h, stack' = stack, queue' = Append(queue, h), NEW S, OnceIn(S),
         h \notin S \/ \A g \in flight : g \notin S
  PROVE  OnceIn(S)'
<1>. DEFINE n == Len(queue)
<1>1. /\ stack = <<>> /\ AnySeq(queue) /\ n \in Nat /\ DOMAIN queue = 1..n
      /\ \A i \in DOMAIN queue : queue[i] \in flight
  BY AnySeqParts, InFlight DEF Idle, Shape, Lines
<1>2. /\ AnySeq(queue') /\ DOMAIN queue' = 1..n + 1
      /\ \A i \in 1..n + 1 : queue'[i] = IF i <= n THEN queue[i] ELSE h
  <2>1. AnySeq(queue') /\ queue' = queue \o <<h>> /\ Len(queue') = n + 1
    BY <1>1, AnyAppend
  <2>2. AnySeq(<<h>>) /\ Len(<<h>>) = 1 /\ <<h>>[1] = h
    BY AnyLiteral
  <2>3. \A i \in 1..n + 1 : (queue \o <<h>>)[i] = IF i <= n THEN queue[i] ELSE <<h>>[i - n]
    BY <1>1, <2>2, AnyConcat
  <2>4. \A i \in 1..n + 1 : ~(i <= n) => i - n = 1
    BY <1>1
  <2>. QED
    BY <1>1, <2>1, <2>2, <2>3, <2>4, AnySeqParts
<1>3. inFlight = queue /\ inFlight' = queue'
  <2>1. ASSUME NEW s, AnySeq(s) PROVE <<>> \o s = s
    BY <2>1 DEF AnySeq
  <2>. QED
    BY <1>1, <1>2, <2>1 DEF inFlight
<1>. HIDE DEF n
<1>4. \A i \in 1..n + 1 : i <= n => i \in 1..n
  BY <1>1
<1>5. \A i, j \in 1..n + 1 : ~(i <= n) /\ ~(j <= n) => i = j
  BY <1>1
<1>6. ASSUME NEW i \in 1..n + 1, NEW j \in 1..n + 1, queue'[i] \in S, queue'[j] \in S PROVE i = j
  <2>1. \A k, l \in 1..n : queue[k] \in S /\ queue[l] \in S => k = l
    BY <1>1, <1>3 DEF OnceIn
  <2>2. CASE i <= n /\ j <= n
    BY <1>2, <1>4, <1>6, <2>1, <2>2
  <2>3. CASE ~(i <= n) /\ ~(j <= n)
    BY <1>5, <2>3
  <2>4. CASE i <= n /\ ~(j <= n)
    BY <1>1, <1>2, <1>4, <1>6, <2>4
  <2>5. CASE ~(i <= n) /\ j <= n
    BY <1>1, <1>2, <1>4, <1>6, <2>5
  <2>. QED
    BY <2>2, <2>3, <2>4, <2>5
<1>. QED
  BY <1>2, <1>3, <1>6 DEF OnceIn

\* The same of one that runs before those in flight.
LEMMA ReadyOnceIn ==
  ASSUME Shape, Idle, NEW h, stack' = <<h>>, queue' = queue, NEW S, OnceIn(S), h \notin S
  PROVE  OnceIn(S)'
<1>. DEFINE n == Len(queue)
<1>1. /\ stack = <<>> /\ AnySeq(queue) /\ n \in Nat /\ DOMAIN queue = 1..n
  BY AnySeqParts DEF Idle, Shape, Lines
<1>2. AnySeq(stack') /\ Len(stack') = 1 /\ stack'[1] = h
  BY AnyLiteral
<1>3. /\ DOMAIN inFlight' = 1..1 + n
      /\ \A i \in 1..1 + n : inFlight'[i] = IF i <= 1 THEN h ELSE queue[i - 1]
  <2>1. /\ DOMAIN (stack' \o queue) = 1..1 + n
        /\ \A i \in 1..1 + n : (stack' \o queue)[i] = IF i <= 1 THEN stack'[i] ELSE queue[i - 1]
    BY <1>1, <1>2, AnyConcat
  <2>2. \A i \in 1..1 + n : i <= 1 => i = 1
    BY <1>1
  <2>. QED
    BY <1>2, <2>1, <2>2 DEF inFlight
<1>4. inFlight = queue
  <2>1. ASSUME NEW s, AnySeq(s) PROVE <<>> \o s = s
    BY <2>1 DEF AnySeq
  <2>. QED
    BY <1>1, <2>1 DEF inFlight
<1>. HIDE DEF n
<1>5. \A i \in 1..1 + n : ~(i <= 1) => i - 1 \in 1..n
  BY <1>1
<1>6. ASSUME NEW i \in 1..1 + n, NEW j \in 1..1 + n, inFlight'[i] \in S, inFlight'[j] \in S
      PROVE  i = j
  <2>1. /\ ~(i <= 1) /\ i - 1 \in 1..n /\ queue[i - 1] \in S
        /\ ~(j <= 1) /\ j - 1 \in 1..n /\ queue[j - 1] \in S
    BY <1>3, <1>5, <1>6
  <2>2. i - 1 = j - 1
    BY <1>1, <1>4, <2>1 DEF OnceIn
  <2>. QED
    BY <1>1, <2>2
<1>. QED
  BY <1>3, <1>6 DEF OnceIn

LEMMA CarriedOnce ==
  ASSUME NEW S, NEW m, \A h \in flight \cup flight' : h \in S <=> Carries(h, m)
  PROVE  (OnceIn(S) <=> OnceCarried(m)) /\ (OnceIn(S)' <=> OnceCarried(m)')
<1>1. \A i \in DOMAIN inFlight : inFlight[i] \in S <=> Carries(inFlight[i], m)
  BY DEF flight
<1>2. \A i \in DOMAIN inFlight' : inFlight'[i] \in S <=> Carries(inFlight'[i], m)
  BY DEF flight
<1>3. OnceIn(S) <=> OnceCarried(m)
  BY <1>1 DEF OnceIn, OnceCarried
<1>4. OnceIn(S)' <=> OnceCarried(m)'
  <2>1. OnceIn(S)' <=>
          \A i, j \in DOMAIN inFlight' : inFlight'[i] \in S /\ inFlight'[j] \in S => i = j
    BY DEF OnceIn
  <2>2. OnceCarried(m)' <=>
          \A i, j \in DOMAIN inFlight' :
            Carries(inFlight'[i], m) /\ Carries(inFlight'[j], m) => i = j
    BY DEF OnceCarried, Carries, Message, Told
  <2>. QED
    BY <1>2, <2>1, <2>2
<1>. QED
  BY <1>3, <1>4

LEMMA ConnectedOnce ==
  ASSUME NEW S, \A h \in flight \cup flight' : h \in S <=> Connected(h)
  PROVE  (OnceIn(S) <=> OnceConnected) /\ (OnceIn(S)' <=> OnceConnected')
<1>1. \A i \in DOMAIN inFlight : inFlight[i] \in S <=> Connected(inFlight[i])
  BY DEF flight
<1>2. \A i \in DOMAIN inFlight' : inFlight'[i] \in S <=> Connected(inFlight'[i])
  BY DEF flight
<1>3. OnceIn(S) <=> OnceConnected
  BY <1>1 DEF OnceIn, OnceConnected
<1>4. OnceIn(S)' <=> OnceConnected'
  <2>1. OnceIn(S)' <=>
          \A i, j \in DOMAIN inFlight' : inFlight'[i] \in S /\ inFlight'[j] \in S => i = j
    BY DEF OnceIn
  <2>2. OnceConnected' <=>
          \A i, j \in DOMAIN inFlight' : Connected(inFlight'[i]) /\ Connected(inFlight'[j]) => i = j
    BY DEF OnceConnected, Connected
  <2>. QED
    BY <1>2, <2>1, <2>2
<1>. QED
  BY <1>3, <1>4

\* A step after which no handler tells of a message or of the connection that did
\* not before.
MarkedStay ==
  /\ \A h \in flight' : Marked(h) => h \in flight
  /\ \A S : (\A h \in S : Marked(h)) /\ OnceIn(S) => OnceIn(S)'

LEMMA MarkedOnce ==
  ASSUME MarkedStay
  PROVE  /\ OnceConnected => OnceConnected'
         /\ \A m : OnceCarried(m) => OnceCarried(m)'
<1>1. ASSUME OnceConnected PROVE OnceConnected'
  <2>1. PICK S : S = {h \in flight \cup flight' : Connected(h)}
    OBVIOUS
  <2>2. (\A h \in S : Marked(h)) /\ \A h \in flight \cup flight' : h \in S <=> Connected(h)
    BY <2>1 DEF Marked
  <2>. QED
    BY <1>1, <2>2, ConnectedOnce DEF MarkedStay
<1>2. ASSUME NEW m, OnceCarried(m) PROVE OnceCarried(m)'
  <2>1. PICK S : S = {h \in flight \cup flight' : Carries(h, m)}
    OBVIOUS
  <2>2. (\A h \in S : Marked(h)) /\ \A h \in flight \cup flight' : h \in S <=> Carries(h, m)
    BY <2>1 DEF Marked, Carries
  <2>. QED
    BY <1>2, <2>2, CarriedOnce DEF MarkedStay
<1>. QED
  BY <1>1, <1>2

LEMMA MarkedFlow ==
  ASSUME Shape, Runs, NEW direct, NEW queued, AnySeq(direct), AnySeq(queued),
         Leaves(direct, queued), \A i \in DOMAIN direct : ~Marked(direct[i]),
         \A i \in DOMAIN queued : ~Marked(queued[i])
  PROVE  MarkedStay
<1>1. \A h \in flight' : Marked(h) => h \in flight
  BY FlowHandlers, InFlight
<1>2. ASSUME NEW S, \A h \in S : Marked(h), OnceIn(S) PROVE OnceIn(S)'
  BY <1>2, FlowOnceIn
<1>. QED
  BY <1>1, <1>2 DEF MarkedStay

\* The steps of the handlers, by what they call and queue.
LEMMA FlowUnmarked ==
  ASSUME Shape, Runs
  PROVE  /\ Leaves(<<>>, <<>>) => MarkedStay /\ flight' \subseteq flight
         /\ \A h : Leaves(<<>>, <<h>>) => flight' \subseteq flight \cup {h}
         /\ \A h : ~Marked(h) /\ Leaves(<<>>, <<h>>) => MarkedStay
         /\ \A h : Leaves(<<h>>, <<>>) => flight' \subseteq flight \cup {h}
         /\ \A h : ~Marked(h) /\ Leaves(<<h>>, <<>>) => MarkedStay
         /\ \A a, b : Leaves(<<>>, <<a, b>>) => flight' \subseteq flight \cup {a, b}
         /\ \A a, b : ~Marked(a) /\ ~Marked(b) /\ Leaves(<<>>, <<a, b>>) => MarkedStay
<1>1. PICK none : none = <<>>
  OBVIOUS
<1>2. AnySeq(none) /\ DOMAIN none = {}
  BY <1>1, AnyLiteral
<1>3. \A h : AnySeq(<<h>>) /\ DOMAIN <<h>> = {1} /\ <<h>>[1] = h
  BY AnyLiteral
<1>4. others \subseteq flight
  BY InFlight
<1>5. Leaves(<<>>, <<>>) => MarkedStay /\ flight' \subseteq flight
  <2>. SUFFICES ASSUME Leaves(none, none) PROVE MarkedStay /\ flight' \subseteq flight
    BY <1>1
  <2>1. MarkedStay
    BY <1>2, MarkedFlow
  <2>2. flight' \subseteq others
    BY <1>2, FlowHandlers
  <2>. QED
    BY <1>4, <2>1, <2>2
<1>6. ASSUME NEW h, Leaves(none, <<h>>)
      PROVE  flight' \subseteq flight \cup {h} /\ (~Marked(h) => MarkedStay)
  <2>1. PICK one : one = <<h>>
    OBVIOUS
  <2>2. AnySeq(one) /\ DOMAIN one = {1} /\ one[1] = h /\ Leaves(none, one)
    BY <1>3, <1>6, <2>1
  <2>3. ~Marked(h) => MarkedStay
    BY <1>2, <2>2, MarkedFlow
  <2>4. flight' \subseteq others \cup {h}
    BY <1>2, <2>2, FlowHandlers
  <2>. QED
    BY <1>4, <2>3, <2>4
<1>7. ASSUME NEW h, Leaves(<<h>>, none)
      PROVE  flight' \subseteq flight \cup {h} /\ (~Marked(h) => MarkedStay)
  <2>1. PICK one : one = <<h>>
    OBVIOUS
  <2>2. AnySeq(one) /\ DOMAIN one = {1} /\ one[1] = h /\ Leaves(one, none)
    BY <1>3, <1>7, <2>1
  <2>3. ~Marked(h) => MarkedStay
    BY <1>2, <2>2, MarkedFlow
  <2>4. flight' \subseteq others \cup {h}
    BY <1>2, <2>2, FlowHandlers
  <2>. QED
    BY <1>4, <2>3, <2>4
<1>8. ASSUME NEW a, NEW b, Leaves(none, <<a, b>>)
      PROVE  flight' \subseteq flight \cup {a, b} /\ (~Marked(a) /\ ~Marked(b) => MarkedStay)
  <2>1. PICK two : two = <<a, b>>
    OBVIOUS
  <2>2. AnySeq(two) /\ DOMAIN two = {1, 2} /\ two[1] = a /\ two[2] = b /\ Leaves(none, two)
    BY <1>8, <2>1, AnyTwo
  <2>3. ~Marked(a) /\ ~Marked(b) => MarkedStay
    BY <1>2, <2>2, MarkedFlow
  <2>4. flight' \subseteq others \cup {a, b}
    BY <1>2, <2>2, FlowHandlers
  <2>. QED
    BY <1>4, <2>3, <2>4
<1>. QED
  BY <1>1, <1>5, <1>6, <1>7, <1>8

-----------------------------------------------------------------------------
(* What a step keeps of it.                                                *)

\* Records that were received stay received.
Receives == received \subseteq received' /\ tls_library' = tls_library

LEMMA ReceivedStay ==
  ASSUME Receives
  PROVE  /\ \A data, left : RecordReceived(data, left) => RecordReceived(data, left)'
         /\ \A data : PartReceived(data) => PartReceived(data)'
         /\ \A m : MessageReceived(m) => MessageReceived(m)'
         /\ \A data : RecordsOf(data)' = RecordsOf(data)
<1>1. \A data : RecordsOf(data)' = RecordsOf(data)
  BY DEF RecordsOf
<1>2. \A data, left : RecordReceived(data, left) => RecordReceived(data, left)'
  BY DEF RecordReceived, Receives, TlsRecord
<1>3. ASSUME NEW data, PartReceived(data) PROVE PartReceived(data)'
  <2>1. RecordsOf(data)' = RecordsOf(data) /\ IsCut(data)' = IsCut(data)
    BY <1>1 DEF IsCut, Receives
  <2>2. RecordReceived(data, RecordsOf(data) - 1)'
    BY <1>2, <1>3, <2>1 DEF PartReceived
  <2>3. ~IsCut(data) => \A left \in 0..RecordsOf(data) - 1 : RecordReceived(data, left)'
    BY <1>2, <1>3 DEF PartReceived
  <2>. QED
    BY <2>1, <2>2, <2>3 DEF PartReceived, RecordReceived
<1>4. ASSUME NEW m, MessageReceived(m) PROVE MessageReceived(m)'
  BY <1>3, <1>4 DEF MessageReceived, HasPayload
<1>. QED
  BY <1>1, <1>2, <1>3, <1>4

\* No handler carries a message that did not before.
CarriedStay ==
  /\ \A h \in flight' : Message(h) \/ Told(h) => h \in flight
  /\ \A m : OnceCarried(m) => OnceCarried(m)'

LEMMA MarkedCarried == ASSUME MarkedStay PROVE CarriedStay
<1>1. \A m : OnceCarried(m) => OnceCarried(m)'
  BY MarkedOnce
<1>2. \A h \in flight' : Message(h) \/ Told(h) => h \in flight
  BY DEF MarkedStay, Marked
<1>. QED
  BY <1>1, <1>2 DEF CarriedStay

\* The parts of Above, by what a step does to the messages.
LEMMA OpenedStays ==
  ASSUME Opened, MarkedStay, push_cs' # "NONE" => push_cs # "NONE",
         Has("CODEC")' = Has("CODEC"),
         connection_state' = "OPENING" => connection_state = "OPENING",
         layer_state'["USER"] = "CONNECTED" => layer_state["USER"] = "CONNECTED",
         OpenOrLater => OpenOrLater',
         push_cs' # "NONE" /\ Has("TLS")' =>
           Has("TLS") /\ (logic_handler = "DATA" => logic_handler' = "DATA")
  PROVE  Opened'
<1>1. OnceConnected'
  BY MarkedOnce DEF Opened
<1>2. \A h \in flight' : Message(h) \/ Connected(h) => h \in flight
  BY DEF MarkedStay, Marked
<1>3. /\ push_cs' # "NONE" \/ layer_state'["USER"] = "CONNECTED" => OpenOrLater'
      /\ push_cs' # "NONE" /\ Has("TLS")' => logic_handler' = "DATA"
      /\ push_cs' # "NONE" => Has("CODEC")' /\ connection_state' # "OPENING"
  BY DEF Opened
<1>4. ASSUME NEW h \in flight'
      PROVE  /\ Message(h) => OpenOrLater' /\ connection_state' # "OPENING"
             /\ Connected(h) =>
                  /\ h.layer = "USER" => OpenOrLater'
                  /\ push_cs' = "NONE" /\ layer_state'["USER"] # "CONNECTED"
                  /\ \A g \in flight' : ~Message(g)
  BY <1>2 DEF Opened
<1>. QED
  BY <1>1, <1>3, <1>4 DEF Opened, Message, Connected

LEMMA PlacesStay ==
  ASSUME Places, CarriedStay, UNCHANGED <<task_queue, confirmed, sent>>
  PROVE  Places'
<1>1. ASSUME NEW m \in UserMessages PROVE OnePlace(m)'
  <2>1. OnePlace(m)
    BY DEF Places
  <2>2. OnceCarried(m)'
    BY <2>1 DEF OnePlace, CarriedStay
  <2>3. \A h \in flight' : Carries(h, m) => h \in flight
    BY DEF CarriedStay, Carries
  <2>4. Waits(m)' <=> Waits(m)
    BY DEF Waits
  <2>. QED
    BY <2>1, <2>2, <2>3, <2>4 DEF OnePlace, Carries, Message, Told
<1>. QED
  BY <1>1 DEF Places

LEMMA HandedStays ==
  ASSUME Handed, UNCHANGED <<task_queue, push_cs>>, Receives,
         CanServe("CODEC")' => CanServe("CODEC"),
         CanServe("CODEC") =>
           /\ to_write_buffer' # NULL => to_write_buffer'.data = InHand
           /\ \A h \in flight' : Handing(h) => h.data = InHand
           /\ \A h \in flight' : PartDone(h) => h \in flight \/ PartReceived(InHand)
  PROVE  Handed'
<1>1. InHand' = InHand
  BY DEF InHand, HasPayload
<1>2. \A data : PartReceived(data) => PartReceived(data)'
  BY ReceivedStay
<1>3. PartReceived(InHand) => PartReceived(InHand)'
  <2>1. PICK data : data = InHand
    OBVIOUS
  <2>2. PartReceived(InHand)' <=> PartReceived(data)'
    BY <1>1, <2>1 DEF PartReceived, RecordReceived, RecordsOf, IsCut
  <2>. QED
    BY <1>2, <2>1, <2>2
<1>4. /\ push_cs' \in {"NONE", "HEADER", "PAYLOAD"}
      /\ push_cs' = "NONE" => task_queue' = <<>>
      /\ CanServe("CODEC")' /\ push_cs' # "NONE" => task_queue' # <<>>
  BY DEF Handed
<1>5. CanServe("CODEC")' /\ push_cs' = "PAYLOAD" =>
        /\ HasPayload(Head(task_queue'))
        /\ PartReceived([msg |-> Head(task_queue), last |-> FALSE])'
  BY <1>2 DEF Handed
<1>6. CanServe("CODEC")' =>
        /\ to_write_buffer' # NULL => to_write_buffer'.data = InHand
        /\ \A h \in flight' : /\ Handing(h) => h.data = InHand
                              /\ PartDone(h) => PartReceived(InHand)'
  BY <1>3 DEF Handed
<1>. QED
  BY <1>1, <1>4, <1>5, <1>6 DEF Handed, Handing, PartDone, HasPayload

LEMMA ReportedStays ==
  ASSUME Reported, Receives, confirmed' = confirmed,
         \A h \in flight' :
           Told(h) /\ h.state = "WRITTEN" => h \in flight \/ MessageReceived(h.data)
  PROVE  Reported'
<1>1. \A m : MessageReceived(m) => MessageReceived(m)'
  BY ReceivedStay
<1>2. \A m \in UserMessages : confirmed'[m] = <<"WRITTEN">> => MessageReceived(m)'
  BY <1>1 DEF Reported
<1>3. \A h \in flight' : Told(h) /\ h.state = "WRITTEN" => MessageReceived(h.data)'
  BY <1>1 DEF Reported
<1>. QED
  BY <1>2, <1>3 DEF Reported, Told

\* A step that leaves the messages to the codec where they are.
LEMMA AboveStays ==
  ASSUME Above, MarkedStay, UNCHANGED <<task_queue, push_cs, confirmed, sent>>, Receives,
         Has("CODEC")' = Has("CODEC"),
         connection_state' = "OPENING" => connection_state = "OPENING",
         layer_state'["USER"] = "CONNECTED" => layer_state["USER"] = "CONNECTED",
         OpenOrLater => OpenOrLater', CanServe("CODEC")' => CanServe("CODEC"),
         push_cs # "NONE" /\ Has("TLS")' =>
           Has("TLS") /\ (logic_handler = "DATA" => logic_handler' = "DATA"),
         CanServe("CODEC") =>
           /\ to_write_buffer' # NULL => to_write_buffer'.data = InHand
           /\ \A h \in flight' : Handing(h) => h.data = InHand
           /\ \A h \in flight' : PartDone(h) => h \in flight \/ PartReceived(InHand)
  PROVE  Above'
<1>1. Opened /\ Places /\ Handed /\ Reported /\ CarriedStay
  BY MarkedCarried DEF Above
<1>2. Opened'
  BY <1>1, OpenedStays
<1>3. Places'
  BY <1>1, PlacesStay
<1>4. Handed'
  BY <1>1, HandedStays
<1>5. Reported'
  BY <1>1, ReportedStays DEF CarriedStay
<1>. QED
  BY <1>2, <1>3, <1>4, <1>5 DEF Above

\* h has to do with no message and does not tell that the connection is open.
Cold(h) == ~Marked(h) /\ ~Handing(h) /\ ~PartDone(h)

\* What the codec and the user keep when another layer runs.
OthersKept ==
  /\ UNCHANGED <<task_queue, push_cs, confirmed, sent, connection_state>>
  /\ Has("CODEC")' = Has("CODEC")
  /\ push_cs # "NONE" /\ Has("TLS")' =>
       Has("TLS") /\ (logic_handler = "DATA" => logic_handler' = "DATA")
  /\ Receives

\* What is written is still the part in hand.
BufferKept == CanServe("CODEC") /\ to_write_buffer' # NULL => to_write_buffer'.data = InHand

\* A step of another layer.
LEMMA AboveElsewhere ==
  ASSUME Above, OthersKept, BufferKept,
         layer_state'["USER"] = layer_state["USER"], layer_state'["CODEC"] = layer_state["CODEC"],
         MarkedStay, NEW new, flight' \subseteq flight \cup new,
         \A h \in new :
           /\ ~Handing(h)
           /\ PartDone(h) => (CanServe("CODEC") => PartReceived(InHand))
  PROVE  Above'
<1>1. CanServe("CODEC")' <=> CanServe("CODEC")
  BY DEF CanServe, NotOperational, OthersKept, Has
<1>2. OpenOrLater' <=> OpenOrLater
  BY DEF OpenOrLater
<1>3. CanServe("CODEC") =>
        /\ \A h \in flight' : Handing(h) => h.data = InHand
        /\ \A h \in flight' : PartDone(h) => h \in flight \/ PartReceived(InHand)
  BY DEF Above, Handed
<1>4. /\ UNCHANGED <<task_queue, push_cs, confirmed, sent>> /\ Receives
      /\ Has("CODEC")' = Has("CODEC") /\ connection_state' = connection_state
      /\ push_cs # "NONE" /\ Has("TLS")' =>
           Has("TLS") /\ (logic_handler = "DATA" => logic_handler' = "DATA")
  BY DEF OthersKept
<1>. QED
  BY <1>1, <1>2, <1>3, <1>4, AboveStays DEF BufferKept

\* The same by what is called and queued.
LEMMA AboveReturns ==
  ASSUME IInv, Above, OthersKept, BufferKept, Runs, Running.layer \notin {"CODEC", "USER"}
  PROVE  /\ Returns(<<>>, <<>>) => Above'
         /\ \A h : Returns(<<>>, <<h>>) /\ ~Marked(h) /\ ~Handing(h)
                     /\ (PartDone(h) => (CanServe("CODEC") => PartReceived(InHand))) => Above'
         /\ \A h : Returns(<<h>>, <<>>) /\ Cold(h) => Above'
         /\ \A a, b : Returns(<<>>, <<a, b>>) /\ Cold(a) /\ Cold(b) => Above'
         /\ Leaves(<<>>, <<>>) /\ layer_state' = layer_state => Above'
         /\ \A h : Leaves(<<h>>, <<>>) /\ layer_state' = layer_state /\ Cold(h) => Above'
         /\ \A h : Leaves(<<>>, <<h>>) /\ layer_state' = layer_state /\ Cold(h) => Above'
         /\ Aborts => Above'
         /\ GoesOn => Above'
<1>1. Shape /\ "CODEC" \in Layers /\ "USER" \in Layers
  BY Neighbours DEF IInv
<1>2. /\ Leaves(<<>>, <<>>) => MarkedStay /\ flight' \subseteq flight
      /\ \A h : Leaves(<<>>, <<h>>) => flight' \subseteq flight \cup {h}
      /\ \A h : ~Marked(h) /\ Leaves(<<>>, <<h>>) => MarkedStay
      /\ \A h : Leaves(<<h>>, <<>>) => flight' \subseteq flight \cup {h}
      /\ \A h : ~Marked(h) /\ Leaves(<<h>>, <<>>) => MarkedStay
      /\ \A a, b : Leaves(<<>>, <<a, b>>) => flight' \subseteq flight \cup {a, b}
      /\ \A a, b : ~Marked(a) /\ ~Marked(b) /\ Leaves(<<>>, <<a, b>>) => MarkedStay
  BY <1>1, FlowUnmarked
<1>3. \A queued, direct : Returns(direct, queued) =>
        /\ Leaves(direct, queued)
        /\ layer_state'["USER"] = layer_state["USER"]
        /\ layer_state'["CODEC"] = layer_state["CODEC"]
  BY <1>1, ReturnsAny
<1>4. ASSUME NEW new, flight' \subseteq flight \cup new, MarkedStay,
             layer_state'["USER"] = layer_state["USER"],
             layer_state'["CODEC"] = layer_state["CODEC"],
             \A h \in new : /\ ~Handing(h)
                            /\ PartDone(h) => (CanServe("CODEC") => PartReceived(InHand))
      PROVE  Above'
  BY <1>4, AboveElsewhere
<1>5. Leaves(<<>>, <<>>) /\ layer_state'["USER"] = layer_state["USER"]
        /\ layer_state'["CODEC"] = layer_state["CODEC"] => Above'
  <2>1. PICK none : none = {}
    OBVIOUS
  <2>. QED
    BY <1>2, <1>4, <2>1
<1>6. ASSUME NEW h, Leaves(<<>>, <<h>>), ~Marked(h), ~Handing(h),
             PartDone(h) => (CanServe("CODEC") => PartReceived(InHand)),
             layer_state'["USER"] = layer_state["USER"],
             layer_state'["CODEC"] = layer_state["CODEC"]
      PROVE  Above'
  <2>1. MarkedStay /\ flight' \subseteq flight \cup {h}
    BY <1>2, <1>6
  <2>. QED
    BY <1>4, <1>6, <2>1
<1>7. ASSUME NEW h, Leaves(<<h>>, <<>>), Cold(h), layer_state'["USER"] = layer_state["USER"],
             layer_state'["CODEC"] = layer_state["CODEC"]
      PROVE  Above'
  <2>1. MarkedStay /\ flight' \subseteq flight \cup {h}
    BY <1>2, <1>7 DEF Cold
  <2>. QED
    BY <1>4, <1>7, <2>1 DEF Cold
<1>8. ASSUME NEW a, NEW b, Returns(<<>>, <<a, b>>), Cold(a), Cold(b) PROVE Above'
  <2>1. Leaves(<<>>, <<a, b>>) /\ layer_state'["USER"] = layer_state["USER"]
          /\ layer_state'["CODEC"] = layer_state["CODEC"]
    BY <1>3, <1>8
  <2>2. MarkedStay /\ flight' \subseteq flight \cup {a, b}
    BY <1>2, <1>8, <2>1 DEF Cold
  <2>. QED
    BY <1>4, <1>8, <2>1, <2>2 DEF Cold
<1>9. ASSUME UNCHANGED <<stack, queue, layer_state>> PROVE Above'
  <2>1. inFlight' = inFlight /\ flight' = flight
    BY <1>9 DEF flight, inFlight
  <2>2. ASSUME NEW S, OnceIn(S) PROVE OnceIn(S)'
    BY <2>1, <2>2 DEF OnceIn
  <2>3. MarkedStay
    BY <2>1, <2>2 DEF MarkedStay
  <2>4. PICK none : none = {}
    OBVIOUS
  <2>. QED
    BY <1>4, <1>9, <2>1, <2>3, <2>4
<1>10. Returns(<<>>, <<>>) => Above'
  BY <1>3, <1>5
<1>11. ASSUME NEW h, Returns(<<>>, <<h>>), ~Marked(h), ~Handing(h),
              PartDone(h) => (CanServe("CODEC") => PartReceived(InHand))
       PROVE  Above'
  BY <1>3, <1>6, <1>11
<1>12. ASSUME NEW h, Returns(<<h>>, <<>>), Cold(h) PROVE Above'
  BY <1>3, <1>7, <1>12
<1>13. (Aborts => Above') /\ (GoesOn => Above')
  BY <1>9 DEF Aborts, GoesOn
<1>14. ASSUME NEW h, Leaves(<<>>, <<h>>), layer_state' = layer_state, Cold(h) PROVE Above'
  BY <1>6, <1>14 DEF Cold
<1>15. ASSUME NEW h, Leaves(<<h>>, <<>>), layer_state' = layer_state, Cold(h) PROVE Above'
  BY <1>7, <1>15
<1>16. Leaves(<<>>, <<>>) /\ layer_state' = layer_state => Above'
  BY <1>5
<1>. QED
  BY <1>8, <1>10, <1>11, <1>12, <1>13, <1>14, <1>15, <1>16

LEMMA NetAbove ==
  ASSUME IInv, Above, NetNext, UNCHANGED <<codecVars, tlsVars, userVars>>
  PROVE  Above'
<1>1. Runs /\ Running.layer = "IO"
  BY RunsIt
     DEF NetNext, IoInit, IoConnectStart, IoConnectResume, IoPush, IoPushBusy, IoPushDropped,
         IoPull, IoPullReset, IoClose, IoCloseExternally
<1>2. received \subseteq received'
  BY DEF netVars, NetNext, IoInit, IoConnectStart, IoConnectResume, IoPush, IoPushBusy,
         IoPushDropped, IoPull, IoPullReset, IoClose, IoCloseExternally, ServerReceives
<1>3. /\ UNCHANGED <<task_queue, push_cs, confirmed, sent, logic_handler, to_write_buffer,
                     tls_library>>
  BY DEF codecVars, tlsVars, layerVars, userVars
<1>4. connection_state' = connection_state /\ Has("CODEC")' = Has("CODEC")
        /\ Has("TLS")' = Has("TLS")
  BY DEF Has, sharedUnchanged, NetNext, IoInit, IoConnectStart, IoConnectResume, IoPush, IoPushBusy,
         IoPushDropped, IoPull, IoPullReset, IoClose, IoCloseExternally
<1>5. OthersKept /\ BufferKept
  BY <1>2, <1>3, <1>4 DEF OthersKept, BufferKept, Receives, Above, Handed
<1>6. /\ Returns(<<>>, <<>>) => Above'
      /\ \A h : Returns(<<>>, <<h>>) /\ Cold(h) => Above'
      /\ Aborts => Above'
  BY <1>1, <1>5, AboveReturns DEF Cold
<1>7. /\ \A fn, data, state : Cold(Handle(fn, "IO", data, state))
      /\ \A data : Cold(OnNext("IO", "push", data, "WRITTEN"))
      /\ \A fn, data, state : fn # "push" => Cold(OnNext("IO", fn, data, state))
  BY Neighbours, HandlerFields DEF OnNext, Cold, Marked, Connected, Message, Told, Handing, PartDone
<1>. QED
  BY <1>6, <1>7
     DEF NetNext, IoInit, IoConnectStart, IoConnectResume, IoPush, IoPushBusy, IoPushDropped,
         IoPull, IoPullReset, IoClose, IoCloseExternally

\* What is written is as far as it was, or further.
LEMMA ProgressStays ==
  ASSUME Progress, Receives, to_write_buffer' \in {to_write_buffer, NULL},
         to_write_buffer # NULL /\ Has("TLS")' /\ logic_handler' = "DATA" =>
           /\ Has("TLS") /\ logic_handler = "DATA"
           /\ write_state' = "WRITTEN" => write_state = "WRITTEN" \/ Reached
           /\ Busy' => RecordIs(on_socket')
           /\ \A h \in flight' :
                /\ h.layer = "IO" /\ h.fn = "push" => RecordIs(h)
                /\ RecordDone(h) =>
                     h \in flight \/ RecordReceived(to_write_buffer.data, to_write_buffer.left - 1)'
  PROVE  Progress'
<1>. SUFFICES ASSUME to_write_buffer' # NULL PROVE Progress'
  BY DEF Progress
<1>1. to_write_buffer' = to_write_buffer /\ to_write_buffer # NULL
  OBVIOUS
<1>2. PICK data, left : data = to_write_buffer.data /\ left = to_write_buffer.left
  OBVIOUS
<1>3. /\ RecordsOf(data)' = RecordsOf(data)
      /\ \A l : RecordReceived(data, l) => RecordReceived(data, l)'
  BY ReceivedStay
<1>4. /\ left \in 1..RecordsOf(data)
      /\ \A l \in left..RecordsOf(data) - 1 : RecordReceived(data, l)
      /\ Has("TLS") /\ logic_handler = "DATA" =>
           /\ write_state = "WRITTEN" => RecordReceived(data, left - 1)
           /\ \A h \in flight : RecordDone(h) => RecordReceived(data, left - 1)
  BY <1>1, <1>2 DEF Progress, Reached
<1>5. /\ left \in 1..RecordsOf(data)'
      /\ \A l \in left..RecordsOf(data)' - 1 : RecordReceived(data, l)'
  BY <1>3, <1>4
<1>6. ASSUME Has("TLS")', logic_handler' = "DATA"
      PROVE  /\ write_state' = "WRITTEN" => RecordReceived(data, left - 1)'
             /\ Busy' => RecordIs(on_socket')
             /\ \A h \in flight' :
                  /\ h.layer = "IO" /\ h.fn = "push" => RecordIs(h)
                  /\ RecordDone(h) => RecordReceived(data, left - 1)'
  <2>1. RecordReceived(to_write_buffer.data, to_write_buffer.left - 1)' =>
          RecordReceived(data, left - 1)'
    BY <1>1, <1>2 DEF RecordReceived
  <2>. QED
    BY <1>1, <1>2, <1>3, <1>4, <1>6, <2>1 DEF Reached
<1>7. /\ \A h : RecordIs(h) <=> RecordIs(h)'
      /\ RecordIs(on_socket') <=> RecordIs(on_socket)'
      /\ Reached' <=> RecordReceived(data, left - 1)'
  BY <1>1, <1>2 DEF RecordIs, Record, Reached, TlsRecord, RecordReceived
<1>8. /\ to_write_buffer'.left \in 1..RecordsOf(to_write_buffer.data)'
      /\ \A l \in to_write_buffer'.left..RecordsOf(to_write_buffer.data)' - 1 :
           RecordReceived(to_write_buffer.data, l)'
  <2>1. RecordsOf(to_write_buffer.data)' = RecordsOf(data)'
    BY <1>1, <1>2 DEF RecordsOf
  <2>2. \A l : RecordReceived(to_write_buffer.data, l)' <=> RecordReceived(data, l)'
    BY <1>1, <1>2 DEF RecordReceived
  <2>. QED
    BY <1>1, <1>2, <1>5, <2>1, <2>2
<1>9. Has("TLS")' /\ logic_handler' = "DATA" =>
        /\ write_state' = "WRITTEN" => Reached'
        /\ Busy' => RecordIs(on_socket)'
        /\ \A h \in flight' :
             /\ h.layer = "IO" /\ h.fn = "push" => RecordIs(h)'
             /\ RecordDone(h) => Reached'
  BY <1>6, <1>7
<1>. QED
  BY <1>8, <1>9 DEF Progress, RecordDone

\* Handlers that have to do with no message.
LEMMA ColdOnes ==
  \A h :
    \/ h.layer \in {"IO", "RESOURCE"}
    \/ h.layer = "TLS" /\ h.fn # "push"
    \/ h.layer \in {"CODEC", "USER"} /\ h.fn \in {"init", "pull", "close", "close_externally"}
    \/ h.layer = "CODEC" /\ h.fn = "connect" /\ h.state # "OK"
    \/ h.layer = "CODEC" /\ h.fn = "push" /\ h.state = "FAILED_WRITING"
    => Cold(h)
BY DEF Cold, Marked, Connected, Message, Told, Handing, PartDone

LEMMA TlsKeepsOthers ==
  ASSUME Above, aroundTls, tlsSharedUnchanged, user_data' = user_data,
         logic_handler' \in {logic_handler, "DATA"},
         \/ to_write_buffer' \in {to_write_buffer, NULL}
         \/ to_write_buffer # NULL /\ to_write_buffer'.data = to_write_buffer.data
  PROVE  OthersKept /\ BufferKept
<1>1. /\ UNCHANGED <<task_queue, push_cs, confirmed, sent, connection_state>>
      /\ received' = received /\ tls_library' = tls_library
  BY DEF aroundTls, tlsSharedUnchanged, netVars, codecVars, userVars
<1>2. OthersKept
  BY <1>1 DEF OthersKept, Receives, Has
<1>3. BufferKept
  BY DEF BufferKept, Above, Handed
<1>. QED
  BY <1>2, <1>3

\* The init of the layer and its resumptions: nothing is written yet.
LEMMA TlsInitAbove ==
  ASSUME IInv, Above, aroundTls, TlsInit \/ TlsInitOpened \/ TlsInitRead \/ TlsInitClosed
  PROVE  Above'
<1>1. /\ Runs /\ Running.fn = "init" /\ Running.layer = "TLS" /\ tlsSharedUnchanged
      /\ to_write_buffer' = to_write_buffer /\ Has("CODEC")' = Has("CODEC")
  BY RunsIt DEF TlsInit, TlsInitOpened, TlsInitRead, TlsInitClosed, ResumesInit, restOfInit, Has
<1>2. push_cs = "NONE"
  <2>1. connection_state = "OPENING"
    BY <1>1, RunningFits DEF Fits, Lone, Opening
  <2>. QED
    BY <2>1 DEF Above, Opened
<1>3. OthersKept
  BY <1>1, <1>2
     DEF OthersKept, Receives, aroundTls, tlsSharedUnchanged, netVars, codecVars, userVars
<1>4. BufferKept
  BY <1>1 DEF BufferKept, Above, Handed
<1>5. \A h : Returns(<<>>, <<h>>) /\ Cold(h) => Above'
  BY <1>1, <1>3, <1>4, AboveReturns DEF Cold
<1>6. /\ \A fn : Cold(Coroutine(fn))
      /\ \A state : Cold(Tls("connect", state))
      /\ Cold(OnPrev("TLS", "init", NULL, "OK"))
  BY ColdOnes, HandlerFields, Neighbours DEF Coroutine, Tls, OnPrev
<1>7. /\ \A context, fn, callback : Asks(context, fn, callback) => Above'
      /\ \A reason : InitFails(reason) => Above'
  BY <1>5, <1>6 DEF Asks, InitFails
<1>8. CASE TlsInit
  BY <1>5, <1>6, <1>7, <1>8 DEF TlsInit, CannotOpen
<1>9. CASE TlsInitOpened
  BY <1>7, <1>9 DEF TlsInitOpened
<1>10. CASE TlsInitRead
  BY <1>7, <1>10 DEF TlsInitRead
<1>11. CASE TlsInitClosed
  BY <1>5, <1>6, <1>7, <1>11 DEF TlsInitClosed
<1>. QED
  BY <1>8, <1>9, <1>10, <1>11

\* A record that the library makes, and its failures.
LEMMA LibraryAbove ==
  ASSUME IInv, Above, Runs, Running.layer = "TLS", OthersKept, BufferKept
  PROVE  /\ \A record : SendsRecord(record) => Above'
         /\ Aborts => Above'
         /\ \A reason, records :
              GivesUp(reason, records) /\ records \in {<<>>, <<HandedOver(Alert)>>} => Above'
         /\ \A session, h : /\ Returns(<<>>, PullsAgain(session) \o <<h>>)
                            /\ Cold(h)
                            => Above'
<1>1. /\ Returns(<<>>, <<>>) => Above'
      /\ \A h : Returns(<<>>, <<h>>) /\ Cold(h) => Above'
      /\ \A a, b : Returns(<<>>, <<a, b>>) /\ Cold(a) /\ Cold(b) => Above'
      /\ Aborts => Above'
  <2>1. "TLS" \notin {"CODEC", "USER"}
    OBVIOUS
  <2>. QED
    BY <2>1, AboveReturns DEF Cold
<1>2. /\ \A data, state : Cold(OnPrev("TLS", "push", data, state))
      /\ \A state : Cold(Tls("close", state)) /\ Cold(Tls("pull", state))
  BY ColdOnes, HandlerFields, Neighbours DEF Tls, OnPrev
<1>3. ASSUME NEW record, SendsRecord(record) PROVE Above'
  BY <1>1, <1>2, <1>3 DEF SendsRecord, HandedOver
<1>4. ASSUME NEW reason, NEW records, GivesUp(reason, records),
             records \in {<<>>, <<HandedOver(Alert)>>}
      PROVE  Above'
  <2>1. PICK a, c : /\ Cold(a) /\ Cold(c)
                    /\ \/ Returns(<<>>, <<a>> \o <<c>>)
                       \/ Returns(<<>>, <<>> \o <<c>>)
    BY <1>2, <1>4 DEF GivesUp, HandedOver
  <2>2. Returns(<<>>, <<a, c>>) \/ Returns(<<>>, <<c>>)
    <3>1. <<a>> \o <<c>> = <<a, c>> /\ <<>> \o <<c>> = <<c>>
      BY TwoOfOne
    <3>2. CASE Returns(<<>>, <<a>> \o <<c>>)
      BY <3>1, <3>2
    <3>3. CASE Returns(<<>>, <<>> \o <<c>>)
      BY <3>1, <3>3
    <3>. QED
      BY <2>1, <3>2, <3>3
  <2>. QED
    BY <1>1, <2>1, <2>2
<1>5. ASSUME NEW session, NEW h, Returns(<<>>, PullsAgain(session) \o <<h>>), Cold(h) PROVE Above'
  <2>1. PICK p : p = Tls("pull", "WANT_READ")
    OBVIOUS
  <2>2. Returns(<<>>, <<p>> \o <<h>>) \/ Returns(<<>>, <<>> \o <<h>>)
    BY <1>5, <2>1 DEF PullsAgain
  <2>3. Returns(<<>>, <<p, h>>) \/ Returns(<<>>, <<h>>)
    <3>1. <<p>> \o <<h>> = <<p, h>> /\ <<>> \o <<h>> = <<h>>
      BY TwoOfOne
    <3>2. CASE Returns(<<>>, <<p>> \o <<h>>)
      BY <3>1, <3>2
    <3>3. CASE Returns(<<>>, <<>> \o <<h>>)
      BY <3>1, <3>3
    <3>. QED
      BY <2>2, <3>2, <3>3
  <2>. QED
    BY <1>1, <1>2, <1>5, <2>1, <2>3
<1>. QED
  BY <1>1, <1>3, <1>4, <1>5

LEMMA ConnectAbove ==
  ASSUME IInv, Above, aroundTls, ConnectWrites \/ ConnectReads \/ ConnectAgain
  PROVE  Above'
<1>1. /\ Runs /\ Running.layer = "TLS" /\ tlsSharedUnchanged /\ user_data' = user_data
      /\ UNCHANGED <<logic_handler, to_write_buffer>>
  BY RunsIt
     DEF ConnectWrites, ConnectReads, ConnectAgain, Handshaking, InHandler, dataUnchanged
<1>2. OthersKept /\ BufferKept
  BY <1>1, TlsKeepsOthers
<1>3. /\ \A record : SendsRecord(record) => Above'
      /\ \A reason, records :
           GivesUp(reason, records) /\ records \in {<<>>, <<HandedOver(Alert)>>} => Above'
      /\ Returns(<<>>, <<>>) => Above'
      /\ GoesOn => Above'
  BY <1>1, <1>2, AboveReturns, LibraryAbove
<1>4. ASSUME HandshakeFails PROVE Above'
  BY <1>3, <1>4 DEF HandshakeFails
<1>. QED
  BY <1>3, <1>4 DEF ConnectWrites, ConnectReads, ConnectAgain

LEMMA RecvAbove ==
  ASSUME IInv, Above, aroundTls, RecvHandler
  PROVE  Above'
<1>1. /\ Runs /\ Running.layer = "TLS" /\ tlsSharedUnchanged /\ user_data' = user_data
      /\ UNCHANGED <<logic_handler, to_write_buffer>>
  BY RunsIt
     DEF RecvHandler, RecvWaits, RecvReads, RecvDelivers, RecvFails, RecvLacksMemory, InHandler,
         dataUnchanged
<1>2. OthersKept /\ BufferKept
  BY <1>1, TlsKeepsOthers
<1>3. /\ \A session, h : Returns(<<>>, PullsAgain(session) \o <<h>>) /\ Cold(h) => Above'
      /\ \A h : Returns(<<>>, <<h>>) /\ Cold(h) => Above'
      /\ Returns(<<>>, <<>>) => Above'
      /\ GoesOn => Above'
  BY <1>1, <1>2, AboveReturns, LibraryAbove DEF Cold
<1>4. /\ \A data : Cold(OnNext("TLS", "pull", data, "OK"))
      /\ \A state : Cold(Tls("close", state))
  BY ColdOnes, HandlerFields, Neighbours DEF Tls, OnNext
<1>. QED
  BY <1>3, <1>4 DEF RecvHandler, RecvWaits, RecvReads, RecvDelivers, RecvFails, RecvLacksMemory

\* What is reported written to the codec was written.
LEMMA SendAbove ==
  ASSUME IInv, Above, Progress, aroundTls,
         SendWrites \/ SendWritten \/ SendFails
  PROVE  Above'
<1>1. /\ Runs /\ Running.layer = "TLS" /\ tlsSharedUnchanged /\ user_data' = user_data
      /\ logic_handler' = logic_handler /\ InHandler("send_handler")
  BY RunsIt DEF SendWrites, SendWritten, SendFails, InHandler, dataUnchanged
<1>2. Has("TLS") /\ logic_handler = "DATA" /\ to_write_buffer # NULL /\ IsBuffer(to_write_buffer)
  BY <1>1, InHandlerHas DEF Session
<1>3. \/ to_write_buffer' \in {to_write_buffer, NULL}
      \/ to_write_buffer # NULL /\ to_write_buffer'.data = to_write_buffer.data
  BY <1>2 DEF SendWrites, SendWritten, SendFails, WrittenState, IsBuffer
<1>4. OthersKept /\ BufferKept
  BY <1>1, <1>3, TlsKeepsOthers
<1>5. /\ \A record : SendsRecord(record) => Above'
      /\ \A h : Returns(<<>>, <<h>>) /\ ~Marked(h) /\ ~Handing(h)
                  /\ (PartDone(h) => (CanServe("CODEC") => PartReceived(InHand))) => Above'
      /\ Aborts => Above'
      /\ GoesOn => Above'
  BY <1>1, <1>4, AboveReturns, LibraryAbove
<1>6. ASSUME NEW state, WrittenState(state), state \in {"WRITTEN", "FAILED_WRITING"},
             state = "WRITTEN" => (CanServe("CODEC") => PartReceived(InHand))
      PROVE  Above'
  <2>1. PICK h : h = OnNext("TLS", "push", NULL, state)
    OBVIOUS
  <2>2. h.layer = "CODEC" /\ h.fn = "push" /\ h.state = state /\ Returns(<<>>, <<h>>)
    BY <1>6, <2>1, HandlerFields, Neighbours DEF WrittenState, OnNext
  <2>3. /\ ~Marked(h) /\ ~Handing(h)
        /\ PartDone(h) => (CanServe("CODEC") => PartReceived(InHand))
    BY <1>6, <2>2 DEF Marked, Connected, Message, Told, Handing, PartDone
  <2>. QED
    BY <1>5, <2>2, <2>3
<1>7. CASE SendWrites
  BY <1>5, <1>7 DEF SendWrites
<1>8. CASE SendFails
  BY <1>6, <1>8 DEF SendFails
<1>9. CASE SendWritten
  <2>1. CASE GoesOn
    BY <1>5, <2>1
  <2>2. CASE WriteReturns(to_write_buffer.left - 1) /\ WrittenState("WRITTEN")
    <3>1. PICK data, left : data = to_write_buffer.data /\ left = to_write_buffer.left
      OBVIOUS
    <3>2. /\ left \in 1..RecordsOf(data)
          /\ \A l \in left..RecordsOf(data) - 1 : RecordReceived(data, l)
          /\ write_state = "WRITTEN" => RecordReceived(data, left - 1)
      BY <1>2, <3>1 DEF Progress, Reached
    <3>3. write_state = "WRITTEN"
      BY <1>9 DEF SendWritten, RecordWritten
    <3>4. \A l \in left - 1..RecordsOf(data) - 1 : RecordReceived(data, l)
      <4>1. \A l \in left - 1..RecordsOf(data) - 1 : l = left - 1 \/ l \in left..RecordsOf(data) - 1
        BY <3>2 DEF RecordsOf
      <4>. QED
        BY <3>2, <3>3, <4>1
    <3>5. PartReceived(data)
      <4>1. RecordsOf(data) - 1 \in left - 1..RecordsOf(data) - 1
        BY <3>2 DEF RecordsOf
      <4>2. ~IsCut(data) => left - 1 = 0
        BY <2>2, <3>1, <3>2 DEF WriteReturns, RecordsOf, IsCut
      <4>3. ~IsCut(data) => \A l \in 0..RecordsOf(data) - 1 : RecordReceived(data, l)
        BY <3>4, <4>2
      <4>. QED
        BY <3>4, <4>1, <4>3 DEF PartReceived
    <3>6. CanServe("CODEC") => data = InHand
      BY <1>2, <3>1 DEF Above, Handed
    <3>. QED
      BY <1>6, <2>2, <3>5, <3>6
  <2>. QED
    BY <1>9, <2>1, <2>2 DEF SendWritten
<1>. QED
  BY <1>7, <1>8, <1>9

\* A part that the codec hands over is what is written.
LEMMA TlsPushAbove ==
  ASSUME IInv, Above, aroundTls,
         TlsPush \/ TlsPushWritten \/ TlsPushDropped \/ TlsPull \/ TlsPullDropped
  PROVE  Above'
<1>1. /\ Runs /\ Running.layer = "TLS" /\ tlsSharedUnchanged /\ user_data' = user_data
      /\ logic_handler' = logic_handler /\ Running \in flight
  BY RunsIt, RunningIsFirst
     DEF TlsPush, TlsPushWritten, TlsPushDropped, TlsPull, TlsPullDropped, dataUnchanged,
         layerUnchanged, layerVars, IInv
<1>2. OthersKept
  BY <1>1
     DEF OthersKept, Receives, aroundTls, tlsSharedUnchanged, netVars, codecVars, userVars, Has
<1>3. BufferKept
  <2>1. CASE to_write_buffer' = to_write_buffer
    BY <2>1 DEF BufferKept, Above, Handed
  <2>2. CASE TlsPush /\ to_write_buffer' # to_write_buffer
    <3>1. to_write_buffer'.data = Running.data /\ Handing(Running)
      BY <2>2, RunsIt DEF TlsPush, Handing
    <3>. QED
      BY <1>1, <3>1 DEF BufferKept, Above, Handed
  <2>. QED
    BY <2>1, <2>2
       DEF TlsPush, TlsPushWritten, TlsPushDropped, TlsPull, TlsPullDropped, layerUnchanged,
           layerVars
<1>4. /\ \A h : Returns(<<h>>, <<>>) /\ Cold(h) => Above'
      /\ \A h : Returns(<<>>, <<h>>) /\ Cold(h) => Above'
      /\ Returns(<<>>, <<>>) => Above'
      /\ Aborts => Above'
  BY <1>1, <1>2, <1>3, AboveReturns DEF Cold
<1>5. \A fn, state : fn # "push" => Cold(Tls(fn, state))
  BY ColdOnes, HandlerFields DEF Tls
<1>6. \A handler : handler # "push" /\ CallsLogicHandler(handler) => Above'
  BY <1>4, <1>5 DEF CallsLogicHandler
<1>. QED
  BY <1>4, <1>5, <1>6 DEF TlsPush, TlsPushWritten, TlsPushDropped, TlsPull, TlsPullDropped

LEMMA TlsCloseAbove ==
  ASSUME IInv, Above, aroundTls, TlsConnect \/ TlsClose \/ TlsCloseFile \/ TlsCloseExternally
  PROVE  Above'
<1>1. Runs /\ Running.layer = "TLS" /\ tlsSharedUnchanged
  BY RunsIt DEF TlsConnect, TlsClose, TlsCloseFile, TlsCloseExternally
<1>2. OthersKept
  BY <1>1
     DEF OthersKept, Receives, aroundTls, tlsSharedUnchanged, netVars, codecVars, userVars, Has,
         TlsConnect, TlsClose, TlsCloseFile, TlsCloseExternally, layerUnchanged, layerVars
<1>3. BufferKept
  <2>1. to_write_buffer' \in {to_write_buffer, NULL}
    BY DEF TlsConnect, TlsClose, TlsCloseFile, TlsCloseExternally, layerUnchanged, layerVars,
           FreshLayer
  <2>. QED
    BY <2>1 DEF BufferKept, Above, Handed
<1>4. /\ \A h : Returns(<<h>>, <<>>) /\ Cold(h) => Above'
      /\ \A h : Returns(<<>>, <<h>>) /\ Cold(h) => Above'
  BY <1>1, <1>2, <1>3, AboveReturns DEF Cold
<1>5. /\ \A fn, state : fn # "push" => Cold(Tls(fn, state))
      /\ \A fn : Cold(Coroutine(fn))
      /\ \A state : Cold(OnPrev("TLS", "close", NULL, state))
      /\ \A state : Cold(OnNext("TLS", "close_externally", NULL, state))
      /\ \A state : state # "OK" => Cold(OnNext("TLS", "connect", NULL, state))
  BY ColdOnes, HandlerFields, Neighbours DEF Tls, OnPrev, OnNext, Coroutine
<1>6. CASE TlsConnect
  <2>1. Running.state = "OK" => CanServe("TLS")
    <3>1. Running.fn = "connect" /\ Fits(Running)
      BY <1>1, <1>6, RunningFits, RunsIt DEF TlsConnect
    <3>. QED
      BY <1>1, <3>1 DEF Fits, Placed, Dials
  <2>. QED
    BY <1>4, <1>5, <1>6, <2>1 DEF TlsConnect
<1>7. CASE TlsClose
  BY <1>4, <1>5, <1>7 DEF TlsClose
<1>8. CASE TlsCloseFile
  BY <1>4, <1>5, <1>8 DEF TlsCloseFile, Asks
<1>9. CASE TlsCloseExternally
  BY <1>4, <1>5, <1>9 DEF TlsCloseExternally, TellsTheEnd
<1>. QED
  BY <1>6, <1>7, <1>8, <1>9

\* The end of the handshake: nothing was written before.
LEMMA ConnectDoneAbove ==
  ASSUME IInv, Above, aroundTls, ConnectDone
  PROVE  Above'
<1>1. /\ Runs /\ Running.layer = "TLS" /\ tlsSharedUnchanged /\ user_data' = user_data
      /\ to_write_buffer' = to_write_buffer /\ logic_handler' = "DATA"
      /\ InHandler("connect_handler")
      /\ Returns(<<>>, PullsAgain(tls_context) \o <<OnNext("TLS", "connect", NULL, "OK")>>)
  BY RunsIt DEF ConnectDone, Handshaking, InHandler, dataUnchanged
<1>2. /\ Has("TLS") /\ Has("CODEC") /\ logic_handler = "CONNECT" /\ Shape
      /\ Running.layer \in Layers
  BY <1>1, InHandlerHas
<1>3. push_cs = "NONE" /\ layer_state["USER"] # "CONNECTED"
  BY <1>2 DEF Above, Opened, IInv, Down
<1>4. OthersKept /\ BufferKept
  BY <1>1, TlsKeepsOthers
<1>5. \A g \in flight : ~Connected(g) /\ ~Message(g)
  <2>1. ASSUME NEW g \in flight PROVE ~NeedsSession(g)
    BY <1>2 DEF IInv, Fits, Driven
  <2>. QED
    BY <2>1 DEF NeedsSession, Connected, Message
<1>6. PICK p, h : p = Tls("pull", "WANT_READ") /\ h = OnNext("TLS", "connect", NULL, "OK")
  OBVIOUS
<1>7. /\ p.layer = "TLS" /\ p.fn = "pull"
      /\ h.layer = "CODEC" /\ h.fn = "connect" /\ h.state = "OK"
  BY <1>6, HandlerFields, Neighbours DEF Tls, OnNext
<1>8. PICK queued, none : /\ none = <<>> /\ Returns(none, queued) /\ AnySeq(none)
                          /\ queued = <<p, h>> \/ queued = <<h>>
  <2>1. Returns(<<>>, <<p>> \o <<h>>) \/ Returns(<<>>, <<>> \o <<h>>)
    BY <1>1, <1>6 DEF PullsAgain
  <2>2. <<p>> \o <<h>> = <<p, h>> /\ <<>> \o <<h>> = <<h>>
    BY TwoOfOne
  <2>3. CASE Returns(<<>>, <<p>> \o <<h>>)
    <3>1. Returns(<<>>, <<p, h>>)
      BY <2>2, <2>3
    <3>. QED
      BY <3>1, AnyLiteral
  <2>4. CASE Returns(<<>>, <<>> \o <<h>>)
    <3>1. Returns(<<>>, <<h>>)
      BY <2>2, <2>4
    <3>. QED
      BY <3>1, AnyLiteral
  <2>. QED
    BY <2>1, <2>3, <2>4
<1>9. /\ AnySeq(queued)
      /\ \A i \in DOMAIN queued : queued[i] = h \/ (queued[i] = p /\ p # h)
      /\ \A i, j \in DOMAIN queued : queued[i] = h /\ queued[j] = h => i = j
  <2>1. CASE queued = <<p, h>>
    <3>1. AnySeq(queued) /\ DOMAIN queued = {1, 2} /\ queued[1] = p /\ queued[2] = h
      BY <2>1, AnyTwo
    <3>. QED
      BY <1>7, <3>1
  <2>2. CASE queued = <<h>>
    <3>1. AnySeq(queued) /\ DOMAIN queued = {1} /\ queued[1] = h
      BY <2>2, AnyLiteral
    <3>. QED
      BY <3>1
  <2>. QED
    BY <1>8, <2>1, <2>2
<1>10. Leaves(none, queued) /\ \A l \in Layers : l # "TLS" => layer_state'[l] = layer_state[l]
  BY <1>1, <1>2, <1>8, ReturnsAny
<1>11. flight' \subseteq others \cup {p, h}
  <2>1. flight' \subseteq others \cup {queued[i] : i \in DOMAIN queued}
    BY <1>1, <1>2, <1>8, <1>9, <1>10, FlowHandlers, AnyLiteral
  <2>. QED
    BY <1>9, <2>1
<1>12. others \subseteq flight
  BY <1>2, InFlight
<1>13. \A S : /\ OnceIn(S) /\ p \notin S
              /\ h \in S => \A g \in flight : g \notin S
              => OnceIn(S)'
  <2>1. ASSUME NEW S, OnceIn(S), p \notin S, h \in S => \A g \in flight : g \notin S
        PROVE  OnceIn(S)'
    <3>1. DOMAIN none = {}
      BY <1>8, AnyLiteral
    <3>2. \/ \A i \in DOMAIN queued : queued[i] \notin S
          \/ /\ \A g \in others : g \notin S
             /\ \A i, j \in DOMAIN queued : queued[i] \in S /\ queued[j] \in S => i = j
      BY <1>9, <1>12, <2>1
    <3>. QED
      BY <1>1, <1>2, <1>8, <1>9, <1>10, <2>1, <3>1, <3>2, FlowOnceIn
  <2>. QED
    BY <2>1
<1>14. OnceConnected'
  <2>1. PICK S : S = {g \in flight \cup flight' : Connected(g)}
    OBVIOUS
  <2>2. p \notin S /\ \A g \in flight : g \notin S
    BY <1>5, <1>7, <2>1 DEF Connected
  <2>3. OnceIn(S)
    BY <2>2 DEF OnceIn, flight
  <2>4. \A g \in flight \cup flight' : g \in S <=> Connected(g)
    BY <2>1
  <2>. QED
    BY <1>13, <2>2, <2>3, <2>4, ConnectedOnce
<1>15. CarriedStay
  <2>1. ASSUME NEW m, OnceCarried(m) PROVE OnceCarried(m)'
    <3>1. PICK S : S = {g \in flight \cup flight' : Carries(g, m)}
      OBVIOUS
    <3>2. p \notin S /\ h \notin S
      BY <1>7, <3>1 DEF Carries, Message, Told
    <3>3. \A g \in flight \cup flight' : g \in S <=> Carries(g, m)
      BY <3>1
    <3>. QED
      BY <1>13, <2>1, <3>2, <3>3, CarriedOnce
  <2>2. \A g \in flight' : Message(g) \/ Told(g) => g \in flight
    BY <1>7, <1>11, <1>12 DEF Message, Told
  <2>. QED
    BY <2>1, <2>2 DEF CarriedStay
<1>16. /\ UNCHANGED <<task_queue, push_cs, confirmed, sent>> /\ Receives
       /\ layer_state'["USER"] = layer_state["USER"] /\ layer_state'["CODEC"] = layer_state["CODEC"]
       /\ CanServe("CODEC")' => CanServe("CODEC")
  BY <1>4, <1>10, Neighbours DEF OthersKept, CanServe, NotOperational, Has
<1>17. Opened'
  <2>1. \A g \in flight' : ~Message(g) /\ (Connected(g) => g.layer = "CODEC")
    BY <1>5, <1>7, <1>11, <1>12 DEF Message, Connected
  <2>. QED
    BY <1>3, <1>14, <1>16, <2>1 DEF Opened, Message, Connected
<1>18. Handed'
  <2>1. \A g \in flight' : Handing(g) \/ PartDone(g) => g \in flight
    BY <1>7, <1>11, <1>12 DEF Handing, PartDone
  <2>2. CanServe("CODEC") =>
          /\ to_write_buffer' # NULL => to_write_buffer'.data = InHand
          /\ \A g \in flight' : Handing(g) => g.data = InHand
    BY <1>4, <2>1 DEF BufferKept, Above, Handed
  <2>. QED
    BY <1>16, <2>1, <2>2, HandedStays DEF Above
<1>. QED
  BY <1>15, <1>16, <1>17, <1>18, PlacesStay, ReportedStays DEF Above, CarriedStay

LEMMA TlsAbove ==
  ASSUME IInv, Above, Progress, TlsNext,
         UNCHANGED <<netVars, codecVars, userVars>>
  PROVE  Above'
<1>1. aroundTls
  BY DEF aroundTls
<1>. QED
  BY <1>1, TlsInitAbove, ConnectAbove, RecvAbove, SendAbove, TlsPushAbove, TlsCloseAbove,
     ConnectDoneAbove DEF TlsNext

LEMMA ResourceAbove ==
  ASSUME IInv, Above, ResourceNext,
         UNCHANGED <<netVars, codecVars, tls_library, tls_context, layerVars, userVars>>
  PROVE  Above'
<1>1. /\ Runs /\ Running.layer = "RESOURCE" /\ Files /\ rm # NULL /\ rm.callback # NULL
      /\ coroutineUnchanged
  BY CoroutineFinds DEF ResourceNext, OpenCoroutine, ReadCoroutine, CloseCoroutine, Requested
<1>2. OthersKept /\ BufferKept
  BY <1>1
     DEF OthersKept, BufferKept, Receives, Above, Handed, coroutineUnchanged, netVars, codecVars,
         layerVars, userVars, Has
<1>3. layer_state' = layer_state
  BY <1>1 DEF coroutineUnchanged
<1>4. /\ Leaves(<<>>, <<>>) => Above'
      /\ \A h : Leaves(<<h>>, <<>>) /\ Cold(h) => Above'
      /\ \A h : Leaves(<<>>, <<h>>) /\ Cold(h) => Above'
      /\ Aborts => Above'
  BY <1>1, <1>2, <1>3, AboveReturns
<1>5. \A state : Cold(WithState(rm.callback, state))
  BY <1>1, CallbackIs, ColdOnes
<1>6. /\ \A context : EndsWell(context) => Above'
      /\ \A context, error : EndsBadly(context, error) => Above'
  BY <1>4, <1>5 DEF EndsWell, EndsBadly
<1>. QED
  BY <1>4, <1>6 DEF ResourceNext, OpenCoroutine, ReadCoroutine, CloseCoroutine

-----------------------------------------------------------------------------
(* The messages that the codec takes, writes and reports.                  *)

\* The elements of a sequence after one is added or taken.
LEMMA Added ==
  ASSUME NEW s, AnySeq(s), NEW x, NEW t, t = Append(s, x)
  PROVE  /\ t # <<>> /\ Head(t) = IF s = <<>> THEN x ELSE Head(s)
         /\ \E i \in DOMAIN t : t[i] = x
         /\ \A i \in DOMAIN s : i \in DOMAIN t /\ t[i] = s[i]
         /\ \A i \in DOMAIN t : i \in DOMAIN s \/ t[i] = x
         /\ \A i, j \in DOMAIN t : i \in DOMAIN s \/ j \in DOMAIN s \/ i = j
<1>. DEFINE n == Len(s)
<1>1. PICK one : one = <<x>>
  OBVIOUS
<1>2. AnySeq(one) /\ Len(one) = 1 /\ one[1] = x
  BY <1>1, AnyLiteral
<1>3. n \in Nat /\ DOMAIN s = 1..n /\ (s = <<>> <=> n = 0) /\ (s # <<>> => Head(s) = s[1])
  BY AnySeqParts
<1>4. AnySeq(t) /\ t = s \o one /\ Len(t) = n + 1
  BY <1>1, AnyAppend
<1>5. /\ DOMAIN (s \o one) = 1..n + 1
      /\ \A i \in 1..n + 1 : (s \o one)[i] = IF i <= n THEN s[i] ELSE one[i - n]
  BY <1>2, AnyConcat
<1>6. t # <<>> /\ Head(t) = t[1]
  <2>1. Len(t) # 0
    BY <1>3, <1>4
  <2>. QED
    BY <1>4, <2>1, AnySeqParts
<1>. HIDE DEF n
<1>7. \A i \in 1..n : i \in 1..n + 1 /\ i <= n
  BY <1>3
<1>8. \A i \in 1..n + 1 : i \in 1..n \/ (~(i <= n) /\ i - n = 1)
  BY <1>3
<1>9. n + 1 \in 1..n + 1 /\ 1 \in 1..n + 1
  BY <1>3
<1>10. ~(n + 1 <= n) /\ n + 1 - n = 1
  BY <1>3
<1>11. n = 0 => ~(1 <= n) /\ 1 - n = 1
  BY <1>3
<1>12. n # 0 => 1 \in 1..n
  BY <1>3
<1>13. Head(t) = IF s = <<>> THEN x ELSE Head(s)
  BY <1>2, <1>3, <1>4, <1>5, <1>6, <1>7, <1>9, <1>11, <1>12
<1>14. \E i \in DOMAIN t : t[i] = x
  <2>1. PICK k : k = n + 1
    OBVIOUS
  <2>2. k \in 1..n + 1 /\ ~(k <= n) /\ k - n = 1
    BY <1>3, <2>1
  <2>. QED
    BY <1>2, <1>4, <1>5, <2>2
<1>15. \A i \in DOMAIN s : i \in DOMAIN t /\ t[i] = s[i]
  BY <1>3, <1>4, <1>5, <1>7
<1>16. \A i \in DOMAIN t : i \in DOMAIN s \/ t[i] = x
  BY <1>2, <1>3, <1>4, <1>5, <1>8
<1>17. \A i, j \in DOMAIN t : i \in DOMAIN s \/ j \in DOMAIN s \/ i = j
  <2>1. \A i, j \in 1..n + 1 : i \in 1..n \/ j \in 1..n \/ i = j
    BY <1>3
  <2>. QED
    BY <1>3, <1>4, <1>5, <2>1
<1>. QED
  BY <1>6, <1>13, <1>14, <1>15, <1>16, <1>17

LEMMA OneTaken ==
  ASSUME NEW s, AnySeq(s), s # <<>>, NEW t, t = Tail(s)
  PROVE  /\ Head(s) = s[1] /\ 1 \in DOMAIN s
         /\ \A i \in DOMAIN t : i + 1 \in DOMAIN s /\ i + 1 # 1 /\ t[i] = s[i + 1]
         /\ \A i, j \in DOMAIN t : i + 1 = j + 1 => i = j
         /\ Len(s) = 1 => t = <<>>
         /\ Len(s) > 1 => t # <<>> /\ Head(t) = s[2]
<1>. DEFINE n == Len(s)
<1>1. n \in Nat /\ DOMAIN s = 1..n /\ n > 0 /\ Head(s) = s[1]
  BY AnySeqParts
<1>2. /\ AnySeq(t) /\ Len(t) = n - 1
      /\ \A i \in DOMAIN t : t[i] = s[i + 1] /\ i + 1 \in DOMAIN s
  BY AnySeqParts
<1>3. DOMAIN t = 1..n - 1 /\ (t = <<>> <=> n - 1 = 0) /\ (t # <<>> => Head(t) = t[1])
  BY <1>2, AnySeqParts
<1>. HIDE DEF n
<1>4. 1 \in 1..n /\ \A i \in 1..n - 1 : i + 1 # 1
  BY <1>1
<1>5. \A i, j \in 1..n - 1 : i + 1 = j + 1 => i = j
  BY <1>1
<1>6. n = 1 => t = <<>>
  BY <1>3
<1>7. n > 1 => t # <<>> /\ Head(t) = s[2]
  <2>1. n > 1 => 1 \in 1..n - 1 /\ 1 + 1 = 2 /\ n - 1 # 0
    BY <1>1
  <2>. QED
    BY <1>2, <1>3, <2>1
<1>. QED
  BY <1>1, <1>2, <1>3, <1>4, <1>5, <1>6, <1>7 DEF n

\* A handler that was the only one of its kind is gone when it has run.
LEMMA Gone ==
  ASSUME Shape, Runs
  PROVE  /\ \A m : OnceCarried(m) /\ Carries(Running, m) => \A h \in others : ~Carries(h, m)
         /\ OnceConnected /\ Connected(Running) => \A h \in others : ~Connected(h)
<1>1. /\ Len(inFlight) \in Nat /\ Len(inFlight) > 0 /\ DOMAIN inFlight = 1..Len(inFlight)
      /\ inFlight[1] = Running
  BY InFlight, RunningIsFirst
<1>2. /\ 1 \in DOMAIN inFlight
      /\ \A i \in 2..Len(inFlight) : i \in DOMAIN inFlight /\ i # 1
  BY <1>1
<1>. QED
  BY <1>1, <1>2 DEF OnceCarried, OnceConnected, others

LEMMA FlowOthers ==
  ASSUME Shape, Runs
  PROVE  /\ Leaves(<<>>, <<>>) => flight' \subseteq others
         /\ \A h : Leaves(<<>>, <<h>>) => flight' \subseteq others \cup {h}
         /\ \A a, b : Leaves(<<>>, <<a, b>>) => flight' \subseteq others \cup {a, b}
         /\ \A queued : AnySeq(queued) /\ Leaves(<<>>, queued) =>
              flight' \subseteq others \cup {queued[i] : i \in DOMAIN queued}
<1>1. PICK none : none = <<>>
  OBVIOUS
<1>2. AnySeq(none) /\ DOMAIN none = {}
  BY <1>1, AnyLiteral
<1>3. ASSUME NEW queued, AnySeq(queued), Leaves(<<>>, queued)
      PROVE  flight' \subseteq others \cup {queued[i] : i \in DOMAIN queued}
  <2>1. Leaves(none, queued)
    BY <1>1, <1>3
  <2>. QED
    BY <1>2, <1>3, <2>1, FlowHandlers
<1>4. ASSUME Leaves(<<>>, <<>>) PROVE flight' \subseteq others
  <2>1. Leaves(none, none)
    BY <1>1, <1>4
  <2>. QED
    BY <1>2, <2>1, FlowHandlers
<1>5. ASSUME NEW h, Leaves(<<>>, <<h>>) PROVE flight' \subseteq others \cup {h}
  <2>1. PICK one : one = <<h>>
    OBVIOUS
  <2>2. AnySeq(one) /\ DOMAIN one = {1} /\ one[1] = h /\ Leaves(<<>>, one)
    BY <1>5, <2>1, AnyLiteral
  <2>. QED
    BY <1>3, <2>2
<1>6. ASSUME NEW a, NEW b, Leaves(<<>>, <<a, b>>) PROVE flight' \subseteq others \cup {a, b}
  <2>1. PICK two : two = <<a, b>>
    OBVIOUS
  <2>2. AnySeq(two) /\ DOMAIN two = {1, 2} /\ two[1] = a /\ two[2] = b /\ Leaves(<<>>, two)
    BY <1>6, <2>1, AnyTwo
  <2>. QED
    BY <1>3, <2>2
<1>. QED
  BY <1>3, <1>4, <1>5, <1>6

\* A message is carried at most once after a step that queues at most one handler
\* which carries it.
LEMMA CarriedFlow ==
  ASSUME Shape, Runs, NEW queued, AnySeq(queued), Leaves(<<>>, queued), NEW m, OnceCarried(m),
         \/ \A i \in DOMAIN queued : ~Carries(queued[i], m)
         \/ /\ \A h \in others : ~Carries(h, m)
            /\ \A i, j \in DOMAIN queued :
                 Carries(queued[i], m) /\ Carries(queued[j], m) => i = j
  PROVE  OnceCarried(m)'
<1>1. PICK none : none = <<>>
  OBVIOUS
<1>2. AnySeq(none) /\ DOMAIN none = {} /\ Leaves(none, queued) /\ others \subseteq flight
  BY <1>1, AnyLiteral, InFlight
<1>3. PICK S :
        S = {h \in flight \cup flight' \cup {queued[i] : i \in DOMAIN queued} : Carries(h, m)}
  OBVIOUS
<1>4. /\ \A h \in flight \cup flight' : h \in S <=> Carries(h, m)
      /\ \A i \in DOMAIN queued : queued[i] \in S <=> Carries(queued[i], m)
      /\ \A h \in others : h \in S <=> Carries(h, m)
  BY <1>2, <1>3
<1>5. OnceIn(S)
  BY <1>4, CarriedOnce
<1>6. OnceIn(S)'
  BY <1>2, <1>4, <1>5, FlowOnceIn
<1>. QED
  BY <1>4, <1>6, CarriedOnce

\* The same of the connection.
LEMMA ConnectedFlow ==
  ASSUME Shape, Runs, NEW queued, AnySeq(queued), Leaves(<<>>, queued), OnceConnected,
         \/ \A i \in DOMAIN queued : ~Connected(queued[i])
         \/ /\ \A h \in others : ~Connected(h)
            /\ \A i, j \in DOMAIN queued : Connected(queued[i]) /\ Connected(queued[j]) => i = j
  PROVE  OnceConnected'
<1>1. PICK none : none = <<>>
  OBVIOUS
<1>2. AnySeq(none) /\ DOMAIN none = {} /\ Leaves(none, queued) /\ others \subseteq flight
  BY <1>1, AnyLiteral, InFlight
<1>3. PICK S : S = {h \in flight \cup flight' \cup {queued[i] : i \in DOMAIN queued} : Connected(h)}
  OBVIOUS
<1>4. /\ \A h \in flight \cup flight' : h \in S <=> Connected(h)
      /\ \A i \in DOMAIN queued : queued[i] \in S <=> Connected(queued[i])
      /\ \A h \in others : h \in S <=> Connected(h)
  BY <1>2, <1>3
<1>5. OnceIn(S)
  BY <1>4, ConnectedOnce
<1>6. OnceIn(S)'
  BY <1>2, <1>4, <1>5, FlowOnceIn
<1>. QED
  BY <1>4, <1>6, ConnectedOnce

\* No part is under way when one was answered, or when nothing is written.
LEMMA NoParts ==
  ASSUME IInv, Runs, Has("CODEC"), Kind(Running) = "part" \/ push_cs = "NONE"
  PROVE  to_write_buffer = NULL /\ \A h \in others : ~Handing(h) /\ ~PartDone(h)
<1>1. /\ Shape /\ Paths /\ Session /\ Fits(Running) /\ Driven(Running)
      /\ \A h \in others : Driven(h)
  BY RunningFits DEF IInv, Fits
<1>2. to_write_buffer = NULL
  BY <1>1 DEF Session, Driven
<1>3. \A h : Handing(h) \/ PartDone(h) => Kind(h) = "part"
  BY Kinds DEF Handing, PartDone
<1>4. ASSUME NEW h \in others PROVE Kind(h) # "part"
  <2>1. CASE Kind(Running) = "part"
    <3>1. Free("part")
      BY <1>1, <2>1, FreeOf DEF Paths
    <3>. QED
      BY <3>1 DEF Free
  <2>2. CASE push_cs = "NONE"
    BY <1>1, <2>2 DEF Driven
  <2>. QED
    BY <2>1, <2>2
<1>. QED
  BY <1>2, <1>3, <1>4

LEMMA CodecShares ==
  ASSUME aroundCodec, codecSharedUnchanged
  PROVE  /\ UNCHANGED <<to_write_buffer, logic_handler, write_state, on_socket, confirmed, sent,
                        connection_state>>
         /\ Receives
BY DEF aroundCodec, codecSharedUnchanged, netVars, tlsVars, layerVars, userVars, Receives

\* What the messages are when the codec reports some of them.
LEMMA PlacesTold ==
  ASSUME Shape, Runs, Places, NEW queued, AnySeq(queued), Leaves(<<>>, queued),
         UNCHANGED <<confirmed, sent>>,
         \A i \in DOMAIN queued :
           ~Message(queued[i]) /\ (Told(queued[i]) => Waits(queued[i].data)),
         \A m \in UserMessages :
           /\ \A i, j \in DOMAIN queued :
                Carries(queued[i], m) /\ Carries(queued[j], m) => i = j
           /\ \A i, j \in DOMAIN task_queue' : task_queue'[i] = m /\ task_queue'[j] = m => i = j
           /\ Waits(m)' => Waits(m) /\ \A i \in DOMAIN queued : ~Carries(queued[i], m)
  PROVE  Places'
<1>1. flight' \subseteq others \cup {queued[i] : i \in DOMAIN queued} /\ others \subseteq flight
  BY FlowOthers, InFlight
<1>2. ASSUME NEW m \in UserMessages PROVE OnePlace(m)'
  <2>1. OnePlace(m)
    BY DEF Places
  <2>2. \A i \in DOMAIN queued : Carries(queued[i], m) => Waits(m)
    BY DEF Carries
  <2>3. OnceCarried(m)'
    <3>1. \/ \A i \in DOMAIN queued : ~Carries(queued[i], m)
          \/ \A h \in others : ~Carries(h, m)
      BY <1>1, <2>1, <2>2 DEF OnePlace
    <3>. QED
      BY <2>1, <3>1, CarriedFlow DEF OnePlace
  <2>4. ASSUME NEW h \in flight', Carries(h, m)
        PROVE  m \in sent /\ ~Waits(m)' /\ confirmed[m] = <<>>
    <3>1. CASE h \in others
      BY <1>1, <2>1, <2>4, <3>1 DEF OnePlace
    <3>2. CASE \E i \in DOMAIN queued : h = queued[i]
      BY <2>1, <2>2, <2>4, <3>2 DEF OnePlace
    <3>. QED
      BY <1>1, <3>1, <3>2
  <2>5. ASSUME NEW h \in flight', Carries(h, m)' PROVE Carries(h, m)
    BY <2>5 DEF Carries, Message, Told
  <2>. QED
    BY <2>1, <2>3, <2>4, <2>5 DEF OnePlace
<1>. QED
  BY <1>2 DEF Places

\* The messages that wait are not to be reported, and nothing is told of a connection.
LEMMA OpenedFlow ==
  ASSUME Shape, Runs, Opened, NEW queued, AnySeq(queued), Leaves(<<>>, queued),
         \A i \in DOMAIN queued : ~Connected(queued[i]) /\ ~Message(queued[i]),
         push_cs' # "NONE" =>
           push_cs # "NONE" /\ Has("CODEC")' /\ (Has("TLS")' => Has("TLS")),
         UNCHANGED <<connection_state, logic_handler>>, layer_state'["USER"] = layer_state["USER"],
         OpenOrLater => OpenOrLater'
  PROVE  Opened'
<1>1. OnceConnected'
  BY ConnectedFlow DEF Opened
<1>2. flight' \subseteq others \cup {queued[i] : i \in DOMAIN queued} /\ others \subseteq flight
  BY FlowOthers, InFlight
<1>3. \A h \in flight' : Message(h) \/ Connected(h) => h \in flight
  BY <1>2
<1>4. /\ push_cs' # "NONE" \/ layer_state'["USER"] = "CONNECTED" => OpenOrLater'
      /\ push_cs' # "NONE" /\ Has("TLS")' => logic_handler' = "DATA"
      /\ push_cs' # "NONE" => Has("CODEC")' /\ connection_state' # "OPENING"
  BY DEF Opened
<1>5. ASSUME NEW h \in flight'
      PROVE  /\ Message(h) => OpenOrLater' /\ connection_state' # "OPENING"
             /\ Connected(h) =>
                  /\ h.layer = "USER" => OpenOrLater'
                  /\ push_cs' = "NONE" /\ layer_state'["USER"] # "CONNECTED"
                  /\ \A g \in flight' : ~Message(g)
  BY <1>3 DEF Opened
<1>. QED
  BY <1>1, <1>4, <1>5 DEF Opened, Message, Connected

\* What is told of the message in hand when there is none.
LEMMA HandedNone ==
  ASSUME IInv', push_cs' = "NONE", task_queue' = <<>>
  PROVE  Handed'
<1>1. Has("CODEC")' => to_write_buffer' = NULL
  BY DEF IInv, Session
<1>2. ASSUME NEW h \in flight', Handing(h) \/ PartDone(h) PROVE ~Has("CODEC")'
  <2>1. Kind(h) = "part"
    BY <1>2, Kinds DEF Handing, PartDone
  <2>2. Driven(h)'
    BY DEF IInv, Fits
  <2>. QED
    BY <2>1, <2>2 DEF Driven, Kind
<1>3. CanServe("CODEC")' => Has("CODEC")'
  BY DEF CanServe, Has
<1>. QED
  BY <1>1, <1>2, <1>3 DEF Handed, Handing, PartDone

\* Handlers of messages change no state of a layer.
LEMMA CodecReturns ==
  ASSUME Shape, Running.layer = "CODEC", NEW queued, AnySeq(queued), Returns(<<>>, queued),
         \A i \in DOMAIN queued : queued[i].fn \in {"push", "pull"}
  PROVE  /\ Leaves(<<>>, queued)
         /\ layer_state'["USER"] = layer_state["USER"]
         /\ layer_state'["CODEC"] = layer_state["CODEC"]
<1>1. PICK s, n : s = layer_state["CODEC"] /\ n = Len(queued)
  OBVIOUS
<1>2. n \in Nat /\ DOMAIN queued = 1..n
  BY <1>1, AnySeqParts
<1>3. PICK none : none = <<>>
  OBVIOUS
<1>4. /\ Leaves(<<>>, queued) /\ layer_state'["USER"] = layer_state["USER"]
      /\ layer_state'["CODEC"] = FoldLeft(StateAfter, s, queued)
  <2>1. Returns(none, queued)
    BY <1>3
  <2>2. Leaves(none, queued) /\ layer_state'["USER"] = layer_state["USER"]
        /\ layer_state'["CODEC"] = FoldLeft(StateAfter, s, queued)
    BY <1>1, <2>1, ReturnsAny, Neighbours
  <2>. QED
    BY <1>3, <2>2
<1>5. \A i \in 1..n : StateAfter(s, queued[i]) = s
  BY <1>2 DEF StateAfter
<1>6. /\ n = 0 => FoldLeft(StateAfter, s, queued) = s
      /\ n > 0 => FoldLeft(StateAfter, s, queued) = StateAfter(s, queued[n])
  <2>1. \A i \in 1..n - 1 : StateAfter(s, queued[i]) = s
    BY <1>2, <1>5
  <2>. QED
    BY <1>2, <2>1, StateAfterMany
<1>7. n > 0 => n \in 1..n
  BY <1>2
<1>8. n = 0 \/ n > 0
  BY <1>2
<1>. QED
  BY <1>1, <1>4, <1>5, <1>6, <1>7, <1>8

\* A step that has to do with no message.
LEMMA CodecApart ==
  ASSUME Above, Shape, Runs, aroundCodec, codecSharedUnchanged, user_data' = user_data,
         UNCHANGED codecVars, NEW queued, AnySeq(queued), Leaves(<<>>, queued),
         \A i \in DOMAIN queued : Cold(queued[i]),
         layer_state'["USER"] = layer_state["USER"],
         OpenOrLater => OpenOrLater', CanServe("CODEC")' => CanServe("CODEC")
  PROVE  Above'
<1>1. /\ UNCHANGED <<to_write_buffer, logic_handler, confirmed, sent, connection_state>> /\ Receives
      /\ UNCHANGED <<task_queue, push_cs>>
      /\ Has("CODEC")' = Has("CODEC") /\ Has("TLS")' = Has("TLS")
  BY CodecShares DEF codecVars, Has
<1>2. PICK none : none = <<>>
  OBVIOUS
<1>3. AnySeq(none) /\ DOMAIN none = {} /\ Leaves(none, queued)
  BY <1>2, AnyLiteral
<1>4. MarkedStay
  BY <1>3, MarkedFlow DEF Cold
<1>5. \A h \in flight' : Handing(h) \/ PartDone(h) => h \in flight
  BY FlowOthers, InFlight DEF Cold
<1>6. CanServe("CODEC") =>
        /\ to_write_buffer' # NULL => to_write_buffer'.data = InHand
        /\ \A h \in flight' : Handing(h) => h.data = InHand
        /\ \A h \in flight' : PartDone(h) => h \in flight \/ PartReceived(InHand)
  BY <1>1, <1>5 DEF Above, Handed
<1>. QED
  BY <1>1, <1>4, <1>6, AboveStays

LEMMA CodecPassesOnAbove ==
  ASSUME IInv, Above, aroundCodec, CodecPull \/ CodecPullDropped \/ CodecPushDropped \/ CodecClose
  PROVE  Above'
<1>1. /\ Runs /\ Running.layer = "CODEC" /\ codecSharedUnchanged /\ user_data' = user_data
      /\ UNCHANGED codecVars
  BY RunsIt DEF CodecPull, CodecPullDropped, CodecPushDropped, CodecClose
<1>2. Shape /\ Fits(Running) /\ "CODEC" \in Layers /\ "USER" \in Layers
  BY <1>1, RunningFits, Neighbours
<1>3. ASSUME NEW queued, AnySeq(queued), Returns(<<>>, queued),
             \A i \in DOMAIN queued : queued[i].layer = "USER" /\ queued[i].fn = "pull"
      PROVE  Above'
  <2>1. Leaves(<<>>, queued) /\ layer_state'["USER"] = layer_state["USER"]
        /\ layer_state'["CODEC"] = layer_state["CODEC"]
    BY <1>1, <1>2, <1>3, CodecReturns
  <2>2. \A i \in DOMAIN queued : Cold(queued[i])
    BY <1>3, ColdOnes
  <2>3. (OpenOrLater => OpenOrLater') /\ (CanServe("CODEC")' => CanServe("CODEC"))
    BY <1>1, <2>1 DEF OpenOrLater, CanServe, NotOperational
  <2>. QED
    BY <1>1, <1>2, <1>3, <2>1, <2>2, <2>3, CodecApart
<1>4. CASE CodecPull
  <2>1. PICK n, queued : n = Len(Running.data.msgs) /\ queued = Decoded(n)
    OBVIOUS
  <2>2. n \in Nat /\ Returns(<<>>, queued)
    <3>1. Running.fn = "pull"
      BY <1>4, RunsIt DEF CodecPull
    <3>. QED
      BY <1>1, <1>2, <1>4, <2>1, <3>1 DEF CodecPull, Fits, Formed
  <2>3. /\ queued = [i \in 1..n |-> queued[i]]
        /\ \A i \in 1..n : queued[i].layer = "USER" /\ queued[i].fn = "pull"
    BY <2>1, HandlerFields, Neighbours DEF Decoded, OnNext
  <2>4. AnySeq(queued) /\ DOMAIN queued = 1..n
    BY <2>2, <2>3, AnyFunction
  <2>. QED
    BY <1>3, <2>2, <2>3, <2>4
<1>5. CASE CodecPullDropped \/ CodecPushDropped
  <2>1. PICK queued : queued = <<>> /\ AnySeq(queued) /\ DOMAIN queued = {}
    BY AnyLiteral
  <2>2. Returns(<<>>, queued)
    BY <1>5, <2>1 DEF CodecPullDropped, CodecPushDropped
  <2>. QED
    BY <1>3, <2>1, <2>2
<1>6. CASE CodecClose
  <2>1. PICK h : /\ Returns(<<>>, <<h>>)
                 /\ \/ h = OnPrev("CODEC", "close", NULL, Running.state)
                    \/ h = Handle("close_externally", "CODEC", NULL, Running.state)
    BY <1>6 DEF CodecClose
  <2>2. \/ h.fn = "close" /\ h.layer = "TLS"
        \/ h.fn = "close_externally" /\ h.layer = "CODEC"
    BY <2>1, HandlerFields, Neighbours DEF OnPrev
  <2>3. PICK none : none = <<>>
    OBVIOUS
  <2>4. /\ Leaves(none, <<h>>) /\ layer_state'["USER"] = layer_state["USER"]
        /\ layer_state'["CODEC"] = StateAfter(layer_state["CODEC"], h)
    BY <1>1, <1>2, <2>1, <2>3, ReturnsOne
  <2>5. PICK queued : queued = <<h>> /\ AnySeq(queued) /\ DOMAIN queued = {1} /\ queued[1] = h
    BY AnyLiteral
  <2>6. Leaves(<<>>, queued) /\ \A i \in DOMAIN queued : Cold(queued[i])
    BY <2>2, <2>3, <2>4, <2>5, ColdOnes
  <2>7. (OpenOrLater => OpenOrLater') /\ (CanServe("CODEC")' => CanServe("CODEC"))
    BY <1>1, <2>2, <2>4 DEF OpenOrLater, CanServe, NotOperational, StateAfter
  <2>. QED
    BY <1>1, <1>2, <2>4, <2>5, <2>6, <2>7, CodecApart
<1>. QED
  BY <1>4, <1>5, <1>6

\* The codec passes on that the connection is open, or that it is not.
LEMMA CodecConnectAbove ==
  ASSUME IInv, IInv', Above, aroundCodec, CodecConnect
  PROVE  Above'
<1>1. PICK h : h = OnNext("CODEC", "connect", NULL, Running.state)
  OBVIOUS
<1>2. /\ Runs /\ Running.layer = "CODEC" /\ Running.fn = "connect" /\ codecSharedUnchanged
      /\ user_data' = user_data /\ UNCHANGED codecVars /\ Returns(<<>>, <<h>>)
  BY <1>1, RunsIt DEF CodecConnect
<1>3. h.layer = "USER" /\ h.fn = "connect" /\ h.state = Running.state
  BY <1>1, HandlerFields, Neighbours DEF OnNext
<1>4. /\ Shape /\ Fits(Running) /\ "CODEC" \in Layers /\ "USER" \in Layers
      /\ Running \in flight /\ others \subseteq flight
  BY <1>2, RunningFits, Neighbours, RunningIsFirst, InFlight
<1>5. PICK none, queued : /\ none = <<>> /\ queued = <<h>> /\ AnySeq(queued)
                          /\ DOMAIN queued = {1} /\ queued[1] = h
  BY AnyLiteral
<1>6. /\ Leaves(none, queued) /\ Leaves(<<>>, queued)
      /\ layer_state'["USER"] = layer_state["USER"]
      /\ layer_state'["CODEC"] = StateAfter(layer_state["CODEC"], h)
  <2>1. Returns(none, <<h>>)
    BY <1>2, <1>5
  <2>2. /\ Leaves(none, <<h>>) /\ layer_state'["USER"] = layer_state["USER"]
        /\ layer_state'["CODEC"] = StateAfter(layer_state["CODEC"], h)
    BY <1>2, <1>4, <2>1, ReturnsOne
  <2>. QED
    BY <1>5, <2>2
<1>7. OpenOrLater'
  BY <1>3, <1>6 DEF OpenOrLater, StateAfter
<1>8. CASE Running.state # "OK"
  <2>1. \A i \in DOMAIN queued : Cold(queued[i])
    BY <1>3, <1>5, <1>8 DEF Cold, Marked, Connected, Message, Told, Handing, PartDone
  <2>2. CanServe("CODEC")' => CanServe("CODEC")
    BY <1>3, <1>6, <1>8 DEF CanServe, NotOperational, StateAfter
  <2>. QED
    BY <1>2, <1>4, <1>5, <1>6, <1>7, <2>1, <2>2, CodecApart
<1>9. CASE Running.state = "OK"
  <2>1. Connected(Running) /\ Connected(h)
    BY <1>2, <1>3, <1>9 DEF Connected
  <2>2. /\ push_cs = "NONE" /\ task_queue = <<>> /\ layer_state["USER"] # "CONNECTED"
        /\ \A g \in flight : ~Message(g)
    BY <1>4, <2>1 DEF Above, Opened, Handed
  <2>3. /\ UNCHANGED <<confirmed, sent, connection_state>> /\ Receives
        /\ UNCHANGED <<task_queue, push_cs>>
    BY <1>2, CodecShares DEF codecVars
  <2>4. flight' \subseteq others \cup {h}
    BY <1>4, <1>2, <1>5, <1>6, FlowOthers
  <2>5. ~Message(h) /\ ~Told(h)
    BY <1>3 DEF Message, Told
  <2>6. OnceConnected'
    <3>1. \A g \in others : ~Connected(g)
      BY <1>2, <1>4, <2>1, Gone DEF Above, Opened
    <3>. QED
      BY <1>2, <1>4, <1>5, <1>6, <3>1, ConnectedFlow DEF Above, Opened
  <2>7. Opened'
    <3>1. \A g \in flight' : ~Message(g)
      BY <1>4, <2>2, <2>4, <2>5
    <3>. QED
      BY <1>6, <1>7, <2>2, <2>3, <2>6, <3>1 DEF Opened, Message, Connected
  <2>8. CarriedStay
    <3>1. \A g \in flight' : Message(g) \/ Told(g) => g \in flight
      BY <1>4, <2>4, <2>5
    <3>2. \A m : OnceCarried(m) => OnceCarried(m)'
      BY <1>2, <1>4, <1>5, <1>6, <2>5, CarriedFlow DEF Carries
    <3>. QED
      BY <3>1, <3>2 DEF CarriedStay
  <2>9. Places' /\ Reported' /\ Handed'
    BY <2>2, <2>3, <2>8, PlacesStay, ReportedStays, HandedNone DEF Above, CarriedStay
  <2>. QED
    BY <2>7, <2>9 DEF Above
<1>. QED
  BY <1>8, <1>9

\* A connection starts with no message.
LEMMA CodecInitAbove ==
  ASSUME IInv, IInv', Above, aroundCodec, CodecInit
  PROVE  Above'
<1>1. PICK h : h = OnPrev("CODEC", "init", NULL, "OK")
  OBVIOUS
<1>2. /\ Runs /\ Running.layer = "CODEC" /\ Running.fn = "init" /\ codecSharedUnchanged
      /\ task_queue' = <<>> /\ push_cs' = "NONE" /\ Returns(<<>>, <<h>>)
  BY <1>1, RunsIt DEF CodecInit
<1>3. h.layer = "TLS" /\ h.fn = "init"
  BY <1>1, HandlerFields, Neighbours DEF OnPrev
<1>4. /\ Shape /\ Down /\ connection_state = "OPENING" /\ "CODEC" \in Layers /\ "USER" \in Layers
  BY <1>2, RunningFits, Neighbours DEF Fits, Lone, Opening, IInv
<1>5. push_cs = "NONE" /\ task_queue = <<>> /\ layer_state["USER"] # "CONNECTED"
  BY <1>4 DEF Above, Opened, Handed, Down
<1>6. Leaves(<<>>, <<h>>) /\ layer_state'["USER"] = layer_state["USER"]
  <2>1. PICK none : none = <<>>
    OBVIOUS
  <2>2. Leaves(none, <<h>>) /\ layer_state'["USER"] = layer_state["USER"]
    BY <1>2, <1>4, <2>1, ReturnsOne
  <2>. QED
    BY <2>1, <2>2
<1>7. MarkedStay /\ CarriedStay /\ flight' \subseteq flight \cup {h}
  BY <1>2, <1>3, <1>4, <1>6, FlowUnmarked, MarkedCarried DEF Marked, Connected, Message, Told
<1>8. UNCHANGED <<confirmed, sent, connection_state>> /\ Receives
  BY <1>2, CodecShares
<1>9. Opened'
  <2>1. \A g \in flight' : ~Message(g)
    <3>1. \A g \in flight : ~Message(g)
      BY <1>4 DEF Above, Opened
    <3>. QED
      BY <1>3, <1>7, <3>1 DEF Message
  <2>2. OnceConnected'
    BY <1>7, MarkedOnce DEF Above, Opened
  <2>3. \A g \in flight' : ~Connected(g) \/ g.layer # "USER" \/ OpenOrLater'
    <3>1. ASSUME NEW g \in flight' PROVE ~Connected(g)
      <4>1. others = {}
        BY <1>2, RunningFits DEF Opening
      <4>2. flight' \subseteq others \cup {h}
        BY <1>2, <1>4, <1>6, FlowOthers
      <4>. QED
        BY <1>3, <4>1, <4>2 DEF Connected
    <3>. QED
      BY <3>1
  <2>. QED
    BY <1>2, <1>5, <1>6, <1>8, <2>1, <2>2, <2>3 DEF Opened, Message, Connected
<1>10. Places' /\ Reported' /\ Handed'
  BY <1>2, <1>5, <1>7, <1>8, PlacesStay, ReportedStays, HandedNone DEF Above, CarriedStay
<1>. QED
  BY <1>9, <1>10 DEF Above

\* What the header, the payload and the confirmation of a message are.
LEMMA CodecWrites ==
  ASSUME NEW m
  PROVE  /\ HeaderOf(m).layer = "TLS" /\ HeaderOf(m).fn = "push" /\ HeaderOf(m).state = "OK"
         /\ HeaderOf(m).data = [msg |-> m, last |-> ~HasPayload(m)]
         /\ PayloadOf(m).layer = "TLS" /\ PayloadOf(m).fn = "push" /\ PayloadOf(m).state = "OK"
         /\ PayloadOf(m).data = [msg |-> m, last |-> TRUE]
         /\ \A state : /\ Confirmation(m, state).layer = "USER"
                       /\ Confirmation(m, state).fn = "push"
                       /\ Confirmation(m, state).state = state
                       /\ Confirmation(m, state).data = m
BY HandlerFields, Neighbours DEF HeaderOf, PayloadOf, Confirmation, OnPrev, OnNext

\* A message is queued, and its header is handed over when nothing is written.
LEMMA CodecPushMessageAbove ==
  ASSUME IInv, IInv', Above, aroundCodec, CodecPushMessage
  PROVE  Above'
<1>1. /\ Runs /\ Running.layer = "CODEC" /\ Running.fn = "push" /\ codecSharedUnchanged
      /\ CanServe("CODEC") /\ Running.state = "OK" /\ user_data' = user_data
      /\ task_queue' = Append(task_queue, Running.data)
  BY RunsIt DEF CodecPushMessage
<1>2. PICK m : m = Running.data
  OBVIOUS
<1>3. PICK h : h = HeaderOf(m)
  OBVIOUS
<1>4. PICK queued :
        /\ AnySeq(queued) /\ Returns(<<>>, queued) /\ \A i \in DOMAIN queued : queued[i] = h
        /\ \/ push_cs # "NONE" /\ push_cs' = push_cs /\ DOMAIN queued = {}
           \/ push_cs = "NONE" /\ push_cs' = "HEADER"
  <2>1. CASE push_cs # "NONE" /\ Returns(<<>>, <<>>) /\ push_cs' = push_cs
    <3>1. PICK none : none = <<>> /\ AnySeq(none) /\ DOMAIN none = {}
      BY AnyLiteral
    <3>2. Returns(<<>>, none)
      BY <2>1, <3>1
    <3>. QED
      BY <2>1, <3>1, <3>2
  <2>2. CASE push_cs = "NONE" /\ push_cs' = "HEADER" /\ Returns(<<>>, <<h>>)
    <3>1. PICK one : one = <<h>> /\ AnySeq(one) /\ DOMAIN one = {1} /\ one[1] = h
      BY AnyLiteral
    <3>2. Returns(<<>>, one)
      BY <2>2, <3>1
    <3>. QED
      BY <2>2, <3>1, <3>2
  <2>. QED
    BY <1>2, <1>3, <2>1, <2>2 DEF CodecPushMessage
<1>5. /\ h.layer = "TLS" /\ h.fn = "push" /\ h.state = "OK"
      /\ h.data = [msg |-> m, last |-> ~HasPayload(m)]
  BY <1>3, CodecWrites
<1>6. ~Connected(h) /\ ~Message(h) /\ ~Told(h) /\ Handing(h) /\ ~PartDone(h)
  BY <1>5 DEF Connected, Message, Told, Handing, PartDone
<1>7. /\ Shape /\ Fits(Running) /\ Running \in flight /\ others \subseteq flight
      /\ Message(Running) /\ Carries(Running, m) /\ AnySeq(task_queue) /\ Has("CODEC")
  BY <1>1, <1>2, RunningFits, RunningIsFirst, InFlight
     DEF Message, Carries, Shape, CanServe, Has
<1>8. /\ OpenOrLater /\ connection_state # "OPENING" /\ OnceConnected
      /\ \A g \in flight : ~Connected(g)
  BY <1>7 DEF Above, Opened
<1>9. /\ UNCHANGED <<to_write_buffer, logic_handler, confirmed, sent, connection_state>>
      /\ Receives /\ Has("CODEC")' /\ (Has("TLS")' <=> Has("TLS"))
  BY <1>1, <1>7, CodecShares DEF Has
<1>10. /\ Leaves(<<>>, queued) /\ layer_state'["USER"] = layer_state["USER"]
       /\ layer_state'["CODEC"] = layer_state["CODEC"]
  BY <1>1, <1>4, <1>5, <1>7, CodecReturns
<1>11. flight' \subseteq others \cup {queued[i] : i \in DOMAIN queued}
  BY <1>1, <1>4, <1>7, <1>10, FlowOthers
<1>12. Opened'
  <2>1. OnceConnected'
    BY <1>1, <1>4, <1>6, <1>7, <1>8, <1>10, ConnectedFlow
  <2>2. OpenOrLater'
    BY <1>8, <1>10 DEF OpenOrLater
  <2>3. Has("TLS") => logic_handler = "DATA"
    BY <1>1, <1>7 DEF Fits, Driven, NeedsSession
  <2>4. \A g \in flight' : ~Connected(g)
    BY <1>4, <1>6, <1>7, <1>8, <1>11
  <2>. QED
    BY <1>8, <1>9, <2>1, <2>2, <2>3, <2>4 DEF Opened, Message, Connected
<1>13. PICK t : t = task_queue'
  OBVIOUS
<1>14. /\ t # <<>> /\ Head(t) = IF task_queue = <<>> THEN m ELSE Head(task_queue)
       /\ \A i \in DOMAIN task_queue : i \in DOMAIN t /\ t[i] = task_queue[i]
       /\ \A i \in DOMAIN t : i \in DOMAIN task_queue \/ t[i] = m
       /\ \A i, j \in DOMAIN t : i \in DOMAIN task_queue \/ j \in DOMAIN task_queue \/ i = j
  BY <1>1, <1>2, <1>7, <1>13, Added
<1>15. Places'
  <2>1. ASSUME NEW n \in UserMessages PROVE OnePlace(n)'
    <3>1. OnePlace(n)
      BY DEF Above, Places
    <3>2. OnceCarried(n)'
      BY <1>1, <1>4, <1>6, <1>7, <1>10, <3>1, CarriedFlow DEF OnePlace, Carries
    <3>3. \A g \in flight' : Carries(g, n) => g \in others /\ g \in flight
      BY <1>4, <1>6, <1>7, <1>11 DEF Carries
    <3>4. n = m => \A g \in others : ~Carries(g, n)
      BY <1>1, <1>7, <3>1, Gone DEF OnePlace
    <3>5. Waits(n)' => Waits(n) \/ n = m
      BY <1>13, <1>14 DEF Waits
    <3>6. n = m => n \in sent /\ ~Waits(n) /\ confirmed[n] = <<>>
      BY <1>7, <3>1 DEF OnePlace
    <3>7. \A i, j \in DOMAIN t : t[i] = n /\ t[j] = n => i = j
      <4>1. ASSUME NEW i \in DOMAIN t, NEW j \in DOMAIN t, t[i] = n, t[j] = n PROVE i = j
        <5>1. CASE i \in DOMAIN task_queue /\ j \in DOMAIN task_queue
          BY <1>14, <3>1, <4>1, <5>1 DEF OnePlace
        <5>2. CASE i \in DOMAIN task_queue /\ j \notin DOMAIN task_queue
          BY <1>14, <3>6, <4>1, <5>2 DEF Waits
        <5>3. CASE i \notin DOMAIN task_queue /\ j \in DOMAIN task_queue
          BY <1>14, <3>6, <4>1, <5>3 DEF Waits
        <5>4. CASE i \notin DOMAIN task_queue /\ j \notin DOMAIN task_queue
          BY <1>14, <5>4
        <5>. QED
          BY <5>1, <5>2, <5>3, <5>4
      <4>. QED
        BY <4>1
    <3>8. ASSUME NEW g \in flight', Carries(g, n)'
          PROVE  n \in sent /\ ~Waits(n)' /\ confirmed[n] = <<>>
      <4>1. Carries(g, n)
        BY <3>8 DEF Carries, Message, Told
      <4>. QED
        BY <3>1, <3>3, <3>4, <3>5, <4>1 DEF OnePlace
    <3>. QED
      BY <1>9, <1>13, <3>1, <3>2, <3>5, <3>6, <3>7, <3>8 DEF OnePlace
  <2>. QED
    BY <1>9, <2>1 DEF Above, Places
<1>16. CASE push_cs # "NONE"
  <2>1. task_queue # <<>> /\ Head(t) = Head(task_queue) /\ push_cs' = push_cs /\ DOMAIN queued = {}
    BY <1>1, <1>4, <1>14, <1>16 DEF Above, Handed
  <2>2. flight' \subseteq flight
    BY <1>7, <1>11, <2>1
  <2>3. InHand' = InHand
    BY <1>13, <2>1 DEF InHand, HasPayload
  <2>4. PartReceived(InHand) => PartReceived(InHand)'
    <3>1. PICK data : data = InHand
      OBVIOUS
    <3>2. PartReceived(InHand)' <=> PartReceived(data)'
      BY <2>3, <3>1 DEF PartReceived, RecordReceived, RecordsOf, IsCut
    <3>. QED
      BY <1>9, <3>1, <3>2, ReceivedStay
  <2>5. push_cs' = "PAYLOAD" =>
          HasPayload(Head(t)) /\ PartReceived([msg |-> Head(t), last |-> FALSE])'
    BY <1>1, <1>9, <2>1, ReceivedStay DEF Above, Handed
  <2>6. to_write_buffer' # NULL => to_write_buffer'.data = InHand'
    BY <1>1, <1>9, <2>3 DEF Above, Handed
  <2>7. \A g \in flight' : /\ Handing(g) => g.data = InHand'
                           /\ PartDone(g) => PartReceived(InHand)'
    BY <1>1, <2>2, <2>3, <2>4 DEF Above, Handed
  <2>8. Handed'
    BY <1>13, <1>14, <1>16, <2>1, <2>5, <2>6, <2>7
       DEF Handed, Handing, PartDone, HasPayload, Above
  <2>9. Reported'
    BY <1>9, <2>2, ReportedStays DEF Above
  <2>. QED
    BY <1>12, <1>15, <2>8, <2>9 DEF Above
<1>17. CASE push_cs = "NONE"
  <2>1. task_queue = <<>> /\ Head(t) = m /\ push_cs' = "HEADER"
    BY <1>4, <1>14, <1>17 DEF Above, Handed
  <2>2. to_write_buffer = NULL /\ \A g \in others : ~Handing(g) /\ ~PartDone(g)
    BY <1>1, <1>7, <1>17, NoParts
  <2>3. InHand' = h.data
    BY <1>5, <1>13, <2>1 DEF InHand, HasPayload
  <2>4. \A g \in flight' : (Handing(g) => g.data = InHand') /\ ~PartDone(g)
    BY <1>4, <1>6, <1>11, <2>2, <2>3
  <2>5. Handed'
    BY <1>9, <1>13, <1>14, <2>1, <2>2, <2>4 DEF Handed, Handing, PartDone
  <2>6. Reported'
    <3>1. \A g \in flight' : Told(g) => g \in flight
      BY <1>4, <1>6, <1>7, <1>11
    <3>. QED
      BY <1>9, <3>1, ReportedStays DEF Above
  <2>. QED
    BY <1>12, <1>15, <2>5, <2>6 DEF Above
<1>. QED
  BY <1>16, <1>17

\* The payload is handed over when the header was written.
LEMMA CodecPushPayloadAbove ==
  ASSUME IInv, Above, aroundCodec, CodecPushPayload
  PROVE  Above'
<1>1. PICK m, h : m = Head(task_queue) /\ h = PayloadOf(m)
  OBVIOUS
<1>2. /\ Runs /\ Running.layer = "CODEC" /\ Running.fn = "push" /\ codecSharedUnchanged
      /\ CanServe("CODEC") /\ Running.state = "WRITTEN" /\ user_data' = user_data
      /\ push_cs = "HEADER" /\ HasPayload(m) /\ push_cs' = "PAYLOAD" /\ Returns(<<>>, <<h>>)
      /\ task_queue' = task_queue
  BY <1>1, RunsIt DEF CodecPushPayload
<1>3. /\ h.layer = "TLS" /\ h.fn = "push" /\ h.state = "OK"
      /\ h.data = [msg |-> m, last |-> TRUE]
  BY <1>1, CodecWrites
<1>4. ~Marked(h) /\ ~Connected(h) /\ ~Message(h) /\ ~PartDone(h)
  BY <1>3 DEF Marked, Connected, Message, Told, PartDone
<1>5. PICK queued : queued = <<h>> /\ AnySeq(queued) /\ DOMAIN queued = {1} /\ queued[1] = h
  BY AnyLiteral
<1>6. /\ Shape /\ Running \in flight /\ others \subseteq flight /\ PartDone(Running)
      /\ Kind(Running) = "part" /\ Has("CODEC")
  BY <1>2, RunningFits, RunningIsFirst, InFlight, Kinds DEF PartDone, CanServe, Has
<1>7. /\ Leaves(<<>>, queued) /\ layer_state'["USER"] = layer_state["USER"]
      /\ layer_state'["CODEC"] = layer_state["CODEC"]
  <2>1. Returns(<<>>, queued)
    BY <1>2, <1>5
  <2>. QED
    BY <1>2, <1>3, <1>5, <1>6, <2>1, CodecReturns
<1>8. /\ UNCHANGED <<to_write_buffer, logic_handler, confirmed, sent, connection_state>>
      /\ Receives /\ Has("CODEC")' /\ (Has("TLS")' <=> Has("TLS"))
  BY <1>2, <1>6, CodecShares DEF Has
<1>9. to_write_buffer = NULL /\ \A g \in others : ~Handing(g) /\ ~PartDone(g)
  BY <1>2, <1>6, NoParts
<1>10. flight' \subseteq others \cup {h} /\ MarkedStay /\ CarriedStay
  <2>1. Leaves(<<>>, <<h>>)
    BY <1>5, <1>7
  <2>. QED
    BY <1>2, <1>4, <1>6, <2>1, FlowOthers, FlowUnmarked, MarkedCarried
<1>11. Opened'
  <2>1. OpenOrLater => OpenOrLater'
    BY <1>7 DEF OpenOrLater
  <2>. QED
    BY <1>2, <1>4, <1>5, <1>6, <1>7, <1>8, <2>1, OpenedFlow DEF Above
<1>12. Places' /\ Reported'
  BY <1>2, <1>8, <1>10, PlacesStay, ReportedStays DEF Above, CarriedStay
<1>13. InHand = [msg |-> m, last |-> FALSE] /\ InHand' = h.data
  BY <1>1, <1>2, <1>3 DEF InHand, HasPayload
<1>14. task_queue # <<>> /\ PartReceived([msg |-> m, last |-> FALSE])
  BY <1>2, <1>6, <1>13 DEF Above, Handed
<1>15. PartReceived([msg |-> Head(task_queue), last |-> FALSE])'
  <2>1. PartReceived([msg |-> m, last |-> FALSE])'
    BY <1>8, <1>14, ReceivedStay
  <2>. QED
    BY <1>1, <1>2, <2>1
<1>16. \A g \in flight' : (Handing(g) => g.data = InHand') /\ ~PartDone(g)
  BY <1>4, <1>9, <1>10, <1>13
<1>17. Handed'
  BY <1>1, <1>2, <1>8, <1>9, <1>14, <1>15, <1>16 DEF Handed, Handing, PartDone, HasPayload
<1>. QED
  BY <1>11, <1>12, <1>17 DEF Above

\* A message is reported when its last part was, or a part of it was not written.
LEMMA CodecPushWrittenAbove ==
  ASSUME IInv, IInv', Above, aroundCodec, CodecPushWritten
  PROVE  Above'
<1>1. PICK m, c, n, h, state :
        /\ m = Head(task_queue) /\ n = task_queue[2] /\ state = Running.state
        /\ c = Confirmation(m, state) /\ h = HeaderOf(n)
  OBVIOUS
<1>2. /\ Runs /\ Running.layer = "CODEC" /\ Running.fn = "push" /\ codecSharedUnchanged
      /\ CanServe("CODEC") /\ Running.state \in {"WRITTEN", "FAILED_WRITING"}
      /\ Running.state = "WRITTEN" /\ push_cs = "HEADER" => ~HasPayload(m)
      /\ user_data' = user_data /\ task_queue' = Tail(task_queue)
  BY <1>1, RunsIt DEF CodecPushWritten
<1>3. /\ c.layer = "USER" /\ c.fn = "push" /\ c.state = Running.state /\ c.data = m
      /\ h.layer = "TLS" /\ h.fn = "push" /\ h.state = "OK"
      /\ h.data = [msg |-> n, last |-> ~HasPayload(n)]
  <2>1. c.layer = "USER" /\ c.fn = "push" /\ c.state = state /\ c.data = m
    BY <1>1, HandlerFields, Neighbours DEF Confirmation, OnNext
  <2>2. /\ h.layer = "TLS" /\ h.fn = "push" /\ h.state = "OK"
        /\ h.data = [msg |-> n, last |-> ~HasPayload(n)]
    BY <1>1, CodecWrites
  <2>. QED
    BY <1>1, <2>1, <2>2
<1>4. /\ ~Connected(c) /\ ~Message(c) /\ Told(c) /\ ~Handing(c) /\ ~PartDone(c)
      /\ ~Connected(h) /\ ~Message(h) /\ ~Told(h) /\ ~PartDone(h)
  BY <1>3 DEF Connected, Message, Told, Handing, PartDone
<1>5. PICK queued :
        /\ AnySeq(queued) /\ Returns(<<>>, queued)
        /\ \A i \in DOMAIN queued : queued[i] \in {c, h}
        /\ \A i, j \in DOMAIN queued : queued[i] = c /\ queued[j] = c => i = j
        /\ \/ Len(task_queue) = 1 /\ push_cs' = "NONE"
           \/ Len(task_queue) > 1 /\ push_cs' = "HEADER"
  <2>1. CASE Len(task_queue) = 1 /\ push_cs' = "NONE" /\ Returns(<<>>, <<c>>)
    <3>1. PICK one : one = <<c>> /\ AnySeq(one) /\ DOMAIN one = {1} /\ one[1] = c
      BY AnyLiteral
    <3>2. Returns(<<>>, one)
      BY <2>1, <3>1
    <3>. QED
      BY <2>1, <3>1, <3>2
  <2>2. CASE Len(task_queue) > 1 /\ push_cs' = "HEADER" /\ Returns(<<>>, <<c, h>>)
    <3>1. PICK two : /\ two = <<c, h>> /\ AnySeq(two) /\ DOMAIN two = {1, 2}
                     /\ two[1] = c /\ two[2] = h
      BY AnyTwo
    <3>2. Returns(<<>>, two)
      BY <2>2, <3>1
    <3>3. c # h
      BY <1>3
    <3>. QED
      BY <2>2, <3>1, <3>2, <3>3
  <2>. QED
    BY <1>1, <2>1, <2>2 DEF CodecPushWritten
<1>6. /\ Shape /\ Running \in flight /\ others \subseteq flight /\ AnySeq(task_queue)
      /\ Kind(Running) = "part" /\ Has("CODEC") /\ push_cs # "NONE"
  <2>1. Kind(Running) = "part" /\ Has("CODEC")
    BY <1>2, Kinds DEF CanServe, Has
  <2>. QED
    BY <1>2, <2>1, RunningFits, RunningIsFirst, InFlight DEF Shape, Fits, Driven
<1>7. /\ Leaves(<<>>, queued) /\ layer_state'["USER"] = layer_state["USER"]
      /\ layer_state'["CODEC"] = layer_state["CODEC"]
  BY <1>2, <1>3, <1>5, <1>6, CodecReturns
<1>8. /\ UNCHANGED <<to_write_buffer, logic_handler, confirmed, sent, connection_state>>
      /\ Receives /\ Has("CODEC")' /\ (Has("TLS")' <=> Has("TLS"))
  BY <1>2, <1>6, CodecShares DEF Has
<1>9. to_write_buffer = NULL /\ \A g \in others : ~Handing(g) /\ ~PartDone(g)
  BY <1>2, <1>6, NoParts
<1>10. flight' \subseteq others \cup {c, h}
  BY <1>2, <1>5, <1>6, <1>7, FlowOthers
<1>11. Opened'
  <2>1. OpenOrLater => OpenOrLater'
    BY <1>7 DEF OpenOrLater
  <2>. QED
    BY <1>2, <1>4, <1>5, <1>6, <1>7, <1>8, <2>1, OpenedFlow DEF Above
<1>12. task_queue # <<>>
  BY <1>2, <1>6 DEF Above, Handed
<1>13. PICK t : t = task_queue'
  OBVIOUS
<1>14. /\ m = task_queue[1] /\ 1 \in DOMAIN task_queue
       /\ \A i \in DOMAIN t : i + 1 \in DOMAIN task_queue /\ i + 1 # 1 /\ t[i] = task_queue[i + 1]
       /\ \A i, j \in DOMAIN t : i + 1 = j + 1 => i = j
       /\ Len(task_queue) = 1 => t = <<>>
       /\ Len(task_queue) > 1 => t # <<>> /\ Head(t) = n
  <2>1. PICK s : s = task_queue
    OBVIOUS
  <2>2. AnySeq(s) /\ s # <<>> /\ t = Tail(s)
    BY <1>2, <1>6, <1>12, <1>13, <2>1
  <2>3. /\ Head(s) = s[1] /\ 1 \in DOMAIN s
        /\ \A i \in DOMAIN t : i + 1 \in DOMAIN s /\ i + 1 # 1 /\ t[i] = s[i + 1]
        /\ \A i, j \in DOMAIN t : i + 1 = j + 1 => i = j
        /\ Len(s) = 1 => t = <<>>
        /\ Len(s) > 1 => t # <<>> /\ Head(t) = s[2]
    BY <2>2, OneTaken
  <2>. QED
    BY <1>1, <2>1, <2>3
<1>15. Places'
  <2>1. ASSUME NEW k \in UserMessages
        PROVE  /\ \A i, j \in DOMAIN queued :
                    Carries(queued[i], k) /\ Carries(queued[j], k) => i = j
               /\ \A i, j \in DOMAIN t : t[i] = k /\ t[j] = k => i = j
               /\ Waits(k)' => Waits(k) /\ \A i \in DOMAIN queued : ~Carries(queued[i], k)
    <3>1. \A i, j \in DOMAIN task_queue : task_queue[i] = k /\ task_queue[j] = k => i = j
      BY DEF Above, Places, OnePlace
    <3>2. \A i \in DOMAIN queued : Carries(queued[i], k) => queued[i] = c /\ k = m
      BY <1>3, <1>4, <1>5 DEF Carries
    <3>3. Waits(k)' => Waits(k) /\ k # m
      BY <1>13, <1>14, <3>1 DEF Waits
    <3>. QED
      BY <1>5, <1>14, <3>1, <3>2, <3>3
  <2>2. \A i \in DOMAIN queued : ~Message(queued[i]) /\ (Told(queued[i]) => Waits(queued[i].data))
    BY <1>3, <1>4, <1>5, <1>14 DEF Waits
  <2>. QED
    BY <1>2, <1>5, <1>6, <1>7, <1>8, <1>13, <2>1, <2>2, PlacesTold DEF Above
<1>16. c.state = "WRITTEN" => MessageReceived(m)
  <2>. SUFFICES ASSUME c.state = "WRITTEN" PROVE MessageReceived(m)
    OBVIOUS
  <2>1. PartDone(Running) /\ (push_cs = "HEADER" => ~HasPayload(m))
    BY <1>2, <1>3 DEF PartDone
  <2>2. PartReceived(InHand)
    BY <1>2, <1>6, <2>1 DEF Above, Handed
  <2>3. CASE push_cs = "HEADER"
    <3>1. InHand = [msg |-> m, last |-> TRUE] /\ ~HasPayload(m)
      BY <1>1, <2>1, <2>3 DEF InHand
    <3>. QED
      BY <2>2, <3>1 DEF MessageReceived
  <2>4. CASE push_cs = "PAYLOAD"
    <3>1. /\ InHand = [msg |-> m, last |-> TRUE] /\ HasPayload(m)
          /\ PartReceived([msg |-> m, last |-> FALSE])
      BY <1>1, <1>2, <2>4 DEF InHand, Above, Handed
    <3>. QED
      BY <2>2, <3>1 DEF MessageReceived
  <2>. QED
    BY <1>6, <2>3, <2>4 DEF Above, Handed
<1>17. Reported'
  <2>1. \A g \in flight' : Told(g) /\ g.state = "WRITTEN" => g \in flight \/ MessageReceived(g.data)
    BY <1>3, <1>4, <1>6, <1>10, <1>16
  <2>. QED
    BY <1>8, <2>1, ReportedStays DEF Above
<1>18. CASE Len(task_queue) = 1 /\ push_cs' = "NONE"
  BY <1>11, <1>13, <1>14, <1>15, <1>17, <1>18, HandedNone DEF Above
<1>19. CASE Len(task_queue) > 1 /\ push_cs' = "HEADER"
  <2>1. Head(t) = n /\ t # <<>>
    BY <1>14, <1>19
  <2>2. InHand' = h.data
    BY <1>3, <1>13, <1>19, <2>1 DEF InHand, HasPayload
  <2>3. \A g \in flight' : (Handing(g) => g.data = InHand') /\ ~PartDone(g)
    BY <1>4, <1>9, <1>10, <2>2
  <2>4. Handed'
    BY <1>8, <1>9, <1>13, <1>19, <2>1, <2>3 DEF Handed, Handing, PartDone
  <2>. QED
    BY <1>11, <1>15, <1>17, <2>4 DEF Above
<1>. QED
  BY <1>5, <1>18, <1>19

\* Messages that waited are told of, each once, and none was written.
FailsThem(queued, place) ==
  /\ \A i, j \in DOMAIN queued : place[i] = place[j] => i = j
  /\ \A i \in DOMAIN queued :
       /\ ~Message(queued[i]) /\ ~Connected(queued[i])
       /\ Told(queued[i]) =>
            /\ place[i] \in DOMAIN task_queue
            /\ queued[i].data = task_queue[place[i]] /\ queued[i].state # "WRITTEN"

LEMMA CodecFails ==
  ASSUME Shape, Runs, Above, NEW queued, AnySeq(queued), Leaves(<<>>, queued),
         UNCHANGED <<confirmed, sent>>, Receives, task_queue' = <<>>,
         NEW place, FailsThem(queued, place)
  PROVE  Places' /\ Reported'
<1>. USE DEF FailsThem
<1>1. flight' \subseteq others \cup {queued[i] : i \in DOMAIN queued} /\ others \subseteq flight
  BY FlowOthers, InFlight
<1>2. Reported'
  <2>1. \A g \in flight' : Told(g) /\ g.state = "WRITTEN" => g \in flight \/ MessageReceived(g.data)
    BY <1>1
  <2>. QED
    BY <2>1, ReportedStays DEF Above
<1>3. \A i \in DOMAIN queued : Told(queued[i]) => Waits(queued[i].data)
  BY DEF Waits
<1>4. ASSUME NEW k \in UserMessages, NEW i \in DOMAIN queued, NEW j \in DOMAIN queued,
             Carries(queued[i], k), Carries(queued[j], k)
      PROVE  i = j
  <2>1. /\ place[i] \in DOMAIN task_queue /\ task_queue[place[i]] = k
        /\ place[j] \in DOMAIN task_queue /\ task_queue[place[j]] = k
    BY <1>4 DEF Carries
  <2>2. place[i] = place[j]
    BY <2>1 DEF Above, Places, OnePlace
  <2>. QED
    BY <2>2
<1>5. \A k : ~Waits(k)' /\ DOMAIN task_queue' = {}
  BY DEF Waits
<1>. QED
  BY <1>2, <1>3, <1>4, <1>5, PlacesTold DEF Above

\* Where the elements of three sequences are.
InPlaces(all, r, s, last) ==
  /\ AnySeq(all) /\ Len(all) > 0
  /\ all[Len(all)] = last[1]
  /\ \A i \in DOMAIN all :
       \/ i \in DOMAIN r /\ all[i] = r[i]
       \/ i - Len(r) \in DOMAIN s /\ all[i] = s[i - Len(r)]
       \/ i = Len(all) /\ all[i] = last[1]

LEMMA ThreePlaces ==
  ASSUME NEW r, NEW s, NEW last, AnySeq(r), AnySeq(s), AnySeq(last), Len(last) = 1,
         NEW all, all = (r \o s) \o last
  PROVE  InPlaces(all, r, s, last)
<1>. DEFINE m == Len(r)
            e == Len(all)
<1>1. PICK both, c, n : both = r \o s /\ c = last[1] /\ n = Len(s)
  OBVIOUS
<1>2. AnySeq(last) /\ Len(last) = 1 /\ last[1] = c
  BY <1>1
<1>3. m \in Nat /\ n \in Nat /\ DOMAIN r = 1..m /\ DOMAIN s = 1..n
  BY <1>1, AnySeqParts
<1>4. /\ AnySeq(both) /\ Len(both) = m + n
      /\ \A i \in 1..m + n : both[i] = IF i <= m THEN r[i] ELSE s[i - m]
  BY <1>1, AnyConcat
<1>. HIDE DEF m, e
<1>5. PICK k : k = m + n /\ k \in Nat
  BY <1>3
<1>6. /\ AnySeq(all) /\ Len(all) = k + 1 /\ DOMAIN all = 1..k + 1
      /\ \A i \in 1..k + 1 : all[i] = IF i <= k THEN both[i] ELSE last[i - k]
  <2>1. PICK w : w = both \o last
    OBVIOUS
  <2>2. /\ AnySeq(w) /\ Len(w) = Len(both) + Len(last) /\ DOMAIN w = 1..Len(both) + Len(last)
        /\ \A i \in 1..Len(both) + Len(last) :
             w[i] = IF i <= Len(both) THEN both[i] ELSE last[i - Len(both)]
    BY <1>2, <1>4, <2>1, AnyConcat
  <2>3. w = all
    BY <1>1, <2>1
  <2>. QED
    BY <1>2, <1>4, <1>5, <2>2, <2>3
<1>7. ASSUME NEW i \in 1..k + 1
      PROVE  \/ i \in 1..m /\ all[i] = r[i]
             \/ i - m \in 1..n /\ all[i] = s[i - m]
             \/ i = k + 1 /\ all[i] = c
  <2>1. CASE i <= m
    <3>1. i \in 1..m /\ i <= k /\ i \in 1..m + n
      BY <1>3, <1>5, <2>1
    <3>. QED
      BY <1>4, <1>6, <2>1, <3>1
  <2>2. CASE ~(i <= m) /\ i <= k
    <3>1. i - m \in 1..n /\ i \in 1..m + n
      BY <1>3, <1>5, <2>2
    <3>. QED
      BY <1>4, <1>6, <2>2, <3>1
  <2>3. CASE ~(i <= k)
    <3>1. i - k = 1 /\ i = k + 1
      BY <1>3, <1>5, <2>3
    <3>. QED
      BY <1>2, <1>6, <2>3, <3>1
  <2>. QED
    BY <2>1, <2>2, <2>3
<1>8. all[k + 1] = c
  <2>1. PICK l : l = k + 1
    OBVIOUS
  <2>2. l \in 1..k + 1 /\ ~(l \in 1..m) /\ ~(l - m \in 1..n)
    BY <1>3, <1>5, <2>1
  <2>. QED
    BY <1>7, <2>1, <2>2
<1>9. e = k + 1 /\ e > 0
  BY <1>3, <1>5, <1>6 DEF e
<1>10. /\ AnySeq(all) /\ e > 0 /\ all[e] = last[1]
       /\ \A i \in DOMAIN all :
            \/ i \in DOMAIN r /\ all[i] = r[i]
            \/ i - m \in DOMAIN s /\ all[i] = s[i - m]
            \/ i = e /\ all[i] = last[1]
  BY <1>1, <1>3, <1>6, <1>7, <1>8, <1>9
<1>. QED
  BY <1>10 DEF m, e, InPlaces

\* Handlers of the user that do not follow a message, and handlers of which none takes one.
Pulls(r) == \A i \in DOMAIN r : r[i].layer = "USER" /\ r[i].fn = "pull"
TakesNone(queued) == \A i \in DOMAIN queued : ~Connected(queued[i]) /\ ~Message(queued[i])

\* The codec reports all messages as not written and then closes, or has closed.
LEMMA CodecEnds ==
  ASSUME Shape, Runs, Above, Running.layer = "CODEC", aroundCodec, codecSharedUnchanged,
         NEW r, AnySeq(r), Pulls(r),
         NEW s, s = FailedConfirmations, NEW last, AnySeq(last), Len(last) = 1,
         last[1].fn \in {"close", "close_externally"},
         NEW queued, queued = (r \o s) \o last, Returns(<<>>, queued), task_queue' = <<>>
  PROVE  /\ Places' /\ Reported' /\ AnySeq(queued) /\ Leaves(<<>>, queued)
         /\ TakesNone(queued)
         /\ layer_state'["USER"] = layer_state["USER"]
         /\ layer_state'["CODEC"] = StateAfter(layer_state["CODEC"], last[1])
<1>1. PICK t, c : t = task_queue /\ c = last[1]
  OBVIOUS
<1>2. AnySeq(t) /\ Len(t) \in Nat /\ DOMAIN t = 1..Len(t)
  BY <1>1, AnySeqParts DEF Shape
<1>3. /\ AnySeq(s) /\ DOMAIN s = DOMAIN t
      /\ \A i \in DOMAIN s : /\ s[i].layer = "USER" /\ s[i].fn = "push"
                             /\ s[i].data = t[i] /\ s[i].state = "FAILED_WRITING"
  <2>1. AnySeq(s)
    BY <1>1, <1>2, FailedAreMany
  <2>2. DOMAIN s = DOMAIN t /\ \A i \in DOMAIN t : s[i] = Confirmation(t[i], "FAILED_WRITING")
    BY <1>1 DEF FailedConfirmations
  <2>. QED
    BY <2>1, <2>2, HandlerFields, Neighbours DEF Confirmation, OnNext
<1>4. PICK k, n : k = Len(r) /\ n = Len(queued)
  OBVIOUS
<1>5. /\ AnySeq(queued) /\ queued[n] = c /\ n > 0
      /\ \A i \in DOMAIN queued :
           \/ i \in DOMAIN r /\ queued[i] = r[i]
           \/ i - k \in DOMAIN s /\ queued[i] = s[i - k]
           \/ i = n /\ queued[i] = c
  <2>1. InPlaces(queued, r, s, last)
    BY <1>3, ThreePlaces
  <2>. QED
    BY <1>1, <1>4, <2>1 DEF InPlaces
<1>6. /\ n \in Nat /\ DOMAIN queued = 1..n /\ k \in Nat /\ k \in Int
  BY <1>4, <1>5, AnySeqParts
<1>7. ASSUME NEW i \in DOMAIN queued
      PROVE  /\ ~Message(queued[i]) /\ ~Connected(queued[i])
             /\ Told(queued[i]) =>
                  /\ i - k \in DOMAIN t
                  /\ queued[i].data = t[i - k] /\ queued[i].state # "WRITTEN"
  <2>1. CASE i \in DOMAIN r /\ queued[i] = r[i]
    BY <2>1 DEF Pulls, Message, Connected, Told
  <2>2. CASE i - k \in DOMAIN s /\ queued[i] = s[i - k]
    <3>1. PICK j : j = i - k
      OBVIOUS
    <3>2. /\ j \in DOMAIN t /\ queued[i].layer = "USER" /\ queued[i].fn = "push"
          /\ queued[i].data = t[j] /\ queued[i].state = "FAILED_WRITING"
      BY <1>3, <2>2, <3>1
    <3>. QED
      BY <3>1, <3>2 DEF Message, Connected, Told
  <2>3. CASE queued[i] = c
    BY <1>1, <2>3 DEF Message, Connected, Told
  <2>. QED
    BY <1>5, <2>1, <2>2, <2>3
<1>8. /\ Leaves(<<>>, queued) /\ layer_state'["USER"] = layer_state["USER"]
      /\ layer_state'["CODEC"] = FoldLeft(StateAfter, layer_state["CODEC"], queued)
  <2>1. PICK none : none = <<>>
    OBVIOUS
  <2>2. Returns(none, queued)
    BY <2>1
  <2>3. /\ Leaves(none, queued) /\ layer_state'["USER"] = layer_state["USER"]
        /\ layer_state'["CODEC"] = FoldLeft(StateAfter, layer_state["CODEC"], queued)
    BY <2>2, ReturnsAny, Neighbours
  <2>. QED
    BY <2>1, <2>3
<1>9. layer_state'["CODEC"] = StateAfter(layer_state["CODEC"], c)
  <2>1. PICK state : state = layer_state["CODEC"]
    OBVIOUS
  <2>2. \A i \in 1..n - 1 : i \in DOMAIN queued /\ i # n
    BY <1>6
  <2>3. ASSUME NEW i \in 1..n - 1 PROVE StateAfter(state, queued[i]) = state
    <3>1. CASE queued[i] = r[i] /\ i \in DOMAIN r
      BY <3>1 DEF Pulls, StateAfter
    <3>2. CASE i - k \in DOMAIN s /\ queued[i] = s[i - k]
      BY <1>3, <3>2 DEF StateAfter
    <3>. QED
      BY <1>5, <2>2, <3>1, <3>2
  <2>4. n > 0 => FoldLeft(StateAfter, state, queued) = StateAfter(state, queued[n])
    <3>1. n \in Nat /\ DOMAIN queued = 1..n
      BY <1>6
    <3>. QED
      BY <2>3, <3>1, StateAfterMany
  <2>. QED
    BY <1>5, <1>6, <1>8, <2>1, <2>4
<1>10. UNCHANGED <<confirmed, sent>> /\ Receives
  BY CodecShares
<1>11. Places' /\ Reported'
  <2>1. PICK place : place = [i \in DOMAIN queued |-> i - k]
    OBVIOUS
  <2>2. \A i, j \in DOMAIN queued : place[i] = place[j] => i = j
    <3>1. \A i, j \in 1..n : i - k = j - k => i = j
      BY <1>6
    <3>. QED
      BY <1>6, <2>1, <3>1
  <2>3. ASSUME NEW i \in DOMAIN queued
        PROVE  /\ ~Message(queued[i]) /\ ~Connected(queued[i])
               /\ Told(queued[i]) =>
                    /\ place[i] \in DOMAIN task_queue
                    /\ queued[i].data = task_queue[place[i]] /\ queued[i].state # "WRITTEN"
    <3>1. place[i] = i - k
      BY <2>1
    <3>. QED
      BY <1>1, <1>7, <3>1
  <2>. QED
    <3>1. FailsThem(queued, place)
      BY <2>2, <2>3 DEF FailsThem
    <3>. QED
      BY <1>5, <1>8, <1>10, <3>1, CodecFails
<1>12. TakesNone(queued)
  BY <1>7 DEF TakesNone
<1>. QED
  BY <1>1, <1>5, <1>8, <1>9, <1>11, <1>12

LEMMA CodecPullMalformedAbove ==
  ASSUME IInv, IInv', Above, aroundCodec, CodecPullMalformed
  PROVE  Above'
<1>1. /\ Runs /\ Running.layer = "CODEC" /\ Running.fn = "pull" /\ codecSharedUnchanged
      /\ CanServe("CODEC") /\ user_data' = user_data /\ push_cs' = push_cs /\ task_queue' = <<>>
  BY RunsIt DEF CodecPullMalformed
<1>2. Shape /\ Fits(Running)
  BY <1>1, RunningFits
<1>3. PICK n \in 0..Len(Running.data.msgs) - 1 :
        Returns(<<>>, Decoded(n) \o FailedConfirmations
                      \o <<OnPrev("CODEC", "close", NULL, "ERROR")>>)
  BY DEF CodecPullMalformed
<1>4. PICK r, s, c : /\ r = Decoded(n) /\ s = FailedConfirmations
                     /\ c = OnPrev("CODEC", "close", NULL, "ERROR")
  OBVIOUS
<1>5. PICK queued, last : /\ last = <<c>> /\ queued = (r \o s) \o last
                          /\ AnySeq(last) /\ Len(last) = 1 /\ last[1] = c
  BY AnyLiteral
<1>6. Returns(<<>>, queued)
  BY <1>3, <1>4, <1>5
<1>7. c.fn = "close"
  BY <1>4, HandlerFields DEF OnPrev
<1>8. AnySeq(r) /\ Pulls(r)
  <2>1. n \in Nat
    BY <1>1, <1>2 DEF Fits, Formed
  <2>2. /\ r = [i \in 1..n |-> r[i]]
        /\ \A i \in 1..n : r[i].layer = "USER" /\ r[i].fn = "pull"
    BY <1>4, HandlerFields, Neighbours DEF Decoded, OnNext
  <2>3. AnySeq(r) /\ DOMAIN r = 1..n
    BY <2>1, <2>2, AnyFunction
  <2>. QED
    BY <2>2, <2>3 DEF Pulls
<1>9. /\ Places' /\ Reported' /\ AnySeq(queued) /\ Leaves(<<>>, queued)
      /\ TakesNone(queued)
      /\ layer_state'["USER"] = layer_state["USER"]
      /\ layer_state'["CODEC"] = StateAfter(layer_state["CODEC"], c)
  <2>1. last[1].fn \in {"close", "close_externally"} /\ s = FailedConfirmations
    BY <1>4, <1>5, <1>7
  <2>. QED
    BY <1>1, <1>2, <1>5, <1>6, <1>8, <2>1, CodecEnds
<1>10. /\ UNCHANGED <<logic_handler, connection_state>>
       /\ (Has("CODEC")' <=> Has("CODEC")) /\ (Has("TLS")' <=> Has("TLS")) /\ Has("CODEC")
  BY <1>1, CodecShares DEF Has, CanServe
<1>11. OpenOrLater => OpenOrLater' /\ ~CanServe("CODEC")'
  BY <1>1, <1>7, <1>9 DEF OpenOrLater, CanServe, NotOperational, StateAfter
<1>12. Opened'
  BY <1>1, <1>2, <1>9, <1>10, <1>11, OpenedFlow DEF Above, TakesNone
<1>13. Handed'
  <2>1. CASE push_cs = "NONE"
    BY <1>1, <2>1, HandedNone
  <2>2. CASE push_cs # "NONE"
    <3>1. ~CanServe("CODEC")'
      BY <1>11, <2>2 DEF Above, Opened
    <3>2. push_cs' \in {"NONE", "HEADER", "PAYLOAD"}
      BY <1>1 DEF Above, Handed
    <3>. QED
      BY <1>1, <3>1, <3>2 DEF Handed
  <2>. QED
    BY <2>1, <2>2
<1>. QED
  BY <1>9, <1>12, <1>13 DEF Above

LEMMA CodecCloseExternallyAbove ==
  ASSUME IInv, IInv', Above, aroundCodec, CodecCloseExternally
  PROVE  Above'
<1>1. PICK s, c, r, last, queued :
        /\ s = FailedConfirmations /\ r = <<>> /\ queued = (r \o s) \o last
        /\ c = OnNext("CODEC", "close_externally", NULL, Running.state)
        /\ last = <<c>> /\ AnySeq(last) /\ Len(last) = 1 /\ last[1] = c
  BY AnyLiteral
<1>2. /\ Runs /\ Running.layer = "CODEC" /\ codecSharedUnchanged
      /\ user_data' = user_data \ {"CODEC"} /\ push_cs' = "NONE" /\ task_queue' = <<>>
      /\ Returns(<<>>, Append(s, c))
  BY <1>1, RunsIt DEF CodecCloseExternally
<1>3. Shape
  BY DEF IInv
<1>4. c.fn = "close_externally"
  BY <1>1, HandlerFields DEF OnNext
<1>5. AnySeq(s)
  BY <1>1, <1>3, FailedAreMany DEF Shape
<1>6. AnySeq(r) /\ Pulls(r) /\ queued = Append(s, c)
  <2>1. r \o s = s
    BY <1>1, <1>5 DEF AnySeq
  <2>2. Append(s, c) = s \o <<c>>
    BY <1>5, AnyAppend
  <2>. QED
    BY <1>1, <2>1, <2>2, AnyLiteral DEF Pulls
<1>7. Returns(<<>>, queued)
  BY <1>2, <1>6
<1>8. /\ Places' /\ Reported' /\ AnySeq(queued) /\ Leaves(<<>>, queued)
      /\ TakesNone(queued)
      /\ layer_state'["USER"] = layer_state["USER"]
      /\ layer_state'["CODEC"] = StateAfter(layer_state["CODEC"], c)
  BY <1>1, <1>2, <1>3, <1>4, <1>6, <1>7, CodecEnds
<1>9. UNCHANGED <<logic_handler, connection_state>>
  BY <1>2, CodecShares
<1>10. OpenOrLater'
  BY <1>4, <1>8 DEF OpenOrLater, StateAfter
<1>11. Opened'
  BY <1>2, <1>3, <1>8, <1>9, <1>10, OpenedFlow DEF Above, TakesNone
<1>12. Handed'
  BY <1>2, HandedNone
<1>. QED
  BY <1>8, <1>11, <1>12 DEF Above

LEMMA CodecAbove ==
  ASSUME IInv, IInv', Above, CodecNext, UNCHANGED <<netVars, tlsVars, userVars>>
  PROVE  Above'
<1>1. aroundCodec
  BY DEF aroundCodec
<1>. QED
  BY <1>1, CodecPassesOnAbove, CodecConnectAbove, CodecInitAbove, CodecPushMessageAbove,
     CodecPushPayloadAbove, CodecPushWrittenAbove, CodecPullMalformedAbove,
     CodecCloseExternallyAbove
     DEF CodecNext

-----------------------------------------------------------------------------
(* What is above the codec, what the user asks for, and the loop.          *)

\* A step that leaves the messages and the layers below where they are, but for what is
\* asked for and has to do with no message.
LEMMA AboveApart ==
  ASSUME Above, MarkedStay, UNCHANGED <<codecVars, tlsVars, user_data, received, confirmed, sent>>,
         NEW new, flight' \subseteq flight \cup new, \A h \in new : ~Handing(h) /\ ~PartDone(h),
         connection_state' = "OPENING" => connection_state = "OPENING",
         layer_state'["USER"] = "CONNECTED" => layer_state["USER"] = "CONNECTED",
         layer_state'["CODEC"] = layer_state["CODEC"]
  PROVE  Above'
<1>1. /\ UNCHANGED <<task_queue, push_cs, logic_handler, to_write_buffer>>
      /\ Receives /\ Has("CODEC")' = Has("CODEC") /\ Has("TLS")' = Has("TLS")
      /\ confirmed' = confirmed /\ sent' = sent
  BY DEF codecVars, tlsVars, layerVars, Receives, Has
<1>2. (OpenOrLater => OpenOrLater') /\ (CanServe("CODEC")' => CanServe("CODEC"))
  BY DEF OpenOrLater, CanServe, NotOperational
<1>3. CanServe("CODEC") =>
        /\ to_write_buffer' # NULL => to_write_buffer'.data = InHand
        /\ \A h \in flight' : Handing(h) => h.data = InHand
        /\ \A h \in flight' : PartDone(h) => h \in flight
  BY <1>1 DEF Above, Handed
<1>. QED
  BY <1>1, <1>2, <1>3, AboveStays

LEMMA UserSharesAbove ==
  ASSUME IInv, layersUnchanged
  PROVE  /\ UNCHANGED <<codecVars, tlsVars, user_data, received, task_queue, push_cs, logic_handler,
                        to_write_buffer>>
         /\ Receives
         /\ \A l : Has(l)' = Has(l)
BY DEF layersUnchanged, netVars, codecVars, tlsVars, layerVars, Receives, Has

LEMMA UserReturns ==
  ASSUME Shape, Running.layer = "USER"
  PROVE  /\ Returns(<<>>, <<>>) =>
              /\ Leaves(<<>>, <<>>) /\ layer_state'["CODEC"] = layer_state["CODEC"]
              /\ layer_state'["USER"] = layer_state["USER"]
         /\ \A h : Returns(<<>>, <<h>>) =>
              /\ Leaves(<<>>, <<h>>) /\ layer_state'["CODEC"] = layer_state["CODEC"]
              /\ layer_state'["USER"] = StateAfter(layer_state["USER"], h)
<1>1. PICK none : none = <<>>
  OBVIOUS
<1>2. "USER" \in Layers /\ "CODEC" \in Layers
  BY Neighbours
<1>3. ASSUME Returns(none, <<>>)
      PROVE  /\ Leaves(none, <<>>) /\ layer_state'["CODEC"] = layer_state["CODEC"]
             /\ layer_state'["USER"] = layer_state["USER"]
  BY <1>2, <1>3, ReturnsNone
<1>4. ASSUME NEW h, Returns(none, <<h>>)
      PROVE  /\ Leaves(none, <<h>>) /\ layer_state'["CODEC"] = layer_state["CODEC"]
             /\ layer_state'["USER"] = StateAfter(layer_state["USER"], h)
  BY <1>2, <1>4, ReturnsOne
<1>. QED
  BY <1>1, <1>3, <1>4

\* The user is told of the data of the server or of the connection, and may close it.
LEMMA UserApartAbove ==
  ASSUME IInv, Above, UserInit \/ UserPull \/ UserCloseExternally
                      \/ (UserConnect /\ Running.state # "OK")
  PROVE  Above'
<1>1. Runs /\ Running.layer = "USER" /\ layersUnchanged /\ UNCHANGED <<confirmed, sent>>
  BY RunsIt DEF UserInit, UserPull, UserConnect, UserCloseExternally, userVars
<1>2. Shape /\ UNCHANGED <<codecVars, tlsVars, user_data, received>>
      /\ "USER" \in DOMAIN layer_state
  BY <1>1, UserSharesAbove, Neighbours DEF IInv, Shape
<1>3. /\ Leaves(<<>>, <<>>) => MarkedStay /\ flight' \subseteq flight
      /\ \A h : Leaves(<<>>, <<h>>) => flight' \subseteq flight \cup {h}
      /\ \A h : ~Marked(h) /\ Leaves(<<>>, <<h>>) => MarkedStay
  BY <1>1, <1>2, FlowUnmarked
<1>4. /\ Returns(<<>>, <<>>) =>
           /\ Leaves(<<>>, <<>>) /\ layer_state'["CODEC"] = layer_state["CODEC"]
           /\ layer_state'["USER"] = layer_state["USER"]
      /\ \A h : Returns(<<>>, <<h>>) =>
           /\ Leaves(<<>>, <<h>>) /\ layer_state'["CODEC"] = layer_state["CODEC"]
           /\ layer_state'["USER"] = StateAfter(layer_state["USER"], h)
  BY <1>1, <1>2, UserReturns
<1>5. ASSUME NEW h, Returns(<<>>, <<h>>), Cold(h), h.fn \in {"init", "close"},
             connection_state' = connection_state
      PROVE  Above'
  <2>1. MarkedStay /\ flight' \subseteq flight \cup {h}
    BY <1>3, <1>4, <1>5 DEF Cold
  <2>2. layer_state'["USER"] = "CONNECTED" => layer_state["USER"] = "CONNECTED"
    BY <1>4, <1>5 DEF StateAfter
  <2>3. PICK new : new = {h}
    OBVIOUS
  <2>4. flight' \subseteq flight \cup new /\ \A g \in new : ~Handing(g) /\ ~PartDone(g)
    BY <1>5, <2>1, <2>3 DEF Cold
  <2>5. layer_state'["CODEC"] = layer_state["CODEC"]
    BY <1>4, <1>5
  <2>. QED
    BY <1>1, <1>2, <1>5, <2>1, <2>2, <2>4, <2>5, AboveApart
<1>6. ASSUME Leaves(<<>>, <<>>), connection_state' = "OPENING" => connection_state = "OPENING",
             layer_state'["USER"] = "CONNECTED" => layer_state["USER"] = "CONNECTED",
             layer_state'["CODEC"] = layer_state["CODEC"]
      PROVE  Above'
  <2>1. PICK none : none = {}
    OBVIOUS
  <2>2. flight' \subseteq flight \cup none /\ \A h \in none : ~Handing(h) /\ ~PartDone(h)
    BY <1>3, <1>6, <2>1
  <2>. QED
    BY <1>1, <1>2, <1>3, <1>6, <2>2, AboveApart
<1>7. /\ Cold(OnPrev("USER", "init", NULL, "OK")) /\ OnPrev("USER", "init", NULL, "OK").fn = "init"
      /\ \A state : /\ Cold(OnPrev("USER", "close", NULL, state))
                    /\ OnPrev("USER", "close", NULL, state).fn = "close"
  BY ColdOnes, HandlerFields, Neighbours DEF OnPrev
<1>8. CASE UserInit
  BY <1>5, <1>7, <1>8 DEF UserInit
<1>9. CASE UserPull
  BY <1>4, <1>5, <1>6, <1>7, <1>9 DEF UserPull
<1>10. CASE UserConnect /\ Running.state # "OK"
  BY <1>5, <1>7, <1>10 DEF UserConnect
<1>11. CASE UserCloseExternally
  <2>1. /\ Leaves(<<>>, <<>>) /\ connection_state' # "OPENING"
        /\ layer_state' = [layer_state EXCEPT !["USER"] = "CLOSED"]
    BY <1>11 DEF UserCloseExternally
  <2>. QED
    BY <1>2, <1>6, <2>1
<1>. QED
  BY <1>8, <1>9, <1>10, <1>11

\* The connection is open for the user when it is for the layers below.
LEMMA UserConnectAbove ==
  ASSUME IInv, Above, UserConnect, Running.state = "OK"
  PROVE  Above'
<1>1. /\ Runs /\ Running.layer = "USER" /\ Running.fn = "connect" /\ Leaves(<<>>, <<>>)
      /\ layer_state' = [layer_state EXCEPT !["USER"] = "CONNECTED"]
      /\ connection_state' = "OPENED" /\ layersUnchanged /\ UNCHANGED <<confirmed, sent>>
  BY RunsIt DEF UserConnect, userVars
<1>2. Shape /\ Running \in flight /\ Connected(Running)
      /\ layer_state'["CODEC"] = layer_state["CODEC"]
  BY <1>1, RunningFits, RunningIsFirst, Neighbours DEF IInv, Shape, Connected
<1>3. /\ UNCHANGED <<task_queue, push_cs, logic_handler, to_write_buffer>> /\ Receives
      /\ \A l : Has(l)' = Has(l)
  BY <1>1, UserSharesAbove
<1>4. MarkedStay /\ flight' \subseteq others /\ others \subseteq flight
  BY <1>1, <1>2, FlowUnmarked, FlowOthers, InFlight
<1>5. /\ OpenOrLater /\ push_cs = "NONE" /\ \A g \in flight : ~Message(g)
      /\ \A h \in others : ~Connected(h)
  BY <1>1, <1>2, Gone DEF Above, Opened
<1>6. (OpenOrLater' <=> OpenOrLater) /\ (CanServe("CODEC")' <=> CanServe("CODEC"))
  BY <1>2, <1>3 DEF OpenOrLater, CanServe, NotOperational, Has
<1>7. Opened'
  <2>1. OnceConnected'
    BY <1>4, MarkedOnce DEF Above, Opened
  <2>2. \A h \in flight' : ~Connected(h) /\ ~Message(h)
    BY <1>4, <1>5
  <2>. QED
    BY <1>1, <1>3, <1>5, <1>6, <2>1, <2>2 DEF Opened, Connected, Message
<1>8. Places'
  BY <1>1, <1>3, <1>4, MarkedCarried, PlacesStay DEF Above
<1>9. Handed'
  <2>1. CanServe("CODEC") =>
          /\ to_write_buffer' # NULL => to_write_buffer'.data = InHand
          /\ \A h \in flight' : Handing(h) => h.data = InHand
          /\ \A h \in flight' : PartDone(h) => h \in flight
    BY <1>3, <1>4 DEF Above, Handed
  <2>. QED
    BY <1>3, <1>6, <2>1, HandedStays DEF Above
<1>10. Reported'
  BY <1>1, <1>3, <1>4, ReportedStays DEF Above
<1>. QED
  BY <1>7, <1>8, <1>9, <1>10 DEF Above

\* What becomes of a message is told once, and is what it was told.
LEMMA UserConfirmedAbove ==
  ASSUME IInv, Above, UserConfirmed
  PROVE  Above'
<1>1. PICK n, state : n = Running.data /\ state = Running.state
  OBVIOUS
<1>2. /\ Runs /\ Running.layer = "USER" /\ Running.fn = "push" /\ Returns(<<>>, <<>>)
      /\ confirmed' = [confirmed EXCEPT ![n] = Append(confirmed[n], state)]
      /\ layersUnchanged /\ UNCHANGED <<connection_state, sent>>
  BY <1>1, RunsIt DEF UserConfirmed
<1>3. Shape /\ Running \in flight /\ Told(Running) /\ Carries(Running, n)
  BY <1>1, <1>2, RunningFits, RunningIsFirst DEF IInv, Told, Carries
<1>4. /\ UNCHANGED <<task_queue, push_cs, logic_handler, to_write_buffer>> /\ Receives
      /\ \A l : Has(l)' = Has(l)
  BY <1>2, UserSharesAbove
<1>5. /\ Leaves(<<>>, <<>>) /\ layer_state'["CODEC"] = layer_state["CODEC"]
      /\ layer_state'["USER"] = layer_state["USER"]
  BY <1>2, <1>3, UserReturns
<1>6. MarkedStay /\ flight' \subseteq others /\ others \subseteq flight
  BY <1>2, <1>3, <1>5, FlowUnmarked, FlowOthers, InFlight
<1>7. (OpenOrLater' <=> OpenOrLater) /\ (CanServe("CODEC")' <=> CanServe("CODEC"))
  BY <1>4, <1>5 DEF OpenOrLater, CanServe, NotOperational, Has
<1>8. Opened'
  BY <1>2, <1>4, <1>5, <1>6, <1>7, OpenedStays DEF Above
<1>9. Handed'
  <2>1. CanServe("CODEC") =>
          /\ to_write_buffer' # NULL => to_write_buffer'.data = InHand
          /\ \A h \in flight' : Handing(h) => h.data = InHand
          /\ \A h \in flight' : PartDone(h) => h \in flight
    BY <1>4, <1>6 DEF Above, Handed
  <2>. QED
    BY <1>4, <1>7, <2>1, HandedStays DEF Above
<1>10. DOMAIN confirmed = UserMessages /\ DOMAIN confirmed' = UserMessages
  BY <1>2 DEF Above, Places
<1>11. ASSUME NEW m \in UserMessages
       PROVE  /\ m # n => confirmed'[m] = confirmed[m]
              /\ m = n => /\ confirmed[m] = <<>> /\ confirmed'[m] = <<state>> /\ m \in sent
                          /\ ~Waits(m) /\ \A h \in others : ~Carries(h, m)
  <2>1. m # n => confirmed'[m] = confirmed[m]
    BY <1>2, <1>10
  <2>2. CASE m = n
    <3>1. /\ OnceCarried(m) /\ Carries(Running, m) /\ confirmed[m] = <<>> /\ m \in sent
          /\ ~Waits(m)
      BY <1>3, <2>2 DEF Above, Places, OnePlace
    <3>2. confirmed'[m] = Append(confirmed[m], state)
      BY <1>2, <1>10, <2>2
    <3>3. confirmed'[m] = <<state>>
      <4>1. Append(<<>>, state) = <<state>>
        OBVIOUS
      <4>. QED
        BY <3>1, <3>2, <4>1
    <3>4. \A h \in others : ~Carries(h, m)
      BY <1>2, <1>3, <3>1, Gone
    <3>. QED
      BY <2>2, <3>1, <3>3, <3>4
  <2>3. CASE m # n
    BY <2>1, <2>3
  <2>. QED
    BY <2>2, <2>3
<1>12. Places'
  <2>1. ASSUME NEW m \in UserMessages PROVE OnePlace(m)'
    <3>1. OnePlace(m)
      BY DEF Above, Places
    <3>2. OnceCarried(m)'
      BY <1>6, <3>1, MarkedOnce DEF OnePlace
    <3>3. (Waits(m)' <=> Waits(m)) /\ sent' = sent /\ task_queue' = task_queue
      BY <1>2, <1>4 DEF Waits
    <3>4. \A h \in flight' : Carries(h, m) =>
            h \in flight /\ m # n
      BY <1>6, <1>11
    <3>5. Waits(m) => m # n
      BY <1>11
    <3>6. confirmed'[m] # <<>> => m \in sent /\ \E s : confirmed'[m] = <<s>>
      BY <1>11, <3>1 DEF OnePlace
    <3>7. \A h \in flight' : Carries(h, m)' <=> Carries(h, m)
      BY DEF Carries, Message, Told
    <3>. QED
      BY <1>11, <3>1, <3>2, <3>3, <3>4, <3>5, <3>6, <3>7 DEF OnePlace
  <2>. QED
    BY <1>10, <2>1 DEF Places
<1>13. Reported'
  <2>1. \A m : MessageReceived(m) => MessageReceived(m)'
    BY <1>4, ReceivedStay
  <2>2. ASSUME NEW m \in UserMessages, confirmed'[m] = <<"WRITTEN">> PROVE MessageReceived(m)
    <3>1. CASE m = n
      <4>1. state = "WRITTEN"
        BY <1>11, <2>2, <3>1
      <4>. QED
        BY <1>1, <1>3, <3>1, <4>1 DEF Above, Reported
    <3>2. CASE m # n
      BY <1>11, <2>2, <3>2 DEF Above, Reported
    <3>. QED
      BY <3>1, <3>2
  <2>3. \A h \in flight' : Told(h) /\ h.state = "WRITTEN" => MessageReceived(h.data)
    BY <1>6 DEF Above, Reported
  <2>. QED
    BY <2>1, <2>2, <2>3 DEF Reported, Told
<1>. QED
  BY <1>8, <1>9, <1>12, <1>13 DEF Above

LEMMA UserAbove ==
  ASSUME IInv, Above, UserNext
  PROVE  Above'
BY UserApartAbove, UserConnectAbove, UserConfirmedAbove DEF UserNext

\* What is asked for is behind what is queued, and changes the state of the user only.
LEMMA AskedAbove ==
  ASSUME IInv, NEW h, Asked(h), Kind(h) = "other", ~Inner(h)
  PROVE  /\ ~Marked(h) => MarkedStay
         /\ flight' \subseteq flight \cup {h}
         /\ \A S : OnceIn(S) /\ (h \notin S \/ \A g \in flight : g \notin S) => OnceIn(S)'
         /\ UNCHANGED <<codecVars, tlsVars, user_data, task_queue, push_cs, logic_handler,
                        to_write_buffer>>
         /\ layer_state'["CODEC"] = layer_state["CODEC"]
         /\ layer_state'["USER"] = StateAfter(layer_state["USER"], h)
<1>1. /\ Shape /\ Paths /\ Idle /\ queue' = Append(queue, h) /\ stack' = stack
      /\ UNCHANGED <<codecVars, tlsVars, user_data>>
  BY DEF IInv, Asked
<1>2. flight' \subseteq flight \cup {h}
  BY <1>1, FlowAsked
<1>3. \A S : OnceIn(S) /\ (h \notin S \/ \A g \in flight : g \notin S) => OnceIn(S)'
  BY <1>1, AskedOnceIn
<1>4. ~Marked(h) => MarkedStay
  BY <1>2, <1>3 DEF MarkedStay
<1>5. UNCHANGED <<task_queue, push_cs, logic_handler, to_write_buffer>>
  BY <1>1 DEF codecVars, tlsVars, layerVars
<1>6. /\ layer_state'["CODEC"] = layer_state["CODEC"]
      /\ layer_state'["USER"] = StateAfter(layer_state["USER"], h)
  <2>1. layer_state' = [layer_state EXCEPT !["USER"] = StateAfter(layer_state["USER"], h)]
    BY DEF Asked
  <2>. QED
    BY <1>1, <2>1, Neighbours DEF Shape
<1>. QED
  BY <1>1, <1>2, <1>3, <1>4, <1>5, <1>6

LEMMA ShutdownAbove ==
  ASSUME IInv, Above, Shutdown
  PROVE  Above'
<1>1. PICK h : h = OnPrev("USER", "close", NULL, "OK")
  OBVIOUS
<1>2. /\ Asked(h) /\ UNCHANGED <<connection_state, received, confirmed, sent>>
      /\ layer_state["USER"] = "CONNECTED"
  BY <1>1 DEF Shutdown, netVars, userVars
<1>3. h.fn = "close" /\ h.layer = "CODEC"
  BY <1>1, HandlerFields, Neighbours DEF OnPrev
<1>4. Cold(h) /\ ~Marked(h) /\ Kind(h) = "other" /\ ~Inner(h)
  BY <1>3, ColdOnes DEF Cold, Kind, Inner
<1>5. /\ MarkedStay /\ flight' \subseteq flight \cup {h}
      /\ UNCHANGED <<codecVars, tlsVars, user_data>>
      /\ layer_state'["CODEC"] = layer_state["CODEC"]
  BY <1>2, <1>4, AskedAbove
<1>6. PICK new : new = {h}
  OBVIOUS
<1>7. flight' \subseteq flight \cup new /\ \A g \in new : ~Handing(g) /\ ~PartDone(g)
  BY <1>4, <1>5, <1>6 DEF Cold
<1>. QED
  BY <1>2, <1>5, <1>7, AboveApart

\* A message that is sent was not sent before, and is sent when the connection is open.
LEMMA SendMessageAbove ==
  ASSUME IInv, Above, NEW n \in UserMessages, Send(n)
  PROVE  Above'
<1>1. PICK h : h = OnPrev("USER", "push", n, "OK")
  OBVIOUS
<1>2. /\ Asked(h) /\ UNCHANGED <<connection_state, received, confirmed>>
      /\ layer_state["USER"] = "CONNECTED" /\ n \notin sent /\ sent' = sent \cup {n}
  BY <1>1 DEF Send, netVars
<1>3. h.fn = "push" /\ h.layer = "CODEC" /\ h.state = "OK" /\ h.data = n
  BY <1>1, HandlerFields, Neighbours DEF OnPrev
<1>4. /\ Kind(h) = "other" /\ ~Inner(h) /\ Message(h) /\ ~Connected(h) /\ ~Told(h)
      /\ ~Handing(h) /\ ~PartDone(h) /\ \A m : Carries(h, m) <=> m = n
  BY <1>3 DEF Kind, Inner, Message, Connected, Told, Handing, PartDone, Carries
<1>5. /\ flight' \subseteq flight \cup {h}
      /\ \A S : OnceIn(S) /\ (h \notin S \/ \A g \in flight : g \notin S) => OnceIn(S)'
      /\ UNCHANGED <<task_queue, push_cs, logic_handler, to_write_buffer, user_data>>
      /\ layer_state'["CODEC"] = layer_state["CODEC"]
      /\ layer_state'["USER"] = "CONNECTED"
  BY <1>2, <1>3, <1>4, AskedAbove DEF StateAfter
<1>6. Receives /\ \A l : Has(l)' = Has(l)
  <2>1. tls_library' = tls_library
    BY <1>2 DEF Asked, tlsVars
  <2>. QED
    BY <1>2, <1>5, <2>1 DEF Receives, Has
<1>7. (OpenOrLater' <=> OpenOrLater) /\ (CanServe("CODEC")' <=> CanServe("CODEC"))
  BY <1>5, <1>6 DEF OpenOrLater, CanServe, NotOperational, Has
<1>8. OpenOrLater /\ connection_state = "OPENED" /\ \A g \in flight : ~Connected(g)
  <2>1. connection_state = "OPENED"
    BY <1>2 DEF IInv, Down
  <2>. QED
    BY <1>2, <2>1 DEF Above, Opened
<1>9. Opened'
  <2>1. OnceConnected'
    <3>1. PICK S : S = {g \in flight \cup flight' : Connected(g)}
      OBVIOUS
    <3>2. h \notin S /\ \A g \in flight \cup flight' : g \in S <=> Connected(g)
      BY <1>4, <3>1
    <3>. QED
      BY <1>5, <3>2, ConnectedOnce DEF Above, Opened
  <2>2. \A g \in flight' : ~Connected(g)
    BY <1>4, <1>5, <1>8
  <2>3. /\ push_cs' # "NONE" /\ Has("TLS")' => logic_handler' = "DATA"
        /\ push_cs' # "NONE" => Has("CODEC")'
    BY <1>5, <1>6 DEF Above, Opened
  <2>. QED
    BY <1>2, <1>7, <1>8, <2>1, <2>2, <2>3 DEF Opened, Connected, Message
<1>10. Places'
  <2>1. ASSUME NEW m \in UserMessages PROVE OnePlace(m)'
    <3>1. OnePlace(m)
      BY DEF Above, Places
    <3>2. m = n => ~Waits(m) /\ confirmed[m] = <<>> /\ \A g \in flight : ~Carries(g, m)
      BY <1>2, <3>1 DEF OnePlace
    <3>3. OnceCarried(m)'
      <4>1. PICK S : S = {g \in flight \cup flight' : Carries(g, m)}
        OBVIOUS
      <4>2. \A g \in flight \cup flight' : g \in S <=> Carries(g, m)
        BY <4>1
      <4>3. h \notin S \/ \A g \in flight : g \notin S
        BY <1>4, <3>2, <4>1
      <4>. QED
        BY <1>5, <3>1, <4>2, <4>3, CarriedOnce DEF OnePlace
    <3>4. (Waits(m)' <=> Waits(m)) /\ task_queue' = task_queue
      BY <1>5 DEF Waits
    <3>5. ASSUME NEW g \in flight', Carries(g, m)
          PROVE  m \in sent' /\ ~Waits(m) /\ confirmed[m] = <<>>
      <4>1. CASE g = h
        BY <1>2, <1>4, <3>2, <3>5, <4>1
      <4>2. CASE g \in flight
        BY <1>2, <3>1, <3>5, <4>2 DEF OnePlace
      <4>. QED
        BY <1>5, <4>1, <4>2
    <3>6. \A g \in flight' : Carries(g, m)' <=> Carries(g, m)
      BY DEF Carries, Message, Told
    <3>. QED
      BY <1>2, <3>1, <3>3, <3>4, <3>5, <3>6 DEF OnePlace
  <2>. QED
    BY <1>2, <2>1 DEF Above, Places
<1>11. Handed'
  <2>1. CanServe("CODEC") =>
          /\ to_write_buffer' # NULL => to_write_buffer'.data = InHand
          /\ \A g \in flight' : Handing(g) => g.data = InHand
          /\ \A g \in flight' : PartDone(g) => g \in flight
    BY <1>4, <1>5 DEF Above, Handed
  <2>. QED
    BY <1>5, <1>6, <1>7, <2>1, HandedStays DEF Above
<1>12. Reported'
  BY <1>2, <1>4, <1>5, <1>6, ReportedStays DEF Above
<1>. QED
  BY <1>9, <1>10, <1>11, <1>12 DEF Above

\* A connection is opened when nothing of the one before is left.
LEMMA OpenAbove ==
  ASSUME IInv, IInv', Above, Open
  PROVE  Above'
<1>1. PICK h : h = Handle("init", "USER", NULL, "OK")
  OBVIOUS
<1>2. /\ Asked(h) /\ Idle /\ connection_state \in {"UNINITIALIZED", "CLOSED", "OPEN_FAILED"}
      /\ confirmed' = [m \in UserMessages |-> <<>>]
  BY <1>1 DEF Open, Asked
<1>3. h.fn = "init" /\ h.layer = "USER"
  BY <1>1, HandlerFields
<1>4. /\ Kind(h) = "other" /\ ~Inner(h) /\ Cold(h)
  BY <1>3, ColdOnes DEF Kind, Inner
<1>5. /\ flight' \subseteq flight \cup {h} /\ MarkedStay
      /\ UNCHANGED <<task_queue, push_cs, to_write_buffer>>
      /\ layer_state'["USER"] = "CONNECTING"
  BY <1>2, <1>3, <1>4, AskedAbove DEF StateAfter, Cold
<1>6. flight = {}
  BY <1>2, NothingOpens
<1>7. push_cs = "NONE" /\ task_queue = <<>>
  <2>1. ~Has("CODEC")
    BY <1>2 DEF IInv, Down
  <2>. QED
    BY <2>1 DEF Above, Opened, Handed
<1>8. \A g \in flight' : ~Connected(g) /\ ~Message(g) /\ ~Told(g)
  BY <1>4, <1>5, <1>6 DEF Cold, Marked
<1>9. Opened'
  <2>1. OnceConnected'
    BY <1>5, MarkedOnce DEF Above, Opened
  <2>. QED
    BY <1>5, <1>7, <1>8, <2>1 DEF Opened, Connected, Message
<1>10. Places'
  <2>1. ASSUME NEW m \in UserMessages PROVE OnePlace(m)'
    <3>1. OnceCarried(m)'
      BY <1>5, MarkedOnce DEF Above, Places, OnePlace
    <3>2. confirmed'[m] = <<>> /\ task_queue' = <<>> /\ DOMAIN task_queue' = {}
      BY <1>2, <1>5, <1>7, AnyLiteral
    <3>3. ~Waits(m)'
      BY <3>2 DEF Waits
    <3>4. \A g \in flight' : ~Carries(g, m)'
      BY <1>8 DEF Carries, Message, Told
    <3>. QED
      BY <3>1, <3>2, <3>3, <3>4 DEF OnePlace
  <2>. QED
    BY <1>2, <2>1 DEF Places
<1>11. Handed'
  BY <1>5, <1>7, HandedNone
<1>12. Reported'
  <2>1. <<>> # <<"WRITTEN">>
    OBVIOUS
  <2>. QED
    BY <1>2, <1>8, <2>1 DEF Reported, Told
<1>. QED
  BY <1>9, <1>10, <1>11, <1>12 DEF Above

\* The loop, and what is ready.
LEMMA ReadyMarked ==
  ASSUME IInv, Idle, NEW h, stack' = <<h>>, queue' = queue, Cold(h)
  PROVE  MarkedStay /\ flight' \subseteq flight \cup {h}
<1>1. Shape
  BY DEF IInv
<1>2. flight' \subseteq flight \cup {h}
  BY <1>1, FlowReady
<1>3. \A S : OnceIn(S) /\ h \notin S => OnceIn(S)'
  BY <1>1, ReadyOnceIn
<1>. QED
  BY <1>2, <1>3 DEF MarkedStay, Cold

LEMMA LoopAbove ==
  ASSUME IInv, Above, UNCHANGED <<stack, queue, layer_state, user_data, connection_state, netVars,
                                  codecVars, tlsVars, userVars>>
  PROVE  Above'
<1>1. inFlight' = inFlight /\ flight' = flight
  BY DEF flight, inFlight
<1>2. MarkedStay
  <2>1. ASSUME NEW S, OnceIn(S) PROVE OnceIn(S)'
    BY <1>1, <2>1 DEF OnceIn
  <2>. QED
    BY <1>1, <2>1 DEF MarkedStay
<1>3. PICK new : new = {}
  OBVIOUS
<1>4. flight' \subseteq flight \cup new /\ \A g \in new : ~Handing(g) /\ ~PartDone(g)
  BY <1>1, <1>3
<1>5. UNCHANGED <<codecVars, tlsVars, user_data, received, confirmed, sent>>
  BY DEF netVars, userVars
<1>. QED
  BY <1>2, <1>4, <1>5, AboveApart

LEMMA WhatIsReadyAbove ==
  ASSUME IInv, Above, Ready \/ ReadsFile
  PROVE  Above'
<1>1. PICK h : /\ Idle /\ stack' = <<h>> /\ queue' = queue /\ h.layer \in {"IO", "RESOURCE"}
               /\ UNCHANGED <<layer_state, user_data, connection_state, received, task_queue,
                              push_cs, logic_handler, to_write_buffer, tls_library, confirmed,
                              sent>>
  <2>1. CASE Ready
    <3>1. Idle /\ stack' = <<on_socket>> /\ queue' = queue /\ on_socket.layer = "IO"
      BY <2>1 DEF Ready, SocketReady, IInv, Shape
    <3>. QED
      BY <2>1, <3>1
         DEF Ready, SocketReady, sharedUnchanged, codecVars, tlsVars, layerVars, userVars
  <2>2. CASE ReadsFile
    <3>1. PICK h \in file_fds : Idle /\ stack' = <<h>> /\ queue' = queue
      BY <2>2 DEF ReadsFile, FileReady
    <3>2. h.layer = "RESOURCE"
      BY <3>1, HandlerFields DEF IInv, Alone, Coroutine
    <3>. QED
      BY <2>2, <3>1, <3>2
         DEF ReadsFile, FileReady, netVars, codecVars, layerVars, userVars
  <2>. QED
    BY <2>1, <2>2
<1>2. Cold(h)
  BY <1>1, ColdOnes
<1>3. MarkedStay /\ flight' \subseteq flight \cup {h}
  BY <1>1, <1>2, ReadyMarked
<1>4. Receives /\ \A l : Has(l)' = Has(l)
  BY <1>1 DEF Receives, Has
<1>5. (OpenOrLater' <=> OpenOrLater) /\ (CanServe("CODEC")' <=> CanServe("CODEC"))
  BY <1>1 DEF OpenOrLater, CanServe, NotOperational
<1>6. CanServe("CODEC") =>
        /\ to_write_buffer' # NULL => to_write_buffer'.data = InHand
        /\ \A g \in flight' : Handing(g) => g.data = InHand
        /\ \A g \in flight' : PartDone(g) => g \in flight
  BY <1>1, <1>2, <1>3 DEF Above, Handed, Cold
<1>. QED
  BY <1>1, <1>3, <1>4, <1>5, <1>6, AboveStays

\* All steps.
LEMMA NextAbove ==
  ASSUME NullIsNoValue, IInv, IInv', Above, Progress, [Next]_vars
  PROVE  Above'
<1>1. CASE Handlers
  BY <1>1, NetAbove, CodecAbove, TlsAbove, ResourceAbove, UserAbove DEF Handlers
<1>2. CASE Open \/ (\E m \in UserMessages : Send(m)) \/ Shutdown
  BY <1>2, OpenAbove, SendMessageAbove, ShutdownAbove
<1>3. CASE Ready \/ ReadsFile
  BY <1>3, WhatIsReadyAbove
<1>4. CASE SkipSockets \/ TimersDone \/ QueueDone
  BY <1>4, LoopAbove DEF SkipSockets, TimersDone, QueueDone, loopUnchanged, layersUnchanged
<1>5. CASE UNCHANGED vars
  BY <1>5, LoopAbove DEF vars, chainVars
<1>. QED
  BY <1>1, <1>2, <1>3, <1>4, <1>5 DEF Next

-----------------------------------------------------------------------------
(* How far the TLS layer is with what it writes.                           *)

\* The TLS layer still writes what it wrote.
KeepsWriting ==
  /\ Receives
  /\ to_write_buffer' \in {to_write_buffer, NULL}
  /\ to_write_buffer # NULL /\ Has("TLS")' /\ logic_handler' = "DATA" =>
       /\ Has("TLS") /\ logic_handler = "DATA"
       /\ write_state' = "WRITTEN" => write_state = "WRITTEN" \/ Reached
       /\ Busy' => RecordIs(on_socket')

NoRecords(queued) == \A i \in DOMAIN queued : Kind(queued[i]) # "record"

LEMMA ProgressApart ==
  ASSUME Progress, KeepsWriting, NEW new, flight' \subseteq flight \cup new,
         \A h \in new :
           /\ ~RecordDone(h)
           /\ h.layer = "IO" /\ h.fn = "push" =>
                (to_write_buffer # NULL /\ logic_handler' = "DATA" => RecordIs(h))
  PROVE  Progress'
<1>1. /\ Receives /\ to_write_buffer' \in {to_write_buffer, NULL}
      /\ to_write_buffer # NULL /\ Has("TLS")' /\ logic_handler' = "DATA" =>
           /\ Has("TLS") /\ logic_handler = "DATA"
           /\ write_state' = "WRITTEN" => write_state = "WRITTEN" \/ Reached
           /\ Busy' => RecordIs(on_socket')
  BY DEF KeepsWriting
<1>2. ASSUME to_write_buffer # NULL, Has("TLS")', logic_handler' = "DATA", NEW h \in flight'
      PROVE  /\ h.layer = "IO" /\ h.fn = "push" => RecordIs(h)
             /\ RecordDone(h) => h \in flight
  BY <1>1, <1>2 DEF Progress
<1>. QED
  BY <1>1, <1>2, ProgressStays

LEMMA NotRecords ==
  \A h : Kind(h) # "record" => ~RecordDone(h) /\ ~(h.layer = "IO" /\ h.fn = "push")
BY DEF Kind, RecordDone

\* The same by what is called and queued.
LEMMA ProgressLeaves ==
  ASSUME IInv, Progress, KeepsWriting, Runs
  PROVE  /\ \A queued : AnySeq(queued) /\ NoRecords(queued) /\ Leaves(<<>>, queued) => Progress'
         /\ Leaves(<<>>, <<>>) => Progress'
         /\ \A h : Kind(h) # "record" /\ Leaves(<<>>, <<h>>) => Progress'
         /\ \A h : Kind(h) # "record" /\ Leaves(<<h>>, <<>>) => Progress'
         /\ \A a, b :
              Kind(a) # "record" /\ Kind(b) # "record" /\ Leaves(<<>>, <<a, b>>) => Progress'
         /\ Aborts => Progress'
         /\ GoesOn => Progress'
<1>1. Shape
  BY DEF IInv
<1>2. ASSUME NEW new, flight' \subseteq flight \cup new, \A h \in new : Kind(h) # "record"
      PROVE  Progress'
  BY <1>2, NotRecords, ProgressApart
<1>3. others \subseteq flight
  BY <1>1, InFlight
<1>4. ASSUME NEW queued, AnySeq(queued), NoRecords(queued), Leaves(<<>>, queued) PROVE Progress'
  <2>1. PICK new : new = {queued[i] : i \in DOMAIN queued}
    OBVIOUS
  <2>2. flight' \subseteq others \cup {queued[i] : i \in DOMAIN queued}
    BY <1>1, <1>4, FlowOthers
  <2>3. \A h \in new : Kind(h) # "record"
    BY <1>4, <2>1 DEF NoRecords
  <2>. QED
    BY <1>2, <1>3, <2>1, <2>2, <2>3
<1>5. /\ Leaves(<<>>, <<>>) => flight' \subseteq flight
      /\ \A h : Leaves(<<>>, <<h>>) => flight' \subseteq flight \cup {h}
      /\ \A h : Leaves(<<h>>, <<>>) => flight' \subseteq flight \cup {h}
      /\ \A a, b : Leaves(<<>>, <<a, b>>) => flight' \subseteq flight \cup {a, b}
  BY <1>1, FlowUnmarked
<1>6. ASSUME NEW h, Kind(h) # "record", flight' \subseteq flight \cup {h} PROVE Progress'
  <2>1. PICK new : new = {h}
    OBVIOUS
  <2>. QED
    BY <1>2, <1>6, <2>1
<1>7. ASSUME NEW a, NEW b, Kind(a) # "record", Kind(b) # "record",
             flight' \subseteq flight \cup {a, b}
      PROVE  Progress'
  <2>1. PICK new : new = {a, b}
    OBVIOUS
  <2>. QED
    BY <1>2, <1>7, <2>1
<1>8. ASSUME flight' \subseteq flight PROVE Progress'
  <2>1. PICK new : new = {}
    OBVIOUS
  <2>. QED
    BY <1>2, <1>8, <2>1
<1>9. (Aborts => Progress') /\ (GoesOn => Progress')
  <2>1. Aborts \/ GoesOn => flight' = flight
    BY DEF Aborts, GoesOn, flight, inFlight
  <2>. QED
    BY <1>8, <2>1
<1>10. Leaves(<<>>, <<>>) => Progress'
  BY <1>5, <1>8
<1>11. ASSUME NEW h, Kind(h) # "record", Leaves(<<>>, <<h>>) PROVE Progress'
  BY <1>5, <1>6, <1>11
<1>12. ASSUME NEW h, Kind(h) # "record", Leaves(<<h>>, <<>>) PROVE Progress'
  BY <1>5, <1>6, <1>12
<1>13. ASSUME NEW a, NEW b, Kind(a) # "record", Kind(b) # "record", Leaves(<<>>, <<a, b>>)
       PROVE  Progress'
  BY <1>5, <1>7, <1>13
<1>. QED
  BY <1>4, <1>9, <1>10, <1>11, <1>12, <1>13

LEMMA ProgressReturns ==
  ASSUME IInv, Progress, KeepsWriting, Runs
  PROVE  /\ \A queued : AnySeq(queued) /\ NoRecords(queued) /\ Returns(<<>>, queued) => Progress'
         /\ Returns(<<>>, <<>>) => Progress'
         /\ \A h : Kind(h) # "record" /\ Returns(<<>>, <<h>>) => Progress'
         /\ \A h : Kind(h) # "record" /\ Returns(<<h>>, <<>>) => Progress'
         /\ \A a, b :
              Kind(a) # "record" /\ Kind(b) # "record" /\ Returns(<<>>, <<a, b>>) => Progress'
         /\ Aborts => Progress'
         /\ GoesOn => Progress'
<1>1. \A direct, queued : Returns(direct, queued) => Leaves(direct, queued)
  BY DEF Returns
<1>2. ASSUME NEW queued, AnySeq(queued), NoRecords(queued), Returns(<<>>, queued) PROVE Progress'
  BY <1>1, <1>2, ProgressLeaves
<1>3. ASSUME Returns(<<>>, <<>>) PROVE Progress'
  BY <1>1, <1>3, ProgressLeaves
<1>4. ASSUME NEW h, Kind(h) # "record", Returns(<<>>, <<h>>) PROVE Progress'
  BY <1>1, <1>4, ProgressLeaves
<1>5. ASSUME NEW h, Kind(h) # "record", Returns(<<h>>, <<>>) PROVE Progress'
  BY <1>1, <1>5, ProgressLeaves
<1>6. ASSUME NEW a, NEW b, Kind(a) # "record", Kind(b) # "record", Returns(<<>>, <<a, b>>)
      PROVE  Progress'
  BY <1>1, <1>6, ProgressLeaves
<1>. QED
  BY <1>2, <1>3, <1>4, <1>5, <1>6, ProgressLeaves

\* What is not a record.
LEMMA OtherKinds ==
  \A h :
    \/ h.layer \in {"CODEC", "USER", "RESOURCE"}
    \/ h.layer \in {"IO", "TLS"} /\ h.fn # "push"
    \/ h.layer = "TLS" /\ h.fn = "push" /\ h.state = "OK"
    => Kind(h) # "record"
BY DEF Kind

\* A step that does not touch what is written.
LEMMA KeepsOn ==
  ASSUME Progress,
         UNCHANGED <<to_write_buffer, logic_handler, write_state, on_socket, tls_library>>,
         received \subseteq received', Has("TLS")' => Has("TLS")
  PROVE  KeepsWriting
<1>1. Busy' => Busy
  BY DEF Busy
<1>2. Receives
  BY DEF Receives
<1>. QED
  BY <1>1, <1>2 DEF KeepsWriting, Progress

LEMMA UserProgress ==
  ASSUME IInv, Progress, UserNext
  PROVE  Progress'
<1>1. Runs /\ Running.layer = "USER"
  BY RunsIt DEF UserNext, UserInit, UserConnect, UserConfirmed, UserPull, UserCloseExternally
<1>2. KeepsWriting
  BY KeepsOn DEF UserNext, UserInit, UserConnect, UserConfirmed, UserPull, UserCloseExternally,
                 layersUnchanged, netVars, tlsVars, layerVars, Has
<1>3. \A fn, state : Kind(OnPrev("USER", fn, NULL, state)) # "record"
  BY OtherKinds, HandlerFields, Neighbours DEF OnPrev
<1>4. /\ Returns(<<>>, <<>>) => Progress'
      /\ \A h : Kind(h) # "record" /\ Returns(<<>>, <<h>>) => Progress'
      /\ Leaves(<<>>, <<>>) => Progress'
  BY <1>1, <1>2, ProgressReturns, ProgressLeaves
<1>. QED
  BY <1>3, <1>4 DEF UserNext, UserInit, UserConnect, UserConfirmed, UserPull, UserCloseExternally

LEMMA ResourceProgress ==
  ASSUME IInv, Progress, ResourceNext,
         UNCHANGED <<netVars, codecVars, tls_library, tls_context, layerVars, userVars>>
  PROVE  Progress'
<1>1. /\ Runs /\ Running.layer = "RESOURCE" /\ Files /\ rm # NULL /\ rm.callback # NULL
      /\ coroutineUnchanged
  BY CoroutineFinds DEF ResourceNext, OpenCoroutine, ReadCoroutine, CloseCoroutine, Requested
<1>2. KeepsWriting
  BY <1>1, KeepsOn DEF coroutineUnchanged, netVars, layerVars, Has
<1>3. /\ Leaves(<<>>, <<>>) => Progress'
      /\ \A h : Kind(h) # "record" /\ Leaves(<<h>>, <<>>) => Progress'
      /\ \A h : Kind(h) # "record" /\ Leaves(<<>>, <<h>>) => Progress'
      /\ Aborts => Progress'
  BY <1>1, <1>2, ProgressLeaves
<1>4. \A state : Kind(WithState(rm.callback, state)) # "record"
  BY <1>1, CallbackIs, OtherKinds
<1>5. /\ \A context : EndsWell(context) => Progress'
      /\ \A context, error : EndsBadly(context, error) => Progress'
  BY <1>3, <1>4 DEF EndsWell, EndsBadly
<1>. QED
  BY <1>3, <1>5 DEF ResourceNext, OpenCoroutine, ReadCoroutine, CloseCoroutine

LEMMA RecordsConcat ==
  ASSUME NEW s, NEW t, AnySeq(s), AnySeq(t), NoRecords(s), NoRecords(t), NEW all, all = s \o t
  PROVE  AnySeq(all) /\ NoRecords(all)
<1>1. PICK m, n : m = Len(s) /\ n = Len(t)
  OBVIOUS
<1>2. m \in Nat /\ n \in Nat /\ DOMAIN s = 1..m /\ DOMAIN t = 1..n
  BY <1>1, AnySeqParts
<1>3. /\ AnySeq(all) /\ DOMAIN all = 1..m + n
      /\ \A i \in 1..m + n : all[i] = IF i <= m THEN s[i] ELSE t[i - m]
  BY <1>1, AnyConcat
<1>4. \A i \in 1..m + n : (i <= m => i \in 1..m) /\ (~(i <= m) => i - m \in 1..n)
  BY <1>2
<1>. QED
  BY <1>2, <1>3, <1>4 DEF NoRecords

LEMMA CodecProgress ==
  ASSUME IInv, Progress, CodecNext, UNCHANGED <<netVars, tlsVars, userVars>>
  PROVE  Progress'
<1>1. Runs /\ Running.layer = "CODEC"
  BY RunsIt
     DEF CodecNext, CodecInit, CodecPushMessage, CodecPushPayload, CodecPushWritten,
         CodecPushDropped, CodecPull, CodecPullMalformed, CodecPullDropped, CodecConnect,
         CodecClose, CodecCloseExternally
<1>2. KeepsWriting
  <2>1. Has("TLS")' => Has("TLS")
    BY DEF Has, CodecNext, CodecInit, CodecPushMessage, CodecPushPayload, CodecPushWritten,
           CodecPushDropped, CodecPull, CodecPullMalformed, CodecPullDropped, CodecConnect,
           CodecClose, CodecCloseExternally
  <2>. QED
    BY <2>1, KeepsOn DEF netVars, tlsVars, layerVars
<1>3. /\ \A fn, data, state : Kind(OnNext("CODEC", fn, data, state)) # "record"
      /\ \A fn, data, state : fn # "push" => Kind(OnPrev("CODEC", fn, data, state)) # "record"
      /\ \A data : Kind(OnPrev("CODEC", "push", data, "OK")) # "record"
  BY OtherKinds, HandlerFields, Neighbours DEF OnPrev, OnNext
<1>4. /\ \A queued : AnySeq(queued) /\ NoRecords(queued) /\ Returns(<<>>, queued) => Progress'
      /\ Returns(<<>>, <<>>) => Progress'
      /\ \A h : Kind(h) # "record" /\ Returns(<<>>, <<h>>) => Progress'
      /\ \A a, b : Kind(a) # "record" /\ Kind(b) # "record" /\ Returns(<<>>, <<a, b>>) => Progress'
  BY <1>1, <1>2, ProgressReturns
<1>5. AnySeq(task_queue) /\ Fits(Running)
  BY <1>1, RunningFits DEF Shape
<1>6. \A n \in Nat : AnySeq(Decoded(n)) /\ NoRecords(Decoded(n))
  <2>1. ASSUME NEW n \in Nat, NEW s, s = Decoded(n) PROVE AnySeq(s) /\ NoRecords(s)
    <3>1. s = [i \in 1..n |-> s[i]]
      BY <2>1 DEF Decoded
    <3>2. AnySeq(s) /\ DOMAIN s = 1..n
      BY <3>1, AnyFunction
    <3>3. \A i \in 1..n : Kind(s[i]) # "record"
      BY <1>3, <2>1 DEF Decoded
    <3>. QED
      BY <3>2, <3>3 DEF NoRecords
  <2>. QED
    BY <2>1
<1>7. AnySeq(FailedConfirmations) /\ NoRecords(FailedConfirmations)
  <2>1. PICK s, t : s = FailedConfirmations /\ t = task_queue
    OBVIOUS
  <2>2. AnySeq(s)
    BY <1>5, <2>1, FailedAreMany
  <2>3. DOMAIN s = DOMAIN t /\ \A i \in DOMAIN t : s[i] = Confirmation(t[i], "FAILED_WRITING")
    BY <2>1 DEF FailedConfirmations
  <2>. QED
    BY <1>3, <2>1, <2>2, <2>3 DEF NoRecords, Confirmation
<1>8. \A h : Kind(h) # "record" => AnySeq(<<h>>) /\ NoRecords(<<h>>)
  BY AnyLiteral DEF NoRecords
<1>9. CASE CodecPull \/ CodecPullMalformed \/ CodecPullDropped
  <2>1. Len(Running.data.msgs) \in Nat
    <3>1. Running.fn = "pull"
      BY <1>9, RunsIt DEF CodecPull, CodecPullMalformed, CodecPullDropped
    <3>. QED
      BY <1>1, <1>5, <3>1 DEF Fits, Formed
  <2>2. CASE CodecPull
    BY <1>4, <1>6, <2>1, <2>2 DEF CodecPull
  <2>3. CASE CodecPullMalformed
    <3>1. PICK n \in 0..Len(Running.data.msgs) - 1 :
            Returns(<<>>, Decoded(n) \o FailedConfirmations
                          \o <<OnPrev("CODEC", "close", NULL, "ERROR")>>)
      BY <2>3 DEF CodecPullMalformed
    <3>2. n \in Nat
      BY <2>1
    <3>3. PICK r, s, c : /\ r = Decoded(n) /\ s = FailedConfirmations
                         /\ c = <<OnPrev("CODEC", "close", NULL, "ERROR")>>
      OBVIOUS
    <3>4. /\ AnySeq(r) /\ AnySeq(s) /\ AnySeq(c)
          /\ NoRecords(r) /\ NoRecords(s) /\ NoRecords(c)
      BY <1>3, <1>6, <1>7, <1>8, <3>2, <3>3
    <3>5. PICK both, all : both = r \o s /\ all = both \o c
      OBVIOUS
    <3>6. AnySeq(both) /\ NoRecords(both)
      BY <3>4, <3>5, RecordsConcat
    <3>7. AnySeq(all) /\ NoRecords(all)
      BY <3>4, <3>5, <3>6, RecordsConcat
    <3>. QED
      BY <1>4, <3>1, <3>3, <3>5, <3>7
  <2>4. CASE CodecPullDropped
    BY <1>4, <2>4 DEF CodecPullDropped
  <2>. QED
    BY <1>9, <2>2, <2>3, <2>4
<1>10. CASE CodecCloseExternally
  <2>1. PICK h, s : /\ h = OnNext("CODEC", "close_externally", NULL, Running.state)
                    /\ s = FailedConfirmations /\ Returns(<<>>, Append(s, h))
    BY <1>10 DEF CodecCloseExternally
  <2>2. PICK one, all : one = <<h>> /\ all = s \o one
    OBVIOUS
  <2>3. AnySeq(s) /\ NoRecords(s) /\ AnySeq(one) /\ NoRecords(one)
    BY <1>3, <1>7, <1>8, <2>1, <2>2
  <2>4. AnySeq(all) /\ NoRecords(all)
    BY <2>2, <2>3, RecordsConcat
  <2>5. Append(s, h) = all
    BY <2>2, <2>3, AnyAppend
  <2>. QED
    BY <1>4, <2>1, <2>4, <2>5
<1>11. CASE CodecInit \/ CodecPushDropped \/ CodecConnect
  <2>1. CASE CodecInit
    BY <1>3, <1>4, <2>1 DEF CodecInit
  <2>2. CASE CodecPushDropped
    BY <1>4, <2>2 DEF CodecPushDropped
  <2>3. CASE CodecConnect
    BY <1>3, <1>4, <2>3 DEF CodecConnect
  <2>. QED
    BY <1>11, <2>1, <2>2, <2>3
<1>12. CASE CodecClose
  <2>1. PICK h : /\ \/ h = OnPrev("CODEC", "close", NULL, Running.state)
                    \/ h = Handle("close_externally", "CODEC", NULL, Running.state)
                 /\ Returns(<<>>, <<h>>)
    BY <1>12 DEF CodecClose
  <2>2. Kind(h) # "record"
    BY <1>3, <2>1, OtherKinds, HandlerFields
  <2>. QED
    BY <1>4, <2>1, <2>2
<1>13. \A m : Kind(HeaderOf(m)) # "record" /\ Kind(PayloadOf(m)) # "record"
  BY <1>3 DEF HeaderOf, PayloadOf
<1>14. \A m, state : Kind(Confirmation(m, state)) # "record"
  BY <1>3 DEF Confirmation
<1>15. CASE CodecPushMessage
  BY <1>4, <1>13, <1>15 DEF CodecPushMessage
<1>16. CASE CodecPushPayload
  BY <1>4, <1>13, <1>16 DEF CodecPushPayload
<1>17. CASE CodecPushWritten
  <2>1. \/ Returns(<<>>, <<Confirmation(Head(task_queue), Running.state)>>)
        \/ Returns(<<>>, <<Confirmation(Head(task_queue), Running.state), HeaderOf(task_queue[2])>>)
    BY <1>17 DEF CodecPushWritten
  <2>. QED
    BY <1>4, <1>13, <1>14, <2>1
<1>. QED
  BY <1>9, <1>10, <1>11, <1>12, <1>15, <1>16, <1>17 DEF CodecNext

\* The network layer hands on what it has written.
LEMMA NetKeepsWriting ==
  ASSUME Progress, UNCHANGED <<codecVars, tlsVars, userVars>>, Has("TLS")' => Has("TLS"),
         received \subseteq received',
         to_write_buffer # NULL /\ Has("TLS") /\ logic_handler = "DATA" /\ Busy' =>
           RecordIs(on_socket')
  PROVE  KeepsWriting
<1>1. UNCHANGED <<to_write_buffer, logic_handler, write_state, tls_library>>
  BY DEF tlsVars, layerVars
<1>2. Receives
  BY <1>1 DEF Receives
<1>. QED
  BY <1>1, <1>2 DEF KeepsWriting

LEMMA IoPushProgress ==
  ASSUME IInv, Progress, IoPush, UNCHANGED <<codecVars, tlsVars, userVars>>
  PROVE  Progress'
<1>1. /\ Runs /\ Running.layer = "IO" /\ Running.fn = "push" /\ Running \in flight
      /\ on_socket' = on_socket /\ user_data' = user_data /\ received \subseteq received'
      /\ UNCHANGED <<to_write_buffer, logic_handler, write_state, tls_library>>
  BY RunsIt, RunningIsFirst DEF IoPush, ServerReceives, tlsVars, layerVars, IInv
<1>2. KeepsWriting
  <2>1. Busy' <=> Busy
    BY <1>1 DEF Busy
  <2>. QED
    BY <1>1, <2>1, NetKeepsWriting DEF Has, Progress
<1>3. CASE /\ Returns(<<>>, <<OnNext("IO", "push", NULL, "WRITTEN")>>)
           /\ IF Running.data.last THEN ServerReceives(Running.data.msg)
                                   ELSE UNCHANGED <<wire, received, answered>>
  <2>1. PICK h : h = OnNext("IO", "push", NULL, "WRITTEN")
    OBVIOUS
  <2>2. /\ h.layer = "TLS" /\ h.fn = "push" /\ flight' \subseteq flight \cup {h}
    BY <1>1, <1>3, <2>1, FlowUnmarked, HandlerFields, Neighbours DEF IInv, Returns, OnNext
  <2>3. ASSUME to_write_buffer # NULL, Has("TLS"), logic_handler = "DATA"
        PROVE  RecordReceived(to_write_buffer.data, to_write_buffer.left - 1)'
    <3>1. Running.data = [msg |-> Record, last |-> TRUE]
      BY <1>1, <2>3 DEF Progress, RecordIs
    <3>2. ServerReceives(Record)
      BY <1>3, <3>1
    <3>3. Record.type = "RECORD"
      BY DEF Record, TlsRecord
    <3>4. Record.owner \in received'
      BY <3>2, <3>3 DEF ServerReceives, carriers
    <3>. QED
      BY <1>1, <3>4 DEF RecordReceived, Record, TlsRecord
  <2>4. Receives
    BY <1>2 DEF KeepsWriting
  <2>5. to_write_buffer # NULL /\ Has("TLS")' /\ logic_handler' = "DATA" =>
           /\ Has("TLS") /\ logic_handler = "DATA"
           /\ write_state' = "WRITTEN" => write_state = "WRITTEN" \/ Reached
           /\ Busy' => RecordIs(on_socket')
    BY <1>2 DEF KeepsWriting
  <2>6. ASSUME to_write_buffer # NULL, Has("TLS"), logic_handler = "DATA", NEW g \in flight'
        PROVE  /\ g.layer = "IO" /\ g.fn = "push" => RecordIs(g)
               /\ RecordDone(g) =>
                    g \in flight \/ RecordReceived(to_write_buffer.data, to_write_buffer.left - 1)'
    BY <2>2, <2>3, <2>6 DEF Progress
  <2>. QED
    BY <1>1, <2>4, <2>5, <2>6, ProgressStays
<1>4. CASE Returns(<<>>, <<Handle("close_externally", "IO", NULL, "ERROR")>>)
  <2>1. Kind(Handle("close_externally", "IO", NULL, "ERROR")) # "record"
    BY OtherKinds, HandlerFields
  <2>. QED
    BY <1>1, <1>2, <1>4, <2>1, ProgressReturns
<1>. QED
  BY <1>3, <1>4 DEF IoPush

LEMMA NetProgress ==
  ASSUME IInv, Progress, NetNext, UNCHANGED <<codecVars, tlsVars, userVars>>
  PROVE  Progress'
<1>1. Runs /\ Running.layer = "IO" /\ Running \in flight /\ received \subseteq received'
  BY RunsIt, RunningIsFirst
     DEF IInv, NetNext, IoInit, IoConnectStart, IoConnectResume, IoPush, IoPushBusy, IoPushDropped,
         IoPull, IoPullReset, IoClose, IoCloseExternally, netVars, ServerReceives
<1>2. Has("TLS")' => Has("TLS")
  BY DEF Has, NetNext, IoInit, IoConnectStart, IoConnectResume, IoPush, IoPushBusy, IoPushDropped,
         IoPull, IoPullReset, IoClose, IoCloseExternally
<1>3. ASSUME KeepsWriting
      PROVE  /\ Returns(<<>>, <<>>) => Progress'
             /\ \A h : Kind(h) # "record" /\ Returns(<<>>, <<h>>) => Progress'
             /\ Aborts => Progress'
  BY <1>1, <1>3, ProgressReturns
<1>4. ASSUME on_socket' = on_socket \/ on_socket' = NULL PROVE KeepsWriting
  <2>1. Busy' => Busy /\ on_socket' = on_socket
    BY <1>4 DEF Busy
  <2>. QED
    BY <1>1, <1>2, <2>1, NetKeepsWriting DEF Progress
<1>5. /\ \A data, state : Kind(OnNext("IO", "connect", data, state)) # "record"
      /\ \A data, state : Kind(OnNext("IO", "pull", data, state)) # "record"
      /\ \A data, state : Kind(OnNext("IO", "close_externally", data, state)) # "record"
      /\ \A data, state : Kind(Handle("connect", "IO", data, state)) # "record"
      /\ \A data, state : Kind(Handle("close_externally", "IO", data, state)) # "record"
  BY OtherKinds, HandlerFields, Neighbours DEF OnNext
<1>6. CASE IoInit
  BY <1>3, <1>4, <1>5, <1>6 DEF IoInit, netVars
<1>7. CASE IoConnectStart
  <2>1. CASE on_socket' = Running /\ Returns(<<>>, <<>>)
    <3>1. ~Busy'
      BY <1>7, <2>1 DEF Busy, IoConnectStart, IsRunning
    <3>2. KeepsWriting
      BY <1>1, <1>2, <3>1, NetKeepsWriting
    <3>. QED
      BY <1>3, <2>1, <3>2
  <2>2. CASE on_socket' = on_socket /\ Returns(<<>>, <<OnNext("IO", "connect", NULL, "ERROR")>>)
    BY <1>3, <1>4, <1>5, <2>2
  <2>. QED
    BY <1>7, <2>1, <2>2 DEF IoConnectStart
<1>8. CASE IoConnectResume
  BY <1>3, <1>4, <1>5, <1>8 DEF IoConnectResume
<1>9. CASE IoPushBusy
  <2>1. /\ on_socket' = Running /\ Returns(<<>>, <<>>) /\ Running.fn = "push"
    BY <1>9, RunsIt DEF IoPushBusy
  <2>2. to_write_buffer # NULL /\ Has("TLS") /\ logic_handler = "DATA" => RecordIs(on_socket')
    BY <1>1, <2>1 DEF Progress
  <2>3. KeepsWriting
    BY <1>1, <1>2, <2>2, NetKeepsWriting
  <2>. QED
    BY <1>3, <2>1, <2>3
<1>10. CASE IoPushDropped \/ IoClose \/ IoPullReset
  <2>1. KeepsWriting
    BY <1>4, <1>10 DEF IoPushDropped, IoClose, IoPullReset, netVars
  <2>. QED
    BY <1>3, <1>5, <1>10, <2>1 DEF IoPushDropped, IoClose, IoPullReset
<1>11. CASE IoPull
  <2>1. KeepsWriting
    BY <1>4, <1>11 DEF IoPull
  <2>2. Aborts \/ \E h : Kind(h) # "record" /\ Returns(<<>>, <<h>>)
    BY <1>5, <1>11 DEF IoPull
  <2>. QED
    BY <1>3, <2>1, <2>2
<1>12. CASE IoCloseExternally
  <2>1. KeepsWriting
    BY <1>4, <1>12 DEF IoCloseExternally
  <2>. QED
    BY <1>3, <1>5, <1>12, <2>1 DEF IoCloseExternally
<1>. QED
  BY <1>6, <1>7, <1>8, <1>9, <1>10, <1>11, <1>12, IoPushProgress DEF NetNext

\* What the user asks for, and the loop.
LEMMA AskedProgress ==
  ASSUME IInv, Progress, KeepsWriting, NEW h, Asked(h), Kind(h) = "other", ~Inner(h)
  PROVE  Progress'
<1>1. flight' \subseteq flight \cup {h}
  BY AskedAbove
<1>2. PICK new : new = {h}
  OBVIOUS
<1>3. ~RecordDone(h) /\ ~(h.layer = "IO" /\ h.fn = "push")
  BY NotRecords
<1>. QED
  BY <1>1, <1>2, <1>3, ProgressApart

LEMMA AsksProgress ==
  ASSUME IInv, Progress, Open \/ (\E m \in UserMessages : Send(m)) \/ Shutdown
  PROVE  Progress'
<1>1. CASE Open
  <2>1. to_write_buffer' = to_write_buffer /\ ~Has("CODEC")
    BY <1>1 DEF Open, Asked, tlsVars, layerVars, IInv, Down
  <2>2. to_write_buffer = NULL
    BY <2>1 DEF IInv, Down, Session
  <2>. QED
    BY <2>1, <2>2 DEF Progress
<1>2. CASE Shutdown \/ \E m \in UserMessages : Send(m)
  <2>1. PICK h : /\ Asked(h) /\ UNCHANGED netVars
                 /\ \/ h = OnPrev("USER", "close", NULL, "OK")
                    \/ \E m \in UserMessages : h = OnPrev("USER", "push", m, "OK")
    BY <1>2 DEF Shutdown, Send
  <2>2. h.layer = "CODEC" /\ (h.fn = "close" \/ (h.fn = "push" /\ h.state = "OK"))
    BY <2>1, HandlerFields, Neighbours DEF OnPrev
  <2>3. Kind(h) = "other" /\ ~Inner(h)
    BY <2>2 DEF Kind, Inner
  <2>4. KeepsWriting
    BY <2>1, KeepsOn DEF Asked, netVars, tlsVars, layerVars, Has
  <2>. QED
    BY <2>1, <2>3, <2>4, AskedProgress
<1>. QED
  BY <1>1, <1>2

LEMMA LoopProgress ==
  ASSUME IInv, Progress, UNCHANGED <<stack, queue, user_data, netVars, tlsVars>>
  PROVE  Progress'
<1>1. KeepsWriting
  BY KeepsOn DEF netVars, tlsVars, layerVars, Has
<1>2. flight' = flight
  BY DEF flight, inFlight
<1>3. PICK new : new = {}
  OBVIOUS
<1>. QED
  BY <1>1, <1>2, <1>3, ProgressApart

LEMMA WhatIsReadyProgress ==
  ASSUME IInv, Progress, Ready \/ ReadsFile
  PROVE  Progress'
<1>1. CASE Ready
  <2>1. PICK h : h = on_socket
    OBVIOUS
  <2>2. /\ Idle /\ stack' = <<h>> /\ queue' = queue /\ h # NULL /\ on_socket' = PullHandle
        /\ user_data' = user_data /\ received' = received
        /\ UNCHANGED <<codecVars, tlsVars, userVars>>
    BY <1>1, <2>1 DEF Ready, SocketReady
  <2>3. flight' \subseteq flight \cup {h}
    BY <2>2, FlowReady DEF IInv
  <2>4. ~Busy'
    BY <2>2, HandlerFields DEF Busy, PullHandle
  <2>5. KeepsWriting
    BY <2>2, <2>4, NetKeepsWriting DEF Has
  <2>6. h.layer = "IO"
    BY <2>1, <2>2 DEF IInv, Shape
  <2>7. ~RecordDone(h)
    BY <2>6 DEF RecordDone
  <2>8. h.fn = "push" => (to_write_buffer # NULL /\ logic_handler' = "DATA" => RecordIs(h))
    <3>1. h.fn = "push" => Busy /\ Has("TLS")
      BY <2>1, <2>2 DEF Busy, IInv, Down
    <3>2. logic_handler' = logic_handler
      BY <2>2 DEF tlsVars, layerVars
    <3>. QED
      BY <2>1, <3>1, <3>2 DEF Progress
  <2>9. PICK new : new = {h}
    OBVIOUS
  <2>. QED
    BY <2>3, <2>5, <2>7, <2>8, <2>9, ProgressApart
<1>2. CASE ReadsFile
  <2>1. PICK h \in file_fds : Idle /\ stack' = <<h>> /\ queue' = queue
    BY <1>2 DEF ReadsFile, FileReady
  <2>2. h.layer = "RESOURCE"
    BY <2>1, HandlerFields DEF IInv, Alone, Coroutine
  <2>3. flight' \subseteq flight \cup {h}
    BY <2>1, FlowReady DEF IInv
  <2>4. KeepsWriting
    BY <1>2, KeepsOn DEF ReadsFile, FileReady, netVars, layerVars, Has
  <2>5. ~RecordDone(h)
    BY <2>2 DEF RecordDone
  <2>6. PICK new : new = {h}
    OBVIOUS
  <2>. QED
    BY <2>2, <2>3, <2>4, <2>5, <2>6, ProgressApart
<1>. QED
  BY <1>1, <1>2

\* The TLS layer.
LEMMA TlsKeepsWriting ==
  ASSUME Progress, aroundTls, tlsSharedUnchanged, to_write_buffer' \in {to_write_buffer, NULL},
         to_write_buffer # NULL /\ Has("TLS")' /\ logic_handler' = "DATA" =>
           /\ Has("TLS") /\ logic_handler = "DATA"
           /\ write_state' = "WRITTEN" => write_state = "WRITTEN" \/ Reached
  PROVE  KeepsWriting
<1>1. UNCHANGED <<on_socket, received, tls_library>>
  BY DEF aroundTls, tlsSharedUnchanged, netVars
<1>2. Receives /\ (Busy' => Busy)
  BY <1>1 DEF Receives, Busy
<1>. QED
  BY <1>1, <1>2 DEF KeepsWriting, Progress

LEMMA NotDataProgress ==
  ASSUME Progress, aroundTls, tlsSharedUnchanged, to_write_buffer' \in {to_write_buffer, NULL},
         to_write_buffer # NULL => logic_handler' # "DATA"
  PROVE  Progress'
<1>1. Receives
  BY DEF Receives, aroundTls, tlsSharedUnchanged, netVars
<1>. QED
  BY <1>1, ProgressStays

LEMMA NoBufferProgress == to_write_buffer' = NULL => Progress'
BY DEF Progress

LEMMA OpeningProgress ==
  ASSUME IInv, Progress, Above, aroundTls,
         \/ TlsInit \/ TlsInitOpened \/ TlsInitRead \/ TlsInitClosed
         \/ ConnectWrites \/ ConnectReads \/ ConnectDone \/ ConnectAgain
  PROVE  Progress'
<1>1. CASE TlsInit \/ TlsInitOpened \/ TlsInitRead \/ TlsInitClosed
  <2>1. /\ Runs /\ Running.layer = "TLS" /\ Running.fn = "init"
        /\ to_write_buffer' = to_write_buffer
    BY <1>1, RunsIt
       DEF TlsInit, TlsInitOpened, TlsInitRead, TlsInitClosed, ResumesInit, restOfInit
  <2>2. Placed(Running)
    BY <2>1, RunningFits DEF IInv, Fits
  <2>3. logic_handler = "NONE"
    BY <2>1, <2>2 DEF Placed, IInv, Down
  <2>4. to_write_buffer' = NULL
    BY <2>1, <2>3 DEF IInv, Session
  <2>. QED
    BY <2>4, NoBufferProgress
<1>2. CASE ConnectWrites \/ ConnectReads \/ ConnectDone \/ ConnectAgain
  <2>1. /\ Runs /\ Running.layer = "TLS" /\ Running.fn = "connect_handler" /\ Has("TLS")
        /\ to_write_buffer' = to_write_buffer /\ tlsSharedUnchanged
        /\ ConnectDone \/ logic_handler' = logic_handler
    BY <1>2, RunsIt
       DEF ConnectWrites, ConnectReads, ConnectDone, ConnectAgain, Handshaking, InHandler,
           CanServe, Has
  <2>2. Driven(Running)
    BY <2>1, RunningFits DEF IInv, Fits
  <2>3. logic_handler = "CONNECT"
    BY <2>1, <2>2 DEF Driven
  <2>4. to_write_buffer = NULL
    <3>1. push_cs = "NONE"
      BY <2>1, <2>3 DEF Above, Opened
    <3>2. Has("CODEC")
      BY <2>1 DEF IInv, Down
    <3>. QED
      BY <3>1, <3>2 DEF IInv, Session
  <2>. QED
    BY <2>1, <2>4, NoBufferProgress
<1>. QED
  BY <1>1, <1>2

LEMMA RecvProgress ==
  ASSUME IInv, Progress, aroundTls, RecvHandler
  PROVE  Progress'
<1>1. /\ Runs /\ Running.layer = "TLS" /\ tlsSharedUnchanged /\ user_data' = user_data
      /\ UNCHANGED <<logic_handler, write_state, to_write_buffer>>
  BY RunsIt
     DEF RecvHandler, RecvWaits, RecvReads, RecvDelivers, RecvFails, RecvLacksMemory, InHandler,
         dataUnchanged
<1>2. KeepsWriting
  BY <1>1, TlsKeepsWriting DEF Has
<1>3. /\ Returns(<<>>, <<>>) => Progress'
      /\ \A h : Kind(h) # "record" /\ Returns(<<>>, <<h>>) => Progress'
      /\ \A a, b : Kind(a) # "record" /\ Kind(b) # "record" /\ Returns(<<>>, <<a, b>>) => Progress'
      /\ GoesOn => Progress'
  BY <1>1, <1>2, ProgressReturns
<1>4. /\ \A data : Kind(OnNext("TLS", "pull", data, "OK")) # "record"
      /\ \A fn, state : fn # "push" => Kind(Tls(fn, state)) # "record"
  BY OtherKinds, HandlerFields, Neighbours DEF OnNext, Tls
<1>5. CASE RecvWaits
  BY <1>3, <1>5 DEF RecvWaits
<1>6. CASE RecvReads
  BY <1>3, <1>6 DEF RecvReads
<1>7. CASE RecvDelivers
  <2>1. PICK session, a, b :
          /\ a = Tls("pull", "WANT_READ")
          /\ b = OnNext("TLS", "pull", [msgs |-> <<Head(tls_context.pending)>>], "OK")
          /\ Returns(<<>>, PullsAgain(session) \o <<b>>)
    BY <1>7 DEF RecvDelivers
  <2>2. /\ PullsAgain(session) \in {<<>>, <<a>>}
        /\ <<a>> \o <<b>> = <<a, b>> /\ <<>> \o <<b>> = <<b>>
    BY <2>1, TwoOfOne DEF PullsAgain
  <2>3. Kind(a) # "record" /\ Kind(b) # "record"
    BY <1>4, <2>1
  <2>4. CASE PullsAgain(session) = <<>>
    BY <1>3, <2>1, <2>2, <2>3, <2>4
  <2>5. CASE PullsAgain(session) = <<a>>
    BY <1>3, <2>1, <2>2, <2>3, <2>5
  <2>. QED
    BY <2>2, <2>4, <2>5
<1>8. CASE RecvFails \/ RecvLacksMemory
  BY <1>3, <1>4, <1>8 DEF RecvFails, RecvLacksMemory
<1>. QED
  BY <1>5, <1>6, <1>7, <1>8 DEF RecvHandler

\* A record is handed over, and once it has reached the server the next one is written.
LEMMA SendWritesProgress ==
  ASSUME IInv, Progress, aroundTls, SendWrites
  PROVE  Progress'
<1>1. /\ Runs /\ Running.layer = "TLS" /\ tlsSharedUnchanged /\ user_data' = user_data
      /\ UNCHANGED <<logic_handler, to_write_buffer>>
  BY RunsIt DEF SendWrites, InHandler, dataUnchanged
<1>2. CASE to_write_buffer = NULL
  BY <1>1, <1>2, NoBufferProgress
<1>3. CASE to_write_buffer # NULL
  <2>1. SendsRecord(Record)
    BY <1>3 DEF SendWrites
  <2>2. KeepsWriting
    BY <1>1, <2>1, TlsKeepsWriting DEF SendsRecord, Has
  <2>3. PICK h : h = HandedOver(Record)
    OBVIOUS
  <2>4. h.layer = "IO" /\ RecordIs(h)
    BY <2>3, HandlerFields, Neighbours DEF HandedOver, OnPrev, RecordIs
  <2>5. Returns(<<>>, <<>>) \/ Returns(<<>>, <<h>>) \/ Aborts
    BY <2>1, <2>3 DEF SendsRecord
  <2>6. CASE Returns(<<>>, <<>>) \/ Aborts
    BY <1>1, <2>2, <2>6, ProgressReturns
  <2>7. CASE Returns(<<>>, <<h>>)
    <3>1. flight' \subseteq flight \cup {h}
      BY <1>1, <2>7, FlowUnmarked DEF IInv, Returns
    <3>2. PICK new : new = {h}
      OBVIOUS
    <3>. QED
      BY <2>2, <2>4, <3>1, <3>2, ProgressApart DEF RecordDone
  <2>. QED
    BY <2>5, <2>6, <2>7
<1>. QED
  BY <1>2, <1>3

\* No record is under way.
LEMMA NoneUnderWay ==
  ASSUME IInv, Has("TLS"), write_state # "WRITING"
  PROVE  ~Busy /\ \A h \in flight : Kind(h) # "record"
BY DEF IInv, Session, Fits, Driven

\* The layer has the buffer and has handed over none of the records that are left.
LEMMA ProgressBetween ==
  ASSUME Receives, NEW data, NEW n, to_write_buffer'.data = data, to_write_buffer'.left = n,
         n \in 1..RecordsOf(data), \A left \in n..RecordsOf(data) - 1 : RecordReceived(data, left),
         write_state' # "WRITTEN", ~Busy', \A h \in flight' : Kind(h) # "record"
  PROVE  Progress'
<1>1. /\ RecordsOf(data)' = RecordsOf(data)
      /\ \A l : RecordReceived(data, l) => RecordReceived(data, l)'
  BY ReceivedStay
<1>2. /\ RecordsOf(to_write_buffer.data)' = RecordsOf(data)'
      /\ \A l : RecordReceived(to_write_buffer.data, l)' <=> RecordReceived(data, l)'
  BY DEF RecordsOf, RecordReceived
<1>3. /\ to_write_buffer'.left \in 1..RecordsOf(to_write_buffer.data)'
      /\ \A l \in to_write_buffer'.left..RecordsOf(to_write_buffer.data)' - 1 :
           RecordReceived(to_write_buffer.data, l)'
  BY <1>1, <1>2
<1>4. \A h \in flight' : ~RecordDone(h) /\ ~(h.layer = "IO" /\ h.fn = "push")
  BY NotRecords
<1>. QED
  BY <1>3, <1>4 DEF Progress, RecordDone

LEMMA SendWrittenProgress ==
  ASSUME IInv, Progress, aroundTls, SendWritten
  PROVE  Progress'
<1>1. PICK data, n : data = to_write_buffer.data /\ n = to_write_buffer.left
  OBVIOUS
<1>2. /\ Runs /\ Running.layer = "TLS" /\ Running.fn = "send_handler" /\ Has("TLS")
      /\ to_write_buffer # NULL /\ write_state = "WRITTEN" /\ write_state' = "NONE"
      /\ UNCHANGED <<on_socket, received, tls_library>>
      /\ \/ to_write_buffer' = NULL
         \/ /\ ~WriteReturns(n - 1) /\ to_write_buffer' = [to_write_buffer EXCEPT !.left = n - 1]
            /\ GoesOn
  BY <1>1, RunsIt
     DEF SendWritten, InHandler, CanServe, Has, RecordWritten, WrittenState, aroundTls, netVars,
         tlsSharedUnchanged
<1>3. CASE to_write_buffer' = NULL
  BY <1>3, NoBufferProgress
<1>4. CASE /\ ~WriteReturns(n - 1) /\ to_write_buffer' = [to_write_buffer EXCEPT !.left = n - 1]
           /\ GoesOn
  <2>1. /\ n \in 1..RecordsOf(data) /\ RecordsOf(data) \in {1, 2}
        /\ \A left \in n..RecordsOf(data) - 1 : RecordReceived(data, left)
    BY <1>1, <1>2 DEF Progress, RecordsOf
  <2>2. RecordReceived(data, n - 1)
    <3>1. Driven(Running)
      BY <1>2, RunningFits DEF IInv, Fits
    <3>2. logic_handler = "DATA"
      BY <1>2, <3>1 DEF Driven, NeedsSession
    <3>. QED
      BY <1>1, <1>2, <3>2 DEF Progress, Reached
  <2>3. n - 1 # 0
    BY <1>4 DEF WriteReturns
  <2>4. /\ n - 1 \in 1..RecordsOf(data)
        /\ \A left \in n - 1..RecordsOf(data) - 1 : left = n - 1 \/ left \in n..RecordsOf(data) - 1
    BY <2>1, <2>3
  <2>5. to_write_buffer'.data = data /\ to_write_buffer'.left = n - 1
    <3>1. to_write_buffer = [data |-> data, left |-> n]
      BY <1>1, <1>2 DEF IInv, Session, IsBuffer
    <3>2. to_write_buffer' = [data |-> data, left |-> n - 1]
      BY <1>4, <3>1
    <3>. QED
      BY <3>2
  <2>6. ~Busy' /\ \A h \in flight' : Kind(h) # "record"
    <3>1. flight' = flight /\ (Busy' <=> Busy)
      BY <1>2, <1>4 DEF GoesOn, flight, inFlight, Busy
    <3>. QED
      BY <1>2, <3>1, NoneUnderWay
  <2>7. \A left \in n - 1..RecordsOf(data) - 1 : RecordReceived(data, left)
    BY <2>1, <2>2, <2>4
  <2>8. Receives
    BY <1>2 DEF Receives
  <2>9. write_state' # "WRITTEN"
    BY <1>2
  <2>10. PICK l : l = n - 1
    OBVIOUS
  <2>. QED
    BY <2>4, <2>5, <2>6, <2>7, <2>8, <2>9, <2>10, ProgressBetween
<1>. QED
  BY <1>2, <1>3, <1>4

LEMMA SendProgress ==
  ASSUME IInv, Progress, aroundTls, SendWrites \/ SendWritten \/ SendFails
  PROVE  Progress'
<1>1. CASE SendFails
  BY <1>1, NoBufferProgress DEF SendFails, WrittenState
<1>. QED
  BY <1>1, SendWritesProgress, SendWrittenProgress

\* A buffer is taken, and a record of it was written.
LEMMA CallProgress ==
  ASSUME IInv, Progress, KeepsWriting, Runs, NEW fn, CallsLogicHandler(fn), fn # "push"
  PROVE  Progress'
<1>1. /\ \A h : Kind(h) # "record" /\ Returns(<<h>>, <<>>) => Progress'
      /\ Aborts => Progress'
  BY ProgressReturns
<1>2. Kind(Tls(fn, "OK")) # "record" /\ Kind(Tls("connect_handler", "OK")) # "record"
  BY OtherKinds, HandlerFields DEF Tls
<1>. QED
  BY <1>1, <1>2 DEF CallsLogicHandler

LEMMA TlsPushProgress ==
  ASSUME IInv, Progress, aroundTls, TlsPush
  PROVE  Progress'
<1>1. PICK data : data = Running.data
  OBVIOUS
<1>2. /\ Runs /\ Running.layer = "TLS" /\ Has("TLS") /\ tlsSharedUnchanged
      /\ UNCHANGED <<write_state, logic_handler, user_data>>
      /\ \/ /\ to_write_buffer = NULL /\ write_state \in {"NONE", "LOST"}
            /\ to_write_buffer' = [data |-> data, left |-> RecordsOf(data)]
            /\ CallsLogicHandler("send_handler")
         \/ Aborts /\ to_write_buffer' = to_write_buffer
  BY <1>1, RunsIt DEF TlsPush, CanServe, Has, dataUnchanged
<1>3. CASE /\ to_write_buffer = NULL /\ write_state \in {"NONE", "LOST"}
           /\ to_write_buffer' = [data |-> data, left |-> RecordsOf(data)]
           /\ CallsLogicHandler("send_handler")
  <2>1. PICK n : n = RecordsOf(data)
    OBVIOUS
  <2>2. to_write_buffer'.data = data /\ to_write_buffer'.left = n
    BY <1>3, <2>1
  <2>3. n \in {1, 2}
    BY <2>1 DEF RecordsOf
  <2>4. n \in 1..n /\ \A left \in n..n - 1 : FALSE
    BY <2>3
  <2>5. Receives /\ (Busy' <=> Busy)
    BY <1>2 DEF Receives, Busy, aroundTls, netVars, tlsSharedUnchanged
  <2>6. ~Busy /\ \A h \in flight : Kind(h) # "record"
    BY <1>2, <1>3, NoneUnderWay
  <2>7. \A h \in flight' : Kind(h) # "record"
    <3>1. /\ Kind(Tls("send_handler", "OK")) # "record"
          /\ Kind(Tls("connect_handler", "OK")) # "record"
      BY OtherKinds, HandlerFields DEF Tls
    <3>2. \A h : Leaves(<<h>>, <<>>) => flight' \subseteq flight \cup {h}
      BY <1>2, FlowUnmarked DEF IInv
    <3>3. \/ Leaves(<<Tls("send_handler", "OK")>>, <<>>)
          \/ Leaves(<<Tls("connect_handler", "OK")>>, <<>>)
          \/ Aborts
      BY <1>3 DEF CallsLogicHandler, Returns
    <3>4. Aborts => flight' = flight
      BY DEF Aborts, flight, inFlight
    <3>. QED
      BY <2>6, <3>1, <3>2, <3>3, <3>4
  <2>. QED
    BY <1>2, <1>3, <2>1, <2>2, <2>4, <2>5, <2>6, <2>7, ProgressBetween
<1>4. CASE Aborts /\ to_write_buffer' = to_write_buffer
  <2>1. KeepsWriting
    BY <1>2, <1>4, TlsKeepsWriting DEF Has
  <2>. QED
    BY <1>2, <1>4, <2>1, ProgressReturns
<1>. QED
  BY <1>2, <1>3, <1>4

LEMMA TlsPushWrittenProgress ==
  ASSUME IInv, Progress, aroundTls, TlsPushWritten
  PROVE  Progress'
<1>1. /\ Runs /\ Running.layer = "TLS" /\ Running.fn = "push" /\ Running.state = "WRITTEN"
      /\ Running \in flight /\ tlsSharedUnchanged
      /\ UNCHANGED <<to_write_buffer, logic_handler, user_data>>
      /\ CallsLogicHandler("send_handler") \/ (Aborts /\ write_state' = write_state)
  BY RunsIt, RunningIsFirst DEF TlsPushWritten, dataUnchanged, IInv
<1>2. to_write_buffer # NULL /\ Has("TLS") /\ logic_handler = "DATA" => Reached
  BY <1>1 DEF Progress, RecordDone
<1>3. KeepsWriting
  BY <1>1, <1>2, TlsKeepsWriting DEF Has
<1>. QED
  BY <1>1, <1>3, CallProgress, ProgressReturns

LEMMA TlsPassesOnProgress ==
  ASSUME IInv, Progress, aroundTls,
         \/ TlsPushDropped \/ TlsPull \/ TlsPullDropped
         \/ TlsConnect \/ TlsClose \/ TlsCloseFile
  PROVE  Progress'
<1>1. /\ Runs /\ Running.layer = "TLS" /\ tlsSharedUnchanged
      /\ UNCHANGED <<to_write_buffer, logic_handler, write_state, user_data>>
  BY RunsIt
     DEF TlsPushDropped, TlsPull, TlsPullDropped, TlsConnect, TlsClose, TlsCloseFile,
         layerUnchanged, layerVars, dataUnchanged
<1>2. KeepsWriting
  BY <1>1, TlsKeepsWriting DEF Has
<1>3. /\ Returns(<<>>, <<>>) => Progress'
      /\ \A h : Kind(h) # "record" /\ Returns(<<>>, <<h>>) => Progress'
      /\ \A h : Kind(h) # "record" /\ Returns(<<h>>, <<>>) => Progress'
  BY <1>1, <1>2, ProgressReturns
<1>4. /\ \A fn, state : fn # "push" => Kind(Tls(fn, state)) # "record"
      /\ \A state : Kind(OnNext("TLS", "connect", NULL, state)) # "record"
      /\ \A state : Kind(OnPrev("TLS", "close", NULL, state)) # "record"
      /\ \A fn : Kind(Coroutine(fn)) # "record"
  BY OtherKinds, HandlerFields, Neighbours DEF OnNext, OnPrev, Tls, Coroutine
<1>5. CASE TlsPull
  BY <1>1, <1>2, <1>5, CallProgress DEF TlsPull
<1>6. CASE TlsPushDropped \/ TlsPullDropped
  BY <1>3, <1>4, <1>6 DEF TlsPushDropped, TlsPullDropped
<1>7. CASE TlsConnect
  BY <1>3, <1>4, <1>7 DEF TlsConnect
<1>8. CASE TlsClose
  BY <1>3, <1>4, <1>8 DEF TlsClose
<1>9. CASE TlsCloseFile
  BY <1>3, <1>4, <1>9 DEF TlsCloseFile, Asks
<1>. QED
  BY <1>5, <1>6, <1>7, <1>8, <1>9

LEMMA TlsProgress ==
  ASSUME IInv, Progress, Above, TlsNext, UNCHANGED <<netVars, codecVars, userVars>>
  PROVE  Progress'
<1>1. aroundTls
  BY DEF aroundTls
<1>2. CASE TlsCloseExternally
  BY <1>2, NoBufferProgress DEF TlsCloseExternally, FreshLayer
<1>. QED
  BY <1>1, <1>2, OpeningProgress, RecvProgress, SendProgress, TlsPushProgress,
     TlsPushWrittenProgress, TlsPassesOnProgress DEF TlsNext

\* All steps.
LEMMA NextProgress ==
  ASSUME IInv, Progress, Above, [Next]_vars
  PROVE  Progress'
<1>1. CASE Handlers
  BY <1>1, NetProgress, CodecProgress, TlsProgress, ResourceProgress, UserProgress DEF Handlers
<1>2. CASE Open \/ (\E m \in UserMessages : Send(m)) \/ Shutdown
  BY <1>2, AsksProgress
<1>3. CASE Ready \/ ReadsFile
  BY <1>3, WhatIsReadyProgress
<1>4. CASE SkipSockets \/ TimersDone \/ QueueDone
  BY <1>4, LoopProgress DEF SkipSockets, TimersDone, QueueDone, loopUnchanged, layersUnchanged
<1>5. CASE UNCHANGED vars
  BY <1>5, LoopProgress DEF vars, chainVars
<1>. QED
  BY <1>1, <1>2, <1>3, <1>4, <1>5 DEF Next

LEMMA InitAbove == ASSUME NullIsNoValue, Init PROVE Above /\ Progress
<1>1. /\ stack = <<>> /\ queue = <<>> /\ task_queue = <<>> /\ push_cs = "NONE"
      /\ layer_state = [l \in Layers |-> "NONE"] /\ to_write_buffer = NULL
      /\ confirmed = [m \in UserMessages |-> <<>>]
  BY DEF Init, ChainInit, NetInit, CodecInitState, TlsStart
<1>2. DOMAIN inFlight = {} /\ flight = {}
  <2>1. Len(inFlight) = 0 /\ DOMAIN inFlight = 1..Len(inFlight)
    BY <1>1, InitFits, InFlight, 0 + 0 = 0, AnyLiteral DEF IInv
  <2>2. 1..0 = {}
    OBVIOUS
  <2>. QED
    BY <2>1, <2>2 DEF flight
<1>3. Progress
  BY <1>1 DEF Progress
<1>4. Opened
  BY <1>1, <1>2, Neighbours DEF Opened, OnceConnected
<1>5. DOMAIN task_queue = {}
  BY <1>1, AnyLiteral
<1>6. DOMAIN confirmed = UserMessages /\ \A m \in UserMessages : confirmed[m] = <<>>
  BY <1>1
<1>7. Places
  BY <1>2, <1>5, <1>6 DEF Places, OnePlace, OnceCarried, Waits
<1>8. Handed
  BY <1>1, <1>2 DEF Handed
<1>9. Reported
  <2>1. <<>> # <<"WRITTEN">>
    OBVIOUS
  <2>. QED
    BY <1>2, <1>6, <2>1 DEF Reported
<1>. QED
  BY <1>3, <1>4, <1>7, <1>8, <1>9 DEF Above

\* A message that is reported written was written, whatever the number of its records
\* and whatever could not be allocated, and it is reported once (WrittenIsReceived); of a
\* payload that mbed TLS cuts, this holds of the first record.
THEOREM WrittenStaysReceived ==
  ASSUME NullIsNoValue
  PROVE  Spec => []WrittenIsReceived
<1>1. Init => IInv /\ Above /\ Progress
  BY InitFits, InitAbove
<1>2. IInv /\ Above /\ Progress /\ [Next]_vars => (IInv /\ Above /\ Progress)'
  BY NextKeeps, NextAbove, NextProgress
<1>3. ASSUME Above PROVE WrittenIsReceived
  <2>. SUFFICES ASSUME NEW m \in UserMessages
                PROVE  /\ Len(confirmed[m]) <= 1
                       /\ confirmed[m] = <<"WRITTEN">> => MessageReceived(m)
    BY DEF WrittenIsReceived, MessageReceived
  <2>1. confirmed[m] = <<>> \/ \E state : confirmed[m] = <<state>>
    BY <1>3 DEF Above, Places, OnePlace
  <2>2. Len(<<>>) = 0 /\ \A state : Len(<<state>>) = 1
    BY AnyLiteral
  <2>3. Len(confirmed[m]) <= 1
    <3>1. CASE confirmed[m] = <<>>
      BY <2>2, <3>1, SMT
    <3>2. CASE \E state : confirmed[m] = <<state>>
      <4>1. PICK state : confirmed[m] = <<state>>
        BY <3>2
      <4>2. Len(<<state>>) = 1
        BY <2>2
      <4>3. Len(confirmed[m]) = 1
        BY <4>1, <4>2, Zenon
      <4>. QED
        BY <4>3, SMT
    <3>. QED
      BY <2>1, <3>1, <3>2
  <2>. QED
    BY <1>3, <2>3 DEF Above, Reported
<1>. QED
  BY <1>1, <1>2, <1>3, PTL DEF Spec
=============================================================================
