----------------------------- MODULE MCTlsClient -----------------------------
(* Small instances of a connection over TLS.                                *)
EXTENDS TlsClient

MCChain == <<"IO", "TLS", "CODEC", "USER">>
MCHandshakes == {<<"write", "read", "write", "read">>, <<"write", "read", "write">>}

\* A publish with a payload of two records, and a message without one.
MCLongPayloads == {[type |-> "PUBLISH", id |-> 1]}
MCMessages == MCLongPayloads \cup {[type |-> "SUBSCRIBE", id |-> 2]}

parts(kind, record) == [i \in 1..RecordParts |-> [kind |-> kind, record |-> record, part |-> i]]
closing == <<[kind |-> "ALERT", record |-> NULL, part |-> 1]>>

\* What the other end may send when it has received the record m: its flight, and
\* data with the end of the handshake or in answer to the publish; or it gives up.
TlsAnswers(m) ==
  CASE m.type = "FLIGHT" /\ m.owner.left > 2 -> {parts("FLIGHT", "hello"), closing}
    [] m.type = "FLIGHT" /\ m.owner.left = 2 ->
         {parts("FLIGHT", "hello"), parts("FLIGHT", "hello") \o parts("DATA", "hello"), closing}
    [] m.type = "FLIGHT" /\ m.owner.left = 1 -> {parts("DATA", "hello"), closing}
    [] /\ m.type = "RECORD" /\ m.owner.data.last /\ m.owner.left = 0
       /\ m.owner.data.msg \in MCLongPayloads ->
         {parts("DATA", "message"), closing}
    [] OTHER -> {}
=============================================================================
