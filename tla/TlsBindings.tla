------------------------------ MODULE TlsBindings ------------------------------
(***************************************************************************)
(* The two bindings of iotc_bsp_tls.h, bsp/tls/mbedtls and bsp/tls/wolfssl:*)
(* which of the library's results each passes on to the layer, and how.    *)
(*                                                                         *)
(* The libraries themselves are third-party code, here the least a TLS     *)
(* client does: a handshake writes and reads flights in turn; a record     *)
(* arrives in two parts and carries two units of data, of which one fits   *)
(* into the layer's buffer; an alert, or a flight that is not accepted,    *)
(* ends the session, and a library that has failed may fail again.         *)
(***************************************************************************)
EXTENDS Integers, Sequences

CONSTANTS
  TlsLibraries,  \* the libraries to consider: "mbedtls", "wolfssl"
  Handshakes     \* their handshakes: sequences of "write" and "read"

VARIABLES
  tls_library,   \* the one the program is built with
  tls_context    \* the library's session, or NULL

RecordParts == 2

NewSession(handshake) ==
  [script |-> handshake, parts |-> 0, pending |-> <<>>, failed |-> FALSE]

\* The flight at the head of the script is done.
FlightDone(session) == [session EXCEPT !.script = Tail(@), !.parts = 0]

\* A part of a record was read that does not complete it.
PartRead(session) == [session EXCEPT !.parts = @ + 1]

Completes(session) == session.parts + 1 = RecordParts

\* The record that part completes was read: its two units can be taken.
RecordRead(session, part) ==
  [session EXCEPT !.parts = 0,
                  !.pending = @ \o [i \in 1..2 |-> [record |-> part.record, unit |-> i]]]

-----------------------------------------------------------------------------
(* The bindings.                                                           *)

\* iotc_bsp_tls_init: certificates that cannot be parsed are an error of their
\* own for wolfSSL, and like any other for mbed TLS.
InitResults ==
  IF tls_library = "mbedtls" THEN {"OK", "INIT_ERROR"} ELSE {"OK", "INIT_ERROR", "CERT_ERROR"}

\* iotc_bsp_tls_connect when the handshake fails: a server that is not trusted is
\* an error of its own for mbed TLS only.
ConnectFailures ==
  IF tls_library = "mbedtls" THEN {"CERT_ERROR", "CONNECT_ERROR"} ELSE {"CONNECT_ERROR"}

\* iotc_bsp_tls_write after a record was written and left more remain: CyaSSL_write
\* goes on, mbedtls_ssl_write returns what it wrote.
WriteReturns(left) == left = 0 \/ tls_library = "mbedtls"

\* iotc_bsp_tls_pending
Pending(session) == Len(session.pending)
=============================================================================
