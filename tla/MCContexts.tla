----------------------------- MODULE MCContexts -----------------------------
(* Two of three contexts fit, over a table of delays with shortened        *)
(* cooldowns.                                                              *)
EXTENDS Contexts

CONSTANTS c1, c2, c3

MCContextCells == {c1, c2, c3}
MCTop == 3
MCBackoffLut == [i \in 0..MCTop |-> CASE i = 0 -> 0 [] i = 1 -> 2 [] i = 2 -> 4 [] OTHER -> 8]
MCDecayLut == [i \in 0..MCTop |-> CASE i <= 1 -> 2 [] i = 2 -> 3 [] OTHER -> 4]
MCResults == {"OK", "NOT_AUTHORIZED", "TIMEOUT"}
SomeFail == {"NONE", "CONTEXT"}
=============================================================================
