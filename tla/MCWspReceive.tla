--------------------------- MODULE MCWspReceive ---------------------------
(* Byte-level receive path: two-byte headers, payloads of 0 and 2 bytes     *)
(* (the maximum) and one of 6 bytes that must be refused and would not fit *)
(* into the six-byte buffer; three packets on each of two connections.     *)
EXTENDS WspReceive

MCPayloads == {0, 2, 6}
=============================================================================
