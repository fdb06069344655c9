------------------------------ MODULE MCSocket ------------------------------
(* Bounds for model checking Socket: a socket of any class beside a pipe,  *)
(* or beside the connection that it accepts.                               *)
EXTENDS Socket

CONSTANTS any, other

MCKinds == [w \in Wrapper |-> IF w = any THEN {"unix", "tcp", "udp"} ELSE {"pipe"}]
=============================================================================
