------------------------------ MODULE MCWebget ------------------------------
(* Bounds for model checking Webget. *)
EXTENDS Webget

MCKinds == [w \in Wrapper |-> {"tcp"}]
=============================================================================
