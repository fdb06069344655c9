---------------------------- MODULE MCStreamPipe ----------------------------
(* Bounds for model checking StreamPipe: messages long enough to go around *)
(* the storage more than once.                                             *)
EXTENDS StreamPipe

MCMessages == {<<>>, <<"a">>, <<"a", "b", "c", "d", "e", "f", "g", "h", "i">>}
=============================================================================
