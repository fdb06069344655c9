---------------------------- MODULE MCBufferList ----------------------------
(* Bounds for model checking BufferList: pieces of no and of two bytes. *)
EXTENDS BufferList

CONSTANTS l1, l2

MCStrings == {<<>>, <<"a", "b">>}
=============================================================================
