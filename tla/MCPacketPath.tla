---------------------------- MODULE MCPacketPath ----------------------------
(* Bounds for model checking PacketPath: a header of odd length, so that   *)
(* the payload begins in the middle of a word of the checksum, and one     *)
(* payload that makes its sum wrap.                                        *)
EXTENDS PacketPath

MCWidths   == <<1, 4, 2>>
MCValues   == <<{0, BASE - 1}, {}, {BASE ^ 2 - 1, BASE}>>
MCSources  == {<<<<BASE - 1, 0, 1, 1>>, 0>>, <<<<0, 0, 0, BASE - 1>>, 0>>, <<<<0, 0, 0, 1>>, BASE>>}
MCPayloads == {<<>>, <<1>>, <<BASE - 1, 0>>, [i \in 1 .. 17 |-> BASE - 1]}
=============================================================================
