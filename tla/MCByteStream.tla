---------------------------- MODULE MCByteStream ----------------------------
(* Bounds for model checking ByteStream: an int of 4 bits, a size_t of 4 or 5. *)
EXTENDS ByteStream

CONSTANT MaxInput  \* longest string passed to write()

MCBytes  == {"a", "b"}
MCInputs == UNION {[1 .. n -> MCBytes] : n \in 0 .. MaxInput}
=============================================================================
