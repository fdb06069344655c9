----------------------------- MODULE ByteQueue -----------------------------
(***************************************************************************)
(* What ByteStream promises (byte_stream.hh): a bounded first-in first-out *)
(* queue of bytes between one writer and one reader, two running totals,   *)
(* an end-of-input mark and an error mark.  No index, no circular storage. *)
(* ByteStream.tla is shown to implement this module.                       *)
(*                                                                         *)
(* The totals are size_t in the interface, so they count modulo            *)
(* SIZE_MAX + 1.                                                           *)
(***************************************************************************)
EXTENDS Integers, Sequences

CONSTANTS SIZE_MAX,    \* the largest size_t
          Capacities,  \* the capacities a stream is constructed with
          Inputs,      \* the strings the writer passes to write()
          Lens         \* the lengths the reader asks for

VARIABLES capacity,    \* number of bytes the stream has room for
          queue,       \* bytes accepted and not yet popped, oldest first
          written,     \* total accepted
          popped,      \* total popped
          ended,       \* the writer has ended the input
          failed,      \* the stream suffered an error
          call         \* the last call of the writer or the reader

vars == <<capacity, queue, written, popped, ended, failed, call>>

\* What was asked and what was done: write() accepts n of the bytes s, reading
\* and popping ask for n bytes and return s.
Called(n, s) == [count |-> n, bytes |-> s]

Least(a, b) == IF a <= b THEN a ELSE b

Init == /\ capacity \in Capacities
        /\ queue = <<>>
        /\ written = 0
        /\ popped = 0
        /\ ended = FALSE
        /\ failed = FALSE
        /\ call = Called(0, <<>>)

\* Accept as long a prefix of data as there is room for, and say how long.
Write(data) ==
  LET n == Least(Len(data), capacity - Len(queue))
  IN  /\ queue' = queue \o SubSeq(data, 1, n)
      /\ written' = (written + n) % (SIZE_MAX + 1)
      /\ call' = Called(n, data)
      /\ UNCHANGED <<capacity, popped, ended, failed>>

Front(len) == SubSeq(queue, 1, Least(Len(queue), len))

Peek(len) ==
  /\ call' = Called(len, Front(len))
  /\ UNCHANGED <<capacity, queue, written, popped, ended, failed>>

Remove(len) ==
  LET n == Least(Len(queue), len)
  IN  /\ queue' = SubSeq(queue, n + 1, Len(queue))
      /\ popped' = (popped + n) % (SIZE_MAX + 1)
      /\ UNCHANGED <<capacity, written, ended, failed>>

Pop(len) == Remove(len) /\ call' = Called(len, <<>>)

Read(len) == Remove(len) /\ call' = Called(len, Front(len))

EndInput == /\ ended' = TRUE
            /\ UNCHANGED <<capacity, queue, written, popped, failed, call>>

SetError == /\ failed' = TRUE
            /\ UNCHANGED <<capacity, queue, written, popped, ended, call>>

Next == \/ \E data \in Inputs : Write(data)
        \/ \E len \in Lens : Peek(len) \/ Pop(len) \/ Read(len)
        \/ EndInput
        \/ SetError

Spec == Init /\ [][Next]_vars
=============================================================================
