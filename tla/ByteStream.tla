----------------------------- MODULE ByteStream -----------------------------
(***************************************************************************)
(* libsponge/byte_stream.{hh,cc}: a flow-controlled in-memory byte stream  *)
(* kept in a circular buffer.                                              *)
(*                                                                         *)
(* The class keeps no length.  An empty stream is sind = -1 (eind is then  *)
(* stale); otherwise the bytes run from index sind to index eind, both     *)
(* included, around the end of the storage, and buffer_size() recovers     *)
(* their number from the two indices.                                      *)
(*                                                                         *)
(* Widths.  maxlen, sind and eind are int, sizes and counters size_t.  The *)
(* largest values of both types are parameters, so that every conversion   *)
(* and every int operation that can leave its range is modelled where it   *)
(* happens, on small instances too.                                        *)
(***************************************************************************)
EXTENDS Integers, Sequences, FiniteSetsExt

CONSTANTS Byte,        \* the values of a char
          Blank,       \* ' ', which the storage is filled with
          INT_MAX,     \* the largest int
          SIZE_MAX,    \* the largest size_t
          Capacities,  \* arguments of the constructor
          Inputs,      \* arguments of write()
          Lens         \* arguments of peek_output(), pop_output() and read()

ASSUME WidthAssumption == /\ INT_MAX \in Nat /\ SIZE_MAX \in Nat
                          /\ INT_MAX < SIZE_MAX

ASSUME ArgumentAssumption == /\ Blank \in Byte
                             /\ Capacities \subseteq 0 .. SIZE_MAX
                             /\ Inputs \subseteq Seq(Byte)
                             /\ Lens \subseteq 0 .. SIZE_MAX

VARIABLES capacity,      \* the constructor's argument (not kept by the class)
          maxlen, buffer, sind, eind, cnt_read, cnt_write, error, input_active,
          call           \* the last call (not kept by the class)

ring == <<maxlen, buffer, sind, eind>>
vars == <<capacity, ring, cnt_read, cnt_write, error, input_active, call>>

\* Conversion to int and to size_t.  A result of an int operation outside the
\* range of int is undefined behaviour; the builds this project configures
\* (no -ftrapv, no -fwrapv) compile it to a wrapping machine instruction.
ToInt(x)  == ((x + INT_MAX + 1) % (2 * (INT_MAX + 1))) - (INT_MAX + 1)
ToSize(x) == x % (SIZE_MAX + 1)

\* The C++ remainder, which takes the sign of its first operand.
Rem(a, b) == IF a >= 0 THEN a % b ELSE -((-a) % b)

min(a, b) == IF a <= b THEN a ELSE b

\* The last call, which a stream that did less than it was asked would belie:
\* write() accepted n of the bytes s; peek_output(n), pop_output(n) and read(n)
\* returned s.
Called(n, s) == [count |-> n, bytes |-> s]

----------------------------------------------------------------------------
(* Observers *)

buffer_empty == sind = -1

\* Mutant: the sum that makes a negative remainder positive is left out.
buffer_size_unfixed ==
  IF buffer_empty THEN 0 ELSE ToSize(Rem(eind - sind, maxlen) + 1)

buffer_size ==
  IF buffer_empty
  THEN 0
  ELSE ToSize(Rem(ToInt(maxlen + Rem(eind - sind, maxlen)), maxlen) + 1)

\* Mutant: one index is kept free, as in rings that have no other mark of empty.
remaining_capacity_ring ==
  IF buffer_size >= maxlen - 1 THEN 0 ELSE maxlen - 1 - buffer_size

remaining_capacity == ToSize(maxlen - buffer_size)

input_ended == ~input_active

\* Mutant: the reader's end is the writer's.
eof_early == ~input_active

eof == ~input_active /\ buffer_empty

peek_output(len) ==
  [i \in 1 .. min(buffer_size, len) |-> buffer[(sind + i - 1) % maxlen]]

\* The bytes the reader has not popped yet, oldest first.
contents == peek_output(buffer_size)

----------------------------------------------------------------------------
(* Operations *)

\* A capacity that converts to a negative int makes string(maxlen, ' ') throw:
\* there is no stream.
Init == /\ capacity \in Capacities
        /\ maxlen = ToInt(capacity)
        /\ maxlen >= 0
        /\ buffer = [k \in 0 .. maxlen - 1 |-> Blank]
        /\ sind = -1
        /\ eind = -1
        /\ cnt_read = 0
        /\ cnt_write = 0
        /\ error = FALSE
        /\ input_active = TRUE
        /\ call = Called(0, <<>>)

\* The loop of write(): byte i of data goes to the i-th index after last,
\* later bytes overwriting earlier ones.
Stored(data, n, last) ==
  [k \in 0 .. maxlen - 1 |->
     LET hits == {i \in 1 .. n : (last + i) % maxlen = k}
     IN  IF hits = {} THEN buffer[k] ELSE data[Max(hits)]]

\* Mutant: the write index runs past the end of the storage.
WriteUnwrapped(data) ==
  LET writenum == min(Len(data), remaining_capacity)
      last     == IF buffer_empty THEN -1 ELSE eind
  IN  /\ IF writenum = 0
         THEN UNCHANGED <<buffer, sind, eind, cnt_write>>
         ELSE /\ sind' = IF buffer_empty THEN 0 ELSE sind
              /\ eind' = last + writenum
              /\ buffer' = Stored(data, writenum, last)
              /\ cnt_write' = ToSize(cnt_write + writenum)
      /\ call' = Called(writenum, data)
      /\ UNCHANGED <<capacity, maxlen, cnt_read, error, input_active>>

Write(data) ==
  LET writenum == min(Len(data), remaining_capacity)
      last     == IF buffer_empty THEN -1 ELSE eind
  IN  /\ IF writenum = 0
         THEN UNCHANGED <<buffer, sind, eind, cnt_write>>
         ELSE /\ sind' = IF buffer_empty THEN 0 ELSE sind
              /\ eind' = (last + writenum) % maxlen
              /\ buffer' = Stored(data, writenum, last)
              /\ cnt_write' = ToSize(cnt_write + writenum)
      /\ call' = Called(writenum, data)
      /\ UNCHANGED <<capacity, maxlen, cnt_read, error, input_active>>

Peek(len) == /\ call' = Called(len, peek_output(len))
             /\ UNCHANGED <<capacity, ring, cnt_read, cnt_write, error, input_active>>

\* Mutant: popping all but one byte empties the stream.
pop_output_hasty(len) ==
  /\ IF len + 1 >= buffer_size
     THEN /\ cnt_read' = ToSize(cnt_read + buffer_size)
          /\ sind' = -1
     ELSE /\ cnt_read' = ToSize(cnt_read + len)
          /\ sind' = (sind + len) % maxlen
  /\ UNCHANGED <<capacity, maxlen, buffer, eind, cnt_write, error, input_active>>

\* Emptying the stream marks sind and leaves eind where it is.
pop_output(len) ==
  /\ IF len >= buffer_size
     THEN /\ cnt_read' = ToSize(cnt_read + buffer_size)
          /\ sind' = -1
     ELSE /\ cnt_read' = ToSize(cnt_read + len)
          /\ sind' = (sind + len) % maxlen
  /\ UNCHANGED <<capacity, maxlen, buffer, eind, cnt_write, error, input_active>>

Pop(len) == pop_output(len) /\ call' = Called(len, <<>>)

Read(len) == pop_output(len) /\ call' = Called(len, peek_output(len))

end_input == /\ input_active' = FALSE
             /\ UNCHANGED <<capacity, ring, cnt_read, cnt_write, error, call>>

set_error == /\ error' = TRUE
             /\ UNCHANGED <<capacity, ring, cnt_read, cnt_write, input_active, call>>

ReaderOrEnd == \/ \E len \in Lens : Peek(len) \/ Pop(len) \/ Read(len)
               \/ end_input
               \/ set_error

Next == (\E data \in Inputs : Write(data)) \/ ReaderOrEnd

Spec == Init /\ [][Next]_vars

\* A writer that does not call write() once it has called end_input().  The
\* class leaves this to its caller: write() never looks at input_active.
PoliteNext == (input_active /\ \E data \in Inputs : Write(data)) \/ ReaderOrEnd

PoliteSpec == Init /\ [][PoliteNext]_vars

----------------------------------------------------------------------------
(* Properties *)

\* The capacities for which maxlen + (eind - sind) % maxlen fits an int.
SafeCapacities == \A c \in Capacities : 2 * c - 1 <= INT_MAX

\* Every member has the type its declaration in byte_stream.hh gives it, and
\* both indices stay inside the storage or at the -1 the constructor sets.
TypeOK ==
  /\ capacity \in Capacities
  /\ maxlen \in 0 .. INT_MAX
  /\ buffer \in [0 .. maxlen - 1 -> Byte]
  /\ sind \in -1 .. maxlen - 1
  /\ eind \in -1 .. maxlen - 1
  /\ cnt_read \in 0 .. SIZE_MAX
  /\ cnt_write \in 0 .. SIZE_MAX
  /\ error \in BOOLEAN
  /\ input_active \in BOOLEAN
  /\ call \in [count : 0 .. SIZE_MAX, bytes : Seq(Byte)]

\* What makes the types and the sizes inductive: the int conversions are exact
\* for this capacity, and eind is only stale while the stream is empty.
Shape ==
  /\ TypeOK
  /\ maxlen = capacity
  /\ 2 * maxlen - 1 <= INT_MAX
  /\ ~buffer_empty => eind # -1

\* buffer_size(), which the class recovers from two indices, is what was
\* written and not yet popped, which is computed from the counters.
BufferSizeExact == buffer_size = (cnt_write - cnt_read) % (SIZE_MAX + 1)

\* The class implements a bounded FIFO of bytes.
Queue == INSTANCE ByteQueue WITH
           queue <- contents, written <- cnt_write,
           popped <- cnt_read, ended <- ~input_active, failed <- error
ImplementsQueue == Queue!Spec

\* "the writer can end the input, and then no more bytes can be written":
\* after end_input() no step adds to the stream.
NoWriteAfterEnd == [][input_ended => cnt_write' = cnt_write]_vars

\* The reader may stop at eof(): once reported it stays, and the totals with it.
EofIsFinal == [][eof => eof' /\ cnt_read' = cnt_read /\ cnt_write' = cnt_write]_vars
=============================================================================
