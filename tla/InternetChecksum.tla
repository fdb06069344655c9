-------------------------- MODULE InternetChecksum --------------------------
(***************************************************************************)
(* libsponge/util/util.{hh,cc}: the Internet checksum, computed over data  *)
(* that arrives in chunks.  Bytes at even places count BASE times (they    *)
(* are the high halves of 16-bit words); the place of the next byte is     *)
(* remembered between chunks.  The sum is a uint32_t of four bytes.        *)
(***************************************************************************)
EXTENDS Integers, SequencesExt

CONSTANT BASE  \* the number of values of a byte, at least 2

WORD == BASE * BASE  \* the number of values of a 16-bit word

NewChecksum(initial_sum) == [sum |-> initial_sum, parity |-> FALSE]

addByte(ck, byte) ==
  [sum    |-> (ck.sum + (IF ck.parity THEN byte ELSE byte * BASE)) % (WORD * WORD),
   parity |-> ~ck.parity]

\* Mutant: every chunk starts at an even place.
add_aligned(ck, data) == FoldLeft(addByte, [ck EXCEPT !.parity = FALSE], data)

add(ck, data) == FoldLeft(addByte, ck, data)

\* Mutant: the carries are added in once, and a new one is lost.
value_once(ck) ==
  WORD - 1 - (((ck.sum \div WORD) + (ck.sum % WORD)) % WORD)

\* value(): the carries are added in until 16 bits are left, and the result is
\* complemented.
value(ck) ==
  LET folded[ret \in 0 .. WORD * WORD - 1] ==
        IF ret < WORD THEN ret
        ELSE folded[(ret \div WORD) + (ret % WORD)]
  IN  WORD - 1 - folded[ck.sum]
=============================================================================
