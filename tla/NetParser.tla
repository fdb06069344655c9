------------------------------ MODULE NetParser ------------------------------
(***************************************************************************)
(* libsponge/util/parser.{hh,cc}: NetUnparser writes integers of 1, 2 or 4 *)
(* bytes in network byte order, NetParser takes them from the front of a   *)
(* Buffer and keeps the first thing that goes wrong from doing more harm.  *)
(*                                                                         *)
(* A byte has BASE values (256 in the code), so that an integer of len     *)
(* bytes is one below Pow[len].                                            *)
(***************************************************************************)
EXTENDS Buffer

CONSTANT BASE  \* the number of values of a byte

ASSUME BaseAssumption == BASE \in Nat \ {0, 1}

Byte == 0 .. BASE - 1

\* The powers of BASE, up to the width of a uint32_t.
Pow[n \in 0 .. 4] == IF n = 0 THEN 1 ELSE BASE * Pow[n - 1]

\* A parser with nothing parsed yet: NetParser(Buffer).
NewParser(b) == [buffer |-> b, error |-> "NoError"]

\* _unparse_int: the bytes of val, the most significant first.
unparse_int(val, len) == [i \in 1 .. len |-> (val \div Pow[len - i]) % BASE]

\* The loop of _parse_int: shift in the width of T, add the next byte.
assembled(bytes) ==
  LET ret[i \in 0 .. Len(bytes)] ==
        IF i = 0 THEN 0
        ELSE ((ret[i - 1] * BASE) % Pow[Len(bytes)]) + bytes[i]
  IN  ret[Len(bytes)]

\* _check_size; it also replaces an error that was there before.
check_size(parser, n) ==
  IF n > size(parser.buffer) THEN [parser EXCEPT !.error = "PacketTooShort"] ELSE parser

failed(parser) == parser.error # "NoError"

\* Mutant: only the size is looked at, not an error from before.
skip_regardless(parser, n) ==
  IF n > size(parser.buffer) THEN check_size(parser, n)
  ELSE [parser EXCEPT !.buffer = remove_prefix(@, n)]

\* Mutant: the error is not kept in the parser.
skip_forgetful(parser, n) ==
  IF failed(check_size(parser, n)) THEN parser
  ELSE [parser EXCEPT !.buffer = remove_prefix(@, n)]

\* NetParser::remove_prefix, and the parser that _parse_int leaves behind.
skip(parser, n) ==
  LET p == check_size(parser, n)
  IN  IF failed(p) THEN p ELSE [p EXCEPT !.buffer = remove_prefix(@, n)]

\* What u8, u16 and u32 return: 0 after any error, old or new.
parse_int(parser, len) ==
  IF failed(check_size(parser, len)) THEN 0
  ELSE assembled(SubSeq(str(parser.buffer), 1, len))
=============================================================================
