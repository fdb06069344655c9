------------------------------- MODULE Buffer -------------------------------
(***************************************************************************)
(* libsponge/util/buffer.{hh,cc}: the operations of Buffer, BufferList and *)
(* BufferViewList on their values.                                         *)
(*                                                                         *)
(* A Buffer is a shared, read-only string and an offset; its storage is    *)
(* dropped (held becomes FALSE) when the offset reaches the end.  A        *)
(* BufferList is a sequence of Buffers, a BufferViewList a sequence of the *)
(* strings its views show.                                                 *)
(***************************************************************************)
EXTENDS Integers, SequencesExt

\* Buffer(string &&) and Buffer().
NewBuffer(s) == [held |-> TRUE, storage |-> s, offset |-> 0]
NoBuffer     == [held |-> FALSE, storage |-> <<>>, offset |-> 0]

str(b) == IF b.held THEN SubSeq(b.storage, b.offset + 1, Len(b.storage)) ELSE <<>>

size(b) == Len(str(b))

\* Mutant: the storage is kept when nothing is left of it.
remove_prefix_keeps(b, n) == [b EXCEPT !.offset = @ + n]

\* Buffer::remove_prefix for an n that it does not throw for.
remove_prefix(b, n) ==
  IF b.held /\ b.offset + n = Len(b.storage)
  THEN [held |-> FALSE, storage |-> <<>>, offset |-> b.offset + n]
  ELSE [b EXCEPT !.offset = @ + n]

----------------------------------------------------------------------------
(* Lists of buffers and of views *)

strs(list) == [i \in DOMAIN list |-> str(list[i])]

concatenate(list) == FlattenSeq(strs(list))

\* The size of the first k of some strings.
upTo(ss, k) == Len(FlattenSeq(SubSeq(ss, 1, k)))

\* How many elements remove_prefix(n) pops: the loop goes on while there is
\* something to remove and it takes the whole front element, so that empty
\* elements go only when they are in the way.
popped(ss, n) ==
  Min({k \in 0 .. Len(ss) : k = Len(ss) \/ n = upTo(ss, k) \/ n < upTo(ss, k + 1)})

\* Mutant: the element that is cut is kept whole.
within_whole(ss, n) == 0

\* What is left to remove when the loop comes to the element it keeps.
within(ss, n) == n - upTo(ss, popped(ss, n))

\* BufferList::remove_prefix.  With more to remove than there is, everything
\* is popped and then the loop throws.
list_remove_prefix(list, n) ==
  LET ss   == strs(list)
      rest == SubSeq(list, popped(ss, n) + 1, Len(list))
  IN  IF rest = <<>> \/ within(ss, n) = 0
      THEN rest
      ELSE [rest EXCEPT ![1] = remove_prefix(@, within(ss, n))]

\* BufferViewList(const BufferList &) and BufferViewList::remove_prefix.
NewViews(list) == strs(list)

views_remove_prefix(views, n) ==
  LET rest == SubSeq(views, popped(views, n) + 1, Len(views))
  IN  IF rest = <<>> \/ within(views, n) = 0
      THEN rest
      ELSE [rest EXCEPT ![1] = SubSeq(@, within(views, n) + 1, Len(@))]

\* size() of a list and of views.
list_size(list) == Len(concatenate(list))
views_size(views) == Len(FlattenSeq(views))
=============================================================================
