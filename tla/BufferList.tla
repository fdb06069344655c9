----------------------------- MODULE BufferList -----------------------------
(***************************************************************************)
(* libsponge/util/buffer.{hh,cc}: BufferList objects and a Buffer, under   *)
(* any sequence of calls.                                                  *)
(***************************************************************************)
EXTENDS Buffer

CONSTANTS List,       \* the BufferList objects
          Strings,    \* the strings they are made from
          Ns,         \* arguments of remove_prefix
          MaxBuffers  \* bound on the Buffers of one list

Chars == UNION {ToSet(s) : s \in Strings}

ASSUME ListAssumption == /\ Strings \subseteq Seq(Chars)
                         /\ Ns \subseteq Nat
                         /\ MaxBuffers \in Nat \ {0}

VARIABLES _buffers,  \* the deque of each list
          buf,       \* a Buffer beside them
          threw,     \* the last call threw
          call       \* the last call, to tell whether it did what was asked

listVars == <<_buffers, buf, threw, call>>

ListInit == /\ _buffers = [l \in List |-> <<>>]
            /\ buf = NoBuffer
            /\ threw = FALSE
            /\ call = <<"none">>

\* BufferList(std::string &&) and BufferList(Buffer), assigned to a list.
FromString(l, s) == /\ _buffers' = [_buffers EXCEPT ![l] = <<NewBuffer(s)>>]
                    /\ threw' = FALSE
                    /\ call' = <<"string", l, s>>
                    /\ UNCHANGED buf

FromBuffer(l) == /\ _buffers' = [_buffers EXCEPT ![l] = <<buf>>]
                 /\ threw' = FALSE
                 /\ call' = <<"buffer", l>>
                 /\ UNCHANGED buf

\* A list appended to itself would be pushed to while it is walked, which is
\* undefined: no caller may do it.
append(l, m) == /\ l # m
                /\ Len(_buffers[l]) + Len(_buffers[m]) <= MaxBuffers
                /\ _buffers' = [_buffers EXCEPT ![l] = @ \o _buffers[m]]
                /\ threw' = FALSE
                /\ call' = <<"append", l, m>>
                /\ UNCHANGED buf

\* operator Buffer(): only a list of at most one Buffer has one to give.
ToBuffer(l) == /\ buf' = CASE Len(_buffers[l]) = 0 -> NoBuffer
                           [] Len(_buffers[l]) = 1 -> _buffers[l][1]
                           [] OTHER -> buf
               /\ threw' = (Len(_buffers[l]) > 1)
               /\ call' = <<"take", l>>
               /\ UNCHANGED _buffers

RemovePrefix(l, n) ==
  /\ _buffers' = [_buffers EXCEPT ![l] = list_remove_prefix(@, n)]
  /\ threw' = (n > list_size(_buffers[l]))
  /\ call' = <<"remove", l, n>>
  /\ UNCHANGED buf

\* Buffer::remove_prefix looks before it removes.
BufferRemovePrefix(n) ==
  /\ buf' = IF n > size(buf) THEN buf ELSE remove_prefix(buf, n)
  /\ threw' = (n > size(buf))
  /\ call' = <<"remove", n>>
  /\ UNCHANGED _buffers

ListNext == \/ \E l \in List, s \in Strings : FromString(l, s)
            \/ \E l \in List : FromBuffer(l) \/ ToBuffer(l)
            \/ \E l, m \in List : append(l, m)
            \/ \E l \in List, n \in Ns : RemovePrefix(l, n)
            \/ \E n \in Ns : BufferRemovePrefix(n)

ListSpec == ListInit /\ [][ListNext]_listVars

----------------------------------------------------------------------------
(* Properties *)

\* Every Buffer there is.
allBuffers == {buf} \cup UNION {ToSet(_buffers[l]) : l \in List}

\* "Doesn't free any memory until the whole string has been discarded in all
\* copies of the Buffer", and then it does: no copy holds on to a storage of
\* which it has discarded the last byte, and no offset is ever beyond the end.  (The
\* storage of an empty string has no last byte and is kept.)
NothingHeldInVain ==
  \A b \in allBuffers : b.held => b.offset < Len(b.storage) \/ b.storage = <<>>

\* The lists implement plain strings: cutting them into shared pieces, offsets
\* and emptied pieces is never seen.
TextOf == INSTANCE Text WITH
            texts <- [l \in List |-> concatenate(_buffers[l])],
            one <- str(buf)
ImplementsText == TextOf!Spec
=============================================================================
