-------------------------------- MODULE Text --------------------------------
(***************************************************************************)
(* What Buffer and BufferList promise (buffer.hh): strings that grow at    *)
(* the end and discard bytes from the front.  No storage, no offset, no    *)
(* pieces.  BufferList.tla is shown to implement this module.              *)
(***************************************************************************)
EXTENDS Integers, Sequences

CONSTANTS List,     \* the BufferList objects
          Strings,  \* the strings they are made from
          Ns        \* lengths to discard

VARIABLES texts,    \* what each list holds
          one,      \* what a single Buffer holds
          threw,    \* the last call threw
          call      \* the last call

vars == <<texts, one, threw, call>>

Init == /\ texts = [l \in List |-> <<>>]
        /\ one = <<>>
        /\ threw = FALSE
        /\ call = <<"none">>

Become(l, s) == /\ texts' = [texts EXCEPT ![l] = s]
                /\ threw' = FALSE
                /\ UNCHANGED one

FromString(l, s) == Become(l, s) /\ call' = <<"string", l, s>>

FromOne(l) == Become(l, one) /\ call' = <<"buffer", l>>

Extend(l, m) == Become(l, texts[l] \o texts[m]) /\ call' = <<"append", l, m>>

\* A list that is asked to discard more than it has loses what it has.
Discard(l, n) ==
  /\ texts' = [texts EXCEPT ![l] = SubSeq(@, n + 1, Len(@))]
  /\ threw' = (n > Len(texts[l]))
  /\ call' = <<"remove", l, n>>
  /\ UNCHANGED one

\* A single Buffer that is asked for too much keeps what it has.
DiscardOne(n) ==
  /\ one' = IF n > Len(one) THEN one ELSE SubSeq(one, n + 1, Len(one))
  /\ threw' = (n > Len(one))
  /\ call' = <<"remove", n>>
  /\ UNCHANGED texts

\* A list becomes a Buffer, or refuses because it is in pieces.
Take(l) == /\ UNCHANGED texts
           /\ call' = <<"take", l>>
           /\ \/ one' = texts[l] /\ threw' = FALSE
              \/ threw' = TRUE /\ UNCHANGED one

Next == \/ \E l \in List, s \in Strings : FromString(l, s)
        \/ \E l \in List : FromOne(l) \/ Take(l)
        \/ \E l, m \in List : Extend(l, m)
        \/ \E l \in List, n \in Ns : Discard(l, n)
        \/ \E n \in Ns : DiscardOne(n)

Spec == Init /\ [][Next]_vars
=============================================================================
