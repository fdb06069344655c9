-------------------------- MODULE BufferListProofs --------------------------
(***************************************************************************)
(* The lists and the Buffer of BufferList implement the plain strings of   *)
(* Text, and hold no storage in vain, whatever strings they are made from  *)
(* and however many pieces they are in.                                    *)
(***************************************************************************)
EXTENDS BufferList, BufferProofs

\* Every Buffer that holds a storage shows some of it, unless it is empty.  The
\* property says so of the Buffers; the steps also need what they are made of.
BInv == _buffers \in [List -> Seq(Bufs(Chars))] /\ buf \in Bufs(Chars)

\* A list of one Buffer shows what the Buffer shows.
LEMMA OneBuffer ==
  ASSUME NEW S, NEW b \in Bufs(S)
  PROVE  <<b>> \in Seq(Bufs(S)) /\ concatenate(<<b>>) = str(b)
<1>1. PICK T : T = Bufs(S)
  OBVIOUS
<1>2. <<b>> \in Seq(T)
  BY <1>1
<1>3. str(b) \in Seq(S)
  BY Shown
<1>4. strs(<<b>>) = <<str(b)>>
  <2>1. DOMAIN <<b>> = 1 .. 1 /\ <<b>>[1] = b
    OBVIOUS
  <2>2. strs(<<b>>) = [i \in 1 .. 1 |-> str(<<b>>[i])]
    BY <2>1 DEF strs
  <2>3. \A i \in 1 .. 1 : str(<<b>>[i]) = str(b)
    BY <2>1
  <2>4. [i \in 1 .. 1 |-> str(b)] = <<str(b)>>
    OBVIOUS
  <2> QED BY <2>2, <2>3, <2>4
<1>5. FlattenSeq(<<str(b)>>) = str(b)
  BY <1>3, FlattenFew
<1> QED BY <1>1, <1>2, <1>4, <1>5 DEF concatenate

\* A list without Buffers shows nothing.
LEMMA NoBuffers == concatenate(<<>>) = <<>>
<1>1. strs(<<>>) = <<>>
  BY DEF strs
<1> QED BY <1>1 DEF concatenate, FlattenSeq

\* A list with another behind it shows both.
LEMMA TwoLists ==
  ASSUME NEW S, NEW x \in Seq(Bufs(S)), NEW y \in Seq(Bufs(S))
  PROVE  x \o y \in Seq(Bufs(S)) /\ concatenate(x \o y) = concatenate(x) \o concatenate(y)
<1> DEFINE z == x \o y
<1>1. /\ z \in Seq(Bufs(S)) /\ Len(z) = Len(x) + Len(y)
      /\ \A i \in 1 .. Len(x) + Len(y) : z[i] = IF i <= Len(x) THEN x[i] ELSE y[i - Len(x)]
  BY ConcatProperties
<1>2. /\ strs(x) \in Seq(Seq(S)) /\ Len(strs(x)) = Len(x)
      /\ \A i \in 1 .. Len(x) : strs(x)[i] = str(x[i])
  BY StrsOf
<1>3. /\ strs(y) \in Seq(Seq(S)) /\ Len(strs(y)) = Len(y)
      /\ \A i \in 1 .. Len(y) : strs(y)[i] = str(y[i])
  BY StrsOf
<1>4. Len(x) \in Nat /\ Len(y) \in Nat
  OBVIOUS
<1> HIDE DEF z
<1>5. /\ strs(z) \in Seq(Seq(S)) /\ Len(strs(z)) = Len(x) + Len(y)
      /\ \A i \in 1 .. Len(x) + Len(y) : strs(z)[i] = str(z[i])
  <2>1. z \in Seq(Bufs(S)) /\ Len(z) = Len(x) + Len(y)
    BY <1>1
  <2> QED BY <2>1, StrsOf
<1> DEFINE a == strs(x)
           b == strs(y)
           c == strs(z)
           d == a \o b
<1> HIDE DEF a, b, c
<1>6. a \in Seq(Seq(S)) /\ Len(a) = Len(x) /\ b \in Seq(Seq(S)) /\ Len(b) = Len(y)
      /\ c \in Seq(Seq(S)) /\ Len(c) = Len(x) + Len(y)
  BY <1>2, <1>3, <1>5 DEF a, b, c
<1>7. /\ d \in Seq(Seq(S)) /\ Len(d) = Len(x) + Len(y)
      /\ \A i \in 1 .. Len(x) + Len(y) : d[i] = IF i <= Len(x) THEN a[i] ELSE b[i - Len(x)]
  <2>1. a \in Seq(Seq(S)) /\ b \in Seq(Seq(S))
    BY <1>6
  <2>2. /\ d \in Seq(Seq(S)) /\ Len(d) = Len(a) + Len(b)
        /\ \A i \in 1 .. Len(a) + Len(b) : d[i] = IF i <= Len(a) THEN a[i] ELSE b[i - Len(a)]
    BY <2>1, ConcatProperties
  <2> HIDE DEF d
  <2> QED BY <1>6, <2>2
<1> HIDE DEF d
<1>8. ASSUME NEW i \in 1 .. Len(c) PROVE c[i] = d[i]
  <2>1. i \in 1 .. Len(x) + Len(y)
    BY <1>6
  <2>2. c[i] = str(z[i])
    BY <1>5, <2>1 DEF c
  <2>3. CASE i <= Len(x)
    <3>1. i \in 1 .. Len(x)
      BY <1>4, <2>1, <2>3
    <3> QED BY <1>1, <1>2, <1>7, <2>1, <2>2, <2>3, <3>1 DEF a
  <2>4. CASE ~(i <= Len(x))
    <3>1. i - Len(x) \in 1 .. Len(y)
      BY <1>4, <2>1, <2>4
    <3> QED BY <1>1, <1>3, <1>7, <2>1, <2>2, <2>4, <3>1 DEF b
  <2> QED BY <2>3, <2>4
<1>9. c = d
  <2>1. c \in Seq(Seq(S)) /\ d \in Seq(Seq(S)) /\ Len(c) = Len(d)
    BY <1>6, <1>7
  <2> QED BY <1>8, <2>1, SeqEqual
<1>10. FlattenSeq(d) = FlattenSeq(a) \o FlattenSeq(b)
  BY <1>6, FlattenConcat DEF d
<1> QED BY <1>1, <1>9, <1>10 DEF concatenate, a, b, c, z

----------------------------------------------------------------------------
(* The invariant, and each call on the strings *)

\* What each list shows.
Shows == [l \in List |-> concatenate(_buffers[l])]

\* It starts with nothing, as the strings of Text do.
LEMMA InitBInv == ListInit => BInv /\ TextOf!Init
<1> SUFFICES ASSUME ListInit PROVE BInv /\ TextOf!Init
  OBVIOUS
<1>1. <<>> \in Seq(Chars) /\ <<>> \in Seq(Bufs(Chars))
  BY EmptySeq
<1>2. NoBuffer \in Bufs(Chars) /\ str(NoBuffer) = <<>>
  BY <1>1, MadeBuffers
<1>3. BInv
  BY <1>1, <1>2 DEF ListInit, BInv
<1>4. [l \in List |-> concatenate(_buffers[l])] = [l \in List |-> <<>>]
  BY NoBuffers DEF ListInit
<1> QED BY <1>2, <1>3, <1>4 DEF ListInit, TextOf!Init

\* A list that becomes another one shows that, and the others what they showed.
LEMMA Replaced ==
  ASSUME BInv, NEW l \in List, NEW new \in Seq(Bufs(Chars)),
         _buffers' = [_buffers EXCEPT ![l] = new], buf' = buf
  PROVE  /\ BInv'
         /\ Shows' = [Shows EXCEPT ![l] = concatenate(new)]
         /\ str(buf)' = str(buf)
<1>1. _buffers \in [List -> Seq(Bufs(Chars))]
  BY DEF BInv
<1>2. _buffers' \in [List -> Seq(Bufs(Chars))]
  BY <1>1
<1>3. \A k \in List : _buffers'[k] = IF k = l THEN new ELSE _buffers[k]
  BY <1>1
<1>4. Shows' = [k \in List |-> concatenate(_buffers'[k])]
  BY DEF Shows, concatenate, strs, str
<1>5. ASSUME NEW k \in List
      PROVE  concatenate(_buffers'[k]) = IF k = l THEN concatenate(new) ELSE concatenate(_buffers[k])
  BY <1>3
<1>6. Shows' = [Shows EXCEPT ![l] = concatenate(new)]
  BY <1>4, <1>5 DEF Shows
<1>7. str(buf)' = str(buf)
  BY DEF str
<1> QED BY <1>2, <1>6, <1>7 DEF BInv

\* A call on the Buffer leaves the lists as they are.
LEMMA OnlyOne ==
  ASSUME BInv, NEW b \in Bufs(Chars), buf' = b, _buffers' = _buffers
  PROVE  BInv' /\ Shows' = Shows /\ str(buf)' = str(b)
<1>1. Shows' = Shows
  BY DEF Shows, concatenate, strs, str
<1>2. str(buf)' = str(b)
  BY DEF str
<1> QED BY <1>1, <1>2 DEF BInv

\* BufferList(std::string &&).
LEMMA StringStep ==
  ASSUME BInv, NEW l \in List, NEW s \in Strings, FromString(l, s)
  PROVE  BInv' /\ TextOf!FromString(l, s)
<1>1. s \in Seq(Chars)
  BY ListAssumption
<1>2. NewBuffer(s) \in Bufs(Chars) /\ str(NewBuffer(s)) = s
  BY <1>1, MadeBuffers
<1>3. <<NewBuffer(s)>> \in Seq(Bufs(Chars)) /\ concatenate(<<NewBuffer(s)>>) = s
  BY <1>2, OneBuffer
<1>4. /\ _buffers' = [_buffers EXCEPT ![l] = <<NewBuffer(s)>>] /\ buf' = buf
      /\ threw' = FALSE /\ call' = <<"string", l, s>>
  BY DEF FromString
<1>5. BInv' /\ Shows' = [Shows EXCEPT ![l] = s] /\ str(buf)' = str(buf)
  BY <1>3, <1>4, Replaced
<1> QED BY <1>4, <1>5 DEF TextOf!FromString, TextOf!Become, Shows

\* BufferList(Buffer).
LEMMA BufferStep ==
  ASSUME BInv, NEW l \in List, FromBuffer(l)
  PROVE  BInv' /\ TextOf!FromOne(l)
<1>1. <<buf>> \in Seq(Bufs(Chars)) /\ concatenate(<<buf>>) = str(buf)
  BY OneBuffer DEF BInv
<1>2. /\ _buffers' = [_buffers EXCEPT ![l] = <<buf>>] /\ buf' = buf
      /\ threw' = FALSE /\ call' = <<"buffer", l>>
  BY DEF FromBuffer
<1>3. BInv' /\ Shows' = [Shows EXCEPT ![l] = str(buf)] /\ str(buf)' = str(buf)
  BY <1>1, <1>2, Replaced
<1> QED BY <1>2, <1>3 DEF TextOf!FromOne, TextOf!Become, Shows

\* append().
LEMMA AppendStep ==
  ASSUME BInv, NEW l \in List, NEW m \in List, append(l, m)
  PROVE  BInv' /\ TextOf!Extend(l, m)
<1> DEFINE new == _buffers[l] \o _buffers[m]
<1>1. _buffers[l] \in Seq(Bufs(Chars)) /\ _buffers[m] \in Seq(Bufs(Chars))
  BY DEF BInv
<1>2. new \in Seq(Bufs(Chars)) /\ concatenate(new) = concatenate(_buffers[l]) \o concatenate(_buffers[m])
  BY <1>1, TwoLists
<1>3. /\ _buffers' = [_buffers EXCEPT ![l] = new] /\ buf' = buf
      /\ threw' = FALSE /\ call' = <<"append", l, m>>
  BY DEF append
<1>4. Shows[l] = concatenate(_buffers[l]) /\ Shows[m] = concatenate(_buffers[m])
  BY DEF Shows
<1> HIDE DEF new
<1>5. BInv' /\ Shows' = [Shows EXCEPT ![l] = Shows[l] \o Shows[m]] /\ str(buf)' = str(buf)
  BY <1>2, <1>3, <1>4, Replaced
<1> QED BY <1>3, <1>5 DEF TextOf!Extend, TextOf!Become, Shows

\* BufferList::remove_prefix.
LEMMA RemoveStep ==
  ASSUME BInv, NEW l \in List, NEW n \in Ns, RemovePrefix(l, n)
  PROVE  BInv' /\ TextOf!Discard(l, n)
<1> DEFINE new == list_remove_prefix(_buffers[l], n)
<1>1. n \in Nat /\ _buffers[l] \in Seq(Bufs(Chars))
  BY ListAssumption DEF BInv
<1>2. new \in Seq(Bufs(Chars)) /\ concatenate(new) = Drop(concatenate(_buffers[l]), n)
  BY <1>1, ListRemove
<1>3. /\ _buffers' = [_buffers EXCEPT ![l] = new] /\ buf' = buf
      /\ threw' = (n > Len(concatenate(_buffers[l]))) /\ call' = <<"remove", l, n>>
  BY DEF RemovePrefix, list_size
<1>4. Shows[l] = concatenate(_buffers[l])
  BY DEF Shows
<1> HIDE DEF new
<1>5. BInv' /\ Shows' = [Shows EXCEPT ![l] = Drop(Shows[l], n)] /\ str(buf)' = str(buf)
  BY <1>2, <1>3, <1>4, Replaced
<1>6. threw' = (n > Len(Shows[l]))
  BY <1>3, <1>4
<1> QED BY <1>3, <1>5, <1>6 DEF TextOf!Discard, Shows, Drop

\* Buffer::remove_prefix.
LEMMA BufferRemoveStep ==
  ASSUME BInv, NEW n \in Ns, BufferRemovePrefix(n)
  PROVE  BInv' /\ TextOf!DiscardOne(n)
<1> DEFINE b == IF n > size(buf) THEN buf ELSE remove_prefix(buf, n)
           t == IF n > Len(str(buf)) THEN str(buf) ELSE Drop(str(buf), n)
<1>1. n \in Nat /\ buf \in Bufs(Chars) /\ size(buf) = Len(str(buf))
  BY ListAssumption DEF BInv, size
<1>2. Len(str(buf)) \in Nat
  BY <1>1, Shown
<1>3. b \in Bufs(Chars) /\ str(b) = t
  <2>1. CASE n > size(buf)
    BY <1>1, <2>1
  <2>2. CASE ~(n > size(buf))
    <3>1. n \in 0 .. size(buf)
      BY <1>1, <1>2, <2>2
    <3>2. remove_prefix(buf, n) \in Bufs(Chars) /\ str(remove_prefix(buf, n)) = Drop(str(buf), n)
      BY <1>1, <3>1, RemoveKeeps
    <3> QED BY <1>1, <2>2, <3>2
  <2> QED BY <2>1, <2>2
<1>4. /\ buf' = b /\ _buffers' = _buffers
      /\ threw' = (n > Len(str(buf))) /\ call' = <<"remove", n>>
  BY <1>1 DEF BufferRemovePrefix
<1> HIDE DEF b
<1>5. BInv' /\ Shows' = Shows /\ str(buf)' = t
  BY <1>3, <1>4, OnlyOne
<1> QED BY <1>4, <1>5 DEF TextOf!DiscardOne, Shows, Drop

\* operator Buffer().
LEMMA TakeStep ==
  ASSUME BInv, NEW l \in List, ToBuffer(l)
  PROVE  BInv' /\ TextOf!Take(l)
<1> DEFINE list == _buffers[l]
<1>1. list \in Seq(Bufs(Chars)) /\ buf \in Bufs(Chars) /\ Shows[l] = concatenate(list)
  BY DEF BInv, Shows
<1>2. /\ buf' = CASE Len(list) = 0 -> NoBuffer [] Len(list) = 1 -> list[1] [] OTHER -> buf
      /\ threw' = (Len(list) > 1) /\ call' = <<"take", l>> /\ _buffers' = _buffers
  BY DEF ToBuffer
<1> HIDE DEF list
<1> DEFINE k == Len(list)
<1>3. k \in Nat
  BY <1>1
<1> HIDE DEF k
<1>4. k = 0 \/ k = 1 \/ k > 1
  BY <1>3
<1>5. /\ k = 0 => ~(k = 1) /\ ~(k > 1)
      /\ k = 1 => ~(k = 0) /\ ~(k > 1)
      /\ k > 1 => ~(k = 0) /\ ~(k = 1)
  BY <1>3
<1>6. buf' = CASE k = 0 -> NoBuffer [] k = 1 -> list[1] [] OTHER -> buf
  BY <1>2, Zenon DEF k
<1>7. threw' = (k > 1)
  BY <1>2, Zenon DEF k
<1>8. CASE Len(list) = 0
  <2>1. list = <<>> /\ concatenate(list) = <<>>
    BY <1>1, <1>8, NoBuffers
  <2>2. NoBuffer \in Bufs(Chars) /\ str(NoBuffer) = <<>>
    BY EmptySeq, MadeBuffers
  <2>3. buf' = NoBuffer /\ threw' = FALSE
    <3>1. buf' = NoBuffer
      BY <1>8, <1>5, <1>6 DEF k
    <3>2. (k > 1) = FALSE
      BY <1>3, <1>8, <1>5 DEF k
    <3>3. threw' = FALSE
      BY <1>7, <3>2, Zenon
    <3> QED BY <3>1, <3>3
  <2>4. BInv' /\ Shows' = Shows /\ str(buf)' = Shows[l]
    BY <1>1, <1>2, <2>1, <2>2, <2>3, OnlyOne
  <2> QED BY <1>2, <2>3, <2>4 DEF TextOf!Take, Shows
<1>9. CASE Len(list) = 1
  <2>1. list[1] \in Bufs(Chars) /\ list = <<list[1]>>
    BY <1>1, <1>9
  <2>2. concatenate(list) = str(list[1])
    BY <2>1, OneBuffer
  <2>3. buf' = list[1] /\ threw' = FALSE
    <3>1. buf' = list[1]
      BY <1>9, <1>5, <1>6 DEF k
    <3>2. (k > 1) = FALSE
      BY <1>3, <1>9, <1>5 DEF k
    <3>3. threw' = FALSE
      BY <1>7, <3>2, Zenon
    <3> QED BY <3>1, <3>3
  <2>4. BInv' /\ Shows' = Shows /\ str(buf)' = Shows[l]
    BY <1>1, <1>2, <2>1, <2>2, <2>3, OnlyOne
  <2> QED BY <1>2, <2>3, <2>4 DEF TextOf!Take, Shows
<1>10. CASE Len(list) > 1
  <2>1. buf' = buf /\ threw' = TRUE
    BY <1>10, <1>5, <1>6, <1>7, Zenon DEF k
  <2>2. BInv' /\ Shows' = Shows /\ str(buf)' = str(buf)
    BY <1>1, <1>2, <2>1, OnlyOne
  <2> QED BY <1>2, <2>1, <2>2 DEF TextOf!Take, Shows
<1> QED BY <1>8, <1>9, <1>10, <1>4, Zenon DEF k

\* Every step keeps the invariant and is a step of the strings.
LEMMA StepBInv == BInv /\ [ListNext]_listVars => BInv' /\ [TextOf!Next]_(TextOf!vars)
<1> SUFFICES ASSUME BInv, [ListNext]_listVars PROVE BInv' /\ [TextOf!Next]_(TextOf!vars)
  OBVIOUS
<1>1. ASSUME NEW l \in List, NEW s \in Strings, FromString(l, s)
      PROVE  BInv' /\ TextOf!Next
  BY <1>1, StringStep DEF TextOf!Next
<1>2. ASSUME NEW l \in List, FromBuffer(l) PROVE BInv' /\ TextOf!Next
  BY <1>2, BufferStep DEF TextOf!Next
<1>3. ASSUME NEW l \in List, ToBuffer(l) PROVE BInv' /\ TextOf!Next
  BY <1>3, TakeStep DEF TextOf!Next
<1>4. ASSUME NEW l \in List, NEW m \in List, append(l, m) PROVE BInv' /\ TextOf!Next
  BY <1>4, AppendStep DEF TextOf!Next
<1>5. ASSUME NEW l \in List, NEW n \in Ns, RemovePrefix(l, n) PROVE BInv' /\ TextOf!Next
  BY <1>5, RemoveStep DEF TextOf!Next
<1>6. ASSUME NEW n \in Ns, BufferRemovePrefix(n) PROVE BInv' /\ TextOf!Next
  BY <1>6, BufferRemoveStep DEF TextOf!Next
<1>7. CASE UNCHANGED listVars
  <2>1. buf' = buf /\ _buffers' = _buffers /\ threw' = threw /\ call' = call
    BY <1>7 DEF listVars
  <2>2. BInv' /\ Shows' = Shows /\ str(buf)' = str(buf)
    BY <2>1, OnlyOne DEF BInv
  <2> QED BY <2>1, <2>2 DEF TextOf!vars, Shows
<1> QED BY <1>1, <1>2, <1>3, <1>4, <1>5, <1>6, <1>7 DEF ListNext

----------------------------------------------------------------------------
(* Theorems *)

\* Every Buffer, in a list or not, is one that Bufs describes.
THEOREM ListInvariance == ListSpec => []BInv
  BY InitBInv, StepBInv, PTL DEF ListSpec

\* No Buffer keeps a storage of which it shows nothing: remove_prefix() drops it
\* with the last byte, on every path that buffer.cc has to get there.
THEOREM ListHoldsNothingInVain == ListSpec => []NothingHeldInVain
<1>1. BInv => NothingHeldInVain
  <2> SUFFICES ASSUME BInv, NEW b \in allBuffers
               PROVE  b.held => b.offset < Len(b.storage) \/ b.storage = <<>>
    BY DEF NothingHeldInVain
  <2>1. ASSUME NEW l \in List, NEW c \in ToSet(_buffers[l]) PROVE c \in Bufs(Chars)
    <3>1. _buffers[l] \in Seq(Bufs(Chars))
      BY DEF BInv
    <3> QED BY <3>1 DEF ToSet
  <2>2. b \in Bufs(Chars)
    BY <2>1 DEF allBuffers, BInv
  <2> QED BY <2>2 DEF Bufs
<1> QED BY <1>1, ListInvariance, PTL

\* The classes of buffer.hh implement strings that grow at the end and discard
\* from the front: no caller can tell the pieces, the shared storages, the
\* offsets and the empty pieces.
THEOREM ListRefinesText == ListSpec => ImplementsText
  BY InitBInv, StepBInv, PTL DEF ListSpec, ImplementsText, TextOf!Spec
=============================================================================
