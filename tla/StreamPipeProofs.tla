-------------------------- MODULE StreamPipeProofs --------------------------
(***************************************************************************)
(* Proofs about StreamPipe: a writer that offers what is left of any       *)
(* message, in any portions, and a reader that reads any lengths, around   *)
(* a ByteStream of any capacity the int arithmetic is safe for.            *)
(***************************************************************************)
EXTENDS StreamPipe, ByteStreamProofs

\* Types of the two clients' own state.
PipeTypes ==
  /\ message \in Seq(Byte) /\ pending \in Seq(Byte) /\ received \in Seq(Byte)
  /\ finished \in BOOLEAN

\* The writer ends the input only when nothing is left to send.
EndedIsSent == input_ended => pending = <<>>

\* The reader only believes an eof() that is still true.
FinishedAtEof == finished => eof

\* The inductive invariant.  Conservation needs the ring to be in order, and
\* FinishedHasAll needs to know that a finished reader has left nothing in the
\* ring or with the writer.
PInv == IInv /\ PipeTypes /\ Conservation /\ EndedIsSent /\ FinishedAtEof

----------------------------------------------------------------------------
(* Sequences *)

\* A string cut in two is its two parts.
LEMMA Cut ==
  ASSUME NEW s \in Seq(Byte), NEW n \in 0 .. Len(s)
  PROVE  /\ SubSeq(s, 1, n) \in Seq(Byte)
         /\ SubSeq(s, n + 1, Len(s)) \in Seq(Byte)
         /\ SubSeq(s, 1, n) \o SubSeq(s, n + 1, Len(s)) = s
<1> DEFINE a == SubSeq(s, 1, n)
           b == SubSeq(s, n + 1, Len(s))
<1>0. Len(s) \in Nat /\ n \in Nat /\ n <= Len(s)
  OBVIOUS
<1>1. a \in Seq(Byte) /\ Len(a) = n /\ \A i \in 1 .. n : a[i] = s[i]
  <2>1. \A i \in 1 .. n : s[i] \in Byte
    BY <1>0, ElementOfSeq
  <2> QED BY <1>0, <2>1, SubSeqProperties
<1>2. b \in Seq(Byte) /\ Len(b) = Len(s) - n /\ \A i \in 1 .. Len(s) - n : b[i] = s[n + i]
  <2>1. \A i \in n + 1 .. Len(s) : s[i] \in Byte
    BY <1>0, ElementOfSeq
  <2>2. /\ b \in Seq(Byte)
        /\ Len(b) = IF n + 1 <= Len(s) THEN Len(s) - (n + 1) + 1 ELSE 0
        /\ \A i \in 1 .. Len(s) - (n + 1) + 1 : b[i] = s[(n + 1) + i - 1]
    BY <1>0, <2>1, SubSeqProperties
  <2> HIDE DEF b
  <2>3. ASSUME NEW i \in 1 .. Len(s) - n PROVE b[i] = s[n + i]
    <3>1. i \in 1 .. Len(s) - (n + 1) + 1 /\ (n + 1) + i - 1 = n + i
      BY <1>0
    <3> QED BY <2>2, <3>1
  <2> QED BY <1>0, <2>2, <2>3
<1> HIDE DEF a, b
<1>3. /\ a \o b \in Seq(Byte) /\ Len(a \o b) = Len(s)
      /\ \A i \in 1 .. Len(s) : (a \o b)[i] = s[i]
  BY <1>0, <1>1, <1>2, ConcatProperties
<1>4. a \o b = s
  BY <1>3, SeqEqual
<1> QED BY <1>1, <1>2, <1>4 DEF a, b

\* Concatenation of strings is associative.
LEMMA Assoc ==
  ASSUME NEW a \in Seq(Byte), NEW b \in Seq(Byte), NEW c \in Seq(Byte)
  PROVE  (a \o b) \o c = a \o (b \o c)
BY ConcatAssociative

----------------------------------------------------------------------------
(* The invariant *)

\* It holds before the first call.
LEMMA InitPInv == SafeCapacities /\ PipeInit => PInv
<1> SUFFICES ASSUME SafeCapacities, PipeInit PROVE PInv
  OBVIOUS
<1>1. IInv /\ input_active
  BY InitIInv DEF PipeInit, Init
<1>2. contents = <<>>
  <2>1. buffer_size = 0
    BY DEF PipeInit, Init, buffer_size, buffer_empty
  <2> QED BY <1>1, <2>1, ContentsInOrder DEF InOrder, IInv
<1>3. PipeTypes
  <2>1. message \in Seq(Byte) /\ pending = message /\ received = <<>> /\ finished = FALSE
    BY MessageAssumption DEF PipeInit
  <2>2. <<>> \in Seq(Byte)
    OBVIOUS
  <2> QED BY <2>1, <2>2, Zenon DEF PipeTypes
<1>4. Conservation
  <2>1. <<>> \o <<>> = <<>> /\ <<>> \o message = message
    BY <1>3, ConcatEmptySeq DEF PipeTypes
  <2> QED BY <1>2, <2>1 DEF PipeInit, Conservation
<1> QED BY <1>1, <1>3, <1>4 DEF PInv, EndedIsSent, FinishedAtEof, input_ended, PipeInit

\* What write() accepted leaves the writer's hands and is in the stream.
LEMMA OfferPInv == PInv /\ Offer => PInv'
<1> SUFFICES ASSUME PInv, Offer PROVE PInv'
  OBVIOUS
<1>1. PICK n \in 1 .. Len(pending) : Write(SubSeq(pending, 1, n))
  BY DEF Offer
<1> DEFINE data == SubSeq(pending, 1, n)
           k == accepted(data)
<1>2. /\ IInv /\ Shape /\ Observed /\ PipeTypes
      /\ pending \in Seq(Byte) /\ Len(pending) \in Nat
      /\ n \in 0 .. Len(pending)
  BY Sizes DEF PInv, IInv, PipeTypes
<1>3. data \in Seq(Byte) /\ Len(data) = n /\ \A i \in 1 .. n : data[i] = pending[i]
  BY <1>2
<1> HIDE DEF data
<1>4. Write(data)
  BY <1>1 DEF data
<1>5. IInv' /\ contents' = contents \o SubSeq(data, 1, k)
  BY <1>2, <1>3, <1>4, WriteIInv, WriteAppends
<1>6. k \in 0 .. Len(data) /\ k \in 0 .. Len(pending)
  BY <1>2, <1>3, <1>4, WriteRing DEF Observed
<1>7. /\ call'.count = k
      /\ UNCHANGED <<message, received, finished, input_active>>
      /\ pending' = SubSeq(pending, call'.count + 1, Len(pending))
      /\ pending # <<>>
  BY <1>4 DEF Offer, Write, Called, accepted
<1> HIDE DEF k
<1>8. SubSeq(data, 1, k) = SubSeq(pending, 1, k)
  BY <1>2, <1>3, <1>6 DEF data
<1>9. /\ SubSeq(pending, 1, k) \in Seq(Byte) /\ pending' \in Seq(Byte)
      /\ SubSeq(pending, 1, k) \o pending' = pending
  BY <1>2, <1>6, <1>7, Cut
<1>10. contents \in Seq(Byte)
  BY <1>2, ContentsInOrder DEF InOrder
<1>11. Conservation'
  <2> DEFINE x == SubSeq(pending, 1, k)
  <2>1. contents' = contents \o x
    BY <1>5, <1>8
  <2>2. (received \o contents) \o (x \o pending') = message
    BY <1>9 DEF PInv, Conservation
  <2>3. x \in Seq(Byte) /\ received \in Seq(Byte)
    BY <1>2, <1>9 DEF PipeTypes
  <2> HIDE DEF x
  <2>4. (received \o (contents \o x)) \o pending' = message
    <3> DEFINE c == contents
               q == pending'
    <3>1. c \in Seq(Byte) /\ q \in Seq(Byte)
      BY <1>9, <1>10
    <3>2. (received \o c) \o (x \o q) = message
      BY <2>2
    <3> HIDE DEF c, q
    <3> DEFINE a == received \o c
    <3>3. a \in Seq(Byte)
      BY <2>3, <3>1, ConcatProperties
    <3>4. a \o x = received \o (c \o x)
      BY <2>3, <3>1, Assoc, Zenon
    <3>5. (a \o x) \o q = a \o (x \o q)
      <4> HIDE DEF a
      <4> QED BY <2>3, <3>1, <3>3, Assoc, Zenon
    <3> QED BY <3>2, <3>4, <3>5 DEF c, q
  <2> QED BY <1>7, <2>1, <2>4 DEF Conservation
<1>12. input_active /\ ~finished
  <2>1. ~(~input_active)
    BY <1>7 DEF PInv, EndedIsSent, input_ended
  <2> QED BY <2>1 DEF PInv, FinishedAtEof, eof
<1>13. PipeTypes'
  BY <1>2, <1>7, <1>9 DEF PipeTypes
<1> QED BY <1>5, <1>7, <1>11, <1>12, <1>13
        DEF PInv, EndedIsSent, FinishedAtEof, input_ended

\* A step that leaves the ring alone leaves what it holds alone.
LEMMA SameContents == UNCHANGED ring => contents' = contents /\ (buffer_empty' <=> buffer_empty)
  BY DEF ring, contents, peek_output, buffer_size, buffer_empty

\* Ending the input touches no byte.
LEMMA ClosePInv == PInv /\ Close => PInv'
<1> SUFFICES ASSUME PInv, Close PROVE PInv'
  OBVIOUS
<1>1. IInv'
  BY NextIInv DEF PInv, Close, Next, ReaderOrEnd
<1>2. contents' = contents /\ (buffer_empty' <=> buffer_empty)
  BY SameContents DEF Close, end_input
<1> QED BY <1>1, <1>2, Zenon
        DEF PInv, Close, end_input, PipeTypes, Conservation, EndedIsSent, FinishedAtEof,
            eof, input_ended

\* What read() returns is what it removes from the front of the stream.
LEMMA FetchPInv == ASSUME PInv, NEW len \in Lens, Fetch(len), ~finished PROVE PInv'
<1> DEFINE n == min(buffer_size, len)
<1>1. IInv /\ Shape /\ Observed /\ InOrder /\ PipeTypes
  BY Sizes, ContentsInOrder DEF PInv, IInv
<1>2. /\ Read(len) /\ pop_output(len)
      /\ call'.bytes = peek_output(len)
      /\ received' = received \o peek_output(len)
      /\ UNCHANGED <<message, pending, finished, input_active>>
  BY DEF Fetch, Read, Called, pop_output
<1>3. IInv'
  BY <1>1, <1>2, NextIInv DEF Next, ReaderOrEnd
<1>4. contents' = SubSeq(contents, n + 1, Len(contents))
  BY <1>1, <1>2, <1>3, PopRemoves
<1>5. len \in 0 .. SIZE_MAX /\ len \in Nat /\ buffer_size \in Nat
  BY <1>1, ArgumentAssumption, WidthAssumption DEF Observed
<1>6. n \in 0 .. Len(contents) /\ n = Queue!Least(Len(contents), len)
  BY <1>1, <1>5 DEF InOrder, min, Queue!Least
<1>7. peek_output(len) = SubSeq(contents, 1, n)
  BY <1>1, <1>5, <1>6, PeekIsFront DEF Queue!Front
<1> HIDE DEF n
<1>8. /\ SubSeq(contents, 1, n) \in Seq(Byte) /\ contents' \in Seq(Byte)
      /\ SubSeq(contents, 1, n) \o contents' = contents
  BY <1>1, <1>4, <1>6, Cut DEF InOrder
<1> DEFINE x == SubSeq(contents, 1, n)
<1>9. received' \in Seq(Byte)
  BY <1>1, <1>2, <1>7, <1>8, ConcatProperties DEF PipeTypes
<1>10. Conservation'
  <2>1. (received \o (x \o contents')) \o pending = message
    BY <1>8 DEF PInv, Conservation
  <2>2. x \in Seq(Byte) /\ received \in Seq(Byte) /\ pending \in Seq(Byte)
    BY <1>1, <1>8 DEF PipeTypes
  <2>3. received' = received \o x
    BY <1>2, <1>7
  <2> HIDE DEF x
  <2>4. ((received \o x) \o contents') \o pending = message
    <3> DEFINE c == contents'
    <3>1. c \in Seq(Byte)
      BY <1>8
    <3>2. (received \o (x \o c)) \o pending = message
      BY <2>1
    <3> HIDE DEF c
    <3>3. ((received \o x) \o c) \o pending = (received \o (x \o c)) \o pending
      <4>1. (received \o x) \o c = received \o (x \o c)
        BY <2>2, <3>1, Assoc, Zenon
      <4> QED BY <4>1, Zenon
    <3> QED BY <3>2, <3>3 DEF c
  <2> QED BY <1>2, <2>3, <2>4 DEF Conservation
<1> QED BY <1>1, <1>2, <1>3, <1>9, <1>10
        DEF PInv, PipeTypes, EndedIsSent, FinishedAtEof, input_ended

\* The inductive step.
LEMMA NextPInv == PInv /\ [PipeNext]_pipeVars => PInv'
<1> SUFFICES ASSUME PInv, [PipeNext]_pipeVars PROVE PInv'
  OBVIOUS
<1>1. CASE Writer
  BY <1>1, OfferPInv, ClosePInv DEF Writer
<1>2. CASE Reader
  BY <1>2, FetchPInv DEF Reader
<1>3. ASSUME UNCHANGED <<vars, message, pending, received>>, finished' \in BOOLEAN,
             finished' => eof
      PROVE  PInv'
  <2>1. IInv'
    BY <1>3, NextIInv DEF PInv
  <2>2. contents' = contents /\ (buffer_empty' <=> buffer_empty) /\ input_active' = input_active
    BY <1>3, SameContents DEF vars
  <2> QED BY <1>3, <2>1, <2>2, Zenon
          DEF PInv, PipeTypes, Conservation, EndedIsSent, FinishedAtEof, eof, input_ended
<1>4. CASE Finish
  BY <1>3, <1>4 DEF Finish
<1>5. CASE UNCHANGED pipeVars
  BY <1>3, <1>5 DEF pipeVars, PInv, PipeTypes, FinishedAtEof
<1> QED BY <1>1, <1>2, <1>4, <1>5 DEF PipeNext, Done

\* The invariant holds in every reachable state.
THEOREM PipeInvariance == SafeCapacities /\ PipeSpec => []PInv
  BY InitPInv, NextPInv, PTL DEF PipeSpec

\* Around the circular buffer of byte_stream.cc no byte of a message is lost,
\* repeated or reordered, in whatever portions the two sides write and read.
THEOREM Conserved == SafeCapacities /\ PipeSpec => []Conservation
<1>1. PInv => Conservation
  BY DEF PInv
<1> QED BY <1>1, PipeInvariance, PTL

\* A reader that stops when eof() says so has the whole message: eof() is never
\* reported while bytes are in the buffer or with the writer.
THEOREM FinishedComplete == SafeCapacities /\ PipeSpec => []FinishedHasAll
<1>1. PInv => FinishedHasAll
  <2> SUFFICES ASSUME PInv, finished PROVE received = message
    BY DEF FinishedHasAll
  <2>1. pending = <<>> /\ buffer_empty
    BY DEF PInv, EndedIsSent, FinishedAtEof, eof, input_ended
  <2>2. contents = <<>>
    BY <2>1, Sizes, ContentsInOrder DEF PInv, IInv, Observed, InOrder
  <2>3. received \in Seq(Byte)
    BY DEF PInv, PipeTypes
  <2>4. (received \o <<>>) \o <<>> = received
    BY <2>3, ConcatEmptySeq
  <2> QED BY <2>1, <2>2, <2>4 DEF PInv, Conservation
<1> QED BY <1>1, PipeInvariance, PTL
=============================================================================
