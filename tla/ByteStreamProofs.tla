-------------------------- MODULE ByteStreamProofs --------------------------
(***************************************************************************)
(* Proofs about ByteStream, for every width of int and size_t, every       *)
(* capacity the int arithmetic is safe for, every input and every length.  *)
(***************************************************************************)
EXTENDS ByteStream, SequenceTheorems, TLAPS

----------------------------------------------------------------------------
(* Arithmetic *)

\* A number below the modulus is its own remainder.
LEMMA ModSmall == \A m \in Nat \ {0} : \A a \in 0 .. m - 1 : a % m = a
  OBVIOUS

\* A number in the second period leaves the modulus once.
LEMMA ModOnce ==
  \A m \in Nat \ {0} : \A a \in m .. 2 * m - 1 : a % m = a - m
  OBVIOUS

\* The difference of two numbers below the modulus borrows at most once.
LEMMA ModDiff ==
  \A m \in Nat \ {0} : \A a, b \in 0 .. m - 1 :
    (a - b) % m = IF b <= a THEN a - b ELSE a - b + m
  OBVIOUS

\* Conversion to int changes no number that fits an int.
LEMMA ToIntExact == \A x \in 0 .. INT_MAX : ToInt(x) = x
  BY WidthAssumption, ModSmall DEF ToInt

\* Conversion to size_t changes no number that fits a size_t.
LEMMA ToSizeExact == \A x \in 0 .. SIZE_MAX : ToSize(x) = x
  BY WidthAssumption, ModSmall DEF ToSize

\* A wrapping counter that advances by n moves its distance from another
\* counter by n, as long as the distance stays below the modulus.
LEMMA CounterDistance ==
  ASSUME NEW m \in Nat \ {0}, NEW w \in 0 .. m - 1, NEW r \in 0 .. m - 1,
         NEW n \in Nat
  PROVE  /\ ((w - r) % m) + n < m
              => (((w + n) % m) - r) % m = ((w - r) % m) + n
         /\ n <= (w - r) % m
              => (w - ((r + n) % m)) % m = ((w - r) % m) - n
<1>1. (w - r) % m = IF r <= w THEN w - r ELSE w - r + m
  BY ModDiff
<1>2. ASSUME ((w - r) % m) + n < m
      PROVE  (((w + n) % m) - r) % m = ((w - r) % m) + n
  <2>1. CASE w + n < m
    <3>1. (w + n) % m = w + n
      BY <2>1, ModSmall
    <3>2. (w + n - r) % m = IF r <= w + n THEN w + n - r ELSE w + n - r + m
      BY <2>1, ModDiff
    <3> QED BY <1>1, <1>2, <2>1, <3>1, <3>2
  <2>2. CASE ~(w + n < m)
    <3>1. w + n \in m .. 2 * m - 1
      BY <1>1, <1>2, <2>2
    <3>2. (w + n) % m = w + n - m
      <4> DEFINE a == w + n
      <4>1. a \in m .. 2 * m - 1
        BY <3>1
      <4> HIDE DEF a
      <4>2. a % m = a - m
        BY <4>1, ModOnce
      <4> QED BY <4>2 DEF a
    <3>3. ((w + n - m) - r) % m
            = IF r <= w + n - m THEN (w + n - m) - r ELSE (w + n - m) - r + m
      BY <3>1, ModDiff
    <3> QED BY <1>1, <1>2, <2>2, <3>1, <3>2, <3>3
  <2> QED BY <2>1, <2>2
<1>3. ASSUME n <= (w - r) % m
      PROVE  (w - ((r + n) % m)) % m = ((w - r) % m) - n
  <2>1. CASE r + n < m
    <3>1. (r + n) % m = r + n
      BY <2>1, ModSmall
    <3>2. (w - (r + n)) % m = IF r + n <= w THEN w - (r + n) ELSE w - (r + n) + m
      BY <2>1, ModDiff
    <3> QED BY <1>1, <1>3, <2>1, <3>1, <3>2
  <2>2. CASE ~(r + n < m)
    <3>1. r + n \in m .. 2 * m - 1
      BY <1>1, <1>3, <2>2
    <3>2. (r + n) % m = r + n - m
      <4> DEFINE a == r + n
      <4>1. a \in m .. 2 * m - 1
        BY <3>1
      <4> HIDE DEF a
      <4>2. a % m = a - m
        BY <4>1, ModOnce
      <4> QED BY <4>2 DEF a
    <3>3. (w - (r + n - m)) % m
            = IF r + n - m <= w THEN w - (r + n - m) ELSE w - (r + n - m) + m
      BY <3>1, ModDiff
    <3> QED BY <1>1, <1>3, <2>2, <3>1, <3>2, <3>3
  <2> QED BY <2>1, <2>2
<1> QED BY <1>2, <1>3

----------------------------------------------------------------------------
(* The ring *)

\* The number of bytes from index s to index e around a ring of m slots.
RingSize(s, e, m) ==
  IF s = -1 THEN 0 ELSE IF s <= e THEN e - s + 1 ELSE m + e - s + 1

\* The expression buffer_size() evaluates, with its two remainders and its
\* conversions, is that number when maxlen + (eind - sind) fits an int.
LEMMA RingSizeComputed ==
  ASSUME NEW m \in Nat \ {0}, 2 * m - 1 <= INT_MAX,
         NEW s \in 0 .. m - 1, NEW e \in 0 .. m - 1
  PROVE  ToSize(Rem(ToInt(m + Rem(e - s, m)), m) + 1) = RingSize(s, e, m)
<1>1. Rem(e - s, m) = e - s
  BY ModSmall DEF Rem
<1>2. ToInt(m + (e - s)) = m + (e - s)
  BY WidthAssumption, ToIntExact
<1>3. Rem(m + (e - s), m) + 1 = RingSize(s, e, m)
  <2>1. CASE s <= e
    <3>1. m + (e - s) \in m .. 2 * m - 1
      BY <2>1
    <3>2. (m + (e - s)) % m = e - s
      BY <3>1, ModOnce
    <3> QED BY <2>1, <3>1, <3>2 DEF Rem, RingSize
  <2>2. CASE ~(s <= e)
    <3>1. m + (e - s) \in 0 .. m - 1
      BY <2>2
    <3> QED BY <2>2, <3>1, ModSmall DEF Rem, RingSize
  <2> QED BY <2>1, <2>2
<1>4. RingSize(s, e, m) \in 0 .. SIZE_MAX
  BY WidthAssumption DEF RingSize
<1> QED BY <1>1, <1>2, <1>3, <1>4, ToSizeExact

\* What the observers return in a state of the right shape.
Observed ==
  /\ maxlen \in Nat
  /\ buffer_size = RingSize(sind, eind, maxlen)
  /\ buffer_size \in 0 .. maxlen
  /\ buffer_empty <=> buffer_size = 0
  /\ remaining_capacity = maxlen - buffer_size

\* The sizes of a state of the right shape are those of its ring.
LEMMA Sizes == Shape => Observed
<1> SUFFICES ASSUME Shape PROVE Observed
  OBVIOUS
<1>1. maxlen \in Nat /\ maxlen <= INT_MAX
  BY WidthAssumption DEF Shape, TypeOK
<1>2. /\ buffer_size = RingSize(sind, eind, maxlen)
      /\ buffer_size \in 0 .. maxlen
      /\ buffer_empty <=> buffer_size = 0
  <2>1. CASE buffer_empty
    BY <1>1, <2>1 DEF buffer_size, buffer_empty, RingSize
  <2>2. CASE ~buffer_empty
    <3>1. /\ sind \in 0 .. maxlen - 1
          /\ eind \in 0 .. maxlen - 1
          /\ maxlen \in Nat \ {0}
      BY <1>1, <2>2 DEF Shape, TypeOK, buffer_empty
    <3>2. buffer_size = RingSize(sind, eind, maxlen)
      BY <2>2, <3>1, RingSizeComputed DEF Shape, buffer_size
    <3>3. RingSize(sind, eind, maxlen) \in 1 .. maxlen
      BY <3>1 DEF RingSize
    <3> QED BY <2>2, <3>1, <3>2, <3>3
  <2> QED BY <2>1, <2>2
<1>3. remaining_capacity = maxlen - buffer_size
  <2>1. maxlen - buffer_size \in 0 .. SIZE_MAX
    BY <1>1, <1>2, WidthAssumption
  <2> QED BY <2>1, ToSizeExact DEF remaining_capacity
<1> QED BY <1>1, <1>2, <1>3 DEF Observed

\* Storing n more bytes after index e lengthens the run from s to e by n.
LEMMA RingWrite ==
  ASSUME NEW m \in Nat \ {0}, NEW s \in 0 .. m - 1, NEW e \in 0 .. m - 1,
         NEW n \in Nat \ {0}
  PROVE  n <= m - RingSize(s, e, m) =>
           /\ (e + n) % m \in 0 .. m - 1
           /\ RingSize(s, (e + n) % m, m) = RingSize(s, e, m) + n
<1>a. HAVE n <= m - RingSize(s, e, m)
<1>0. RingSize(s, e, m) \in 1 .. m
  BY DEF RingSize
<1>1. CASE e + n < m
  <2>1. (e + n) % m = e + n
    BY <1>1, ModSmall
  <2> QED BY <1>a, <1>1, <2>1 DEF RingSize
<1>2. CASE ~(e + n < m)
  <2>1. e + n \in m .. 2 * m - 1
    BY <1>a, <1>0, <1>2
  <2>2. (e + n) % m = e + n - m
    BY <2>1, ModOnce
  <2> QED BY <1>a, <1>2, <2>1, <2>2 DEF RingSize
<1> QED BY <1>1, <1>2

\* Dropping n bytes, but not all, from the front shortens the run by n.
LEMMA RingPop ==
  ASSUME NEW m \in Nat \ {0}, NEW s \in 0 .. m - 1, NEW e \in 0 .. m - 1,
         NEW n \in Nat
  PROVE  n < RingSize(s, e, m) =>
           /\ (s + n) % m \in 0 .. m - 1
           /\ RingSize((s + n) % m, e, m) = RingSize(s, e, m) - n
<1>a. HAVE n < RingSize(s, e, m)
<1>0. RingSize(s, e, m) \in 1 .. m
  BY DEF RingSize
<1>1. CASE s + n < m
  <2>1. (s + n) % m = s + n
    BY <1>1, ModSmall
  <2> QED BY <1>a, <1>1, <2>1 DEF RingSize
<1>2. CASE ~(s + n < m)
  <2>1. s + n \in m .. 2 * m - 1
    BY <1>a, <1>0, <1>2
  <2>2. (s + n) % m = s + n - m
    BY <2>1, ModOnce
  <2> QED BY <1>a, <1>2, <2>1, <2>2 DEF RingSize
<1> QED BY <1>1, <1>2


\* The same one step later.
LEMMA SizesNext == Shape' => Observed'
  BY Sizes, PTL

----------------------------------------------------------------------------
(* Type correctness and the size *)

\* The inductive invariant: BufferSizeExact says nothing of the indices, and the
\* indices say nothing of the counters, so each step needs both.
IInv == Shape /\ BufferSizeExact

\* It holds after the constructor.
LEMMA InitIInv == SafeCapacities /\ Init => IInv
<1> SUFFICES ASSUME SafeCapacities, Init PROVE IInv
  OBVIOUS
<1>1. capacity \in Capacities /\ capacity \in Nat /\ 2 * capacity - 1 <= INT_MAX
  BY ArgumentAssumption DEF SafeCapacities, Init
<1>2. capacity \in 0 .. INT_MAX
  BY <1>1, WidthAssumption
<1>3. maxlen = capacity
  BY <1>2, ToIntExact DEF Init
<1>4. call \in [count : 0 .. SIZE_MAX, bytes : Seq(Byte)]
  BY WidthAssumption DEF Init, Called
<1>5. buffer \in [0 .. maxlen - 1 -> Byte]
  BY ArgumentAssumption DEF Init
<1>6. /\ sind = -1 /\ eind = -1
      /\ cnt_read = 0 /\ cnt_write = 0
      /\ error = FALSE /\ input_active = TRUE
  BY DEF Init
<1>7. TypeOK
  <2>1. /\ maxlen \in 0 .. INT_MAX
        /\ sind \in -1 .. maxlen - 1
        /\ eind \in -1 .. maxlen - 1
    BY <1>2, <1>3, <1>6
  <2>2. cnt_read \in 0 .. SIZE_MAX /\ cnt_write \in 0 .. SIZE_MAX
    BY <1>6, WidthAssumption
  <2>3. error \in BOOLEAN /\ input_active \in BOOLEAN
    BY <1>6
  <2> QED BY <1>1, <1>4, <1>5, <2>1, <2>2, <2>3 DEF TypeOK
<1>8. Shape
  BY <1>1, <1>3, <1>6, <1>7 DEF Shape, buffer_empty
<1>9. BufferSizeExact
  BY <1>6, WidthAssumption, ModSmall DEF BufferSizeExact, buffer_size, buffer_empty
<1> QED BY <1>8, <1>9 DEF IInv


\* A step that leaves the ring and the counters alone preserves the invariant.
LEMMA QuietStep ==
  ASSUME IInv, UNCHANGED <<capacity, ring, cnt_read, cnt_write>>,
         error' \in BOOLEAN, input_active' \in BOOLEAN,
         call' \in [count : 0 .. SIZE_MAX, bytes : Seq(Byte)]
  PROVE  IInv'
  BY DEF IInv, Shape, TypeOK, BufferSizeExact, buffer_size, buffer_empty, ring

\* What peek_output() returns is a string, no longer than asked for.
LEMMA PeekType ==
  ASSUME Shape, NEW len \in 0 .. SIZE_MAX
  PROVE  /\ peek_output(len) \in Seq(Byte)
         /\ Len(peek_output(len)) = min(buffer_size, len)
         /\ Called(len, peek_output(len)) \in [count : 0 .. SIZE_MAX, bytes : Seq(Byte)]
<1>1. min(buffer_size, len) \in 0 .. maxlen
  BY Sizes DEF Observed, min
<1>2. ASSUME NEW i \in 1 .. min(buffer_size, len)
      PROVE  buffer[(sind + i - 1) % maxlen] \in Byte
  <2>1. maxlen \in Nat \ {0} /\ sind + i - 1 \in Int
    BY <1>1, WidthAssumption DEF Shape, TypeOK
  <2>2. (sind + i - 1) % maxlen \in 0 .. maxlen - 1
    BY <2>1
  <2> QED BY <2>2 DEF Shape, TypeOK
<1>3. /\ peek_output(len) \in Seq(Byte)
      /\ Len(peek_output(len)) = min(buffer_size, len)
  BY <1>1, <1>2 DEF peek_output
<1> QED BY <1>3, WidthAssumption DEF Called


\* The loop of write() visits no index twice while it stores at most m bytes.
LEMMA HitOnce ==
  ASSUME NEW m \in Nat \ {0}, NEW last \in -1 .. m - 1,
         NEW i \in 1 .. m, NEW j \in 1 .. m
  PROVE  (last + i) % m = (last + j) % m => i = j
<1>1. ASSUME NEW h \in 1 .. m
      PROVE  (last + h) % m = IF last + h < m THEN last + h ELSE last + h - m
  <2>1. CASE last + h < m
    BY <2>1, ModSmall
  <2>2. CASE ~(last + h < m)
    <3>1. last + h \in m .. 2 * m - 1
      BY <2>2
    <3>2. (last + h) % m = last + h - m
      BY <3>1, ModOnce
    <3> QED BY <2>2, <3>2
  <2> QED BY <2>1, <2>2
<1> QED BY <1>1

\* The storage after the loop: byte j of the data is at the j-th index after
\* last, and the other indices keep what they held.
LEMMA StoredBytes ==
  ASSUME maxlen \in Nat \ {0}, buffer \in [0 .. maxlen - 1 -> Byte],
         NEW n \in 1 .. maxlen, NEW last \in -1 .. maxlen - 1,
         NEW data \in Seq(Byte), n <= Len(data)
  PROVE  /\ Stored(data, n, last) \in [0 .. maxlen - 1 -> Byte]
         /\ \A j \in 1 .. n :
              Stored(data, n, last)[(last + j) % maxlen] = data[j]
         /\ \A k \in 0 .. maxlen - 1 :
              (\A j \in 1 .. n : (last + j) % maxlen # k)
                => Stored(data, n, last)[k] = buffer[k]
<1> DEFINE hits(k) == {i \in 1 .. n : (last + i) % maxlen = k}
<1>1. ASSUME NEW j \in 1 .. n
      PROVE  /\ (last + j) % maxlen \in 0 .. maxlen - 1
             /\ Max(hits((last + j) % maxlen)) = j
             /\ hits((last + j) % maxlen) # {}
  <2>1. \A i \in 1 .. n : (last + i) % maxlen = (last + j) % maxlen => i = j
    <3> TAKE i \in 1 .. n
    <3>1. i \in 1 .. maxlen /\ j \in 1 .. maxlen
      OBVIOUS
    <3> QED BY <3>1, HitOnce
  <2>2. hits((last + j) % maxlen) = {j}
    BY <2>1, Zenon
  <2>3. Max({j}) = j
    BY DEF Max
  <2>4. (last + j) % maxlen \in 0 .. maxlen - 1
    OBVIOUS
  <2> HIDE DEF hits
  <2> QED BY <2>2, <2>3, <2>4, Zenon
<1>2. ASSUME NEW k \in 0 .. maxlen - 1, hits(k) # {}
      PROVE  data[Max(hits(k))] \in Byte
  <2>1. PICK j \in 1 .. n : k = (last + j) % maxlen
    BY <1>2
  <2>2. Max(hits(k)) = j
    BY <1>1, <2>1
  <2>3. j \in 1 .. Len(data)
    OBVIOUS
  <2> QED BY <2>2, <2>3
<1>3. \A k \in 0 .. maxlen - 1 :
        Stored(data, n, last)[k] = IF hits(k) = {} THEN buffer[k] ELSE data[Max(hits(k))]
  BY DEF Stored
<1>4. Stored(data, n, last) \in [0 .. maxlen - 1 -> Byte]
  BY <1>2 DEF Stored
<1> HIDE DEF hits
<1>5. \A j \in 1 .. n : Stored(data, n, last)[(last + j) % maxlen] = data[j]
  BY <1>1, <1>3
<1>6. \A k \in 0 .. maxlen - 1 :
        (\A j \in 1 .. n : (last + j) % maxlen # k)
          => Stored(data, n, last)[k] = buffer[k]
  BY <1>3 DEF hits
<1> QED BY <1>4, <1>5, <1>6

\* How many bytes of data write() accepts, and the index it stores after.
accepted(data) == min(Len(data), remaining_capacity)
lastIndex == IF buffer_empty THEN -1 ELSE eind

\* In a stream that holds something both indices are inside the ring.
LEMMA Occupied ==
  ASSUME Shape, ~buffer_empty
  PROVE  /\ lastIndex = eind
         /\ sind \in 0 .. maxlen - 1 /\ eind \in 0 .. maxlen - 1
<1>1. sind \in -1 .. maxlen - 1 /\ eind \in -1 .. maxlen - 1 /\ maxlen \in Nat
  BY DEF Shape, TypeOK
<1>2. sind # -1 /\ eind # -1
  BY DEF Shape, buffer_empty
<1>3. lastIndex = eind
  BY DEF lastIndex
<1> QED BY <1>1, <1>2, <1>3

\* What write() does to the ring.
LEMMA WriteRing ==
  ASSUME Shape, NEW data \in Seq(Byte), Write(data)
  PROVE  /\ accepted(data) \in 0 .. maxlen - buffer_size
         /\ accepted(data) <= Len(data)
         /\ accepted(data) # 0 =>
              /\ maxlen \in Nat \ {0}
              /\ lastIndex \in -1 .. maxlen - 1
              /\ sind' = (IF buffer_empty THEN 0 ELSE sind)
              /\ sind' \in 0 .. maxlen - 1
              /\ eind' \in 0 .. maxlen - 1
              /\ RingSize(sind', eind', maxlen) = buffer_size + accepted(data)
              /\ buffer' = Stored(data, accepted(data), lastIndex)
<1> DEFINE n == accepted(data)
<1>1. TypeOK /\ Observed
  BY Sizes DEF Shape
<1>2. Len(data) \in Nat
  OBVIOUS
<1>3. n \in 0 .. maxlen - buffer_size /\ n <= Len(data)
  BY <1>1, <1>2 DEF Observed, accepted, min
<1>4. ASSUME n # 0
      PROVE  /\ maxlen \in Nat \ {0}
             /\ lastIndex \in -1 .. maxlen - 1
             /\ sind' = (IF buffer_empty THEN 0 ELSE sind)
             /\ sind' \in 0 .. maxlen - 1
             /\ eind' \in 0 .. maxlen - 1
             /\ RingSize(sind', eind', maxlen) = buffer_size + n
             /\ buffer' = Stored(data, n, lastIndex)
  <2>1. /\ sind' = IF buffer_empty THEN 0 ELSE sind
        /\ eind' = (lastIndex + n) % maxlen
        /\ buffer' = Stored(data, n, lastIndex)
    BY <1>4 DEF Write, accepted, lastIndex
  <2> HIDE DEF n
  <2>2. maxlen \in Nat \ {0} /\ n \in Nat \ {0}
    BY <1>1, <1>3, <1>4 DEF Observed
  <2>3. CASE buffer_empty
    <3>1. buffer_size = 0 /\ lastIndex = -1
      BY <1>1, <2>3 DEF Observed, lastIndex
    <3>2. eind' = n - 1
      BY <1>3, <2>1, <2>2, <3>1, ModSmall
    <3> QED BY <1>3, <2>1, <2>2, <2>3, <3>1, <3>2 DEF RingSize
  <2>4. CASE ~buffer_empty
    <3>1. /\ sind \in 0 .. maxlen - 1 /\ eind \in 0 .. maxlen - 1
          /\ lastIndex = eind
      BY <1>1, <2>4 DEF Shape, TypeOK, buffer_empty, lastIndex
    <3>2. sind' = sind /\ eind' = (eind + n) % maxlen
      BY <2>1, <2>4, <3>1
    <3>3. n <= maxlen - RingSize(sind, eind, maxlen)
      BY <1>1, <1>3 DEF Observed
    <3>4. /\ eind' \in 0 .. maxlen - 1
          /\ RingSize(sind', eind', maxlen) = buffer_size + n
      BY <1>1, <2>2, <3>1, <3>2, <3>3, RingWrite DEF Observed
    <3> QED BY <2>1, <2>2, <2>4, <3>1, <3>2, <3>4
  <2> QED BY <2>3, <2>4
<1> QED BY <1>2, <1>3, <1>4

\* write() keeps the invariant: it advances eind and cnt_write by as much.
LEMMA WriteIInv ==
  ASSUME IInv, NEW data \in Seq(Byte), Write(data)
  PROVE  IInv'
<1> DEFINE n == accepted(data)
<1>1. Shape /\ TypeOK /\ Observed
  BY Sizes DEF IInv, Shape
<1>2. n \in 0 .. maxlen - buffer_size /\ n <= Len(data)
  BY <1>1, WriteRing
<1>3. n \in 0 .. SIZE_MAX
  BY <1>1, <1>2, WidthAssumption DEF Observed, TypeOK
<1>4. call' \in [count : 0 .. SIZE_MAX, bytes : Seq(Byte)]
  BY <1>2, <1>3 DEF Write, Called, accepted
<1>5. UNCHANGED <<capacity, maxlen, cnt_read, error, input_active>>
  BY DEF Write
<1>6. CASE n = 0
  <2>1. UNCHANGED <<buffer, sind, eind, cnt_write>>
    BY <1>6 DEF Write, accepted
  <2> QED BY <1>1, <1>4, <1>5, <2>1, QuietStep DEF TypeOK, ring
<1>7. CASE n # 0
  <2>1. cnt_write' = ToSize(cnt_write + n)
    BY <1>7 DEF Write, accepted
  <2>2. /\ maxlen \in Nat \ {0}
        /\ lastIndex \in -1 .. maxlen - 1
        /\ sind' \in 0 .. maxlen - 1
        /\ eind' \in 0 .. maxlen - 1
        /\ RingSize(sind', eind', maxlen) = buffer_size + n
        /\ buffer' = Stored(data, n, lastIndex)
    BY <1>1, <1>7, WriteRing
  <2> HIDE DEF n
  <2>3. buffer' \in [0 .. maxlen - 1 -> Byte]
    <3>1. n \in 1 .. maxlen /\ buffer \in [0 .. maxlen - 1 -> Byte]
      BY <1>1, <1>2, <1>7 DEF Observed, TypeOK
    <3> QED BY <1>2, <2>2, <3>1, StoredBytes
  <2>4. cnt_write' \in 0 .. SIZE_MAX
    BY <1>1, <1>3, <2>1, WidthAssumption DEF TypeOK, ToSize
  <2>5. Shape'
    BY <1>1, <1>4, <1>5, <2>2, <2>3, <2>4 DEF Shape, TypeOK, buffer_empty
  <2>6. buffer_size' = buffer_size + n
    BY <1>5, <2>2, <2>5, SizesNext DEF Observed
  <2>7. buffer_size + n < SIZE_MAX + 1
    BY <1>1, <1>2, WidthAssumption DEF Observed, TypeOK
  <2>8. (cnt_write' - cnt_read) % (SIZE_MAX + 1) = buffer_size + n
    <3>1. buffer_size = (cnt_write - cnt_read) % (SIZE_MAX + 1)
      BY DEF IInv, BufferSizeExact
    <3>2. SIZE_MAX + 1 \in Nat \ {0} /\ n \in Nat
      BY <1>3, WidthAssumption
    <3>3. /\ cnt_write \in 0 .. (SIZE_MAX + 1) - 1
          /\ cnt_read \in 0 .. (SIZE_MAX + 1) - 1
      BY <1>1, WidthAssumption DEF TypeOK
    <3> QED BY <2>1, <2>7, <3>1, <3>2, <3>3, CounterDistance DEF ToSize
  <2> QED BY <1>5, <2>5, <2>6, <2>8 DEF IInv, BufferSizeExact
<1> QED BY <1>6, <1>7

\* What pop_output() does to the ring.
LEMMA PopRing ==
  ASSUME Shape, NEW len \in Lens, pop_output(len)
  PROVE  /\ min(buffer_size, len) \in 0 .. buffer_size
         /\ sind' \in -1 .. maxlen - 1
         /\ sind' # -1 => sind # -1
         /\ RingSize(sind', eind, maxlen) = buffer_size - min(buffer_size, len)
         /\ cnt_read' = ToSize(cnt_read + min(buffer_size, len))
         /\ min(buffer_size, len) < buffer_size =>
              /\ sind \in 0 .. maxlen - 1
              /\ maxlen \in Nat \ {0}
              /\ sind' = (sind + min(buffer_size, len)) % maxlen
<1>1. TypeOK /\ Observed
  BY Sizes DEF Shape
<1>2. len \in Nat
  BY ArgumentAssumption, WidthAssumption
<1>3. CASE len >= buffer_size
  <2>1. min(buffer_size, len) = buffer_size
    BY <1>1, <1>2, <1>3 DEF min, Observed
  <2>2. sind' = -1 /\ cnt_read' = ToSize(cnt_read + buffer_size)
    BY <1>3 DEF pop_output
  <2> QED BY <1>1, <2>1, <2>2 DEF Observed, RingSize
<1>4. CASE ~(len >= buffer_size)
  <2>1. min(buffer_size, len) = len /\ len < buffer_size
    BY <1>1, <1>2, <1>4 DEF min, Observed
  <2>2. sind' = (sind + len) % maxlen /\ cnt_read' = ToSize(cnt_read + len)
    BY <1>4 DEF pop_output
  <2>3. /\ sind \in 0 .. maxlen - 1 /\ eind \in 0 .. maxlen - 1
        /\ maxlen \in Nat \ {0}
    BY <1>1, <1>2, <2>1 DEF Observed, Shape, TypeOK, buffer_empty
  <2>4. len < RingSize(sind, eind, maxlen)
    BY <1>1, <2>1 DEF Observed
  <2>5. /\ sind' \in 0 .. maxlen - 1
        /\ RingSize(sind', eind, maxlen) = RingSize(sind, eind, maxlen) - len
    BY <1>2, <2>2, <2>3, <2>4, RingPop
  <2> QED BY <1>1, <1>2, <2>1, <2>2, <2>3, <2>5 DEF Observed
<1> QED BY <1>3, <1>4

\* pop_output() keeps the invariant: it advances sind and cnt_read by as much,
\* or marks the stream empty.
LEMMA PopIInv ==
  ASSUME IInv, NEW len \in Lens, pop_output(len),
         call' \in [count : 0 .. SIZE_MAX, bytes : Seq(Byte)]
  PROVE  IInv'
<1> DEFINE n == min(buffer_size, len)
<1>1. Shape /\ TypeOK /\ Observed
  BY Sizes DEF IInv, Shape
<1>2. /\ n \in 0 .. buffer_size
      /\ sind' \in -1 .. maxlen - 1
      /\ sind' # -1 => sind # -1
      /\ RingSize(sind', eind, maxlen) = buffer_size - n
      /\ cnt_read' = ToSize(cnt_read + n)
  BY <1>1, PopRing
<1> HIDE DEF n
<1>3. UNCHANGED <<capacity, maxlen, buffer, eind, cnt_write, error, input_active>>
  BY DEF pop_output
<1>4. cnt_read' \in 0 .. SIZE_MAX
  <2>1. cnt_read + n \in Nat
    BY <1>1, <1>2 DEF TypeOK, Observed
  <2> QED BY <1>2, <2>1, WidthAssumption DEF ToSize
<1>5. Shape'
  BY <1>1, <1>2, <1>3, <1>4 DEF Shape, TypeOK, buffer_empty
<1>6. buffer_size' = buffer_size - n
  BY <1>2, <1>3, <1>5, SizesNext DEF Observed
<1>7. (cnt_write - cnt_read') % (SIZE_MAX + 1) = buffer_size - n
  <2>1. buffer_size = (cnt_write - cnt_read) % (SIZE_MAX + 1)
    BY DEF IInv, BufferSizeExact
  <2>2. SIZE_MAX + 1 \in Nat \ {0} /\ n \in Nat /\ n <= buffer_size
    BY <1>1, <1>2, WidthAssumption DEF Observed
  <2>3. /\ cnt_write \in 0 .. (SIZE_MAX + 1) - 1
        /\ cnt_read \in 0 .. (SIZE_MAX + 1) - 1
    BY <1>1, WidthAssumption DEF TypeOK
  <2>4. (cnt_write - ((cnt_read + n) % (SIZE_MAX + 1))) % (SIZE_MAX + 1)
          = ((cnt_write - cnt_read) % (SIZE_MAX + 1)) - n
    BY <2>1, <2>2, <2>3, CounterDistance
  <2> QED BY <1>2, <2>1, <2>4 DEF ToSize
<1> QED BY <1>3, <1>5, <1>6, <1>7 DEF IInv, BufferSizeExact

\* Every call keeps the invariant, whatever the caller's discipline.
LEMMA NextIInv == IInv /\ [Next]_vars => IInv'
<1> SUFFICES ASSUME IInv, [Next]_vars PROVE IInv'
  OBVIOUS
<1> USE DEF IInv, Shape
<1>1. TypeOK
  OBVIOUS
<1>2. ASSUME NEW data \in Inputs, Write(data) PROVE IInv'
  BY <1>2, WriteIInv, ArgumentAssumption
<1>3. ASSUME NEW len \in Lens, Peek(len) PROVE IInv'
  <2>1. Called(len, peek_output(len)) \in [count : 0 .. SIZE_MAX, bytes : Seq(Byte)]
    BY ArgumentAssumption, PeekType
  <2> QED BY <1>1, <1>3, <2>1, QuietStep DEF Peek, TypeOK
<1>4. ASSUME NEW len \in Lens, Pop(len) PROVE IInv'
  <2>1. Called(len, <<>>) \in [count : 0 .. SIZE_MAX, bytes : Seq(Byte)]
    BY ArgumentAssumption DEF Called
  <2> QED BY <1>4, <2>1, PopIInv DEF Pop
<1>5. ASSUME NEW len \in Lens, Read(len) PROVE IInv'
  <2>1. Called(len, peek_output(len)) \in [count : 0 .. SIZE_MAX, bytes : Seq(Byte)]
    BY ArgumentAssumption, PeekType
  <2> QED BY <1>5, <2>1, PopIInv DEF Read
<1>6. CASE end_input
  BY <1>1, <1>6, QuietStep DEF end_input, TypeOK
<1>7. CASE set_error
  BY <1>1, <1>7, QuietStep DEF set_error, TypeOK
<1>8. CASE UNCHANGED vars
  BY <1>1, <1>8, QuietStep DEF vars, TypeOK
<1> QED BY <1>2, <1>3, <1>4, <1>5, <1>6, <1>7, <1>8 DEF Next, ReaderOrEnd

\* The invariant holds in every reachable state.
THEOREM Invariance == SafeCapacities /\ Spec => []IInv
  BY InitIInv, NextIInv, PTL DEF Spec

\* Every member keeps its declared type and both indices stay inside the
\* storage of byte_stream.cc, for every capacity the int arithmetic is safe for.
THEOREM TypeCorrect == SafeCapacities /\ Spec => []TypeOK
<1>1. IInv => TypeOK
  BY DEF IInv, Shape
<1> QED BY <1>1, Invariance, PTL

\* buffer_size(), recovered from sind and eind alone, always is the number of
\* bytes written and not yet popped.
THEOREM SizeCorrect == SafeCapacities /\ Spec => []BufferSizeExact
<1>1. IInv => BufferSizeExact
  BY DEF IInv
<1> QED BY <1>1, Invariance, PTL


----------------------------------------------------------------------------
(* The stream implements the queue *)

\* The remainder of a number in the first two periods.
LEMMA ModTwo ==
  ASSUME NEW m \in Nat \ {0}, NEW a \in 0 .. 2 * m - 1
  PROVE  a % m = IF a < m THEN a ELSE a - m
<1>1. CASE a < m
  BY <1>1, ModSmall
<1>2. CASE ~(a < m)
  <2>1. a \in m .. 2 * m - 1
    BY <1>2
  <2>2. a % m = a - m
    BY <2>1, ModOnce
  <2> QED BY <1>2, <2>2
<1> QED BY <1>1, <1>2

\* The j-th index after the last byte is the index of byte RingSize + j, and of
\* no other: new bytes go behind the old ones and overwrite none of them.
LEMMA Placement ==
  ASSUME NEW m \in Nat \ {0}, NEW s \in 0 .. m - 1, NEW e \in 0 .. m - 1,
         NEW i \in 1 .. m, NEW j \in Nat \ {0}
  PROVE  j <= m - RingSize(s, e, m) =>
           ((s + i - 1) % m = (e + j) % m <=> i = RingSize(s, e, m) + j)
<1>a. HAVE j <= m - RingSize(s, e, m)
<1>1. RingSize(s, e, m) \in 1 .. m
  BY DEF RingSize
<1>2. s + i - 1 \in 0 .. 2 * m - 1 /\ e + j \in 0 .. 2 * m - 1
  BY <1>a, <1>1
<1> DEFINE a == s + i - 1
           b == e + j
<1>3. a % m = IF a < m THEN a ELSE a - m
  <2>1. a \in 0 .. 2 * m - 1
    BY <1>2
  <2> HIDE DEF a
  <2> QED BY <2>1, ModTwo
<1>4. b % m = IF b < m THEN b ELSE b - m
  <2>1. b \in 0 .. 2 * m - 1
    BY <1>2
  <2> HIDE DEF b
  <2> QED BY <2>1, ModTwo
<1>5. CASE s <= e
  <2>1. RingSize(s, e, m) = e - s + 1
    BY <1>5 DEF RingSize
  <2> QED BY <1>a, <1>3, <1>4, <1>5, <2>1
<1>6. CASE ~(s <= e)
  <2>1. RingSize(s, e, m) = m + e - s + 1
    BY <1>6 DEF RingSize
  <2> QED BY <1>a, <1>3, <1>4, <1>6, <2>1
<1> QED BY <1>5, <1>6

\* The contents are a string of buffer_size() bytes read around the ring.
InOrder ==
  /\ contents \in Seq(Byte)
  /\ Len(contents) = buffer_size
  /\ \A i \in 1 .. buffer_size : contents[i] = buffer[(sind + i - 1) % maxlen]

\* They are.
LEMMA ContentsInOrder == Shape => InOrder
<1> SUFFICES ASSUME Shape PROVE InOrder
  OBVIOUS
<1>1. Observed
  BY Sizes
<1>2. buffer_size \in 0 .. SIZE_MAX
  BY <1>1, WidthAssumption DEF Observed, Shape, TypeOK
<1>3. min(buffer_size, buffer_size) = buffer_size
  BY <1>2 DEF min
<1>4. /\ contents \in Seq(Byte)
      /\ Len(contents) = buffer_size
  BY <1>2, <1>3, PeekType DEF contents
<1>5. contents = [i \in 1 .. buffer_size |-> buffer[(sind + i - 1) % maxlen]]
  BY <1>3, Zenon DEF contents, peek_output
<1> QED BY <1>4, <1>5 DEF InOrder

\* The same one step later.
LEMMA ContentsInOrderNext == Shape' => InOrder'
  BY ContentsInOrder, PTL

\* peek_output() returns the front of the contents.
LEMMA PeekIsFront ==
  ASSUME Shape, NEW len \in 0 .. SIZE_MAX
  PROVE  peek_output(len) = Queue!Front(len)
<1> DEFINE n == min(buffer_size, len)
<1>1. Observed /\ InOrder
  BY Sizes, ContentsInOrder
<1>2. n \in 0 .. buffer_size /\ Queue!Least(Len(contents), len) = n
  BY <1>1 DEF Observed, InOrder, min, Queue!Least
<1>3. peek_output(len) = [i \in 1 .. n |-> buffer[(sind + i - 1) % maxlen]]
  BY DEF peek_output
<1> HIDE DEF n
<1>4. /\ peek_output(len) \in Seq(Byte)
      /\ Len(peek_output(len)) = n
  BY PeekType DEF n
<1>5. Queue!Front(len) = SubSeq(contents, 1, n)
  BY <1>2 DEF Queue!Front
<1>6. /\ SubSeq(contents, 1, n) \in Seq(Byte)
      /\ Len(SubSeq(contents, 1, n)) = n
      /\ \A i \in 1 .. n : SubSeq(contents, 1, n)[i] = contents[i]
  BY <1>1, <1>2 DEF InOrder, Observed
<1>7. \A i \in 1 .. n : peek_output(len)[i] = SubSeq(contents, 1, n)[i]
  BY <1>1, <1>2, <1>3, <1>6 DEF InOrder, Observed
<1> QED BY <1>4, <1>5, <1>6, <1>7, SeqEqual

\* write() appends the accepted prefix of data to the contents.
LEMMA WriteAppends ==
  ASSUME IInv, NEW data \in Seq(Byte), Write(data)
  PROVE  contents' = contents \o SubSeq(data, 1, accepted(data))
<1> DEFINE n == accepted(data)
           t == SubSeq(data, 1, n)
<1>1. Shape /\ TypeOK /\ Observed /\ InOrder
  BY Sizes, ContentsInOrder DEF IInv, Shape
<1>2. Shape' /\ Observed' /\ InOrder' /\ maxlen' = maxlen
  BY WriteIInv, SizesNext, ContentsInOrderNext DEF IInv, Write
<1>3. n \in 0 .. maxlen - buffer_size /\ n <= Len(data)
  BY <1>1, WriteRing
<1>4. t \in Seq(Byte) /\ Len(t) = n /\ \A j \in 1 .. n : t[j] = data[j]
  <2> HIDE DEF n
  <2> QED BY <1>1, <1>3 DEF Observed
<1>5. CASE n = 0
  <2>1. UNCHANGED <<maxlen, buffer, sind, eind>>
    BY <1>5 DEF Write, accepted
  <2>2. contents' = contents
    BY <2>1 DEF contents, peek_output, buffer_size, buffer_empty
  <2>3. t = <<>>
    BY <1>4, <1>5
  <2> QED BY <1>1, <2>2, <2>3, ConcatEmptySeq DEF InOrder
<1>6. CASE n # 0
  <2>1. /\ maxlen \in Nat \ {0}
        /\ lastIndex \in -1 .. maxlen - 1
        /\ sind' = (IF buffer_empty THEN 0 ELSE sind)
        /\ sind' \in 0 .. maxlen - 1
        /\ RingSize(sind', eind', maxlen) = buffer_size + n
        /\ buffer' = Stored(data, n, lastIndex)
    BY <1>1, <1>6, WriteRing
  <2> HIDE DEF n
  <2>2. buffer_size' = buffer_size + n
    BY <1>2, <2>1 DEF Observed
  <2>3. /\ \A j \in 1 .. n : buffer'[(lastIndex + j) % maxlen] = data[j]
        /\ \A k \in 0 .. maxlen - 1 :
             (\A j \in 1 .. n : (lastIndex + j) % maxlen # k) => buffer'[k] = buffer[k]
    <3>1. n \in 1 .. maxlen /\ buffer \in [0 .. maxlen - 1 -> Byte]
      BY <1>1, <1>3, <1>6 DEF Observed, TypeOK
    <3>2. /\ \A j \in 1 .. n :
               Stored(data, n, lastIndex)[(lastIndex + j) % maxlen] = data[j]
          /\ \A k \in 0 .. maxlen - 1 :
               (\A j \in 1 .. n : (lastIndex + j) % maxlen # k)
                 => Stored(data, n, lastIndex)[k] = buffer[k]
      BY <1>3, <2>1, <3>1, StoredBytes
    <3>3. buffer' = Stored(data, n, lastIndex)
      BY <2>1
    <3> QED BY <3>2, <3>3, Zenon
  <2>4. /\ contents' \in Seq(Byte)
        /\ Len(contents') = buffer_size + n
        /\ \A i \in 1 .. buffer_size + n :
             contents'[i] = buffer'[(sind' + i - 1) % maxlen]
    BY <1>2, <2>2 DEF InOrder
  <2>5. /\ contents \o t \in Seq(Byte)
        /\ Len(contents \o t) = buffer_size + n
        /\ \A i \in 1 .. buffer_size + n :
             (contents \o t)[i] = IF i <= buffer_size THEN contents[i]
                                                      ELSE t[i - buffer_size]
    <3> HIDE DEF t
    <3> QED BY <1>1, <1>4, ConcatProperties DEF InOrder
  <2>6. ASSUME NEW i \in 1 .. buffer_size + n
        PROVE  contents'[i] = (contents \o t)[i]
    <3>1. /\ i \in 1 .. maxlen /\ buffer_size \in Nat
          /\ n \in Nat \ {0}
      BY <1>1, <1>3, <1>6 DEF Observed
    <3>2. CASE i <= buffer_size
      <4>1. /\ ~buffer_empty /\ lastIndex = eind /\ sind' = sind
            /\ sind \in 0 .. maxlen - 1 /\ eind \in 0 .. maxlen - 1
        <5>1. ~buffer_empty
          BY <1>1, <3>1, <3>2 DEF Observed
        <5>2. sind' = sind
          BY <2>1, <5>1
        <5> QED BY <1>1, <5>1, <5>2, Occupied
      <4>2. \A j \in 1 .. n : (eind + j) % maxlen # (sind + i - 1) % maxlen
        <5> SUFFICES ASSUME NEW j \in 1 .. n
                     PROVE  (eind + j) % maxlen # (sind + i - 1) % maxlen
          OBVIOUS
        <5>1. /\ j \in Nat \ {0} /\ j <= maxlen - RingSize(sind, eind, maxlen)
              /\ i # RingSize(sind, eind, maxlen) + j
          BY <1>1, <1>3, <3>1, <3>2 DEF Observed
        <5> QED BY <2>1, <3>1, <4>1, <5>1, Placement
      <4>3. (sind + i - 1) % maxlen \in 0 .. maxlen - 1
        BY <2>1, <3>1, <4>1
      <4>4. buffer'[(sind + i - 1) % maxlen] = buffer[(sind + i - 1) % maxlen]
        BY <2>3, <4>1, <4>2, <4>3
      <4>5. contents[i] = buffer[(sind + i - 1) % maxlen]
        BY <1>1, <3>1, <3>2 DEF InOrder
      <4> QED BY <2>4, <2>5, <3>2, <4>1, <4>4, <4>5
    <3>3. CASE ~(i <= buffer_size)
      <4> DEFINE j == i - buffer_size
      <4>1. j \in 1 .. n /\ i = buffer_size + j
        BY <3>1, <3>3
      <4>2. (sind' + i - 1) % maxlen = (lastIndex + j) % maxlen
        <5>1. CASE buffer_empty
          <6>1. sind' + i - 1 = lastIndex + j
            BY <1>1, <2>1, <3>1, <5>1 DEF Observed, lastIndex
          <6> QED BY <6>1
        <5>2. CASE ~buffer_empty
          <6>1. /\ lastIndex = eind /\ sind' = sind
                /\ sind \in 0 .. maxlen - 1 /\ eind \in 0 .. maxlen - 1
            <7>1. sind' = sind
              BY <2>1, <5>2
            <7> QED BY <1>1, <5>2, <7>1, Occupied
          <6>2. /\ j \in Nat \ {0} /\ j <= maxlen - RingSize(sind, eind, maxlen)
                /\ i = RingSize(sind, eind, maxlen) + j
            <7>1. buffer_size = RingSize(sind, eind, maxlen)
              BY <1>1 DEF Observed
            <7>2. n <= maxlen - buffer_size /\ maxlen \in Nat
              BY <1>3, <2>1, <3>1
            <7> HIDE DEF j
            <7> QED BY <3>1, <4>1, <7>1, <7>2
          <6> HIDE DEF j
          <6>3. maxlen \in Nat \ {0} /\ i \in 1 .. maxlen
            BY <2>1, <3>1
          <6>4. (sind + i - 1) % maxlen = (eind + j) % maxlen
            BY <6>1, <6>2, <6>3, Placement
          <6> QED BY <6>1, <6>4
        <5> QED BY <5>1, <5>2
      <4>3. (contents \o t)[i] = data[j]
        BY <1>4, <2>5, <3>3, <4>1
      <4> HIDE DEF j
      <4> QED BY <2>3, <2>4, <4>1, <4>2, <4>3
    <3> QED BY <3>2, <3>3
  <2> HIDE DEF t
  <2>7. Len(contents') = Len(contents \o t)
    BY <2>4, <2>5
  <2>8. \A i \in 1 .. Len(contents') : contents'[i] = (contents \o t)[i]
    BY <2>4, <2>6
  <2>9. contents' = contents \o t
    BY <2>4, <2>5, <2>7, <2>8, SeqEqual
  <2> QED BY <2>9 DEF t, n
<1> QED BY <1>5, <1>6

\* Index i from a moved start is index n + i from the old one.
LEMMA ModShift ==
  ASSUME NEW m \in Nat \ {0}, NEW s \in 0 .. m - 1, NEW n \in Nat,
         NEW i \in Nat \ {0}, s + (n + i) - 1 \in 0 .. 2 * m - 1
  PROVE  (((s + n) % m) + i - 1) % m = (s + (n + i) - 1) % m
<1>1. CASE s + n < m
  <2>1. (s + n) % m = s + n
    BY <1>1, ModSmall
  <2>2. ((s + n) % m) + i - 1 = s + (n + i) - 1
    BY <2>1
  <2> QED BY <2>2
<1>2. CASE ~(s + n < m)
  <2> DEFINE a == s + (n + i) - 1
  <2>1. s + n \in m .. 2 * m - 1
    BY <1>2
  <2>2. (s + n) % m = s + n - m
    BY <2>1, ModOnce
  <2>3. ((s + n) % m) + i - 1 = a - m /\ a \in m .. 2 * m - 1
    BY <1>2, <2>2
  <2> HIDE DEF a
  <2>4. a % m = a - m
    BY <2>3, ModOnce
  <2>5. a - m \in 0 .. m - 1
    BY <2>3
  <2>6. (a - m) % m = a - m
    BY <2>5, ModSmall
  <2> QED BY <2>3, <2>4, <2>6 DEF a
<1> QED BY <1>1, <1>2

\* pop_output() removes the front of the contents and no other byte.
LEMMA PopRemoves ==
  ASSUME IInv, NEW len \in Lens, pop_output(len), IInv'
  PROVE  contents' = SubSeq(contents, min(buffer_size, len) + 1, Len(contents))
<1> DEFINE n == min(buffer_size, len)
           t == SubSeq(contents, n + 1, Len(contents))
<1>1. Shape /\ TypeOK /\ Observed /\ InOrder
  BY Sizes, ContentsInOrder DEF IInv, Shape
<1>2. /\ Observed' /\ InOrder'
      /\ maxlen' = maxlen /\ eind' = eind /\ buffer' = buffer
  BY SizesNext, ContentsInOrderNext DEF IInv, pop_output
<1>3. /\ n \in 0 .. buffer_size
      /\ RingSize(sind', eind, maxlen) = buffer_size - n
      /\ n < buffer_size => /\ sind \in 0 .. maxlen - 1
                            /\ maxlen \in Nat \ {0}
                            /\ sind' = (sind + n) % maxlen
  BY <1>1, PopRing
<1> HIDE DEF n
<1>4. buffer_size' = buffer_size - n
  BY <1>2, <1>3 DEF Observed
<1>5. /\ t \in Seq(Byte) /\ Len(t) = buffer_size - n
      /\ \A i \in 1 .. buffer_size - n : t[i] = contents[n + i]
  <2>1. /\ n + 1 \in Int /\ Len(contents) = buffer_size
        /\ buffer_size \in Nat /\ n <= buffer_size /\ n \in Nat
    BY <1>1, <1>3 DEF InOrder, Observed
  <2>2. \A i \in n + 1 .. buffer_size : contents[i] \in Byte
    BY <1>1, <2>1 DEF InOrder
  <2>3. /\ t \in Seq(Byte)
        /\ Len(t) = IF n + 1 <= buffer_size THEN buffer_size - (n + 1) + 1 ELSE 0
        /\ \A i \in 1 .. buffer_size - (n + 1) + 1 : t[i] = contents[(n + 1) + i - 1]
    BY <2>1, <2>2, SubSeqProperties
  <2> HIDE DEF t
  <2>4. Len(t) = buffer_size - n
    BY <2>1, <2>3
  <2>5. ASSUME NEW i \in 1 .. buffer_size - n
        PROVE  t[i] = contents[n + i]
    <3>1. i \in 1 .. buffer_size - (n + 1) + 1 /\ (n + 1) + i - 1 = n + i
      BY <2>1
    <3> QED BY <2>3, <3>1
  <2> QED BY <2>3, <2>4, <2>5
<1>6. /\ contents' \in Seq(Byte)
      /\ Len(contents') = buffer_size - n
      /\ \A i \in 1 .. buffer_size - n :
           contents'[i] = buffer[(sind' + i - 1) % maxlen]
  BY <1>2, <1>4 DEF InOrder
<1>7. ASSUME NEW i \in 1 .. buffer_size - n
      PROVE  contents'[i] = t[i]
  <2>1. /\ n < buffer_size /\ n + i \in 1 .. buffer_size /\ n \in Nat
        /\ i \in Nat \ {0} /\ buffer_size <= maxlen
    BY <1>1, <1>3 DEF Observed
  <2>2. /\ sind \in 0 .. maxlen - 1 /\ maxlen \in Nat \ {0}
        /\ sind' = (sind + n) % maxlen
    BY <1>3, <2>1
  <2>3. (sind' + i - 1) % maxlen = (sind + (n + i) - 1) % maxlen
    <3>1. /\ n \in Nat /\ i \in Nat /\ n + i \in 1 .. maxlen
          /\ sind \in 0 .. maxlen - 1 /\ maxlen \in Nat
      BY <1>1, <2>1, <2>2 DEF Observed
    <3>2. sind + (n + i) - 1 \in 0 .. 2 * maxlen - 1
      BY <3>1
    <3> QED BY <2>1, <2>2, <3>2, ModShift
  <2>4. contents[n + i] = buffer[(sind + (n + i) - 1) % maxlen]
    BY <1>1, <2>1 DEF InOrder
  <2> QED BY <1>5, <1>6, <2>3, <2>4
<1> HIDE DEF t
<1>8. contents' = t
  BY <1>5, <1>6, <1>7, SeqEqual
<1> QED BY <1>8 DEF t, n

\* An initial stream is an empty queue.
LEMMA InitQueue == SafeCapacities /\ Init => Queue!Init
<1> SUFFICES ASSUME SafeCapacities, Init PROVE Queue!Init
  OBVIOUS
<1>1. Shape
  BY InitIInv DEF IInv
<1>2. buffer_size = 0
  BY DEF Init, buffer_size, buffer_empty
<1>3. contents = <<>>
  BY <1>1, <1>2, ContentsInOrder DEF InOrder
<1> QED BY <1>3 DEF Init, Queue!Init, Called, Queue!Called

\* Every call does to the queue what the queue's own operation does.
LEMMA NextQueue == IInv /\ [Next]_vars => [Queue!Next]_(Queue!vars)
<1> SUFFICES ASSUME IInv, [Next]_vars PROVE [Queue!Next]_(Queue!vars)
  OBVIOUS
<1>1. Shape /\ Observed /\ InOrder /\ IInv'
  BY Sizes, ContentsInOrder, NextIInv DEF IInv
<1>2. maxlen = capacity /\ Len(contents) = buffer_size /\ buffer_size \in Nat
  BY <1>1 DEF Shape, Observed, InOrder
<1>3. ASSUME NEW data \in Inputs, Write(data) PROVE Queue!Write(data)
  <2>1. accepted(data) = Queue!Least(Len(data), capacity - Len(contents))
    BY <1>1, <1>2 DEF accepted, min, Queue!Least, Observed
  <2>2. contents' = contents \o SubSeq(data, 1, accepted(data))
    BY <1>3, WriteAppends, ArgumentAssumption
  <2>3. cnt_write' = (cnt_write + accepted(data)) % (SIZE_MAX + 1)
    <3>1. CASE accepted(data) = 0
      <4>1. cnt_write' = cnt_write /\ cnt_write \in 0 .. (SIZE_MAX + 1) - 1
        BY <1>1, <1>3, <3>1, WidthAssumption DEF Write, accepted, Shape, TypeOK
      <4>2. cnt_write % (SIZE_MAX + 1) = cnt_write
        BY <4>1, WidthAssumption, ModSmall
      <4> QED BY <3>1, <4>1, <4>2
    <3>2. CASE accepted(data) # 0
      BY <1>3, <3>2 DEF Write, accepted, ToSize
    <3> QED BY <3>1, <3>2
  <2>4. /\ call' = Queue!Called(accepted(data), data)
        /\ UNCHANGED <<capacity, cnt_read, error, ~input_active>>
    BY <1>3 DEF Write, accepted, Called, Queue!Called
  <2> QED BY <2>1, <2>2, <2>3, <2>4, Zenon DEF Queue!Write
<1>4. ASSUME NEW len \in Lens
      PROVE  peek_output(len) = Queue!Front(len)
  BY <1>1, ArgumentAssumption, PeekIsFront
<1>5. ASSUME UNCHANGED ring PROVE contents' = contents
  BY <1>5 DEF ring, contents, peek_output, buffer_size, buffer_empty
<1>6. ASSUME NEW len \in Lens, Peek(len) PROVE Queue!Peek(len)
  BY <1>4, <1>5, <1>6, Zenon DEF Peek, Queue!Peek, Called, Queue!Called
<1>7. ASSUME NEW len \in Lens, pop_output(len) PROVE Queue!Remove(len)
  <2>1. min(buffer_size, len) = Queue!Least(Len(contents), len)
    BY <1>2 DEF min, Queue!Least
  <2>2. contents' = SubSeq(contents, min(buffer_size, len) + 1, Len(contents))
    BY <1>1, <1>7, PopRemoves
  <2>3. cnt_read' = (cnt_read + min(buffer_size, len)) % (SIZE_MAX + 1)
    BY <1>1, <1>7, PopRing DEF ToSize
  <2>4. UNCHANGED <<capacity, cnt_write, ~input_active, error>>
    BY <1>7 DEF pop_output
  <2> QED BY <2>1, <2>2, <2>3, <2>4, Zenon DEF Queue!Remove
<1>8. ASSUME NEW len \in Lens, Pop(len) PROVE Queue!Pop(len)
  BY <1>7, <1>8, Zenon DEF Pop, Queue!Pop, Called, Queue!Called
<1>9. ASSUME NEW len \in Lens, Read(len) PROVE Queue!Read(len)
  BY <1>4, <1>7, <1>9, Zenon DEF Read, Queue!Read, Called, Queue!Called
<1>10. CASE end_input
  BY <1>5, <1>10, Zenon DEF end_input, Queue!EndInput, Queue!Next
<1>11. CASE set_error
  BY <1>5, <1>11, Zenon DEF set_error, Queue!SetError, Queue!Next
<1>12. CASE UNCHANGED vars
  BY <1>5, <1>12 DEF vars, Queue!vars
<1> QED
  BY <1>3, <1>6, <1>8, <1>9, <1>10, <1>11, <1>12 DEF Next, ReaderOrEnd, Queue!Next

\* The circular buffer of byte_stream.cc implements the bounded FIFO queue that
\* byte_stream.hh describes: no byte lost, repeated or reordered, for every
\* capacity the int arithmetic is safe for.
THEOREM RefinesQueue == SafeCapacities /\ Spec => ImplementsQueue
  BY InitQueue, NextQueue, Invariance, PTL DEF Spec, ImplementsQueue, Queue!Spec

----------------------------------------------------------------------------
(* The end of the stream *)

\* What EofIsFinal asks of one step.
EofStep == eof => eof' /\ cnt_read' = cnt_read /\ cnt_write' = cnt_write

\* Popping an empty stream changes nothing the reader can see.
LEMMA PopAtEof ==
  ASSUME TypeOK, NEW len \in Lens, pop_output(len) PROVE EofStep
<1> SUFFICES ASSUME eof
             PROVE  eof' /\ cnt_read' = cnt_read /\ cnt_write' = cnt_write
  BY DEF EofStep
<1>1. ~input_active /\ sind = -1 /\ buffer_size = 0
  BY DEF eof, buffer_size, buffer_empty
<1>2. len >= 0
  BY ArgumentAssumption, WidthAssumption
<1>3. /\ cnt_read' = ToSize(cnt_read + 0) /\ sind' = -1
      /\ cnt_write' = cnt_write /\ input_active' = input_active
  BY <1>1, <1>2 DEF pop_output
<1>4. ToSize(cnt_read + 0) = cnt_read
  BY ToSizeExact DEF TypeOK
<1> QED BY <1>1, <1>3, <1>4, Zenon DEF eof, buffer_empty

\* Once eof() has been reported it stays, and the totals with it, when the
\* writer keeps the rule that byte_stream.cc does not enforce.
THEOREM EofStays == SafeCapacities /\ PoliteSpec => EofIsFinal
<1>1. IInv /\ [PoliteNext]_vars => EofStep
  <2> SUFFICES ASSUME IInv, [PoliteNext]_vars PROVE EofStep
    OBVIOUS
  <2>1. TypeOK
    BY DEF IInv, Shape
  <2>2. CASE input_active
    BY <2>2 DEF EofStep, eof
  <2>3. ASSUME NEW len \in Lens, Peek(len) PROVE EofStep
    BY <2>3 DEF Peek, ring, EofStep, eof, buffer_empty
  <2>4. ASSUME NEW len \in Lens, Pop(len) \/ Read(len) PROVE EofStep
    BY <2>1, <2>4, PopAtEof DEF Pop, Read
  <2>5. CASE end_input \/ set_error \/ UNCHANGED vars
    BY <2>5 DEF end_input, set_error, vars, ring, EofStep, eof, buffer_empty
  <2> QED BY <2>2, <2>3, <2>4, <2>5 DEF PoliteNext, ReaderOrEnd
<1>2. [PoliteNext]_vars => [Next]_vars
  BY DEF PoliteNext, Next
<1>3. SafeCapacities /\ PoliteSpec => []IInv
  BY <1>2, InitIInv, NextIInv, PTL DEF PoliteSpec
<1> QED BY <1>1, <1>3, PTL DEF PoliteSpec, EofIsFinal, EofStep

=============================================================================
