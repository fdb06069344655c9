-------------------------- MODULE PacketPathProofs --------------------------
(***************************************************************************)
(* What PacketPath says of a packet on its way, for every header, every    *)
(* payload, every size of a byte and every way to cut it up.               *)
(***************************************************************************)
EXTENDS PacketPath, BufferProofs

----------------------------------------------------------------------------
(* Sums *)

Total(base, seq) == FoldLeft(LAMBDA a, b : a + b, base, seq)
Plus == [a \in Nat |-> [b \in Nat |-> a + b]]

\* The rounds of a sum.
LEMMA TotalRuns ==
  ASSUME NEW base \in Nat, NEW seq \in Seq(Nat)
  PROVE  \E v : Runs(v, Plus, Nat, base, seq) /\ Total(base, seq) = v[Len(seq)]
<1> DEFINE n == Len(seq)
           Rec(h) == h = [s \in SUBSET (1 .. n) |->
                           IF s = {} THEN base ELSE h[s \ {Max(s)}] + seq[Max(s)]]
           H == CHOOSE h : Rec(h)
           v == [k \in 0 .. n |-> H[1 .. k]]
<1>1. n \in Nat /\ DOMAIN seq = 1 .. n /\ \A i \in 1 .. n : seq[i] \in Nat
  OBVIOUS
<1>2. Total(base, seq) = H[1 .. n]
  BY <1>1 DEF Total, FoldLeft, MapThenFoldSet
<1>3. Plus \in [Nat -> [Nat -> Nat]] /\ \A a, b \in Nat : Plus[a][b] = a + b
  BY DEF Plus
<1>4. PICK h \in [SUBSET (1 .. n) -> Nat] : FoldsTo(n, h, Plus, base, seq)
  BY <1>3, FoldExists
<1>5. ASSUME NEW s \in SUBSET (1 .. n)
      PROVE  h[s] = IF s = {} THEN base ELSE h[s \ {Max(s)}] + seq[Max(s)]
  <2>1. CASE s = {}
    BY <1>4, <2>1 DEF FoldsTo
  <2>2. CASE s # {}
    <3>1. Max(s) \in s
      BY <1>1, <2>2, GreatestNumber
    <3>2. h[s \ {Max(s)}] \in Nat /\ seq[Max(s)] \in Nat
      BY <1>1, <3>1
    <3>3. h[s] = Plus[h[s \ {Max(s)}]][seq[Max(s)]]
      BY <1>4, <2>2 DEF FoldsTo
    <3> QED BY <1>3, <2>2, <3>2, <3>3
  <2> QED BY <2>1, <2>2
<1>6. Rec(h)
  BY <1>5
<1>7. Rec(H)
  <2> HIDE DEF Rec
  <2> QED BY <1>6
<1> HIDE DEF H
<1>8. v[0] = base
  <2>1. 1 .. 0 = {} /\ 0 \in 0 .. n
    BY <1>1
  <2>2. H[{}] = base
    BY <1>7
  <2> QED BY <2>1, <2>2
<1>9. ASSUME NEW k \in 0 .. n - 1, v[k] \in Nat
      PROVE  v[k + 1] = Plus[v[k]][seq[k + 1]]
  <2>1. k \in Nat /\ k \in 0 .. n /\ k + 1 \in 0 .. n /\ k + 1 \in 1 .. n
    BY <1>1
  <2>2. Max(1 .. k + 1) = k + 1 /\ (1 .. k + 1) \ {k + 1} = 1 .. k /\ 1 .. k + 1 # {}
    BY <2>1, FirstNumbers
  <2>3. 1 .. k + 1 \in SUBSET (1 .. n)
    BY <1>1, <2>1
  <2>4. H[1 .. k + 1] = H[1 .. k] + seq[k + 1]
    BY <1>7, <2>2, <2>3
  <2>5. v[k] = H[1 .. k] /\ v[k + 1] = H[1 .. k + 1]
    BY <2>1
  <2> QED BY <1>1, <1>3, <1>9, <2>1, <2>4, <2>5
<1>10. v[n] = H[1 .. n]
  BY <1>1
<1> HIDE DEF v
<1> QED BY <1>2, <1>8, <1>9, <1>10 DEF Runs

\* A sum grows by what is appended.
LEMMA TotalAppend ==
  ASSUME NEW base \in Nat, NEW seq \in Seq(Nat), NEW x \in Nat
  PROVE  /\ Total(base, <<>>) = base
         /\ Total(base, seq) \in Nat
         /\ Total(base, Append(seq, x)) = Total(base, seq) + x
<1>1. Plus \in [Nat -> [Nat -> Nat]] /\ \A a, b \in Nat : Plus[a][b] = a + b
  BY DEF Plus
<1>2. Append(seq, x) \in Seq(Nat) /\ Len(Append(seq, x)) = Len(seq) + 1
  BY AppendProperties
<1>3. PICK v : Runs(v, Plus, Nat, base, seq) /\ Total(base, seq) = v[Len(seq)]
  BY TotalRuns
<1>4. PICK w : Runs(w, Plus, Nat, base, Append(seq, x)) /\ Total(base, Append(seq, x)) = w[Len(seq) + 1]
  BY <1>2, TotalRuns
<1>5. v[Len(seq)] \in Nat /\ w[Len(seq) + 1] = Plus[v[Len(seq)]][x]
  <2>1. PICK A, F : A = Nat /\ F = Plus
    OBVIOUS
  <2>2. F \in [A -> [A -> A]] /\ base \in A /\ seq \in Seq(A) /\ x \in A
    BY <1>1, <2>1
  <2>3. PICK longer : longer = Append(seq, x)
    OBVIOUS
  <2>4. Runs(v, F, A, base, seq) /\ Runs(w, F, A, base, longer)
    BY <1>3, <1>4, <2>1, <2>3
  <2>5. OneMore(v, w, F, A, seq, longer, x)
    BY <2>2, <2>3, <2>4, RunsAppend
  <2> QED BY <1>2, <2>1, <2>3, <2>5 DEF OneMore
<1>6. Total(base, <<>>) = base
  <2>1. PICK none \in Seq(Nat) : none = <<>> /\ Len(none) = 0
    BY EmptySeq
  <2>2. PICK u : Runs(u, Plus, Nat, base, none) /\ Total(base, none) = u[Len(none)]
    BY TotalRuns
  <2> QED BY <2>1, <2>2 DEF Runs
<1> QED BY <1>1, <1>3, <1>4, <1>5, <1>6

----------------------------------------------------------------------------
(* The checksum *)

WORD == Checksum!WORD
FULL == WORD * WORD

\* The InternetChecksum objects there can be.
CK == [sum : 0 .. FULL - 1, parity : BOOLEAN]

\* The sizes are what they are called.
LEMMA Sizes ==
  /\ BASE \in Nat /\ BASE >= 2
  /\ WORD \in Nat /\ WORD >= 4 /\ WORD = BASE * BASE
  /\ FULL \in Nat /\ FULL >= WORD /\ FULL = WORD * WORD
<1>1. BASE \in Nat /\ BASE >= 2
  BY BaseAssumption
<1>2. WORD = BASE * BASE
  BY DEF WORD, Checksum!WORD
<1>3. BASE * BASE \in Nat /\ BASE * BASE >= 4
  BY <1>1
<1> HIDE DEF WORD
<1>4. WORD \in Nat /\ WORD >= 4
  BY <1>2, <1>3
<1>5. WORD * WORD \in Nat /\ WORD * WORD >= WORD
  BY <1>4
<1> QED BY <1>1, <1>2, <1>4, <1>5 DEF FULL

\* A byte more is an InternetChecksum again.
LEMMA AddByteType ==
  ASSUME NEW c \in CK, NEW b \in Byte
  PROVE  /\ Checksum!addByte(c, b) \in CK
         /\ Checksum!addByte(c, b).sum = (c.sum + (IF c.parity THEN b ELSE b * BASE)) % FULL
         /\ Checksum!addByte(c, b).parity = ~c.parity
<1>1. c.sum \in Nat /\ c.parity \in BOOLEAN /\ b \in Nat /\ BASE \in Nat /\ FULL \in Nat \ {0}
  BY Sizes DEF CK, Byte
<1> DEFINE x == c.sum + (IF c.parity THEN b ELSE b * BASE)
<1>2. x \in Nat
  <2>1. b * BASE \in Nat
    BY <1>1
  <2> QED BY <1>1, <2>1
<1>3. Checksum!addByte(c, b) = [sum |-> x % FULL, parity |-> ~c.parity]
  BY DEF Checksum!addByte, FULL, WORD
<1> HIDE DEF x
<1>4. x % FULL \in 0 .. FULL - 1
  BY <1>1, <1>2
<1> QED BY <1>1, <1>3, <1>4 DEF x, CK

AddByte == [c \in CK |-> [b \in Byte |-> Checksum!addByte(c, b)]]

\* The rounds of InternetChecksum::add.
LEMMA AddRuns ==
  ASSUME NEW base \in CK, NEW seq \in Seq(Byte)
  PROVE  \E v : Runs(v, AddByte, CK, base, seq) /\ Checksum!add(base, seq) = v[Len(seq)]
<1> DEFINE n == Len(seq)
           Rec(h) == h = [s \in SUBSET (1 .. n) |->
                           IF s = {} THEN base
                           ELSE Checksum!addByte(h[s \ {Max(s)}], seq[Max(s)])]
           H == CHOOSE h : Rec(h)
           v == [k \in 0 .. n |-> H[1 .. k]]
<1>1. n \in Nat /\ DOMAIN seq = 1 .. n /\ \A i \in 1 .. n : seq[i] \in Byte
  OBVIOUS
<1>2. Checksum!add(base, seq) = H[1 .. n]
  BY <1>1 DEF Checksum!add, Checksum!FoldLeft, Checksum!MapThenFoldSet, Checksum!Max, Max
<1>3. /\ AddByte \in [CK -> [Byte -> CK]]
      /\ \A c \in CK, b \in Byte : AddByte[c][b] = Checksum!addByte(c, b)
  BY AddByteType DEF AddByte
<1>4. PICK h \in [SUBSET (1 .. n) -> CK] : FoldsTo(n, h, AddByte, base, seq)
  BY <1>3, FoldExists
<1>5. ASSUME NEW s \in SUBSET (1 .. n)
      PROVE  h[s] = IF s = {} THEN base ELSE Checksum!addByte(h[s \ {Max(s)}], seq[Max(s)])
  <2>1. CASE s = {}
    BY <1>4, <2>1 DEF FoldsTo
  <2>2. CASE s # {}
    <3>1. Max(s) \in s
      BY <1>1, <2>2, GreatestNumber
    <3>2. h[s \ {Max(s)}] \in CK /\ seq[Max(s)] \in Byte
      BY <1>1, <3>1
    <3>3. h[s] = AddByte[h[s \ {Max(s)}]][seq[Max(s)]]
      BY <1>4, <2>2 DEF FoldsTo
    <3> QED BY <1>3, <2>2, <3>2, <3>3
  <2> QED BY <2>1, <2>2
<1>6. Rec(h)
  BY <1>5
<1>7. Rec(H)
  <2> HIDE DEF Rec
  <2> QED BY <1>6
<1> HIDE DEF H
<1>8. v[0] = base
  <2>1. 1 .. 0 = {} /\ 0 \in 0 .. n
    BY <1>1
  <2>2. H[{}] = base
    BY <1>7
  <2> QED BY <2>1, <2>2
<1>9. ASSUME NEW k \in 0 .. n - 1, v[k] \in CK
      PROVE  v[k + 1] = AddByte[v[k]][seq[k + 1]]
  <2>1. k \in Nat /\ k \in 0 .. n /\ k + 1 \in 0 .. n /\ k + 1 \in 1 .. n
    BY <1>1
  <2>2. Max(1 .. k + 1) = k + 1 /\ (1 .. k + 1) \ {k + 1} = 1 .. k /\ 1 .. k + 1 # {}
    BY <2>1, FirstNumbers
  <2>3. 1 .. k + 1 \in SUBSET (1 .. n)
    BY <1>1, <2>1
  <2>4. H[1 .. k + 1] = Checksum!addByte(H[1 .. k], seq[k + 1])
    BY <1>7, <2>2, <2>3
  <2>5. v[k] = H[1 .. k] /\ v[k + 1] = H[1 .. k + 1]
    BY <2>1
  <2>6. v[k] \in CK /\ seq[k + 1] \in Byte
    BY <1>1, <1>9, <2>1
  <2> QED BY <1>3, <2>4, <2>5, <2>6
<1>10. v[n] = H[1 .. n]
  BY <1>1
<1> HIDE DEF v
<1> QED BY <1>2, <1>8, <1>9, <1>10 DEF Runs

\* Adding a chunk and then a byte is adding the longer chunk.
LEMMA AddAppend ==
  ASSUME NEW base \in CK, NEW seq \in Seq(Byte), NEW x \in Byte
  PROVE  /\ Checksum!add(base, <<>>) = base
         /\ Checksum!add(base, seq) \in CK
         /\ Checksum!add(base, Append(seq, x)) = Checksum!addByte(Checksum!add(base, seq), x)
<1>1. /\ AddByte \in [CK -> [Byte -> CK]]
      /\ \A c \in CK, b \in Byte : AddByte[c][b] = Checksum!addByte(c, b)
  BY AddByteType DEF AddByte
<1>2. PICK longer \in Seq(Byte) : longer = Append(seq, x)
  BY AppendProperties
<1>3. PICK v : Runs(v, AddByte, CK, base, seq) /\ Checksum!add(base, seq) = v[Len(seq)]
  BY AddRuns
<1>4. PICK w : Runs(w, AddByte, CK, base, longer) /\ Checksum!add(base, longer) = w[Len(longer)]
  BY AddRuns
<1>5. OneMore(v, w, AddByte, CK, seq, longer, x)
  BY <1>1, <1>2, <1>3, <1>4, RunsAppend
<1>6. Checksum!add(base, <<>>) = base
  <2>1. PICK none \in Seq(Byte) : none = <<>> /\ Len(none) = 0
    BY EmptySeq
  <2>2. PICK u : Runs(u, AddByte, CK, base, none) /\ Checksum!add(base, none) = u[Len(none)]
    BY AddRuns
  <2> QED BY <2>1, <2>2 DEF Runs
<1> QED BY <1>1, <1>2, <1>3, <1>4, <1>5, <1>6 DEF OneMore

\* In whatever chunks data is added, it is the same.
LEMMA AddConcat ==
  ASSUME NEW base \in CK, NEW a \in Seq(Byte), NEW b \in Seq(Byte)
  PROVE  Checksum!add(Checksum!add(base, a), b) = Checksum!add(base, a \o b)
<1> DEFINE mid == Checksum!add(base, a)
           P == {q \in Seq(Byte) : Checksum!add(mid, q) = Checksum!add(base, a \o q)}
<1>1. mid \in CK /\ 0 \in Byte /\ <<>> \in Seq(Byte)
  <2>1. 0 \in Byte
    BY Sizes DEF Byte
  <2> QED BY <2>1, AddAppend, EmptySeq
<1> HIDE DEF mid
<1>2. <<>> \in P
  <2>1. Checksum!add(mid, <<>>) = mid
    BY <1>1, AddAppend
  <2>2. a \o <<>> = a
    BY ConcatEmptySeq
  <2> QED BY <1>1, <2>1, <2>2 DEF mid
<1>3. ASSUME NEW q \in Seq(Byte), NEW x \in Byte, q \in P PROVE Append(q, x) \in P
  <2>1. Append(q, x) \in Seq(Byte) /\ a \o q \in Seq(Byte) /\ a \o Append(q, x) = Append(a \o q, x)
    OBVIOUS
  <2>2. Checksum!add(mid, Append(q, x)) = Checksum!addByte(Checksum!add(mid, q), x)
    BY <1>1, AddAppend
  <2>3. Checksum!add(base, Append(a \o q, x)) = Checksum!addByte(Checksum!add(base, a \o q), x)
    BY <2>1, AddAppend
  <2> QED BY <1>3, <2>1, <2>2, <2>3
<1>4. b \in P
  <2> HIDE DEF P
  <2> QED BY <1>2, <1>3, AllSequences
<1> QED BY <1>4 DEF mid

\* The weight of the byte at a place, and the sum of what is appended.
Weight(i) == IF i % 2 = 1 THEN BASE ELSE 1
Weighted(data) == [i \in DOMAIN data |-> data[i] * Weight(i)]

\* The definition of the sum grows byte by byte, too.
LEMMA WordSumAppend ==
  ASSUME NEW data \in Seq(Byte), NEW x \in Byte
  PROVE  /\ wordSum(<<>>) = 0
         /\ wordSum(data) \in Nat
         /\ wordSum(Append(data, x)) = wordSum(data) + x * Weight(Len(data) + 1)
<1>1. \A y \in Byte : y \in Nat
  BY Sizes DEF Byte
<1>2. ASSUME NEW y \in Byte, NEW i \in Nat PROVE y * Weight(i) \in Nat
  <2>1. BASE \in Nat /\ y \in Nat
    BY <1>1, Sizes
  <2>2. y * BASE \in Nat /\ y * 1 \in Nat
    BY <2>1
  <2> QED BY <2>2 DEF Weight
<1>3. ASSUME NEW d \in Seq(Byte)
      PROVE  /\ Weighted(d) \in Seq(Nat) /\ Len(Weighted(d)) = Len(d)
             /\ \A i \in 1 .. Len(d) : Weighted(d)[i] = d[i] * Weight(i)
             /\ wordSum(d) = Total(0, Weighted(d))
  <2>1. Len(d) \in Nat /\ DOMAIN d = 1 .. Len(d) /\ \A i \in 1 .. Len(d) : d[i] \in Byte /\ i \in Nat
    OBVIOUS
  <2>2. Weighted(d) = [i \in 1 .. Len(d) |-> d[i] * Weight(i)]
    BY <2>1 DEF Weighted
  <2>3. \A i \in 1 .. Len(d) : d[i] * Weight(i) \in Nat
    BY <1>2, <2>1
  <2>4. Weighted(d) \in [1 .. Len(d) -> Nat]
    BY <2>2, <2>3
  <2>5. Weighted(d) \in Seq(Nat) /\ Len(Weighted(d)) = Len(d)
    BY <2>1, <2>4
  <2>6. wordSum(d) = Total(0, Weighted(d))
    BY DEF wordSum, Total, Weighted, Weight
  <2> QED BY <2>2, <2>5, <2>6
<1> DEFINE longer == Append(data, x)
           u == Weighted(data)
           z == x * Weight(Len(data) + 1)
           w == Weighted(longer)
<1>4. /\ longer \in Seq(Byte) /\ Len(longer) = Len(data) + 1 /\ Len(data) \in Nat
      /\ longer[Len(data) + 1] = x /\ \A i \in 1 .. Len(data) : longer[i] = data[i]
  BY AppendProperties
<1> HIDE DEF longer
<1>5. u \in Seq(Nat) /\ Len(u) = Len(data) /\ \A i \in 1 .. Len(data) : u[i] = data[i] * Weight(i)
  BY <1>3
<1>6. /\ w \in Seq(Nat) /\ Len(w) = Len(data) + 1
      /\ \A i \in 1 .. Len(data) + 1 : w[i] = longer[i] * Weight(i)
  BY <1>3, <1>4
<1>7. z \in Nat
  BY <1>2, <1>4
<1> HIDE DEF u, w, z
<1>8. w = Append(u, z)
  <2>1. /\ Append(u, z) \in Seq(Nat) /\ Len(Append(u, z)) = Len(data) + 1
        /\ Append(u, z)[Len(data) + 1] = z /\ \A i \in 1 .. Len(data) : Append(u, z)[i] = u[i]
    <3>1. u \in Seq(Nat) /\ Len(u) = Len(data)
      BY <1>5
    <3> QED BY <1>7, <3>1, AppendProperties
  <2>2. ASSUME NEW i \in 1 .. Len(w) PROVE w[i] = Append(u, z)[i]
    <3>1. i \in 1 .. Len(data) + 1
      BY <1>6
    <3>2. CASE i = Len(data) + 1
      BY <1>4, <1>6, <2>1, <3>1, <3>2 DEF z
    <3>3. CASE i # Len(data) + 1
      <4>1. i \in 1 .. Len(data)
        BY <1>4, <3>1, <3>3
      <4> QED BY <1>4, <1>5, <1>6, <2>1, <3>1, <4>1
    <3> QED BY <3>2, <3>3
  <2>3. w \in Seq(Nat) /\ Append(u, z) \in Seq(Nat) /\ Len(w) = Len(Append(u, z))
    BY <1>6, <2>1
  <2> QED BY <2>2, <2>3, SeqEqual
<1>9. /\ Total(0, <<>>) = 0 /\ Total(0, u) \in Nat
      /\ Total(0, Append(u, z)) = Total(0, u) + z
  BY <1>5, <1>7, TotalAppend
<1>10. wordSum(<<>>) = 0
  <2>1. PICK none \in Seq(Byte) : none = <<>> /\ Len(none) = 0
    BY EmptySeq
  <2>2. Weighted(none) \in Seq(Nat) /\ Len(Weighted(none)) = 0
    BY <1>3, <2>1
  <2>3. Weighted(none) = <<>>
    BY <2>2
  <2> QED BY <1>3, <1>9, <2>1, <2>3
<1> QED BY <1>3, <1>4, <1>8, <1>9, <1>10 DEF u, w, z, longer

\* Quotient and remainder.
LEMMA DivMod ==
  ASSUME NEW d \in Nat \ {0}, NEW a \in Int
  PROVE  a \div d \in Int /\ a % d \in 0 .. d - 1 /\ a = (a \div d) * d + (a % d)
OBVIOUS

\* They are the only ones.
LEMMA DivModIs ==
  ASSUME NEW d \in Nat \ {0}, NEW q \in Int, NEW r \in 0 .. d - 1
  PROVE  (q * d + r) % d = r /\ (q * d + r) \div d = q
<1>1. (q * d + r) % d = r
  OBVIOUS
<1>2. (q * d + r) \div d = q
  OBVIOUS
<1> QED BY <1>1, <1>2

\* Remainders of sums.
LEMMA ModAdd ==
  ASSUME NEW a \in Nat, NEW b \in Nat, NEW d \in Nat \ {0}
  PROVE  ((a % d) + b) % d = (a + b) % d
<1> DEFINE q == a \div d
           r == a % d
           k == (r + b) \div d
           t == (r + b) % d
<1>1. q \in Int /\ r \in 0 .. d - 1 /\ a = q * d + r
  OBVIOUS
<1> HIDE DEF q, r
<1>2. k \in Int /\ t \in 0 .. d - 1 /\ r + b = k * d + t
  BY <1>1
<1> HIDE DEF k, t
<1>3. a + b = (q + k) * d + t
  BY <1>1, <1>2
<1>4. q + k \in Int
  BY <1>1, <1>2
<1>5. (a + b) % d = t
  BY <1>2, <1>3, <1>4, DivModIs
<1> QED BY <1>5 DEF t, r

\* What the class holds after any data: the sum of its words, in the width of a
\* uint32_t, and whether the next byte is at an odd place.
LEMMA SumOfData ==
  ASSUME NEW data \in Seq(Byte)
  PROVE  /\ wordSum(data) \in Nat
         /\ Checksum!add(Checksum!NewChecksum(0), data) \in CK
         /\ Checksum!add(Checksum!NewChecksum(0), data).sum = wordSum(data) % FULL
         /\ Checksum!add(Checksum!NewChecksum(0), data).parity = (Len(data) % 2 = 1)
<1> DEFINE new == Checksum!NewChecksum(0)
           P == {d \in Seq(Byte) : /\ Checksum!add(new, d).sum = wordSum(d) % FULL
                                   /\ Checksum!add(new, d).parity = (Len(d) % 2 = 1)}
<1>1. new \in CK /\ new.sum = 0 /\ new.parity = FALSE /\ FULL \in Nat \ {0} /\ BASE \in Nat
  BY Sizes DEF Checksum!NewChecksum, CK
<1>2. 0 \in Byte /\ <<>> \in Seq(Byte)
  BY Sizes, EmptySeq DEF Byte
<1> HIDE DEF new
<1>3. \A d \in Seq(Byte) : wordSum(d) \in Nat /\ Checksum!add(new, d) \in CK
  BY <1>1, <1>2, WordSumAppend, AddAppend
<1>4. <<>> \in P
  <2>1. Checksum!add(new, <<>>) = new /\ wordSum(<<>>) = 0
    BY <1>1, <1>2, WordSumAppend, AddAppend
  <2>2. 0 % FULL = 0 /\ Len(<<>>) = 0 /\ (0 % 2 = 1) = FALSE
    BY <1>1
  <2> QED BY <1>1, <1>2, <2>1, <2>2
<1>5. ASSUME NEW d \in Seq(Byte), NEW x \in Byte, d \in P PROVE Append(d, x) \in P
  <2> DEFINE c == Checksum!add(new, d)
             y == x * Weight(Len(d) + 1)
             l == Len(d)
  <2>1. c \in CK /\ c.sum = wordSum(d) % FULL /\ c.parity = (l % 2 = 1) /\ wordSum(d) \in Nat /\ l \in Nat
    BY <1>3, <1>5
  <2>2. /\ Checksum!add(new, Append(d, x)) = Checksum!addByte(c, x)
        /\ wordSum(Append(d, x)) = wordSum(d) + y
        /\ Append(d, x) \in Seq(Byte) /\ Len(Append(d, x)) = l + 1
    BY <1>1, WordSumAppend, AddAppend
  <2> HIDE DEF c
  <2>3. /\ Checksum!addByte(c, x).sum = (c.sum + (IF c.parity THEN x ELSE x * BASE)) % FULL
        /\ Checksum!addByte(c, x).parity = ~c.parity
    BY <2>1, AddByteType
  <2>4. (l % 2 = 1) = ~((l + 1) % 2 = 1)
    BY <2>1
  <2>5. x \in Nat
    BY Sizes DEF Byte
  <2>6. (IF c.parity THEN x ELSE x * BASE) = y /\ y \in Nat
    <3>1. CASE l % 2 = 1
      <4>1. c.parity = TRUE /\ y = x * 1
        BY <2>1, <2>4, <3>1 DEF Weight
      <4> QED BY <2>5, <4>1
    <3>2. CASE ~(l % 2 = 1)
      <4>1. c.parity = FALSE /\ y = x * BASE
        BY <2>1, <2>4, <3>2 DEF Weight
      <4>2. x * BASE \in Nat
        BY <1>1, <2>5
      <4> QED BY <4>1, <4>2
    <3> QED BY <3>1, <3>2
  <2> HIDE DEF y
  <2>7. Checksum!addByte(c, x).sum = wordSum(Append(d, x)) % FULL
    BY <1>1, <2>1, <2>2, <2>3, <2>6, ModAdd
  <2>8. Checksum!addByte(c, x).parity = ((l + 1) % 2 = 1)
    BY <2>1, <2>3, <2>4
  <2> QED BY <2>2, <2>7, <2>8
<1>6. data \in P
  <2> HIDE DEF P
  <2> QED BY <1>4, <1>5, AllSequences
<1> QED BY <1>3, <1>6 DEF new

\* A round of the loop of value() keeps the sum in ones' complement.
LEMMA FoldRound ==
  ASSUME NEW r \in Nat, r >= WORD
  PROVE  LET next == (r \div WORD) + (r % WORD)
         IN  next \in Nat /\ 1 <= next /\ next < r /\ onesComplement(next) = onesComplement(r)
<1> DEFINE w == WORD
           q == r \div w
           m == r % w
           next == q + m
           d == w - 1
<1>1. w \in Nat \ {0} /\ d \in Nat \ {0} /\ w >= 4 /\ r >= w /\ w = d + 1
  BY Sizes
<1> HIDE DEF w, d
<1>2. q \in Int /\ m \in 0 .. w - 1 /\ r = q * w + m
  <2>1. r \in Int /\ w \in Nat \ {0}
    BY <1>1
  <2> QED BY <2>1, DivMod, Zenon
<1> HIDE DEF q, m
<1>3. q >= 1
  <2> SUFFICES ASSUME q <= 0 PROVE FALSE
    BY <1>2
  <2>1. q * w <= 0
    BY <1>1, <1>2
  <2>2. q * w \in Int
    BY <1>1, <1>2
  <2> QED BY <1>1, <1>2, <2>1, <2>2
<1>4. r = q * d + next /\ q * d \in Nat /\ q * d >= 1
  <2>1. q * w = q * d + q
    BY <1>1, <1>2
  <2>2. q * d \in Nat /\ q * d >= 1
    BY <1>1, <1>2, <1>3
  <2> QED BY <1>2, <2>1, <2>2
<1>5. next \in Nat /\ 1 <= next /\ next < r
  BY <1>2, <1>3, <1>4
<1>6. (r - 1) % d = (next - 1) % d
  <2> DEFINE k == (next - 1) \div d
             t == (next - 1) % d
  <2>1. next - 1 \in Int
    BY <1>5
  <2>2. k \in Int /\ t \in 0 .. d - 1 /\ next - 1 = k * d + t
    BY <1>1, <2>1, DivMod
  <2> HIDE DEF k, t, next
  <2>3. r - 1 = (q + k) * d + t
    <3>1. (q + k) * d = q * d + k * d
      BY <1>1, <1>2, <2>2
    <3>2. q * d \in Int /\ k * d \in Int
      BY <1>1, <1>2, <2>2
    <3> QED BY <1>4, <1>5, <2>2, <3>1, <3>2
  <2>4. q + k \in Int
    BY <1>2, <2>2
  <2>5. (r - 1) % d = t
    BY <1>1, <2>2, <2>3, <2>4, DivModIs
  <2> QED BY <2>5 DEF t
<1>7. onesComplement(next) = onesComplement(r)
  <2>1. next # 0 /\ r # 0
    BY <1>5
  <2> HIDE DEF next
  <2> QED BY <1>6, <2>1 DEF onesComplement, d, w, WORD
<1> QED BY <1>5, <1>7 DEF next, q, m, w

\* value() is the complement of the sum in ones' complement.
LEMMA ValueIs ==
  ASSUME NEW c \in CK
  PROVE  /\ onesComplement(c.sum) \in 0 .. WORD - 1
         /\ Checksum!value(c) = WORD - 1 - onesComplement(c.sum)
<1> DEFINE D == 0 .. FULL - 1
           Rec(f) == f = [ret \in D |->
                           IF ret < WORD THEN ret ELSE f[(ret \div WORD) + (ret % WORD)]]
           H == CHOOSE f : Rec(f)
           g == [ret \in D |-> onesComplement(ret)]
<1>1. Checksum!value(c) = WORD - 1 - H[c.sum]
  BY DEF Checksum!value, FULL, WORD
<1>2. WORD \in Nat /\ WORD >= 4 /\ FULL \in Nat /\ WORD - 1 \in Nat \ {0}
  BY Sizes
<1>3. ASSUME NEW r \in Nat, r < WORD PROVE onesComplement(r) = r
  <2>1. CASE r = 0
    BY <2>1 DEF onesComplement
  <2>2. CASE r # 0
    <3>1. r - 1 \in 0 .. (WORD - 1) - 1
      BY <1>2, <1>3, <2>2
    <3>2. (r - 1) % (WORD - 1) = r - 1
      BY <1>2, <3>1
    <3> QED BY <2>2, <3>2 DEF onesComplement, WORD
  <2> QED BY <2>1, <2>2
<1>4. ASSUME NEW r \in D, ~(r < WORD)
      PROVE  LET next == (r \div WORD) + (r % WORD)
             IN  next \in D /\ next < r /\ onesComplement(next) = onesComplement(r)
  <2> DEFINE next == (r \div WORD) + (r % WORD)
  <2>1. r \in Nat /\ r >= WORD /\ r <= FULL - 1
    BY <1>2, <1>4
  <2>2. next \in Nat /\ next < r /\ onesComplement(next) = onesComplement(r)
    BY <2>1, FoldRound
  <2> HIDE DEF next
  <2>3. next \in D
    BY <1>2, <2>1, <2>2
  <2> QED BY <2>2, <2>3 DEF next
<1>5. Rec(g)
  <2>1. ASSUME NEW r \in D
        PROVE  g[r] = IF r < WORD THEN r ELSE g[(r \div WORD) + (r % WORD)]
    <3>1. CASE r < WORD
      <4>1. r \in Nat
        BY <1>2
      <4> QED BY <1>3, <3>1, <4>1
    <3>2. CASE ~(r < WORD)
      <4> DEFINE next == (r \div WORD) + (r % WORD)
      <4>1. next \in D /\ onesComplement(next) = onesComplement(r)
        BY <1>4, <3>2
      <4> HIDE DEF next
      <4>2. g[next] = g[r]
        BY <4>1
      <4> QED BY <3>2, <4>2 DEF next
    <3> QED BY <3>1, <3>2
  <2> QED BY <2>1
<1>6. Rec(H)
  <2> HIDE DEF Rec
  <2> QED BY <1>5
<1> HIDE DEF H, g
<1>7. \A r \in D : H[r] = onesComplement(r)
  <2> DEFINE bad == {r \in D : H[r] # onesComplement(r)}
  <2> SUFFICES ASSUME bad # {} PROVE FALSE
    OBVIOUS
  <2> DEFINE m == Min(bad)
  <2>1. bad \subseteq Nat
    BY <1>2
  <2>2. m \in bad /\ \A y \in bad : m <= y
    <3> HIDE DEF bad
    <3> QED BY <2>1, LeastNumber
  <2> HIDE DEF m
  <2>3. m \in D /\ H[m] # onesComplement(m) /\ m \in Nat
    BY <2>1, <2>2
  <2>4. CASE m < WORD
    BY <1>3, <1>6, <2>3, <2>4
  <2>5. CASE ~(m < WORD)
    <3> DEFINE next == (m \div WORD) + (m % WORD)
    <3>1. next \in D /\ next < m /\ onesComplement(next) = onesComplement(m)
      BY <1>4, <2>3, <2>5
    <3>2. H[m] = H[next]
      BY <1>6, <2>3, <2>5
    <3> HIDE DEF next
    <3>3. next \in Nat /\ ~(m <= next)
      BY <1>2, <2>3, <3>1
    <3>4. next \notin bad
      <4> HIDE DEF bad
      <4> QED BY <2>2, <3>3
    <3> QED BY <2>3, <3>1, <3>2, <3>4
  <2> QED BY <2>4, <2>5
<1>8. c.sum \in D /\ c.sum \in Nat
  BY <1>2 DEF CK
<1>9. onesComplement(c.sum) \in 0 .. WORD - 1
  <2>1. CASE c.sum = 0
    BY <1>2, <2>1 DEF onesComplement
  <2>2. CASE c.sum # 0
    <3> DEFINE t == (c.sum - 1) % (WORD - 1)
    <3>1. t \in 0 .. (WORD - 1) - 1
      BY <1>2, <1>8
    <3>2. onesComplement(c.sum) = 1 + t
      BY <2>2 DEF onesComplement, WORD
    <3> HIDE DEF t
    <3> QED BY <1>2, <3>1, <3>2
  <2> QED BY <2>1, <2>2
<1> QED BY <1>1, <1>7, <1>8, <1>9

\* A sum and its complement make a sum of which the complement is zero, and they
\* always fit into a uint32_t.
LEMMA Complement ==
  ASSUME NEW s \in 0 .. FULL - 1, NEW c, c = WORD - 1 - onesComplement(s)
  PROVE  c \in 0 .. WORD - 1 /\ s + c \in 0 .. FULL - 1 /\ onesComplement(s + c) = WORD - 1
<1> DEFINE d == WORD - 1
<1>1. d \in Nat \ {0} /\ WORD = d + 1 /\ d >= 3 /\ FULL \in Nat /\ FULL - 1 = (d + 2) * d
  <2>1. WORD \in Nat /\ WORD >= 4 /\ FULL = WORD * WORD
    BY Sizes
  <2>2. d \in Nat \ {0} /\ WORD = d + 1 /\ d >= 3
    BY <2>1
  <2> HIDE DEF d
  <2>3. FULL = (d + 1) * (d + 1)
    BY <2>1, <2>2
  <2>4. (d + 1) * (d + 1) = (d + 2) * d + 1
    BY <2>2
  <2> QED BY <2>2, <2>3, <2>4
<1> HIDE DEF d
<1>2. ASSUME NEW k \in Nat PROVE onesComplement((k + 1) * d) = d /\ (k + 1) * d \in Nat
  <2>1. (k + 1) * d = k * d + d /\ k * d \in Nat
    BY <1>1
  <2>2. (k + 1) * d # 0 /\ (k + 1) * d - 1 = k * d + (d - 1) /\ d - 1 \in 0 .. d - 1 /\ (k + 1) * d \in Nat
    BY <1>1, <2>1
  <2>3. (k * d + (d - 1)) % d = d - 1
    <3>1. PICK e \in 0 .. d - 1 : e = d - 1
      BY <2>2
    <3>2. (k * d + e) % d = e
      <4>1. k \in Int /\ d \in Nat \ {0}
        BY <1>1
      <4> QED BY <4>1, DivModIs, Zenon
    <3> QED BY <3>1, <3>2
  <2>4. onesComplement((k + 1) * d) = 1 + (((k + 1) * d - 1) % d)
    BY <2>2 DEF onesComplement, d, WORD
  <2> QED BY <1>1, <2>2, <2>3, <2>4
<1>3. CASE s = 0
  <2>1. onesComplement(s) = 0
    BY <1>3 DEF onesComplement
  <2>2. c = d
    BY <1>1, <2>1 DEF d
  <2>3. s + c = (0 + 1) * d
    BY <1>1, <1>3, <2>2
  <2>4. onesComplement(s + c) = d
    BY <1>2, <2>3
  <2>5. d <= FULL - 1
    <3>1. (d + 2) * d >= d
      BY <1>1
    <3> QED BY <1>1, <3>1
  <2> QED BY <1>1, <1>3, <2>2, <2>4, <2>5
<1>4. CASE s # 0
  <2> DEFINE q == (s - 1) \div d
             r == (s - 1) % d
  <2>1. s \in Nat /\ s >= 1 /\ s <= FULL - 1 /\ s - 1 \in Int
    BY <1>1, <1>4
  <2>2. q \in Int /\ r \in 0 .. d - 1 /\ s - 1 = q * d + r
    BY <1>1, <2>1, DivMod, Zenon
  <2>3. onesComplement(s) = 1 + r
    BY <1>4 DEF onesComplement, d, WORD
  <2> HIDE DEF q, r
  <2>4. c = d - (1 + r)
    BY <1>1, <2>3 DEF d
  <2>5. c \in 0 .. d
    BY <1>1, <2>2, <2>4
  <2>6. s + c = (q + 1) * d
    <3>1. (q + 1) * d = q * d + d /\ q * d \in Int
      BY <1>1, <2>2
    <3> QED BY <1>1, <2>1, <2>2, <2>4, <3>1
  <2>7. q >= 0
    <3> SUFFICES ASSUME q <= -1 PROVE FALSE
      BY <2>2
    <3>1. q * d <= -d /\ q * d \in Int
      BY <1>1, <2>2
    <3> QED BY <1>1, <2>1, <2>2, <3>1
  <2>8. q + 1 <= d + 2
    <3> SUFFICES ASSUME q >= d + 2 PROVE FALSE
      BY <1>1, <2>2
    <3>1. q * d >= (d + 2) * d /\ q * d \in Int
      BY <1>1, <2>2
    <3> QED BY <1>1, <2>1, <2>2, <3>1
  <2>9. (q + 1) * d <= (d + 2) * d
    BY <1>1, <2>2, <2>7, <2>8
  <2>10. onesComplement(s + c) = d /\ s + c \in Nat
    BY <1>2, <2>2, <2>6, <2>7
  <2>11. s + c <= FULL - 1
    BY <1>1, <2>6, <2>9
  <2> QED BY <1>1, <2>5, <2>10, <2>11
<1> QED BY <1>3, <1>4

----------------------------------------------------------------------------
(* Integers and their bytes *)

\* Pow[n] is what it is called.
LEMMA Powers ==
  /\ Pow[0] = 1 /\ Pow[1] = BASE /\ Pow[2] = BASE * Pow[1]
  /\ Pow[3] = BASE * Pow[2] /\ Pow[4] = BASE * Pow[3]
  /\ \A n \in 0 .. 4 : Pow[n] \in Nat \ {0}
  /\ \A n \in 1 .. 4 : Pow[n] = BASE * Pow[n - 1]
<1> DEFINE Rec(f) == f = [n \in 0 .. 4 |-> IF n = 0 THEN 1 ELSE BASE * f[n - 1]]
           b2 == BASE * BASE
           b3 == BASE * b2
           b4 == BASE * b3
           g == [n \in 0 .. 4 |-> IF n = 0 THEN 1 ELSE IF n = 1 THEN BASE
                                  ELSE IF n = 2 THEN b2 ELSE IF n = 3 THEN b3 ELSE b4]
<1>1. BASE \in Nat \ {0}
  BY Sizes
<1>2. b2 \in Nat \ {0}
  BY <1>1
<1>3. b3 \in Nat \ {0}
  <2> HIDE DEF b2
  <2> QED BY <1>1, <1>2
<1>4. b4 \in Nat \ {0}
  <2> HIDE DEF b3
  <2> QED BY <1>1, <1>3
<1>5. Rec(g)
  <2>1. ASSUME NEW n \in 0 .. 4 PROVE g[n] = IF n = 0 THEN 1 ELSE BASE * g[n - 1]
    <3>1. n = 0 \/ n = 1 \/ n = 2 \/ n = 3 \/ n = 4
      OBVIOUS
    <3>2. g[0] = 1 /\ g[1] = BASE /\ g[2] = b2 /\ g[3] = b3 /\ g[4] = b4
      <4> HIDE DEF b2, b3, b4
      <4> QED OBVIOUS
    <3> HIDE DEF g
    <3>3. BASE * 1 = BASE
      BY <1>1
    <3> QED BY <3>1, <3>2, <3>3
  <2> HIDE DEF b2, b3, b4
  <2> QED BY <2>1
<1>6. Pow = CHOOSE f : Rec(f)
  BY DEF Pow
<1>7. Rec(Pow)
  <2> HIDE DEF Rec
  <2> QED BY <1>5, <1>6
<1>8. \A n \in 1 .. 4 : Pow[n] = BASE * Pow[n - 1]
  BY <1>7
<1>9. Pow[0] = 1 /\ Pow[1] = BASE * Pow[0] /\ Pow[2] = BASE * Pow[1] /\ Pow[3] = BASE * Pow[2] /\ Pow[4] = BASE * Pow[3]
  BY <1>7, <1>8
<1>10. Pow[1] = BASE /\ Pow[2] = b2 /\ Pow[3] = b3 /\ Pow[4] = b4
  BY <1>1, <1>9
<1>11. \A n \in 0 .. 4 : Pow[n] \in Nat \ {0}
  <2> HIDE DEF b2, b3, b4
  <2> QED BY <1>1, <1>2, <1>3, <1>4, <1>9, <1>10
<1> QED BY <1>8, <1>9, <1>10, <1>11

\* Division in steps.
LEMMA DivDiv ==
  ASSUME NEW n \in Nat, NEW b \in Nat \ {0}, NEW c \in Nat \ {0}
  PROVE  (n \div b) \div c = n \div (c * b) /\ n \div b \in Nat /\ n \div b <= n
<1>1. (n \div b) \div c = n \div (b * c)
  OBVIOUS
<1>2. b * c = c * b
  OBVIOUS
<1>3. n \div b \in Nat
  OBVIOUS
<1>4. n \div b <= n
  OBVIOUS
<1> QED BY <1>1, <1>2, <1>3, <1>4

\* The bytes of an integer.
LEMMA UnparseType ==
  ASSUME NEW v \in Nat, NEW len \in 1 .. 4
  PROVE  /\ unparse_int(v, len) \in Seq(Byte) /\ Len(unparse_int(v, len)) = len
         /\ \A i \in 1 .. len : unparse_int(v, len)[i] = (v \div Pow[len - i]) % BASE
<1>1. ASSUME NEW i \in 1 .. len PROVE (v \div Pow[len - i]) % BASE \in Byte
  <2>1. len - i \in 0 .. 4
    OBVIOUS
  <2>2. Pow[len - i] \in Nat \ {0} /\ BASE \in Nat \ {0}
    BY <2>1, Powers, Sizes
  <2>3. v \div Pow[len - i] \in Nat
    BY <2>2, DivDiv
  <2> QED BY <2>2, <2>3 DEF Byte
<1>2. unparse_int(v, len) = [i \in 1 .. len |-> (v \div Pow[len - i]) % BASE]
  BY DEF unparse_int
<1>3. unparse_int(v, len) \in [1 .. len -> Byte]
  BY <1>1, <1>2
<1>4. unparse_int(v, len) \in Seq(Byte) /\ Len(unparse_int(v, len)) = len
  BY <1>3
<1> QED BY <1>2, <1>4

\* Parsing what was unparsed gives it back: no shift of the loop of _parse_int
\* loses a bit.
LEMMA RoundTrip ==
  ASSUME NEW len \in 1 .. 4, NEW v \in Nat, v < Pow[len]
  PROVE  assembled(unparse_int(v, len)) = v
<1> DEFINE bytes == unparse_int(v, len)
           P == Pow[len]
           Rec(f) == f = [i \in 0 .. Len(bytes) |->
                           IF i = 0 THEN 0 ELSE ((f[i - 1] * BASE) % Pow[Len(bytes)]) + bytes[i]]
           H == CHOOSE f : Rec(f)
           g == [i \in 0 .. len |-> v \div Pow[len - i]]
<1>1. assembled(bytes) = H[Len(bytes)]
  BY DEF assembled
<1>2. Len(bytes) = len /\ \A i \in 1 .. len : bytes[i] = (v \div Pow[len - i]) % BASE
  BY UnparseType
<1>3. BASE \in Nat \ {0} /\ P \in Nat \ {0} /\ v < P
  BY Powers, Sizes
<1> HIDE DEF bytes, P
<1>4. ASSUME NEW i \in 1 .. len
      PROVE  v \div Pow[len - i] = (((v \div Pow[len - (i - 1)]) * BASE) % P) + bytes[i]
  <2> DEFINE p == Pow[len - i]
             x == v \div p
             h == x \div BASE
             l == x % BASE
  <2>1. len - i \in 0 .. 4 /\ len - (i - 1) \in 1 .. 4 /\ (len - (i - 1)) - 1 = len - i
    OBVIOUS
  <2>2. p \in Nat \ {0} /\ Pow[len - (i - 1)] = BASE * p
    BY <2>1, Powers
  <2> HIDE DEF p
  <2>3. x \in Nat /\ x <= v /\ v \div (BASE * p) = h
    BY <1>3, <2>2, DivDiv
  <2> HIDE DEF x
  <2>4. h \in Int /\ l \in 0 .. BASE - 1 /\ x = h * BASE + l
    <3>1. x \in Int
      BY <2>3
    <3> QED BY <1>3, <3>1, DivMod, Zenon
  <2>5. h \in Nat
    BY <1>3, <2>3, DivDiv
  <2> HIDE DEF h, l
  <2>6. h * BASE \in 0 .. P - 1
    <3>1. h * BASE \in Nat
      BY <1>3, <2>5
    <3> QED BY <1>3, <2>3, <2>4, <3>1
  <2>7. (h * BASE) % P = h * BASE
    BY <1>3, <2>6
  <2>8. bytes[i] = l
    BY <1>2 DEF l, x, p
  <2> QED BY <2>2, <2>3, <2>4, <2>7, <2>8 DEF x, p
<1>5. v \div Pow[len - 0] = 0 /\ v \div Pow[len - len] = v
  <2>1. len - 0 = len /\ len - len = 0
    OBVIOUS
  <2>2. v \div P = 0
    BY <1>3
  <2>3. v \div 1 = v
    OBVIOUS
  <2> QED BY <2>1, <2>2, <2>3, Powers DEF P
<1>6. Rec(g)
  <2>1. ASSUME NEW i \in 0 .. len
        PROVE  g[i] = IF i = 0 THEN 0 ELSE ((g[i - 1] * BASE) % P) + bytes[i]
    <3>1. CASE i = 0
      BY <1>5, <3>1
    <3>2. CASE i # 0
      <4>1. i \in 1 .. len /\ i - 1 \in 0 .. len
        BY <3>2
      <4>2. g[i] = v \div Pow[len - i] /\ g[i - 1] = v \div Pow[len - (i - 1)]
        BY <4>1
      <4> QED BY <1>4, <3>2, <4>1, <4>2
    <3> QED BY <3>1, <3>2
  <2> QED BY <1>2, <2>1 DEF P
<1>7. Rec(H)
  <2> HIDE DEF Rec
  <2> QED BY <1>6
<1> HIDE DEF H
<1>8. \A i \in 0 .. len : H[i] = IF i = 0 THEN 0 ELSE ((H[i - 1] * BASE) % P) + bytes[i]
  BY <1>2, <1>7 DEF P
<1> DEFINE N == {i \in Nat : i <= len => H[i] = v \div Pow[len - i]}
<1>9. 0 \in N
  BY <1>5, <1>8
<1>10. ASSUME NEW k \in Nat, k \in N PROVE k + 1 \in N
  <2> SUFFICES ASSUME k + 1 <= len PROVE H[k + 1] = v \div Pow[len - (k + 1)]
    OBVIOUS
  <2>1. k <= len /\ k + 1 \in 1 .. len /\ k + 1 \in 0 .. len /\ (k + 1) - 1 = k /\ k + 1 # 0
    OBVIOUS
  <2>2. H[k] = v \div Pow[len - k]
    BY <1>10, <2>1
  <2>3. H[k + 1] = ((H[k] * BASE) % P) + bytes[k + 1]
    BY <1>8, <2>1
  <2>4. v \div Pow[len - (k + 1)] = (((v \div Pow[len - k]) * BASE) % P) + bytes[k + 1]
    BY <1>4, <2>1
  <2> QED BY <2>2, <2>3, <2>4
<1>11. len \in N
  <2> HIDE DEF N
  <2>1. len \in Nat
    OBVIOUS
  <2> QED BY <1>9, <1>10, <2>1, AllNumbers
<1> QED BY <1>1, <1>2, <1>5, <1>11 DEF bytes

\* y is the number below n that has b behind x.
Behind(y, n, x, b) == y \in Nat /\ y < n /\ y \div BASE = x /\ y % BASE = b

\* One more byte behind a number.
LEMMA ShiftIn ==
  ASSUME NEW p \in Nat \ {0}, NEW x \in Nat, x < p, NEW b \in Byte,
         NEW y, y = x * BASE + b, NEW n, n = BASE * p
  PROVE  Behind(y, n, x, b)
<1>1. BASE \in Nat \ {0} /\ b \in 0 .. BASE - 1 /\ x \in Int
  BY Sizes DEF Byte
<1>2. (x * BASE + b) \div BASE = x /\ (x * BASE + b) % BASE = b
  BY <1>1, DivModIs, Zenon
<1>3. x * BASE \in Nat /\ x * BASE + BASE <= BASE * p
  <2>1. x * BASE \in Nat /\ (x + 1) * BASE = x * BASE + BASE
    BY <1>1
  <2>2. (x + 1) * BASE <= p * BASE
    BY <1>1
  <2>3. p * BASE = BASE * p /\ BASE * p \in Nat
    BY <1>1
  <2> QED BY <1>1, <2>1, <2>2, <2>3
<1>4. BASE * p \in Nat
  BY <1>1
<1>5. x * BASE + b \in Nat /\ x * BASE + b < BASE * p
  BY <1>1, <1>3, <1>4
<1> QED BY <1>2, <1>5, Zenon DEF Behind

\* Any four bytes are the bytes of an integer.
LEMMA FourBytes ==
  ASSUME NEW ip \in [1 .. 4 -> Byte]
  PROVE  \E v \in Nat : v < Pow[4] /\ ip = unparse_int(v, 4)
<1> DEFINE x1 == ip[1]
           x2 == x1 * BASE + ip[2]
           x3 == x2 * BASE + ip[3]
           x4 == x3 * BASE + ip[4]
<1>1. ip[1] \in Byte /\ ip[2] \in Byte /\ ip[3] \in Byte /\ ip[4] \in Byte
  OBVIOUS
<1>2. /\ Pow[1] = BASE /\ Pow[2] = BASE * Pow[1] /\ Pow[3] = BASE * Pow[2] /\ Pow[4] = BASE * Pow[3]
      /\ Pow[0] = 1 /\ BASE \in Nat \ {0}
      /\ Pow[1] \in Nat \ {0} /\ Pow[2] \in Nat \ {0} /\ Pow[3] \in Nat \ {0}
  BY Powers, Sizes
<1>3. x1 \in Nat /\ x1 < Pow[1] /\ x1 % BASE = x1
  <2>1. x1 \in 0 .. BASE - 1
    BY <1>1 DEF Byte
  <2> HIDE DEF x1
  <2> QED BY <1>2, <2>1
<1> HIDE DEF x1
<1>4. x2 \in Nat /\ x2 < Pow[2] /\ x2 \div BASE = x1 /\ x2 % BASE = ip[2]
  <2>1. PICK b \in Byte : b = ip[2]
    BY <1>1
  <2>2. PICK y : y = x2
    OBVIOUS
  <2>3. y = x1 * BASE + b
    BY <2>1, <2>2
  <2> HIDE DEF x2
  <2>4. Behind(y, Pow[2], x1, b)
    BY <1>2, <1>3, <2>3, ShiftIn, Zenon
  <2> QED BY <2>1, <2>2, <2>4 DEF Behind
<1> HIDE DEF x2
<1>5. x3 \in Nat /\ x3 < Pow[3] /\ x3 \div BASE = x2 /\ x3 % BASE = ip[3]
  <2>1. PICK b \in Byte : b = ip[3]
    BY <1>1
  <2>2. PICK y : y = x3
    OBVIOUS
  <2>3. y = x2 * BASE + b
    BY <2>1, <2>2
  <2> HIDE DEF x3
  <2>4. Behind(y, Pow[3], x2, b)
    BY <1>2, <1>4, <2>3, ShiftIn, Zenon
  <2> QED BY <2>1, <2>2, <2>4 DEF Behind
<1> HIDE DEF x3
<1>6. x4 \in Nat /\ x4 < Pow[4] /\ x4 \div BASE = x3 /\ x4 % BASE = ip[4]
  <2>1. PICK b \in Byte : b = ip[4]
    BY <1>1
  <2>2. PICK y : y = x4
    OBVIOUS
  <2>3. y = x3 * BASE + b
    BY <2>1, <2>2
  <2> HIDE DEF x4
  <2>4. Behind(y, Pow[4], x3, b)
    BY <1>2, <1>5, <2>3, ShiftIn, Zenon
  <2> QED BY <2>1, <2>2, <2>4 DEF Behind
<1> HIDE DEF x4
<1>7. x4 \div Pow[0] = x4 /\ x4 \div Pow[1] = x3
  <2>1. x4 \div 1 = x4
    BY <1>6
  <2> QED BY <1>2, <1>6, <2>1
<1>8. x4 \div Pow[2] = x2
  <2>1. (x4 \div Pow[1]) \div BASE = x4 \div (BASE * Pow[1])
    BY <1>2, <1>6, DivDiv, Zenon
  <2> QED BY <1>2, <1>5, <1>7, <2>1
<1>9. x4 \div Pow[3] = x1
  <2>1. (x4 \div Pow[2]) \div BASE = x4 \div (BASE * Pow[2])
    BY <1>2, <1>6, DivDiv, Zenon
  <2> QED BY <1>2, <1>4, <1>8, <2>1
<1>10. ASSUME NEW i \in 1 .. 4 PROVE ip[i] = (x4 \div Pow[4 - i]) % BASE
  <2>1. i = 1 \/ i = 2 \/ i = 3 \/ i = 4
    OBVIOUS
  <2>2. 4 - 1 = 3 /\ 4 - 2 = 2 /\ 4 - 3 = 1 /\ 4 - 4 = 0
    OBVIOUS
  <2> QED BY <1>3, <1>4, <1>5, <1>6, <1>7, <1>8, <1>9, <2>1, <2>2 DEF x1
<1>11. ip = unparse_int(x4, 4)
  BY <1>10 DEF unparse_int
<1> QED BY <1>6, <1>11

----------------------------------------------------------------------------
(* The checksum of a packet that carries it *)

\* Two beginnings of the same length.
LEMMA TwoHeads ==
  ASSUME NEW u \in Seq(Byte), NEW z \in Seq(Byte), Len(u) = Len(z),
         NEW n \in Nat, wordSum(u) = n + wordSum(z), NEW rest \in Seq(Byte)
  PROVE  wordSum(u \o rest) = n + wordSum(z \o rest)
<1> DEFINE P == {q \in Seq(Byte) : wordSum(u \o q) = n + wordSum(z \o q)}
<1>1. <<>> \in P
  <2>1. u \o <<>> = u /\ z \o <<>> = z /\ <<>> \in Seq(Byte)
    BY ConcatEmptySeq, EmptySeq
  <2> QED BY <2>1
<1>2. ASSUME NEW q \in Seq(Byte), NEW x \in Byte, q \in P PROVE Append(q, x) \in P
  <2>1. /\ u \o q \in Seq(Byte) /\ Len(u \o q) = Len(u) + Len(q) /\ u \o Append(q, x) = Append(u \o q, x)
        /\ z \o q \in Seq(Byte) /\ Len(z \o q) = Len(u) + Len(q) /\ z \o Append(q, x) = Append(z \o q, x)
        /\ Append(q, x) \in Seq(Byte) /\ Len(u) \in Nat /\ Len(q) \in Nat
    OBVIOUS
  <2> DEFINE y == x * Weight((Len(u) + Len(q)) + 1)
  <2>2. y \in Nat
    <3>1. x \in Nat /\ BASE \in Nat
      BY Sizes DEF Byte
    <3>2. x * BASE \in Nat /\ x * 1 \in Nat
      BY <3>1
    <3> QED BY <3>2 DEF Weight
  <2>3. /\ wordSum(Append(u \o q, x)) = wordSum(u \o q) + y
        /\ wordSum(u \o q) \in Nat
    BY <2>1, WordSumAppend
  <2>4. /\ wordSum(Append(z \o q, x)) = wordSum(z \o q) + y
        /\ wordSum(z \o q) \in Nat
    BY <2>1, WordSumAppend
  <2> HIDE DEF y
  <2>5. wordSum(u \o Append(q, x)) = n + wordSum(z \o Append(q, x))
    <3> DEFINE s1 == wordSum(u \o q)
               s2 == wordSum(z \o q)
    <3>1. s1 \in Nat /\ s2 \in Nat /\ s1 = n + s2
      BY <1>2, <2>3, <2>4
    <3>2. wordSum(u \o Append(q, x)) = s1 + y /\ wordSum(z \o Append(q, x)) = s2 + y
      BY <2>1, <2>3, <2>4
    <3> HIDE DEF s1, s2
    <3>3. s1 + y = n + (s2 + y)
      BY <2>2, <3>1
    <3> QED BY <3>2, <3>3
  <2> QED BY <2>1, <2>5
<1>3. rest \in P
  <2> HIDE DEF P
  <2> QED BY <1>1, <1>2, AllSequences
<1> QED BY <1>3

\* The two bytes of a checksum weigh as much as it does.
LEMMA SumOfWord ==
  ASSUME NEW c \in 0 .. WORD - 1
  PROVE  wordSum(unparse_int(c, 2)) = c
<1> DEFINE hi == (c \div BASE) % BASE
           lo == c % BASE
           none == <<>>
<1>1. c \in Nat /\ BASE \in Nat \ {0} /\ c < BASE * BASE /\ Pow[1] = BASE /\ Pow[0] = 1
  BY Sizes, Powers
<1>2. c = (c \div BASE) * BASE + lo /\ lo \in Byte /\ c \div BASE \in Nat
  <2>1. c \in Int
    BY <1>1
  <2>2. c = (c \div BASE) * BASE + (c % BASE) /\ c % BASE \in 0 .. BASE - 1
    BY <1>1, <2>1, DivMod, Zenon
  <2>3. c \div BASE \in Nat
    BY <1>1, DivDiv
  <2> QED BY <2>2, <2>3 DEF Byte
<1>3. c \div BASE < BASE
  <2> DEFINE k == c \div BASE
  <2>1. k \in Nat /\ lo \in Nat /\ c = k * BASE + lo
    BY <1>1, <1>2 DEF Byte
  <2> HIDE DEF k, lo
  <2>2. k < BASE
    <3> SUFFICES ASSUME k >= BASE PROVE FALSE
      BY <1>1, <2>1
    <3>1. k * BASE >= BASE * BASE /\ k * BASE \in Nat /\ BASE * BASE \in Nat
      BY <1>1, <2>1
    <3> QED BY <1>1, <2>1, <3>1
  <2> QED BY <2>2 DEF k
<1>4. hi = c \div BASE /\ hi \in Byte
  <2> DEFINE k == c \div BASE
  <2>1. k \in 0 .. BASE - 1
    BY <1>1, <1>2, <1>3
  <2> HIDE DEF k
  <2>2. k % BASE = k
    BY <1>1, <2>1
  <2> QED BY <2>1, <2>2 DEF k, Byte
<1> HIDE DEF hi, lo
<1>5. unparse_int(c, 2) = Append(Append(none, hi), lo)
  <2> DEFINE u == unparse_int(c, 2)
  <2>1. u \in Seq(Byte) /\ Len(u) = 2 /\ u[1] = (c \div Pow[2 - 1]) % BASE /\ u[2] = (c \div Pow[2 - 2]) % BASE
    BY <1>1, UnparseType
  <2>2. 2 - 1 = 1 /\ 2 - 2 = 0 /\ c \div 1 = c
    BY <1>1
  <2>3. u[1] = hi /\ u[2] = lo
    BY <1>1, <2>1, <2>2 DEF hi, lo
  <2> HIDE DEF u
  <2>4. u = <<hi, lo>>
    BY <2>1, <2>3
  <2> QED BY <2>4 DEF u
<1>6. none \in Seq(Byte) /\ Len(none) = 0 /\ Append(none, hi) \in Seq(Byte) /\ Len(Append(none, hi)) = 1
  BY <1>4, EmptySeq
<1> HIDE DEF none
<1>7. wordSum(none) = 0 /\ wordSum(Append(none, hi)) = wordSum(none) + hi * Weight(0 + 1)
  BY <1>4, <1>6, WordSumAppend DEF none
<1>8. wordSum(Append(Append(none, hi), lo)) = wordSum(Append(none, hi)) + lo * Weight(1 + 1)
  <2>1. PICK one \in Seq(Byte) : one = Append(none, hi) /\ Len(one) = 1
    BY <1>6
  <2>2. wordSum(Append(one, lo)) = wordSum(one) + lo * Weight(Len(one) + 1)
    BY <1>2, WordSumAppend
  <2> QED BY <2>1, <2>2
<1>9. Weight(0 + 1) = BASE /\ Weight(1 + 1) = 1
  BY DEF Weight
<1>10. wordSum(unparse_int(c, 2)) = (0 + hi * BASE) + lo * 1
  BY <1>5, <1>7, <1>8, <1>9
<1>11. hi * BASE \in Nat /\ lo \in Nat
  BY <1>1, <1>2, <1>4 DEF Byte
<1>12. (0 + hi * BASE) + lo * 1 = hi * BASE + lo
  BY <1>11
<1> QED BY <1>2, <1>4, <1>10, <1>12

\* Data that begins with its own checksum, where there was a zero when it was
\* computed, has the checksum 0: whatever the data is, and even when its words
\* add up to more than a uint32_t holds.
LEMMA Accepted ==
  ASSUME NEW rest \in Seq(Byte), NEW c,
         c = Checksum!value(Checksum!add(Checksum!NewChecksum(0), unparse_int(0, 2) \o rest))
  PROVE  /\ c \in 0 .. WORD - 1
         /\ Checksum!value(Checksum!add(Checksum!NewChecksum(0), unparse_int(c, 2) \o rest)) = 0
<1> DEFINE new == Checksum!NewChecksum(0)
           z == unparse_int(0, 2)
           u == unparse_int(c, 2)
           before == Checksum!add(new, z \o rest)
           after == Checksum!add(new, u \o rest)
           x == wordSum(z \o rest)
           y == before.sum
<1>1. z \in Seq(Byte) /\ Len(z) = 2 /\ z \o rest \in Seq(Byte)
  <2>1. z \in Seq(Byte) /\ Len(z) = 2
    BY UnparseType
  <2> HIDE DEF z
  <2> QED BY <2>1, ConcatProperties
<1> HIDE DEF z
<1>2. before \in CK /\ y = x % FULL /\ x \in Nat
  BY <1>1, SumOfData
<1>3. FULL \in Nat \ {0} /\ WORD \in Nat /\ WORD >= 4
  BY Sizes
<1>4. y \in 0 .. FULL - 1 /\ c = WORD - 1 - onesComplement(y)
  <2>1. y \in 0 .. FULL - 1
    BY <1>2 DEF CK
  <2>2. c = Checksum!value(before)
    BY DEF z
  <2> HIDE DEF before
  <2> QED BY <1>2, <2>1, <2>2, ValueIs
<1> HIDE DEF y, x, before
<1>5. c \in 0 .. WORD - 1 /\ y + c \in 0 .. FULL - 1 /\ onesComplement(y + c) = WORD - 1
  BY <1>4, Complement
<1>6. u \in Seq(Byte) /\ Len(u) = 2 /\ u \o rest \in Seq(Byte)
  <2>1. c \in Nat
    BY <1>3, <1>5
  <2>2. u \in Seq(Byte) /\ Len(u) = 2
    BY <2>1, UnparseType
  <2> HIDE DEF u
  <2> QED BY <2>2, ConcatProperties
<1>7. wordSum(u) = c /\ wordSum(z) = 0
  <2>1. 0 \in 0 .. WORD - 1
    BY <1>3
  <2> QED BY <1>5, <2>1, SumOfWord DEF z
<1> HIDE DEF u
<1>8. wordSum(u \o rest) = c + x
  <2>1. c \in Nat /\ c + 0 = c
    BY <1>3, <1>5
  <2>2. wordSum(u) = c + wordSum(z) /\ Len(u) = Len(z)
    BY <1>1, <1>6, <1>7, <2>1
  <2> QED BY <1>1, <1>6, <2>1, <2>2, TwoHeads DEF x
<1>9. after \in CK /\ after.sum = (c + x) % FULL
  BY <1>6, <1>8, SumOfData
<1>10. after.sum = y + c
  <2>1. c \in Nat /\ y \in Nat
    BY <1>3, <1>4, <1>5
  <2>2. ((x % FULL) + c) % FULL = (x + c) % FULL
    BY <1>2, <1>3, <2>1, ModAdd
  <2>3. (y + c) % FULL = y + c
    BY <1>3, <1>5
  <2>4. c + x = x + c
    BY <1>2, <2>1
  <2> QED BY <1>2, <1>9, <2>2, <2>3, <2>4
<1>11. Checksum!value(after) = 0
  <2> HIDE DEF after
  <2>1. Checksum!value(after) = WORD - 1 - onesComplement(after.sum)
    BY <1>9, ValueIs
  <2> QED BY <1>3, <1>5, <1>10, <2>1
<1> QED BY <1>5, <1>11 DEF after, u

----------------------------------------------------------------------------
(* The bytes of a packet *)

\* The integers of the header as bytes, and what is left of header and payload
\* when k of them are parsed.
Parts(f) == [i \in DOMAIN Widths |-> unparse_int(f[i], Widths[i])]
Left(f, k, p) == FlattenSeq(Drop(Parts(f), k)) \o p

\* Integers that fit into their fields.
Fit(f) == /\ f \in [1 .. Len(Widths) -> Nat]
          /\ \A i \in 1 .. Len(Widths) : f[i] < Pow[Widths[i]]

\* The widths.
LEMMA WidthsAre ==
  /\ Widths \in Seq({1, 2, 4}) /\ Len(Widths) \in Nat /\ DOMAIN Widths = 1 .. Len(Widths)
  /\ \A i \in 1 .. Len(Widths) : Widths[i] \in 1 .. 4
<1>1. Widths \in Seq({1, 2, 4})
  BY PacketAssumption
<1>2. Len(Widths) \in Nat /\ DOMAIN Widths = 1 .. Len(Widths) /\ \A i \in 1 .. Len(Widths) : Widths[i] \in {1, 2, 4}
  BY <1>1
<1>3. {1, 2, 4} \subseteq 1 .. 4
  OBVIOUS
<1> QED BY <1>1, <1>2, <1>3

\* The parts of a header.
LEMMA PartsAre ==
  ASSUME NEW f, Fit(f)
  PROVE  /\ Parts(f) \in Seq(Seq(Byte)) /\ Len(Parts(f)) = Len(Widths)
         /\ \A i \in 1 .. Len(Widths) : Parts(f)[i] = unparse_int(f[i], Widths[i])
<1>1. Parts(f) = [i \in 1 .. Len(Widths) |-> unparse_int(f[i], Widths[i])]
  BY WidthsAre DEF Parts
<1>2. ASSUME NEW i \in 1 .. Len(Widths) PROVE unparse_int(f[i], Widths[i]) \in Seq(Byte)
  <2>1. f[i] \in Nat /\ Widths[i] \in 1 .. 4
    BY WidthsAre DEF Fit
  <2> QED BY <2>1, UnparseType
<1>3. Parts(f) \in [1 .. Len(Widths) -> Seq(Byte)]
  BY <1>1, <1>2
<1>4. Parts(f) \in Seq(Seq(Byte)) /\ Len(Parts(f)) = Len(Widths)
  BY <1>3, WidthsAre
<1> QED BY <1>1, <1>4

\* Parsing goes from left to right.
LEMMA LeftStep ==
  ASSUME NEW f, Fit(f), NEW p \in Seq(Byte), NEW k \in 0 .. Len(Widths)
  PROVE  /\ Left(f, k, p) \in Seq(Byte)
         /\ k = Len(Widths) => Left(f, k, p) = p
         /\ k < Len(Widths) =>
              Left(f, k, p) = unparse_int(f[k + 1], Widths[k + 1]) \o Left(f, k + 1, p)
<1> DEFINE ss == Parts(f)
           n == Len(Widths)
<1>1. ss \in Seq(Seq(Byte)) /\ Len(ss) = n /\ n \in Nat
      /\ \A i \in 1 .. n : ss[i] = unparse_int(f[i], Widths[i])
  BY PartsAre, WidthsAre
<1> HIDE DEF ss, n
<1>2. ASSUME NEW j \in 0 .. n
      PROVE  /\ Drop(ss, j) \in Seq(Seq(Byte)) /\ Len(Drop(ss, j)) = n - j
             /\ \A i \in 1 .. n - j : Drop(ss, j)[i] = ss[j + i]
             /\ FlattenSeq(Drop(ss, j)) \in Seq(Byte)
             /\ FlattenSeq(Drop(ss, j)) \o p \in Seq(Byte)
  <2>1. /\ Drop(ss, j) \in Seq(Seq(Byte)) /\ Len(Drop(ss, j)) = n - j
        /\ \A i \in 1 .. n - j : Drop(ss, j)[i] = ss[j + i]
    BY <1>1, Dropped DEF Drop
  <2> DEFINE t == Drop(ss, j)
  <2>2. t \in Seq(Seq(Byte)) /\ p \in Seq(Byte)
    BY <2>1
  <2> HIDE DEF t
  <2>3. FlattenSeq(t) \in Seq(Byte)
    BY <2>2, FlattenAppend
  <2>4. FlattenSeq(t) \o p \in Seq(Byte)
    BY <2>3, ConcatProperties
  <2> QED BY <2>1, <2>3, <2>4 DEF t
<1>3. k \in 0 .. n
  BY DEF n
<1>4. CASE k = n
  <2>1. Drop(ss, k) = <<>>
    <3>1. Drop(ss, k) \in Seq(Seq(Byte)) /\ Len(Drop(ss, k)) = 0
      BY <1>1, <1>2, <1>3, <1>4
    <3> QED BY <3>1
  <2>2. FlattenSeq(<<>>) = <<>> /\ <<>> \o p = p
    BY FlattenFew, ConcatEmptySeq
  <2>3. Left(f, k, p) = p
    BY <2>1, <2>2 DEF Left, ss
  <2>4. ~(k < n)
    BY <1>1, <1>4
  <2> QED BY <2>3, <2>4 DEF n
<1>5. CASE k # n
  <2> DEFINE s == Drop(ss, k)
             h == unparse_int(f[k + 1], Widths[k + 1])
             t == Drop(ss, k + 1)
  <2>1. k + 1 \in 1 .. n /\ k + 1 \in 0 .. n /\ 1 \in 1 .. n - k /\ n - k # 0 /\ n - k \in Nat
    BY <1>1, <1>3, <1>5
  <2>2. s \in Seq(Seq(Byte)) /\ Len(s) = n - k /\ s[1] = h /\ s # <<>>
    <3>1. s \in Seq(Seq(Byte)) /\ Len(s) = n - k /\ s[1] = h
      BY <1>1, <1>2, <1>3, <2>1
    <3> HIDE DEF s
    <3> QED BY <2>1, <3>1
  <2>3. Drop(s, 1) = t
    BY <1>1, <2>1, DropDrop
  <2> HIDE DEF s, h, t
  <2>4. s = <<h>> \o t /\ h \in Seq(Byte) /\ t \in Seq(Seq(Byte)) /\ <<h>> \in Seq(Seq(Byte))
    <3>1. PICK T : T = Seq(Byte) /\ <<>> \in T
      BY EmptySeq
    <3>2. s \in Seq(T)
      BY <2>2, <3>1
    <3>3. s[1] \in T /\ SubSeq(s, 2, Len(s)) \in Seq(T) /\ <<s[1]>> \in Seq(T) /\ s = <<s[1]>> \o SubSeq(s, 2, Len(s))
      BY <2>2, <3>1, <3>2, FirstAndRest
    <3>4. SubSeq(s, 2, Len(s)) = t
      BY <2>3 DEF Drop
    <3> QED BY <2>2, <3>1, <3>3, <3>4
  <2>5. FlattenSeq(s) = h \o FlattenSeq(t) /\ FlattenSeq(t) \in Seq(Byte)
    <3>1. PICK one \in Seq(Seq(Byte)) : one = <<h>>
      BY <2>4
    <3>2. FlattenSeq(one \o t) = FlattenSeq(one) \o FlattenSeq(t)
      BY <2>4, FlattenConcat
    <3>3. FlattenSeq(<<h>>) = h
      BY <2>4, FlattenFew
    <3>4. FlattenSeq(t) \in Seq(Byte)
      BY <2>4, FlattenAppend
    <3> QED BY <2>4, <3>1, <3>2, <3>3, <3>4
  <2>6. (h \o FlattenSeq(t)) \o p = h \o (FlattenSeq(t) \o p)
    BY <2>4, <2>5, ConcatAssociative
  <2>7. Left(f, k, p) = h \o Left(f, k + 1, p)
    BY <2>5, <2>6 DEF Left, s, t, ss
  <2>8. Left(f, k, p) \in Seq(Byte)
    BY <1>2, <1>3 DEF Left, ss
  <2> QED BY <1>5, <2>7, <2>8 DEF h, n
<1> QED BY <1>4, <1>5

\* One element behind another.
LEMMA Two ==
  ASSUME NEW T, NEW one \in Seq(T), Len(one) = 1, NEW q \in T
  PROVE  /\ Append(one, q) \in Seq(T) /\ Len(Append(one, q)) = 2
         /\ Append(one, q)[1] = one[1] /\ Append(one, q)[2] = q
<1>1. Append(one, q) \in Seq(T) /\ Len(Append(one, q)) = Len(one) + 1
  BY AppendProperties
<1>2. 1 \in 1 .. Len(one)
  OBVIOUS
<1>3. \A i \in 1 .. Len(one) : Append(one, q)[i] = one[i]
  BY AppendProperties
<1>4. Append(one, q)[Len(one) + 1] = q
  BY AppendProperties
<1>5. Append(one, q)[2] = q
  <2>1. Len(one) + 1 = 2
    OBVIOUS
  <2> QED BY <1>4, <2>1, Zenon
<1> QED BY <1>1, <1>2, <1>3, <1>5

\* The sum of the sender's header, and what a packet is.
Packed(f, p) == <<NewBuffer(header(sumOf(f, p), f)), NewBuffer(p)>>

\* A packet begins with a checksum that makes the sum over all of it zero.
LEMMA PackedIs ==
  ASSUME NEW f, Fit(f), NEW p \in Seq(Byte)
  PROVE  /\ Packed(f, p) \in Seq(Bufs(Byte)) /\ Packed(f, p)[2].storage = p
         /\ \E u \in Seq(Byte) : Len(u) = 2 /\ concatenate(Packed(f, p)) = u \o Left(f, 0, p)
         /\ Checksum!value(Checksum!add(Checksum!NewChecksum(0), concatenate(Packed(f, p)))) = 0
<1> DEFINE new == Checksum!NewChecksum(0)
           c == sumOf(f, p)
           z == unparse_int(0, 2)
           u == unparse_int(c, 2)
           fs == FlattenSeq(Parts(f))
           rest == fs \o p
<1>1. new \in CK
  BY Sizes DEF Checksum!NewChecksum, CK
<1>2. fs \in Seq(Byte) /\ rest \in Seq(Byte) /\ rest = Left(f, 0, p)
  <2>1. Parts(f) \in Seq(Seq(Byte))
    BY PartsAre
  <2>2. fs \in Seq(Byte)
    BY <2>1, FlattenAppend
  <2>3. Drop(Parts(f), 0) = Parts(f)
    BY <2>1, SubSeqFull DEF Drop
  <2>4. rest = Left(f, 0, p)
    BY <2>3 DEF Left
  <2> HIDE DEF fs
  <2> QED BY <2>2, <2>4, ConcatProperties
<1>3. z \in Seq(Byte)
  BY UnparseType
<1>4. header(0, f) = z \o fs /\ header(c, f) = u \o fs
  BY DEF header, Parts
<1> HIDE DEF fs, z, u, new
<1>5. c = Checksum!value(Checksum!add(new, z \o rest))
  <2>1. z \o fs \in Seq(Byte)
    BY <1>2, <1>3, ConcatProperties
  <2>2. Checksum!add(Checksum!add(new, z \o fs), p) = Checksum!add(new, (z \o fs) \o p)
    BY <1>1, <2>1, AddConcat
  <2>3. (z \o fs) \o p = z \o rest
    <3>1. fs \in Seq(Byte) /\ z \in Seq(Byte) /\ p \in Seq(Byte)
      BY <1>2, <1>3
    <3> QED BY <3>1, Assoc
  <2> QED BY <1>4, <2>2, <2>3 DEF sumOf, new
<1> HIDE DEF c
<1>6. c \in 0 .. WORD - 1 /\ Checksum!value(Checksum!add(new, u \o rest)) = 0
  BY <1>2, <1>5, Accepted DEF new, z, u
<1>7. u \in Seq(Byte) /\ Len(u) = 2
  <2>1. c \in Nat
    BY <1>6, Sizes
  <2> QED BY <2>1, UnparseType DEF u
<1> DEFINE h == u \o fs
           a == NewBuffer(h)
           b == NewBuffer(p)
<1>8. h \in Seq(Byte)
  BY <1>2, <1>7, ConcatProperties
<1> HIDE DEF h
<1>9. a \in Bufs(Byte) /\ b \in Bufs(Byte) /\ str(a) = h /\ str(b) = p /\ b.storage = p
  BY <1>8, MadeBuffers DEF NewBuffer
<1>10. Packed(f, p) = <<a, b>>
  BY <1>4 DEF Packed, c, h
<1> HIDE DEF a, b
<1>11. <<a, b>> \in Seq(Bufs(Byte)) /\ <<a, b>>[2] = b
  <2>1. PICK T : T = Bufs(Byte)
    OBVIOUS
  <2>2. a \in T /\ b \in T
    BY <1>9, <2>1
  <2>3. <<a, b>> \in Seq(T) /\ <<a, b>>[2] = b
    BY <2>2
  <2> QED BY <2>1, <2>3
<1>12. concatenate(<<a, b>>) = h \o p
  <2>1. PICK list \in Seq(Bufs(Byte)) : list = <<a, b>>
    BY <1>11
  <2>2. Len(list) = 2 /\ list[1] = a /\ list[2] = b
    BY <2>1
  <2>3. PICK T : T = Seq(Byte)
    OBVIOUS
  <2>4. h \in T /\ p \in T
    BY <1>8, <2>3
  <2>5. PICK one \in Seq(T) : one = <<h>>
    <3>1. <<h>> \in Seq(T)
      BY <2>4
    <3> QED BY <3>1, Zenon
  <2>6. Len(one) = 1 /\ one[1] = h
    BY <2>5
  <2> DEFINE both == Append(one, p)
  <2>7. both \in Seq(T) /\ Len(both) = 2 /\ both[1] = h /\ both[2] = p
    <3>1. PICK q \in T : q = p
      BY <2>4
    <3>2. /\ Append(one, q) \in Seq(T) /\ Len(Append(one, q)) = 2
          /\ Append(one, q)[1] = one[1] /\ Append(one, q)[2] = q
      BY <2>6, Two
    <3> QED BY <2>6, <3>1, <3>2
  <2> DEFINE shown == strs(list)
  <2>8. shown \in Seq(T) /\ Len(shown) = 2 /\ shown[1] = str(a) /\ shown[2] = str(b)
    <3>1. /\ shown \in Seq(Seq(Byte)) /\ Len(shown) = Len(list)
          /\ \A i \in 1 .. Len(list) : shown[i] = str(list[i])
      BY StrsOf
    <3>2. 1 \in 1 .. Len(list) /\ 2 \in 1 .. Len(list)
      BY <2>2
    <3> HIDE DEF shown
    <3> QED BY <2>2, <2>3, <3>1, <3>2
  <2>9. shown = both
    <3> HIDE DEF shown, both
    <3>1. \A i \in 1 .. Len(shown) : shown[i] = both[i]
      BY <1>9, <2>7, <2>8
    <3> QED BY <2>7, <2>8, <3>1, SeqEqual
  <2>10. FlattenSeq(both) = FlattenSeq(one) \o p
    <3>1. one \in Seq(Seq(Byte)) /\ p \in Seq(Byte)
      BY <2>3
    <3> QED BY <3>1, FlattenAppend
  <2>11. FlattenSeq(<<h>>) = h
    BY <1>8, FlattenFew
  <2> HIDE DEF both, shown
  <2>12. concatenate(list) = FlattenSeq(shown)
    BY DEF concatenate, shown
  <2> QED BY <2>1, <2>5, <2>9, <2>10, <2>11, <2>12
<1>13. h \o p = u \o rest
  <2>1. (u \o fs) \o p = u \o (fs \o p)
    <3>1. fs \in Seq(Byte) /\ u \in Seq(Byte) /\ p \in Seq(Byte)
      BY <1>2, <1>7
    <3> QED BY <3>1, Assoc
  <2> QED BY <2>1 DEF h
<1> QED BY <1>2, <1>6, <1>7, <1>9, <1>10, <1>11, <1>12, <1>13 DEF new

----------------------------------------------------------------------------
(* The header, and the parser *)

\* The size of the header up to a field.
HeaderTo(k) == Total(2, SubSeq(Widths, 1, k))

\* The header grows field by field to its size.
LEMMA HeaderGrows ==
  /\ HeaderTo(0) = 2
  /\ \A k \in 0 .. Len(Widths) : HeaderTo(k) \in Nat
  /\ \A k \in 0 .. Len(Widths) - 1 : HeaderTo(k + 1) = HeaderTo(k) + Widths[k + 1]
  /\ HeaderTo(Len(Widths)) = headerSize
<1> DEFINE w == Widths
           n == Len(Widths)
<1>1. w \in Seq(Nat) /\ n \in Nat /\ n = Len(w) /\ \A i \in 1 .. n : w[i] \in Nat
  <2>1. \A i \in 1 .. Len(Widths) : Widths[i] \in Nat
    BY WidthsAre
  <2> QED BY <2>1, WidthsAre
<1>2. Total(2, w) = headerSize
  BY DEF Total, headerSize
<1> HIDE DEF w, n
<1>3. HeaderTo(0) = 2
  <2>1. SubSeq(w, 1, 0) = <<>>
    BY <1>1
  <2>2. Total(2, <<>>) = 2
    BY <1>1, TotalAppend
  <2> QED BY <2>1, <2>2 DEF HeaderTo, w
<1>4. ASSUME NEW k \in 0 .. n PROVE HeaderTo(k) \in Nat
  <2>1. SubSeq(w, 1, k) \in Seq(Nat)
    BY <1>1
  <2>2. Total(2, SubSeq(w, 1, k)) \in Nat
    BY <2>1, TotalAppend
  <2> QED BY <2>2 DEF HeaderTo, w
<1>5. ASSUME NEW k \in 0 .. n - 1 PROVE HeaderTo(k + 1) = HeaderTo(k) + w[k + 1]
  <2> DEFINE a == SubSeq(w, 1, k)
             x == w[k + 1]
  <2>1. a \in Seq(Nat) /\ x \in Nat /\ SubSeq(w, 1, k + 1) = Append(a, x)
    BY <1>1
  <2> HIDE DEF a, x
  <2>2. Total(2, Append(a, x)) = Total(2, a) + x
    BY <2>1, TotalAppend
  <2> QED BY <2>1, <2>2 DEF HeaderTo, a, x, w
<1>6. HeaderTo(n) = headerSize
  BY <1>1, <1>2, SubSeqFull DEF HeaderTo, w
<1> QED BY <1>3, <1>4, <1>5, <1>6 DEF w, n

\* The NetParser objects there can be.
Errors == {"NoError", "BadChecksum", "PacketTooShort"}
Parsers == [buffer : Bufs(Byte), error : Errors]

\* A step of the parser: it takes n bytes, or it is or gets into error and takes
\* nothing.
LEMMA SkipStep ==
  ASSUME NEW q \in Parsers, NEW n \in Nat, NEW r, r = skip(q, n)
  PROVE  /\ r \in Parsers /\ size(q.buffer) \in Nat /\ str(q.buffer) \in Seq(Byte)
         /\ failed(q) => failed(r) /\ r.buffer = q.buffer /\ parse_int(q, n) = 0
         /\ ~failed(r) => ~failed(q) /\ n <= size(q.buffer)
         /\ ~failed(q) /\ n <= size(q.buffer) =>
              /\ ~failed(r) /\ str(r.buffer) = Drop(str(q.buffer), n)
              /\ size(r.buffer) = size(q.buffer) - n
              /\ parse_int(q, n) = assembled(SubSeq(str(q.buffer), 1, n))
<1> DEFINE b == q.buffer
           l == size(b)
<1>1. b \in Bufs(Byte) /\ q.error \in Errors /\ q = [buffer |-> b, error |-> q.error]
  BY DEF Parsers
<1> HIDE DEF b
<1>2. str(b) \in Seq(Byte) /\ l = Len(str(b)) /\ l \in Nat
  <2>1. str(b) \in Seq(Byte)
    BY <1>1, Shown
  <2> QED BY <2>1 DEF size
<1> HIDE DEF l
<1>3. CASE n > l
  <2>1. check_size(q, n) = [buffer |-> b, error |-> "PacketTooShort"]
    BY <1>1, <1>3 DEF check_size, b, l
  <2>2. failed(check_size(q, n))
    BY <2>1 DEF failed
  <2>3. r = [buffer |-> b, error |-> "PacketTooShort"]
    BY <2>1, <2>2 DEF skip
  <2>4. r \in Parsers /\ failed(r) /\ r.buffer = b /\ parse_int(q, n) = 0
    <3>1. r \in Parsers /\ r.buffer = b /\ r.error = "PacketTooShort"
      BY <1>1, <2>3 DEF Parsers, Errors
    <3>2. parse_int(q, n) = 0
      BY <2>2 DEF parse_int
    <3>3. failed(r)
      BY <3>1 DEF failed
    <3> QED BY <3>1, <3>2, <3>3
  <2>5. ~(n <= l)
    BY <1>2, <1>3
  <2> QED BY <1>2, <2>4, <2>5 DEF b, l
<1>4. CASE ~(n > l)
  <2>1. check_size(q, n) = q /\ n <= l /\ n \in 0 .. l
    BY <1>2, <1>4 DEF check_size, b, l
  <2>2. CASE failed(q)
    <3>1. r = q /\ parse_int(q, n) = 0
      BY <2>1, <2>2 DEF skip, parse_int
    <3> QED BY <1>2, <2>2, <3>1 DEF b, l
  <2>3. CASE ~failed(q)
    <3> DEFINE c == remove_prefix(b, n)
    <3>1. c \in Bufs(Byte) /\ str(c) = Drop(str(b), n)
      BY <1>1, <2>1, RemoveKeeps DEF l
    <3> HIDE DEF c
    <3>2. r = [buffer |-> c, error |-> q.error]
      BY <1>1, <2>1, <2>3 DEF skip, b, c
    <3>3. r \in Parsers /\ r.buffer = c /\ r.error = q.error
      BY <1>1, <3>1, <3>2 DEF Parsers
    <3>4. ~failed(r)
      BY <2>3, <3>3 DEF failed
    <3>5. Len(Drop(str(b), n)) = l - n
      BY <1>2, <2>1, Dropped DEF Drop
    <3>6. size(c) = l - n
      BY <3>1, <3>5 DEF size
    <3>7. parse_int(q, n) = assembled(SubSeq(str(b), 1, n))
      BY <2>1, <2>3 DEF parse_int, b
    <3> QED BY <1>2, <2>1, <2>3, <3>1, <3>3, <3>4, <3>6, <3>7 DEF b, l
  <2> QED BY <2>2, <2>3
<1> QED BY <1>3, <1>4

\* What is left behind the front of a string.
LEMMA Fronts ==
  ASSUME NEW S, NEW a \in Seq(S), NEW b \in Seq(S), NEW n, n = Len(a)
  PROVE  /\ SubSeq(a \o b, 1, n) = a /\ Drop(a \o b, n) = b
         /\ Len(a \o b) = n + Len(b) /\ n <= Len(a \o b)
<1> DEFINE all == a \o b
           x == SubSeq(all, 1, n)
           y == Drop(all, n)
<1>1. /\ all \in Seq(S) /\ Len(all) = Len(a) + Len(b) /\ Len(a) \in Nat /\ Len(b) \in Nat
      /\ \A i \in 1 .. Len(a) + Len(b) : all[i] = IF i <= Len(a) THEN a[i] ELSE b[i - Len(a)]
  BY ConcatProperties
<1> HIDE DEF all
<1>2. x \in Seq(S) /\ Len(x) = n /\ \A i \in 1 .. n : x[i] = all[i]
  BY <1>1
<1>3. y \in Seq(S) /\ Len(y) = Len(all) - n /\ \A i \in 1 .. Len(all) - n : y[i] = all[n + i]
  BY <1>1, Dropped DEF Drop
<1> HIDE DEF x, y
<1>4. x = a
  <2>1. \A i \in 1 .. Len(x) : x[i] = a[i]
    BY <1>1, <1>2
  <2> QED BY <1>2, <2>1, SeqEqual
<1>5. y = b
  <2>1. ASSUME NEW i \in 1 .. Len(y) PROVE y[i] = b[i]
    <3>1. i \in 1 .. Len(all) - n /\ n + i \in 1 .. Len(a) + Len(b) /\ ~(n + i <= Len(a)) /\ (n + i) - Len(a) = i
      BY <1>1, <1>3
    <3> QED BY <1>1, <1>3, <3>1
  <2>2. Len(y) = Len(b)
    BY <1>1, <1>3
  <2> QED BY <1>3, <2>1, <2>2, SeqEqual
<1> QED BY <1>1, <1>4, <1>5 DEF x, y, all

\* The elements of a sequence from behind i to j.
Piece(s, i, j) == SubSeq(s, i + 1, j)

\* Behind n elements, a piece is cut into pieces.
CutAt(S, s, i, j, n) ==
  /\ Piece(s, i, j) \in Seq(S) /\ Len(Piece(s, i, j)) = j - i
  /\ SubSeq(Piece(s, i, j), 1, n) = Piece(s, i, i + n)
  /\ Drop(Piece(s, i, j), n) = Piece(s, i + n, j)
  /\ Piece(s, 0, i) \o Piece(s, i, i + n) = Piece(s, 0, i + n)
  /\ Piece(s, 0, i) \in Seq(S) /\ Piece(s, i, i + n) \in Seq(S)

\* Every piece can be cut anywhere.
LEMMA Pieces ==
  ASSUME NEW S, NEW s \in Seq(S), NEW j \in 0 .. Len(s), NEW i \in 0 .. j,
         NEW n \in 0 .. j - i
  PROVE  CutAt(S, s, i, j, n)
<1> DEFINE p == Piece(s, i, j)
           a == Piece(s, i, i + n)
           b == Piece(s, i + n, j)
           x == SubSeq(p, 1, n)
           y == Drop(p, n)
<1>1. Len(s) \in Nat /\ i \in Nat /\ j \in Nat /\ n \in Nat /\ i + n <= j /\ j <= Len(s)
  OBVIOUS
<1>2. p \in Seq(S) /\ Len(p) = j - i /\ \A k \in 1 .. j - i : p[k] = s[i + k]
  BY <1>1 DEF Piece
<1>3. a \in Seq(S) /\ Len(a) = n /\ \A k \in 1 .. n : a[k] = s[i + k]
  BY <1>1 DEF Piece
<1>4. b \in Seq(S) /\ Len(b) = j - (i + n) /\ \A k \in 1 .. j - (i + n) : b[k] = s[(i + n) + k]
  BY <1>1 DEF Piece
<1> HIDE DEF p, a, b
<1>5. x \in Seq(S) /\ Len(x) = n /\ \A k \in 1 .. n : x[k] = p[k]
  BY <1>1, <1>2
<1>6. y \in Seq(S) /\ Len(y) = (j - i) - n /\ \A k \in 1 .. (j - i) - n : y[k] = p[n + k]
  BY <1>1, <1>2, Dropped DEF Drop
<1> HIDE DEF x, y
<1>7. x = a
  <2>1. ASSUME NEW k \in 1 .. Len(x) PROVE x[k] = a[k]
    <3>1. k \in 1 .. n /\ k \in 1 .. j - i
      BY <1>1, <1>5
    <3> QED BY <1>2, <1>3, <1>5, <3>1
  <2> QED BY <1>3, <1>5, <2>1, SeqEqual
<1>8. y = b
  <2>1. ASSUME NEW k \in 1 .. Len(y) PROVE y[k] = b[k]
    <3>1. k \in 1 .. (j - i) - n /\ n + k \in 1 .. j - i /\ k \in 1 .. j - (i + n)
          /\ i + (n + k) = (i + n) + k
      BY <1>1, <1>6
    <3> QED BY <1>2, <1>4, <1>6, <3>1
  <2>2. Len(y) = Len(b)
    BY <1>1, <1>4, <1>6
  <2> QED BY <1>4, <1>6, <2>1, <2>2, SeqEqual
<1>9. Piece(s, 0, i) \in Seq(S) /\ Piece(s, 0, i) \o Piece(s, i, i + n) = Piece(s, 0, i + n)
  <2>1. SubSeq(s, 1, i) \in Seq(S)
    BY <1>1
  <2>2. SubSeq(s, 1, i) \o SubSeq(s, i + 1, i + n) = SubSeq(s, 1, i + n)
    <3>1. 1 \in 1 .. Len(s) + 1 /\ i \in 1 - 1 .. Len(s) /\ i + n \in i .. Len(s)
      BY <1>1
    <3> QED BY <3>1, ConcatAdjacentSubSeq
  <2> QED BY <2>1, <2>2 DEF Piece
<1> QED BY <1>2, <1>3, <1>7, <1>8, <1>9 DEF p, a, b, x, y, CutAt

----------------------------------------------------------------------------
(* The inductive invariant *)

new == Checksum!NewChecksum(0)
payload == packet[2].storage

\* What was to be sent.
Meant ==
  /\ Fit(fields) /\ fields[IpAt] = ipv4_numeric(source)
  /\ \E s \in Sources : source = resolved(s[1], s[2])
  /\ \E p \in Payloads : packet = Packed(fields, p)

\* What is and was on its way.
Sent ==
  /\ phase \in {"send", "receive", "parse", "done"}
  /\ views \in Seq(Seq(Byte)) /\ wire \in Seq(Byte)
  /\ NothingLostInViews
  /\ phase = "send" => ck = new /\ parsed = <<>>
  /\ phase # "send" => wire = concatenate(packet) /\ got \in 0 .. Len(wire)

\* The receiver's sum is that of the bytes it has looked at, and the others are
\* those behind them.
Looking ==
  phase = "receive" =>
    /\ parsed = <<>>
    /\ parser = NewParser(NewBuffer(Piece(wire, 0, got)))
    /\ Len(arrived) \in 0 .. got
    /\ arrived = Piece(wire, got - Len(arrived), got)
    /\ ck = Checksum!add(new, Piece(wire, 0, got - Len(arrived)))

\* A parser without an error has taken what is before the next field; it has no
\* error when everything arrived, and has the fields then.
Taken ==
  phase \in {"parse", "done"} =>
    /\ parser \in Parsers
    /\ \E X : parsed \in Seq(X)
    /\ Len(parsed) \in 0 .. Len(Widths)
    /\ ~failed(parser) => size(parser.buffer) + HeaderTo(Len(parsed)) = got
    /\ got = Len(wire) =>
         /\ ~failed(parser)
         /\ \A i \in 1 .. Len(parsed) : parsed[i] = fields[i]
         /\ str(parser.buffer) = Left(fields, Len(parsed), payload)
    /\ phase = "done" => Len(parsed) = Len(Widths)

XInv == Meant /\ Sent /\ Looking /\ Taken

\* What the number of a source is.
LEMMA Numbered ==
  ASSUME NEW s \in Sources, NEW a, a = resolved(s[1], s[2])
  PROVE  /\ a = [_address |-> sockaddr("AF_INET", s[1], unparse_int(s[2], 2)), _size |-> SockaddrIn]
         /\ ipv4_numeric(a) \in Nat /\ ipv4_numeric(a) < Pow[4]
         /\ unparse_int(ipv4_numeric(a), 4) = s[1]
<1> DEFINE adr == sockaddr("AF_INET", s[1], unparse_int(s[2], 2))
<1>1. ~(SockaddrIn > Storage)
  BY StorageAssumption
<1>2. a = [_address |-> adr, _size |-> SockaddrIn]
  BY <1>1 DEF resolved, NewAddress
<1>3. adr.family = "AF_INET" /\ adr.ip = s[1]
  BY DEF sockaddr
<1> HIDE DEF adr
<1>4. a._address = adr /\ a._size = SockaddrIn
  BY <1>2
<1>5. ipv4_numeric(a) = assembled(s[1])
  BY <1>3, <1>4 DEF ipv4_numeric
<1>6. PICK v \in Nat : v < Pow[4] /\ s[1] = unparse_int(v, 4)
  <2>1. s[1] \in [1 .. 4 -> Byte]
    BY PacketAssumption
  <2> QED BY <2>1, FourBytes
<1>7. assembled(unparse_int(v, 4)) = v
  <2>1. 4 \in 1 .. 4
    OBVIOUS
  <2> QED BY <1>6, <2>1, RoundTrip
<1>8. ipv4_numeric(a) = v
  BY <1>5, <1>6, <1>7, Zenon
<1> QED BY <1>2, <1>6, <1>8 DEF adr

\* The bytes of the packet.
LEMMA MeantIs ==
  ASSUME Meant
  PROVE  /\ Fit(fields) /\ payload \in Seq(Byte)
         /\ packet \in Seq(Bufs(Byte)) /\ concatenate(packet) \in Seq(Byte)
         /\ \E u \in Seq(Byte) : Len(u) = 2 /\ concatenate(packet) = u \o Left(fields, 0, payload)
         /\ Checksum!value(Checksum!add(new, concatenate(packet))) = 0
<1>1. Fit(fields)
  BY DEF Meant
<1>2. PICK p \in Payloads : packet = Packed(fields, p)
  BY DEF Meant
<1>3. p \in Seq(Byte)
  BY PacketAssumption
<1>4. /\ packet \in Seq(Bufs(Byte)) /\ packet[2].storage = p
      /\ \E u \in Seq(Byte) : Len(u) = 2 /\ concatenate(packet) = u \o Left(fields, 0, p)
      /\ Checksum!value(Checksum!add(Checksum!NewChecksum(0), concatenate(packet))) = 0
  BY <1>1, <1>2, <1>3, PackedIs
<1>5. concatenate(packet) \in Seq(Byte)
  BY <1>4, StrsOf
<1> QED BY <1>1, <1>3, <1>4, <1>5 DEF payload, new

\* What is meant stays.
LEMMA MeantStays ==
  ASSUME Meant, UNCHANGED <<source, fields, packet>>
  PROVE  Meant' /\ payload' = payload
BY DEF Meant, payload

\* It holds before anything is sent.
LEMMA InitXInv ==
  PacketInit => XInv
<1> SUFFICES ASSUME PacketInit PROVE XInv
  OBVIOUS
<1>1. PICK s \in Sources : source = resolved(s[1], s[2])
  BY DEF PacketInit
<1> DEFINE num == ipv4_numeric(source)
<1>2. num \in Nat /\ num < Pow[4]
  BY <1>1, Numbered
<1>3. /\ fields \in [DOMAIN Widths -> {num} \cup UNION Range(Values)]
      /\ \A i \in DOMAIN Widths : IF i = IpAt THEN fields[i] = num ELSE fields[i] \in Values[i]
  BY DEF PacketInit
<1> HIDE DEF num
<1>4. /\ IpAt \in DOMAIN Widths /\ Widths[IpAt] = 4 /\ Values \in [DOMAIN Widths -> SUBSET Nat]
      /\ \A i \in DOMAIN Widths : \A v \in Values[i] : v < Pow[Widths[i]]
  BY PacketAssumption
<1>5. ASSUME NEW i \in DOMAIN Widths PROVE fields[i] \in Nat /\ fields[i] < Pow[Widths[i]]
  <2>1. CASE i = IpAt
    BY <1>2, <1>3, <1>4, <2>1
  <2>2. CASE i # IpAt
    <3>1. fields[i] \in Values[i] /\ Values[i] \subseteq Nat
      BY <1>3, <1>4, <2>2
    <3> QED BY <1>4, <3>1
  <2> QED BY <2>1, <2>2
<1>6. Fit(fields)
  <2>1. DOMAIN Widths = 1 .. Len(Widths)
    BY WidthsAre
  <2>2. fields \in [DOMAIN Widths -> Nat]
    BY <1>3, <1>5
  <2> QED BY <1>5, <2>1, <2>2 DEF Fit
<1>7. Meant
  <2>1. fields[IpAt] = ipv4_numeric(source)
    BY <1>3, <1>4 DEF num
  <2>2. \E p \in Payloads : packet = Packed(fields, p)
    BY DEF PacketInit, Packed
  <2> QED BY <1>1, <1>6, <2>1, <2>2 DEF Meant
<1>8. packet \in Seq(Bufs(Byte)) /\ concatenate(packet) \in Seq(Byte)
  BY <1>7, MeantIs
<1>9. /\ phase = "send" /\ views = strs(packet) /\ wire = <<>> /\ ck = new /\ parsed = <<>>
  BY DEF PacketInit, NewViews, new
<1>10. views \in Seq(Seq(Byte)) /\ NothingLostInViews /\ wire \in Seq(Byte)
  <2>1. views \in Seq(Seq(Byte))
    BY <1>8, <1>9, StrsOf
  <2>2. FlattenSeq(views) = concatenate(packet)
    BY <1>9 DEF concatenate
  <2>3. <<>> \o concatenate(packet) = concatenate(packet) /\ <<>> \in Seq(Byte)
    BY <1>8, ConcatEmptySeq, EmptySeq
  <2> QED BY <1>9, <2>1, <2>2, <2>3 DEF NothingLostInViews
<1>11. Sent
  BY <1>9, <1>10 DEF Sent
<1> QED BY <1>7, <1>9, <1>11 DEF XInv, Looking, Taken

\* A round of write() moves bytes from the views to the wire.
LEMMA WriteStep ==
  ASSUME XInv, NEW n \in 1 .. views_size(views), WriteRound(n)
  PROVE  XInv'
<1> DEFINE flat == FlattenSeq(views)
           a == SubSeq(flat, 1, n)
           b == SubSeq(flat, n + 1, Len(flat))
<1>1. /\ Meant /\ phase = "send" /\ views \in Seq(Seq(Byte)) /\ wire \in Seq(Byte)
      /\ wire \o flat = concatenate(packet) /\ ck = new /\ parsed = <<>>
  BY DEF XInv, Sent, WriteRound, NothingLostInViews
<1>2. /\ wire' = wire \o a /\ views' = views_remove_prefix(views, n)
      /\ UNCHANGED <<source, fields, packet>> /\ phase' = phase /\ ck' = ck /\ parsed' = parsed
  BY DEF WriteRound
<1>3. Meant'
  BY <1>1, <1>2, MeantStays
<1>4. flat \in Seq(Byte) /\ n \in 1 .. Len(flat)
  <2>1. flat \in Seq(Byte)
    BY <1>1, FlattenAppend, EmptySeq
  <2> QED BY <2>1 DEF views_size
<1>5. views' \in Seq(Seq(Byte)) /\ FlattenSeq(views') = b
  <2>1. n \in Nat
    BY <1>4
  <2> QED BY <1>1, <1>2, <2>1, ViewsRemove
<1> HIDE DEF flat
<1>6. a \in Seq(Byte) /\ b \in Seq(Byte) /\ a \o b = flat
  <2>1. a \in Seq(Byte) /\ b \in Seq(Byte)
    BY <1>4
  <2>2. a \o b = SubSeq(flat, 1, Len(flat))
    <3>1. 1 \in 1 .. Len(flat) + 1 /\ n \in 1 - 1 .. Len(flat) /\ Len(flat) \in n .. Len(flat)
      BY <1>4
    <3> QED BY <1>4, <3>1, ConcatAdjacentSubSeq
  <2> QED BY <1>4, <2>1, <2>2, SubSeqFull
<1> HIDE DEF a, b
<1>7. wire' \in Seq(Byte) /\ (wire \o a) \o b = wire \o flat
  <2>1. wire \o a \in Seq(Byte)
    BY <1>1, <1>6, ConcatProperties
  <2>2. (wire \o a) \o b = wire \o (a \o b)
    <3>1. wire \in Seq(Byte) /\ a \in Seq(Byte) /\ b \in Seq(Byte)
      BY <1>1, <1>6
    <3> QED BY <3>1, Assoc
  <2> QED BY <1>2, <1>6, <2>1, <2>2
<1>8. wire' \o FlattenSeq(views') = concatenate(packet')
  BY <1>1, <1>2, <1>5, <1>7
<1>9. Sent'
  BY <1>1, <1>2, <1>5, <1>7, <1>8 DEF Sent, NothingLostInViews, new
<1> QED BY <1>1, <1>2, <1>3, <1>9 DEF XInv, Looking, Taken

\* Everything is on the wire when the views are empty.
LEMMA DeliverStep ==
  ASSUME XInv, NEW n \in 0 .. Len(wire), Deliver(n)
  PROVE  XInv'
<1>1. /\ Meant /\ phase = "send" /\ views \in Seq(Seq(Byte)) /\ wire \in Seq(Byte)
      /\ wire \o FlattenSeq(views) = concatenate(packet) /\ ck = new /\ parsed = <<>>
  BY DEF XInv, Sent, Deliver, NothingLostInViews
<1>2. /\ Len(FlattenSeq(views)) = 0 /\ got' = n /\ arrived' = Piece(wire, 0, n)
      /\ parser' = NewParser(NewBuffer(arrived')) /\ phase' = "receive"
      /\ UNCHANGED <<source, fields, packet>> /\ views' = views /\ wire' = wire
      /\ ck' = ck /\ parsed' = parsed
  BY DEF Deliver, views_size, Piece
<1>3. Meant'
  BY <1>1, <1>2, MeantStays
<1>4. wire = concatenate(packet)
  <2>1. FlattenSeq(views) \in Seq(Byte)
    BY <1>1, FlattenAppend, EmptySeq
  <2>2. FlattenSeq(views) = <<>>
    BY <1>2, <2>1
  <2>3. wire \o <<>> = wire
    BY <1>1, ConcatEmptySeq
  <2> QED BY <1>1, <2>2, <2>3
<1>5. Sent'
  BY <1>1, <1>2, <1>4 DEF Sent, NothingLostInViews
<1>6. n - n = 0 /\ n \in Nat /\ n - 0 = n /\ n \in 0 .. n
  BY <1>1
<1>7. Len(arrived') = n /\ Piece(wire, 0, 0) = <<>>
  <2>1. 0 \in 0 .. n /\ 0 \in 0 .. n - 0
    BY <1>6
  <2>2. Len(Piece(wire, 0, n)) = n
    <3>1. CutAt(Byte, wire, 0, n, 0)
      BY <1>1, <1>6, <2>1, Pieces
    <3> QED BY <1>6, <3>1 DEF CutAt
  <2>3. Piece(wire, 0, 0) = <<>>
    BY <1>1 DEF Piece
  <2> QED BY <1>2, <2>2, <2>3
<1>8. Checksum!add(new, <<>>) = new
  <2>1. new \in CK /\ <<>> \in Seq(Byte) /\ 0 \in Byte
    BY Sizes, EmptySeq DEF new, Checksum!NewChecksum, CK, Byte
  <2> QED BY <2>1, AddAppend
<1>9. Looking'
  BY <1>1, <1>2, <1>6, <1>7, <1>8 DEF Looking, new
<1>10. Taken'
  BY <1>2 DEF Taken
<1> QED BY <1>3, <1>5, <1>9, <1>10 DEF XInv

\* A chunk that is added to the sum is the next piece of what arrived.
LEMMA CheckStep ==
  ASSUME XInv, NEW n \in 1 .. Len(arrived), Check(n)
  PROVE  XInv'
<1> DEFINE d == got - Len(arrived)
<1>1. /\ Meant /\ Sent /\ phase = "receive" /\ parsed = <<>> /\ wire \in Seq(Byte)
      /\ parser = NewParser(NewBuffer(Piece(wire, 0, got)))
      /\ got \in 0 .. Len(wire) /\ Len(arrived) \in 0 .. got
      /\ arrived = Piece(wire, d, got)
      /\ ck = Checksum!add(new, Piece(wire, 0, d))
  BY DEF XInv, Sent, Looking, Check
<1>2. /\ ck' = Checksum!add(ck, SubSeq(arrived, 1, n)) /\ arrived' = Drop(arrived, n)
      /\ UNCHANGED <<source, fields, packet>> /\ phase' = phase /\ views' = views
      /\ wire' = wire /\ got' = got /\ parser' = parser /\ parsed' = parsed
  BY DEF Check, Drop
<1>3. Meant'
  BY <1>1, <1>2, MeantStays
<1>4. Sent'
  BY <1>1, <1>2 DEF Sent, NothingLostInViews
<1>5. /\ d \in 0 .. got /\ n \in 0 .. got - d /\ Len(arrived) = got - d /\ d + n \in 0 .. got
      /\ 0 \in 0 .. got - (d + n)
  <2>1. Len(wire) \in Nat
    BY <1>1
  <2>2. got \in 0 .. Len(wire) /\ Len(arrived) \in 0 .. got
    BY <1>1
  <2> QED BY <2>1, <2>2
<1> HIDE DEF d
<1>6. /\ SubSeq(Piece(wire, d, got), 1, n) = Piece(wire, d, d + n)
      /\ Drop(Piece(wire, d, got), n) = Piece(wire, d + n, got)
      /\ Piece(wire, 0, d) \o Piece(wire, d, d + n) = Piece(wire, 0, d + n)
      /\ Piece(wire, 0, d) \in Seq(Byte) /\ Piece(wire, d, d + n) \in Seq(Byte)
  <2>1. wire \in Seq(Byte) /\ got \in 0 .. Len(wire) /\ d \in 0 .. got /\ n \in 0 .. got - d
    BY <1>1, <1>5
  <2>2. CutAt(Byte, wire, d, got, n)
    BY <2>1, Pieces
  <2> QED BY <2>1, <2>2 DEF CutAt
<1>7. Len(Piece(wire, d + n, got)) = got - (d + n)
  <2>1. wire \in Seq(Byte) /\ got \in 0 .. Len(wire)
    BY <1>1
  <2>2. PICK e \in 0 .. got : e = d + n
    BY <1>5
  <2>3. 0 \in 0 .. got - e
    BY <1>5, <2>2
  <2>4. Len(Piece(wire, e, got)) = got - e
    <3>1. CutAt(Byte, wire, e, got, 0)
      BY <2>1, <2>3, Pieces
    <3> QED BY <3>1 DEF CutAt
  <2> QED BY <2>2, <2>4
<1>8. arrived' = Piece(wire, d + n, got) /\ Len(arrived') = got - (d + n)
  BY <1>1, <1>2, <1>6, <1>7
<1>9. got - Len(arrived') = d + n /\ Len(arrived') \in 0 .. got
  <2>1. got \in Nat /\ d \in Nat /\ n \in Nat
    BY <1>1, <1>5
  <2> QED BY <1>5, <1>8, <2>1
<1>10. ck' = Checksum!add(new, Piece(wire, 0, d + n))
  <2> DEFINE a == Piece(wire, 0, d)
             b == Piece(wire, d, d + n)
  <2>1. new \in CK
    BY Sizes DEF new, Checksum!NewChecksum, CK
  <2>2. a \in Seq(Byte) /\ b \in Seq(Byte)
    BY <1>6
  <2>3. a \o b = Piece(wire, 0, d + n)
    BY <1>6
  <2>4. ck' = Checksum!add(Checksum!add(new, a), b)
    BY <1>1, <1>2, <1>6
  <2> HIDE DEF a, b, new
  <2>5. Checksum!add(Checksum!add(new, a), b) = Checksum!add(new, a \o b)
    BY <2>1, <2>2, AddConcat
  <2> QED BY <2>3, <2>4, <2>5
<1>11. Looking'
  <2>1. new' = new
    BY DEF new
  <2> HIDE DEF new
  <2> QED BY <1>1, <1>2, <1>8, <1>9, <1>10, <2>1 DEF Looking
<1>12. Taken'
  BY <1>1, <1>2 DEF Taken
<1> QED BY <1>3, <1>4, <1>11, <1>12 DEF XInv

\* A packet that arrived whole is not in error, and the parser is behind the
\* checksum.
LEMMA JudgeStep ==
  ASSUME XInv, Judge
  PROVE  XInv'
<1> DEFINE q == IF Checksum!value(ck) = 0 THEN parser ELSE [parser EXCEPT !.error = "BadChecksum"]
           here == Piece(wire, 0, got)
<1>1. /\ Meant /\ Sent /\ phase = "receive" /\ parsed = <<>> /\ wire \in Seq(Byte)
      /\ parser = NewParser(NewBuffer(here)) /\ wire = concatenate(packet)
      /\ got \in 0 .. Len(wire) /\ arrived = <<>>
      /\ ck = Checksum!add(new, Piece(wire, 0, got - Len(arrived)))
  BY DEF XInv, Sent, Looking, Judge
<1>2. /\ parser' = skip(q, 2) /\ phase' = "parse"
      /\ UNCHANGED <<source, fields, packet>> /\ views' = views
      /\ wire' = wire /\ got' = got /\ parsed' = parsed
  BY DEF Judge
<1>3. Meant' /\ payload' = payload
  BY <1>1, <1>2, MeantStays
<1>4. Sent'
  BY <1>1, <1>2 DEF Sent, NothingLostInViews
<1>5. here \in Seq(Byte) /\ Len(here) = got /\ got \in Nat /\ (got = Len(wire) => here = wire)
  <2>1. SubSeq(wire, 0 + 1, got) \in Seq(Byte) /\ Len(SubSeq(wire, 0 + 1, got)) = got
    BY <1>1
  <2>2. SubSeq(wire, 0 + 1, Len(wire)) = wire
    BY <1>1, SubSeqFull
  <2>3. got \in Nat
    BY <1>1
  <2> QED BY <2>1, <2>2, <2>3 DEF Piece
<1>6. ck = Checksum!add(new, here)
  <2>1. got - Len(arrived) = got
    <3>1. Len(arrived) = 0
      BY <1>1
    <3> QED BY <1>5, <3>1
  <2> QED BY <1>1, <2>1
<1> HIDE DEF here
<1>7. parser \in Parsers /\ ~failed(parser) /\ str(parser.buffer) = here /\ size(parser.buffer) = got
  <2>1. NewBuffer(here) \in Bufs(Byte) /\ str(NewBuffer(here)) = here
    BY <1>5, MadeBuffers
  <2> DEFINE b == NewBuffer(here)
  <2> HIDE DEF b
  <2>2. b \in Bufs(Byte) /\ str(b) = here /\ parser = [buffer |-> b, error |-> "NoError"]
    BY <1>1, <2>1 DEF b, NewParser
  <2>3. parser \in Parsers /\ parser.buffer = b /\ parser.error = "NoError"
    BY <2>2 DEF Parsers, Errors
  <2> QED BY <1>5, <2>2, <2>3 DEF failed, size
<1>8. q \in Parsers /\ q.buffer = parser.buffer
  BY <1>7 DEF Parsers, Errors
<1>9. got = Len(wire) => q = parser
  BY <1>1, <1>5, <1>6, MeantIs
<1> HIDE DEF q
<1> DEFINE r == skip(q, 2)
<1>10. /\ r \in Parsers
       /\ ~failed(r) => ~failed(q) /\ 2 <= size(q.buffer)
       /\ ~failed(q) /\ 2 <= size(q.buffer) =>
            /\ ~failed(r) /\ str(r.buffer) = Drop(str(q.buffer), 2)
            /\ size(r.buffer) = size(q.buffer) - 2
  BY <1>8, SkipStep
<1> HIDE DEF r
<1>11. ~failed(r) => size(r.buffer) + HeaderTo(0) = got
  <2>1. HeaderTo(0) = 2
    BY HeaderGrows
  <2> QED BY <1>5, <1>7, <1>8, <1>10, <2>1
<1>12. ASSUME got = Len(wire) PROVE ~failed(r) /\ str(r.buffer) = Left(fields, 0, payload)
  <2>1. PICK u \in Seq(Byte) : Len(u) = 2 /\ wire = u \o Left(fields, 0, payload)
    BY <1>1, MeantIs
  <2> DEFINE x == Left(fields, 0, payload)
  <2>2. x \in Seq(Byte)
    <3>1. 0 \in 0 .. Len(Widths)
      BY WidthsAre
    <3> QED BY <1>1, <3>1, MeantIs, LeftStep
  <2> HIDE DEF x
  <2>3. Drop(u \o x, 2) = x /\ 2 <= Len(u \o x)
    BY <2>1, <2>2, Fronts
  <2>4. here = u \o x /\ q = parser /\ 2 <= got
    BY <1>5, <1>9, <1>12, <2>1, <2>3 DEF x
  <2> QED BY <1>7, <1>8, <1>10, <2>3, <2>4 DEF x
<1>13. /\ parsed' = <<>> /\ Len(parsed') = 0 /\ 0 \in 0 .. Len(Widths)
       /\ 1 .. 0 = {}
  BY <1>1, <1>2, WidthsAre
<1>14. \E X : parsed' \in Seq(X)
  BY <1>13, EmptySeq
<1>15. Taken'
  <2>1. parser' = r
    BY <1>2 DEF r
  <2>2. ~failed(parser') => size(parser'.buffer) + HeaderTo(Len(parsed')) = got'
    BY <1>2, <1>11, <1>13, <2>1
  <2>3. ASSUME got' = Len(wire')
        PROVE  /\ ~failed(parser')
               /\ \A i \in 1 .. Len(parsed') : parsed'[i] = fields'[i]
               /\ str(parser'.buffer) = Left(fields', Len(parsed'), payload')
    BY <1>2, <1>3, <1>12, <1>13, <2>1, <2>3
  <2> QED BY <1>2, <1>10, <1>13, <1>14, <2>1, <2>2, <2>3 DEF Taken
<1>16. Looking'
  BY <1>2 DEF Looking
<1> QED BY <1>3, <1>4, <1>15, <1>16 DEF XInv

\* The parser takes the next field.
LEMMA ParseStep ==
  ASSUME XInv, Parse
  PROVE  XInv'
<1> DEFINE k == Len(parsed)
           w == Widths[k + 1]
           x == parse_int(parser, w)
           r == skip(parser, w)
<1>1. /\ Meant /\ Sent /\ phase = "parse" /\ parser \in Parsers
      /\ k \in 0 .. Len(Widths) /\ k < Len(Widths)
      /\ ~failed(parser) => size(parser.buffer) + HeaderTo(k) = got
      /\ got = Len(wire) =>
           /\ ~failed(parser)
           /\ \A i \in 1 .. k : parsed[i] = fields[i]
           /\ str(parser.buffer) = Left(fields, k, payload)
  BY DEF XInv, Taken, Parse
<1>2. /\ parsed' = Append(parsed, x) /\ parser' = r
      /\ UNCHANGED <<source, fields, packet>> /\ phase' = phase /\ views' = views
      /\ wire' = wire /\ got' = got /\ ck' = ck
  BY DEF Parse
<1>3. Meant' /\ payload' = payload
  BY <1>1, <1>2, MeantStays
<1>4. Sent'
  BY <1>1, <1>2 DEF Sent, NothingLostInViews
<1>5. /\ k \in Nat /\ k + 1 \in 1 .. Len(Widths) /\ k + 1 \in 0 .. Len(Widths)
      /\ k \in 0 .. Len(Widths) - 1
      /\ w \in 1 .. 4 /\ w \in Nat /\ got \in Nat
  <2>1. Len(Widths) \in Nat /\ \A i \in 1 .. Len(Widths) : Widths[i] \in 1 .. 4
    BY WidthsAre
  <2>2. k \in Nat /\ k + 1 \in 1 .. Len(Widths) /\ k + 1 \in 0 .. Len(Widths) /\ k \in 0 .. Len(Widths) - 1
    <3>1. k \in 0 .. Len(Widths) /\ k < Len(Widths)
      BY <1>1
    <3> HIDE DEF k
    <3> QED BY <2>1, <3>1
  <2>3. w \in 1 .. 4
    BY <2>1, <2>2
  <2>4. got \in Nat
    BY <1>1 DEF Sent
  <2> HIDE DEF k, w
  <2> QED BY <2>2, <2>3, <2>4
<1>6. PICK X : parsed \in Seq(X)
  BY <1>1 DEF XInv, Taken
<1> DEFINE Y == X \cup {x}
<1>7. /\ parsed' \in Seq(Y) /\ Len(parsed') = k + 1 /\ parsed'[k + 1] = x
      /\ \A i \in 1 .. k : parsed'[i] = parsed[i]
  <2>1. x \in Y /\ parsed \in Seq(Y)
    <3> HIDE DEF x
    <3> QED BY <1>6
  <2> HIDE DEF Y, x
  <2> QED BY <1>2, <2>1, AppendProperties
<1>8. /\ r \in Parsers /\ size(parser.buffer) \in Nat
      /\ ~failed(r) => ~failed(parser) /\ w <= size(parser.buffer)
      /\ ~failed(parser) /\ w <= size(parser.buffer) =>
           /\ ~failed(r) /\ str(r.buffer) = Drop(str(parser.buffer), w)
           /\ size(r.buffer) = size(parser.buffer) - w
           /\ x = assembled(SubSeq(str(parser.buffer), 1, w))
  <2> HIDE DEF w
  <2> QED BY <1>1, <1>5, SkipStep
<1>9. HeaderTo(k + 1) = HeaderTo(k) + w /\ HeaderTo(k) \in Nat
  BY <1>1, <1>5, HeaderGrows
<1> HIDE DEF r, x
<1>10. ~failed(r) => size(r.buffer) + HeaderTo(k + 1) = got
  <2> HIDE DEF k, w
  <2>1. SUFFICES ASSUME ~failed(r) PROVE size(r.buffer) + HeaderTo(k + 1) = got
    OBVIOUS
  <2>2. /\ size(parser.buffer) + HeaderTo(k) = got /\ size(r.buffer) = size(parser.buffer) - w
        /\ size(parser.buffer) \in Nat
    BY <1>1, <1>8, <2>1
  <2> QED BY <1>5, <1>9, <2>2
<1>11. ASSUME got = Len(wire)
       PROVE  ~failed(r) /\ x = fields[k + 1] /\ str(r.buffer) = Left(fields, k + 1, payload)
  <2> DEFINE v == fields[k + 1]
             u == unparse_int(v, w)
             y == Left(fields, k + 1, payload)
  <2>1. Fit(fields) /\ payload \in Seq(Byte)
    BY <1>1, MeantIs
  <2>2. v \in Nat /\ v < Pow[w]
    BY <1>5, <2>1 DEF Fit
  <2>3. u \in Seq(Byte) /\ Len(u) = w
    BY <1>5, <2>2, UnparseType
  <2>4. assembled(u) = v
    BY <1>5, <2>2, RoundTrip
  <2>5. y \in Seq(Byte)
    BY <1>5, <2>1, LeftStep
  <2>6. Left(fields, k, payload) = u \o y
    BY <1>1, <2>1, LeftStep
  <2>7. str(parser.buffer) = u \o y /\ ~failed(parser)
    BY <1>1, <1>11, <2>6
  <2> HIDE DEF v, u, y, w, k
  <2>8. SubSeq(u \o y, 1, w) = u /\ Drop(u \o y, w) = y /\ w <= Len(u \o y)
    BY <2>3, <2>5, Fronts
  <2>9. w <= size(parser.buffer)
    BY <2>7, <2>8 DEF size
  <2> QED BY <1>8, <2>4, <2>7, <2>8, <2>9 DEF v, y
<1> HIDE DEF w
<1>12. ASSUME got = Len(wire), NEW i \in 1 .. k + 1 PROVE parsed'[i] = fields[i]
  <2>1. CASE i = k + 1
    BY <1>7, <1>11, <1>12, <2>1
  <2>2. CASE i # k + 1
    <3>1. i \in 1 .. k
      <4> HIDE DEF k
      <4> QED BY <1>5, <2>2
    <3> QED BY <1>1, <1>7, <1>12, <3>1
  <2> QED BY <2>1, <2>2
<1>13. Taken'
  <2>1. ~failed(parser') => size(parser'.buffer) + HeaderTo(Len(parsed')) = got'
    BY <1>2, <1>7, <1>10
  <2>2. ASSUME got' = Len(wire')
        PROVE  /\ ~failed(parser')
               /\ \A i \in 1 .. Len(parsed') : parsed'[i] = fields'[i]
               /\ str(parser'.buffer) = Left(fields', Len(parsed'), payload')
    <3>1. got = Len(wire)
      BY <1>2, <2>2
    <3>2. \A i \in 1 .. k + 1 : parsed'[i] = fields[i]
      BY <1>12, <3>1
    <3> HIDE DEF k
    <3> QED BY <1>2, <1>3, <1>7, <1>11, <3>1, <3>2
  <2>3. Len(parsed') \in 0 .. Len(Widths) /\ phase' # "done" /\ parser' \in Parsers
    BY <1>1, <1>2, <1>5, <1>7, <1>8
  <2>4. \E Z : parsed' \in Seq(Z)
    BY <1>7
  <2> QED BY <2>1, <2>2, <2>3, <2>4 DEF Taken
<1>14. Looking'
  BY <1>1, <1>2 DEF Looking
<1> QED BY <1>3, <1>4, <1>13, <1>14 DEF XInv

\* Nothing changes when the parsing ends, nor afterwards.
LEMMA RestStep ==
  ASSUME XInv, Finish \/ UNCHANGED packetVars
  PROVE  XInv'
<1>1. CASE Finish
  <2>1. /\ phase = "parse" /\ Len(parsed) = Len(Widths) /\ phase' = "done"
        /\ UNCHANGED <<source, fields, packet>> /\ views' = views
        /\ wire' = wire /\ got' = got /\ parser' = parser /\ parsed' = parsed
    BY <1>1 DEF Finish
  <2>2. Meant' /\ payload' = payload
    BY <2>1, MeantStays DEF XInv
  <2>3. Sent'
    BY <2>1 DEF XInv, Sent, NothingLostInViews
  <2>4. Taken'
    BY <2>1, <2>2 DEF XInv, Taken
  <2>5. Looking'
    BY <2>1 DEF Looking
  <2> QED BY <2>2, <2>3, <2>4, <2>5 DEF XInv
<1>2. CASE UNCHANGED packetVars
  <2>1. /\ UNCHANGED <<source, fields, packet>> /\ views' = views /\ phase' = phase
        /\ wire' = wire /\ got' = got /\ parser' = parser /\ parsed' = parsed
        /\ arrived' = arrived /\ ck' = ck
    BY <1>2 DEF packetVars
  <2>2. Meant' /\ payload' = payload
    BY <2>1, MeantStays DEF XInv
  <2>3. Sent'
    BY <2>1 DEF XInv, Sent, NothingLostInViews, new
  <2>4. Taken'
    BY <2>1, <2>2 DEF XInv, Taken
  <2>5. Looking'
    BY <2>1 DEF XInv, Looking, new
  <2> QED BY <2>2, <2>3, <2>4, <2>5 DEF XInv
<1> QED BY <1>1, <1>2

\* Every step keeps it.
LEMMA NextXInv ==
  XInv /\ [PacketNext]_packetVars => XInv'
<1> SUFFICES ASSUME XInv, [PacketNext]_packetVars PROVE XInv'
  OBVIOUS
<1>1. ASSUME NEW n \in 1 .. views_size(views), WriteRound(n) PROVE XInv'
  BY <1>1, WriteStep
<1>2. ASSUME NEW n \in 0 .. Len(wire), Deliver(n) PROVE XInv'
  BY <1>2, DeliverStep
<1>3. ASSUME NEW n \in 1 .. Len(arrived), Check(n) PROVE XInv'
  BY <1>3, CheckStep
<1>4. CASE Judge
  BY <1>4, JudgeStep
<1>5. CASE Parse
  BY <1>5, ParseStep
<1>6. CASE Finish \/ Done \/ UNCHANGED packetVars
  BY <1>6, RestStep DEF Done
<1> QED BY <1>1, <1>2, <1>3, <1>4, <1>5, <1>6 DEF PacketNext

----------------------------------------------------------------------------
(* What follows *)

\* The packet is what was meant, what is on its way is all of it, the sum is that
\* of the bytes looked at, and the parser is at the next field.
THEOREM PacketInvariance == PacketSpec => []XInv
BY InitXInv, NextXInv, PTL DEF PacketSpec

\* BufferViewList::remove_prefix, round by round of FileDescriptor::write, neither
\* loses nor repeats a byte of the list, wherever writev(2) cuts it.
THEOREM PacketNothingLost == PacketSpec => []NothingLostInViews
<1>1. XInv => NothingLostInViews
  BY DEF XInv, Sent
<1> QED BY <1>1, PacketInvariance, PTL

\* InternetChecksum computes, in whatever chunks, the ones' complement sum, for
\* every size of a byte and every data whose words add up to a uint32_t.
THEOREM PacketSumIsRight == PacketSpec => []SumIsRight
<1>1. XInv => SumIsRight
  <2> SUFFICES ASSUME XInv, phase = "receive" PROVE SumIsRight
    BY DEF SumIsRight
  <2> DEFINE data == SubSeq(wire, 1, got - Len(arrived))
             n == wordSum(data)
  <2>1. /\ wire \in Seq(Byte) /\ got \in 0 .. Len(wire) /\ Len(arrived) \in 0 .. got
        /\ ck = Checksum!add(new, Piece(wire, 0, got - Len(arrived)))
    BY DEF XInv, Sent, Looking
  <2>2. data \in Seq(Byte)
    <3>1. got - Len(arrived) \in 0 .. Len(wire)
      <4>1. Len(wire) \in Nat /\ got \in 0 .. Len(wire) /\ Len(arrived) \in 0 .. got
        BY <2>1
      <4> QED BY <4>1
    <3> QED BY <2>1, <3>1
  <2>3. ck = Checksum!add(Checksum!NewChecksum(0), data)
    BY <2>1 DEF Piece, new
  <2> HIDE DEF data
  <2>4. n \in Nat /\ ck \in CK /\ ck.sum = n % FULL
    BY <2>2, <2>3, SumOfData
  <2>5. Checksum!value(ck) = WORD - 1 - onesComplement(ck.sum)
    BY <2>4, ValueIs
  <2> HIDE DEF n
  <2>6. ASSUME n < FULL PROVE Checksum!value(ck) = WORD - 1 - onesComplement(n)
    <3>1. n % FULL = n
      BY <2>4, <2>6, Sizes
    <3> QED BY <2>4, <2>5, <3>1
  <2> QED BY <2>6 DEF SumIsRight, data, n, FULL, WORD
<1> QED BY <1>1, PacketInvariance, PTL

\* A packet that arrives whole passes the checksum, is parsed by NetParser into
\* the integers that NetUnparser wrote, and leaves the payload in the Buffer.
THEOREM PacketIntactIsAccepted == PacketSpec => []IntactIsAccepted
<1>1. XInv => IntactIsAccepted
  <2> SUFFICES ASSUME XInv, phase = "done", got = Len(wire)
               PROVE  ~failed(parser) /\ parsed = fields /\ str(parser.buffer) = packet[2].storage
    BY DEF IntactIsAccepted
  <2>1. /\ Meant /\ Len(parsed) = Len(Widths) /\ ~failed(parser)
        /\ \A i \in 1 .. Len(parsed) : parsed[i] = fields[i]
        /\ str(parser.buffer) = Left(fields, Len(parsed), payload)
    BY DEF XInv, Taken
  <2>2. PICK X : parsed \in Seq(X)
    BY DEF XInv, Taken
  <2>3. Fit(fields) /\ payload \in Seq(Byte)
    BY <2>1, MeantIs
  <2>4. parsed = fields
    <3>1. fields \in [1 .. Len(Widths) -> Nat]
      BY <2>3 DEF Fit
    <3>2. parsed \in [1 .. Len(Widths) -> X]
      BY <2>1, <2>2
    <3> QED BY <2>1, <3>1, <3>2
  <2>5. Left(fields, Len(Widths), payload) = payload
    <3>1. Len(Widths) \in 0 .. Len(Widths)
      BY WidthsAre
    <3> QED BY <2>3, <3>1, LeftStep
  <2> QED BY <2>1, <2>4, <2>5 DEF payload
<1> QED BY <1>1, PacketInvariance, PTL

\* Address::from_ipv4_numeric makes, of what the receiver parsed, an address equal
\* to the sender's, if and only if that one has the port 0.
THEOREM PacketAddressSurvives == PacketSpec => []AddressSurvives
<1>1. XInv => AddressSurvives
  <2> SUFFICES ASSUME XInv, phase = "done", got = Len(wire)
               PROVE  equal(from_ipv4_numeric(parsed[IpAt]), source) <=> source._address.port = <<0, 0>>
    BY DEF AddressSurvives
  <2>1. /\ Len(parsed) = Len(Widths)
        /\ \A i \in 1 .. Len(parsed) : parsed[i] = fields[i]
        /\ fields[IpAt] = ipv4_numeric(source)
    BY DEF XInv, Taken, Meant
  <2>2. IpAt \in 1 .. Len(Widths)
    BY PacketAssumption, WidthsAre
  <2>3. parsed[IpAt] = ipv4_numeric(source)
    BY <2>1, <2>2
  <2>4. PICK s \in Sources : source = resolved(s[1], s[2])
    BY DEF XInv, Meant
  <2> DEFINE port == unparse_int(s[2], 2)
             ip == s[1]
             a == from_ipv4_numeric(ipv4_numeric(source))
  <2>5. /\ source = [_address |-> sockaddr("AF_INET", ip, port), _size |-> SockaddrIn]
        /\ unparse_int(ipv4_numeric(source), 4) = ip
    BY <2>4, Numbered
  <2>6. a = [_address |-> sockaddr("AF_INET", ip, <<0, 0>>), _size |-> SockaddrIn]
    <3>1. ~(SockaddrIn > Storage)
      BY StorageAssumption
    <3> QED BY <2>5, <3>1 DEF from_ipv4_numeric, NewAddress
  <2> HIDE DEF port, ip, a
  <2>7. source._address.port = port
    BY <2>5 DEF sockaddr
  <2>8. equal(a, source) <=> port = <<0, 0>>
    <3>1. a._size = source._size
      BY <2>5, <2>6
    <3>2. /\ a._address = sockaddr("AF_INET", ip, <<0, 0>>)
          /\ source._address = sockaddr("AF_INET", ip, port)
      BY <2>5, <2>6
    <3>3. CASE port = <<0, 0>>
      BY <3>1, <3>2, <3>3 DEF equal
    <3>4. CASE port # <<0, 0>>
      <4>1. a._address.port = <<0, 0>>
        BY <3>2 DEF sockaddr
      <4>2. a._address # source._address
        BY <2>7, <3>4, <4>1
      <4> QED BY <3>4, <4>2 DEF equal
    <3> QED BY <3>3, <3>4
  <2> QED BY <2>3, <2>7, <2>8 DEF a
<1> QED BY <1>1, PacketInvariance, PTL

\* NetParser is in error at the end of a header that is not all there: each of
\* _check_size and the errors before it keep the count of what is left.
THEOREM PacketShortIsNoticed == PacketSpec => []ShortIsNoticed
<1>1. XInv => ShortIsNoticed
  <2> SUFFICES ASSUME XInv, phase = "done", got < headerSize, ~failed(parser) PROVE FALSE
    BY DEF ShortIsNoticed
  <2>1. /\ Len(parsed) = Len(Widths) /\ parser \in Parsers
        /\ size(parser.buffer) + HeaderTo(Len(parsed)) = got
    BY DEF XInv, Taken
  <2>2. HeaderTo(Len(Widths)) = headerSize /\ headerSize \in Nat
    <3>1. Len(Widths) \in 0 .. Len(Widths)
      BY WidthsAre
    <3> QED BY <3>1, HeaderGrows
  <2>3. size(parser.buffer) \in Nat
    <3>1. 0 \in Nat
      OBVIOUS
    <3> QED BY <2>1, <3>1, SkipStep
  <2>4. size(parser.buffer) + headerSize = got
    BY <2>1, <2>2
  <2> QED BY <2>2, <2>3, <2>4
<1> QED BY <1>1, PacketInvariance, PTL

\* After an error, NetParser stays in error, takes nothing and returns only zeros.
THEOREM PacketErrorIsFinal == PacketSpec => ErrorIsFinal
<1> DEFINE Final == phase = "parse" /\ failed(parser) =>
                      /\ failed(parser')
                      /\ parser'.buffer = parser.buffer
                      /\ parsed' \in {parsed, Append(parsed, 0)}
<1>1. XInv /\ [PacketNext]_packetVars => [Final]_packetVars
  <2> SUFFICES ASSUME XInv, PacketNext, phase = "parse", failed(parser)
               PROVE  /\ failed(parser') /\ parser'.buffer = parser.buffer
                      /\ parsed' \in {parsed, Append(parsed, 0)}
    BY Zenon
  <2>1. CASE Parse
    <3> DEFINE w == Widths[Len(parsed) + 1]
    <3>1. parser \in Parsers /\ Len(parsed) \in 0 .. Len(Widths)
      BY DEF XInv, Taken
    <3>2. Len(parsed) < Len(Widths) /\ parsed' = Append(parsed, parse_int(parser, w)) /\ parser' = skip(parser, w)
      BY <2>1 DEF Parse
    <3>3. w \in Nat
      <4>1. Len(parsed) + 1 \in 1 .. Len(Widths)
        <5>1. Len(Widths) \in Nat
          BY WidthsAre
        <5> QED BY <3>1, <3>2, <5>1
      <4>2. w \in 1 .. 4
        BY <4>1, WidthsAre
      <4> HIDE DEF w
      <4> QED BY <4>2
    <3> HIDE DEF w
    <3>4. failed(skip(parser, w)) /\ skip(parser, w).buffer = parser.buffer /\ parse_int(parser, w) = 0
      BY <3>1, <3>3, SkipStep
    <3> QED BY <3>2, <3>4
  <2>2. CASE Finish \/ Done
    BY <2>2 DEF Finish, Done, packetVars
  <2>3. CASE \/ \E n \in 1 .. views_size(views) : WriteRound(n)
             \/ \E n \in 0 .. Len(wire) : Deliver(n)
             \/ \E n \in 1 .. Len(arrived) : Check(n)
             \/ Judge
    BY <2>3 DEF WriteRound, Deliver, Check, Judge
  <2> QED BY <2>1, <2>2, <2>3 DEF PacketNext
<1>2. [][Final]_packetVars => ErrorIsFinal
  BY PTL DEF ErrorIsFinal
<1> HIDE DEF Final
<1> QED BY <1>1, <1>2, PacketInvariance, PTL DEF PacketSpec
=============================================================================
