---------------------------- MODULE BufferProofs ----------------------------
(***************************************************************************)
(* What the operators of Buffer return, for every string and every list.   *)
(* The loops of buffer.cc go through FlattenSeq, which is recursive: the   *)
(* induction over it is written out, with a set of numbers for what is     *)
(* shown of each of them.                                                  *)
(***************************************************************************)
EXTENDS Buffer, SequenceTheorems, WellFoundedInduction, TLAPS

----------------------------------------------------------------------------
(* Numbers *)

\* Every set of numbers that is not empty has a least one.
LEMMA LeastNumber ==
  ASSUME NEW S, S \subseteq Nat, S # {}
  PROVE  Min(S) \in S /\ \A y \in S : Min(S) <= y
<1>1. PICK x \in S : \A y \in S : ~(<<y, x>> \in OpToRel(<, Nat))
  BY NatLessThanWellFounded, WFMin, Zenon
<1>2. \A y \in S : x \in Nat /\ y \in Nat /\ ~(y < x)
  BY <1>1 DEF OpToRel
<1>3. \E z \in S : \A y \in S : z <= y
  BY <1>2
<1> QED BY <1>3 DEF Min

\* Induction, for a set of numbers.
LEMMA AllNumbers ==
  ASSUME NEW S, 0 \in S, \A n \in Nat : n \in S => n + 1 \in S
  PROVE  \A n \in Nat : n \in S
<1> DEFINE T == {n \in Nat : n \notin S}
<1> SUFFICES ASSUME T # {} PROVE FALSE
  OBVIOUS
<1> DEFINE m == Min(T)
<1>1. m \in T /\ \A y \in T : m <= y
  BY LeastNumber
<1> HIDE DEF m
<1>2. m - 1 \in Nat /\ m - 1 \notin T
  BY <1>1
<1> QED BY <1>1, <1>2

\* Induction, for a set of sequences.
LEMMA AllSequences ==
  ASSUME NEW S, NEW P, <<>> \in P,
         \A q \in Seq(S), x \in S : q \in P => Append(q, x) \in P
  PROVE  \A q \in Seq(S) : q \in P
<1> DEFINE N == {n \in Nat : \A q \in Seq(S) : Len(q) = n => q \in P}
<1>1. 0 \in N
  <2>1. ASSUME NEW q \in Seq(S), Len(q) = 0 PROVE q \in P
    <3>1. q = <<>>
      BY <2>1
    <3> QED BY <3>1
  <2> QED BY <2>1
<1>2. ASSUME NEW n \in Nat, n \in N PROVE n + 1 \in N
  <2>1. ASSUME NEW q \in Seq(S), Len(q) = n + 1 PROVE q \in P
    <3>1. q # <<>>
      BY <2>1
    <3>2. PICK r \in Seq(S), x \in S : q = Append(r, x)
      BY <3>1, SequenceEmptyOrAppend
    <3>3. Len(r) = n
      BY <2>1, <3>2
    <3> QED BY <1>2, <3>2, <3>3
  <2>2. n + 1 \in Nat
    OBVIOUS
  <2> QED BY <2>1, <2>2
<1>3. \A n \in Nat : n \in N
  <2> HIDE DEF N
  <2> QED BY <1>1, <1>2, AllNumbers
<1>4. ASSUME NEW q \in Seq(S) PROVE q \in P
  <2>1. Len(q) \in Nat
    OBVIOUS
  <2> QED BY <1>3, <2>1
<1> QED BY <1>4

----------------------------------------------------------------------------
(* FoldLeft *)

\* Every set of numbers up to n that is not empty has a greatest one.
LEMMA GreatestNumber ==
  ASSUME NEW n \in Nat, NEW S, S \subseteq 1 .. n, S # {}
  PROVE  Max(S) \in S /\ \A y \in S : Max(S) >= y
<1> DEFINE T == {n - y : y \in S}
<1>1. T \subseteq Nat /\ T # {}
  <2>1. ASSUME NEW y \in S PROVE n - y \in Nat
    OBVIOUS
  <2> QED BY <2>1
<1>2. Min(T) \in T /\ \A y \in T : Min(T) <= y
  <2> HIDE DEF T
  <2> QED BY <1>1, LeastNumber
<1>3. PICK x \in S : Min(T) = n - x
  BY <1>2
<1>4. ASSUME NEW y \in S PROVE x >= y
  <2>1. n - y \in T
    OBVIOUS
  <2>2. n - x <= n - y
    BY <1>2, <1>3, <2>1
  <2>3. x \in Nat /\ y \in Nat
    OBVIOUS
  <2> QED BY <2>2, <2>3
<1>5. \E z \in S : \A y \in S : z >= y
  BY <1>4
<1> QED BY <1>5 DEF Max

\* The sets FoldLeft goes through are those of the first numbers.
LEMMA FirstNumbers ==
  ASSUME NEW k \in Nat
  PROVE  Max(1 .. k + 1) = k + 1 /\ (1 .. k + 1) \ {k + 1} = 1 .. k /\ 1 .. k + 1 # {} /\ 1 .. 0 = {}
<1>1. 1 .. k + 1 # {} /\ (1 .. k + 1) \ {k + 1} = 1 .. k /\ 1 .. 0 = {}
  OBVIOUS
<1>2. Max(1 .. k + 1) \in 1 .. k + 1 /\ \A y \in 1 .. k + 1 : Max(1 .. k + 1) >= y
  <2>1. k + 1 \in Nat /\ 1 .. k + 1 \subseteq 1 .. k + 1
    OBVIOUS
  <2> QED BY <1>1, <2>1, GreatestNumber, Zenon
<1>3. k + 1 \in 1 .. k + 1
  OBVIOUS
<1>4. Max(1 .. k + 1) >= k + 1 /\ Max(1 .. k + 1) \in 1 .. k + 1
  BY <1>2, <1>3
<1>5. ASSUME NEW x \in 1 .. k + 1, x >= k + 1 PROVE x = k + 1
  BY <1>5
<1> QED BY <1>1, <1>4, <1>5

\* h is the function of sets that FoldLeft makes for F, up to the n-th element.
FoldsTo(n, h, F, base, seq) ==
  \A s \in SUBSET (1 .. n) :
    h[s] = IF s = {} THEN base ELSE F[h[s \ {Max(s)}]][seq[Max(s)]]

\* There is one.
LEMMA FoldExists ==
  ASSUME NEW A, NEW B, NEW F \in [A -> [B -> A]], NEW base \in A, NEW seq \in Seq(B)
  PROVE  \E h \in [SUBSET (1 .. Len(seq)) -> A] : FoldsTo(Len(seq), h, F, base, seq)
<1> DEFINE N == {n \in Nat : n <= Len(seq) =>
                   \E h \in [SUBSET (1 .. n) -> A] : FoldsTo(n, h, F, base, seq)}
<1>1. Len(seq) \in Nat /\ \A i \in 1 .. Len(seq) : seq[i] \in B
  OBVIOUS
<1>2. 0 \in N
  <2>1. 1 .. 0 = {}
    OBVIOUS
  <2> DEFINE h == [s \in SUBSET {} |-> base]
  <2>2. h \in [SUBSET (1 .. 0) -> A] /\ FoldsTo(0, h, F, base, seq)
    BY <2>1 DEF FoldsTo
  <2> HIDE DEF h
  <2> QED BY <2>2
<1>3. ASSUME NEW n \in Nat, n \in N PROVE n + 1 \in N
  <2> SUFFICES ASSUME n + 1 <= Len(seq)
               PROVE  \E g \in [SUBSET (1 .. n + 1) -> A] : FoldsTo(n + 1, g, F, base, seq)
    <3>1. n + 1 \in Nat
      OBVIOUS
    <3> QED BY <3>1, Zenon
  <2>1. n <= Len(seq) /\ n + 1 \in 1 .. Len(seq)
    BY <1>1
  <2>2. PICK h \in [SUBSET (1 .. n) -> A] : FoldsTo(n, h, F, base, seq)
    BY <1>3, <2>1
  <2> DEFINE g == [s \in SUBSET (1 .. n + 1) |->
                    IF n + 1 \in s THEN F[h[s \ {n + 1}]][seq[n + 1]] ELSE h[s]]
  <2>3. ASSUME NEW s \in SUBSET (1 .. n + 1)
        PROVE  /\ n + 1 \in s => s \ {n + 1} \in SUBSET (1 .. n)
               /\ n + 1 \notin s => s \in SUBSET (1 .. n)
    <3>1. ASSUME NEW x \in 1 .. n + 1, x # n + 1 PROVE x \in 1 .. n
      BY <3>1
    <3> QED BY <3>1, Zenon
  <2>4. seq[n + 1] \in B
    BY <1>1, <2>1
  <2>5. ASSUME NEW s \in SUBSET (1 .. n + 1)
        PROVE  g[s] \in A
    <3>1. CASE n + 1 \in s
      <4>1. h[s \ {n + 1}] \in A
        BY <2>3, <3>1
      <4>2. F[h[s \ {n + 1}]][seq[n + 1]] \in A
        <5> DEFINE a == h[s \ {n + 1}]
                   b == seq[n + 1]
        <5>1. a \in A /\ b \in B
          BY <2>4, <4>1
        <5> HIDE DEF a, b
        <5>2. F[a][b] \in A
          BY <5>1
        <5> QED BY <5>2 DEF a, b
      <4>3. g[s] = F[h[s \ {n + 1}]][seq[n + 1]]
        BY <3>1
      <4> QED BY <4>2, <4>3
    <3>2. CASE n + 1 \notin s
      BY <2>3, <3>2
    <3> QED BY <3>1, <3>2
  <2>6. g \in [SUBSET (1 .. n + 1) -> A]
    BY <2>5
  <2>7. ASSUME NEW s \in SUBSET (1 .. n + 1)
        PROVE  g[s] = IF s = {} THEN base ELSE F[g[s \ {Max(s)}]][seq[Max(s)]]
    <3>1. CASE n + 1 \in s
      <4>1. Max(s) = n + 1
        <5>1. Max(s) \in s /\ Max(s) >= n + 1
          <6>1. n + 1 \in Nat /\ s \subseteq 1 .. n + 1 /\ s # {}
            BY <3>1
          <6> HIDE DEF g
          <6> QED BY <3>1, <6>1, GreatestNumber, Zenon
        <5>2. ASSUME NEW x \in 1 .. n + 1, x >= n + 1 PROVE x = n + 1
          BY <5>2
        <5> QED BY <5>1, <5>2
      <4>2. s \ {n + 1} \in SUBSET (1 .. n + 1) /\ n + 1 \notin s \ {n + 1} /\ s # {}
        BY <3>1
      <4>3. g[s \ {n + 1}] = h[s \ {n + 1}]
        BY <4>2
      <4> QED BY <3>1, <4>1, <4>2, <4>3
    <3>2. CASE n + 1 \notin s /\ s # {}
      <4>1. s \in SUBSET (1 .. n)
        BY <2>3, <3>2
      <4>2. h[s] = F[h[s \ {Max(s)}]][seq[Max(s)]]
        BY <2>2, <3>2, <4>1 DEF FoldsTo
      <4>3. g[s] = h[s] /\ g[s \ {Max(s)}] = h[s \ {Max(s)}]
        BY <3>2
      <4> QED BY <3>2, <4>2, <4>3
    <3>3. CASE s = {}
      <4>1. s \in SUBSET (1 .. n) /\ n + 1 \notin s
        BY <3>3
      <4>2. h[s] = base
        BY <2>2, <3>3, <4>1 DEF FoldsTo
      <4> QED BY <3>3, <4>1, <4>2
    <3> QED BY <3>1, <3>2, <3>3
  <2> HIDE DEF g
  <2> QED BY <2>6, <2>7 DEF FoldsTo
<1>4. Len(seq) \in N
  <2> HIDE DEF N
  <2> QED BY <1>1, <1>2, <1>3, AllNumbers
<1>5. Len(seq) <= Len(seq)
  BY <1>1
<1> QED BY <1>4, <1>5, Zenon

\* The loop that FoldLeft stands for: v[k] is its result after k elements.
Runs(v, F, A, base, seq) ==
  /\ v[0] = base
  /\ \A k \in 0 .. Len(seq) - 1 : v[k] \in A => v[k + 1] = F[v[k]][seq[k + 1]]

\* Another loop does one more round, with x.
OneMore(v, w, F, A, seq, longer, x) ==
  v[Len(seq)] \in A /\ w[Len(longer)] = F[v[Len(seq)]][x]

\* One more element is one more round.
LEMMA RunsAppend ==
  ASSUME NEW A, NEW B, NEW F \in [A -> [B -> A]], NEW base \in A,
         NEW seq \in Seq(B), NEW x \in B, NEW longer, longer = Append(seq, x),
         NEW v, Runs(v, F, A, base, seq),
         NEW w, Runs(w, F, A, base, longer)
  PROVE  OneMore(v, w, F, A, seq, longer, x)
<1> DEFINE n == Len(seq)
           N == {k \in Nat : k <= n => v[k] \in A /\ w[k] = v[k]}
<1>1. /\ n \in Nat /\ Len(longer) = n + 1 /\ longer[n + 1] = x
      /\ \A i \in 1 .. n : longer[i] = seq[i] /\ seq[i] \in B
  BY AppendProperties
<1>2. 0 \in N
  BY DEF Runs
<1>3. ASSUME NEW k \in Nat, k \in N PROVE k + 1 \in N
  <2> SUFFICES ASSUME k + 1 <= n PROVE v[k + 1] \in A /\ w[k + 1] = v[k + 1]
    OBVIOUS
  <2>1. k <= n /\ k \in 0 .. Len(seq) - 1 /\ k \in 0 .. Len(longer) - 1 /\ k + 1 \in 1 .. n
    BY <1>1
  <2>2. v[k] \in A /\ w[k] = v[k]
    BY <1>3, <2>1
  <2>3. v[k + 1] = F[v[k]][seq[k + 1]] /\ w[k + 1] = F[w[k]][longer[k + 1]]
    BY <2>1, <2>2 DEF Runs
  <2>4. longer[k + 1] = seq[k + 1] /\ seq[k + 1] \in B
    BY <1>1, <2>1
  <2> QED BY <2>2, <2>3, <2>4
<1>4. v[n] \in A /\ w[n] = v[n]
  <2>1. n \in N
    <3> HIDE DEF N, n
    <3> QED BY <1>1, <1>2, <1>3, AllNumbers
  <2> QED BY <1>1, <2>1
<1>5. n \in 0 .. Len(longer) - 1
  BY <1>1
<1>6. w[n + 1] = F[w[n]][longer[n + 1]]
  BY <1>4, <1>5 DEF Runs
<1> QED BY <1>1, <1>4, <1>6 DEF OneMore

----------------------------------------------------------------------------
(* FlattenSeq *)

\* f[i] is the concatenation of the first i elements of ss.
FlattensTo(n, ss, f) ==
  \A i \in 1 .. n : f[i] = IF i = 1 THEN ss[i] ELSE f[i - 1] \o ss[i]
Flattens(ss, f) == FlattensTo(Len(ss), ss, f)

\* There is such a function.
LEMMA FlatExists ==
  ASSUME NEW S, NEW ss \in Seq(Seq(S))
  PROVE  \E f \in [1 .. Len(ss) -> Seq(S)] : Flattens(ss, f)
<1> DEFINE N == {n \in Nat :
                  n <= Len(ss) => \E f \in [1 .. n -> Seq(S)] : FlattensTo(n, ss, f)}
<1>1. Len(ss) \in Nat /\ \A i \in 1 .. Len(ss) : ss[i] \in Seq(S)
  OBVIOUS
<1>2. 0 \in N
  <2>1. [i \in 1 .. 0 |-> <<>>] \in [1 .. 0 -> Seq(S)]
    OBVIOUS
  <2>2. FlattensTo(0, ss, [i \in 1 .. 0 |-> <<>>])
    BY DEF FlattensTo
  <2> QED BY <2>1, <2>2
<1>3. ASSUME NEW n \in Nat, n \in N PROVE n + 1 \in N
  <2> SUFFICES ASSUME n + 1 <= Len(ss)
               PROVE  \E f \in [1 .. n + 1 -> Seq(S)] : FlattensTo(n + 1, ss, f)
    OBVIOUS
  <2>1. PICK f \in [1 .. n -> Seq(S)] : FlattensTo(n, ss, f)
    <3>1. n <= Len(ss)
      BY <1>1
    <3> QED BY <1>3, <3>1
  <2> DEFINE last == IF n = 0 THEN ss[1] ELSE f[n] \o ss[n + 1]
             g == [i \in 1 .. n + 1 |-> IF i = n + 1 THEN last ELSE f[i]]
  <2>2. last \in Seq(S)
    <3>1. ss[n + 1] \in Seq(S)
      BY <1>1
    <3>2. CASE n = 0
      BY <3>1, <3>2
    <3>3. CASE n # 0
      <4>1. f[n] \in Seq(S)
        BY <3>3
      <4> QED BY <3>1, <3>3, <4>1, ConcatProperties
    <3> QED BY <3>2, <3>3
  <2> HIDE DEF last
  <2>3. g \in [1 .. n + 1 -> Seq(S)]
    BY <2>2
  <2>4. FlattensTo(n + 1, ss, g)
    <3> SUFFICES ASSUME NEW i \in 1 .. n + 1
                 PROVE  g[i] = IF i = 1 THEN ss[i] ELSE g[i - 1] \o ss[i]
      BY DEF FlattensTo
    <3>1. CASE i = n + 1
      BY <3>1 DEF last
    <3>2. CASE i # n + 1
      <4>1. i \in 1 .. n /\ (i # 1 => i - 1 \in 1 .. n /\ i - 1 # n + 1 /\ i - 1 \in 1 .. n + 1)
        BY <3>2
      <4>2. f[i] = IF i = 1 THEN ss[i] ELSE f[i - 1] \o ss[i]
        BY <2>1, <4>1 DEF FlattensTo
      <4> QED BY <3>2, <4>1, <4>2
    <3> QED BY <3>1, <3>2
  <2> HIDE DEF g
  <2> QED BY <2>3, <2>4
<1>4. Len(ss) \in N
  <2> HIDE DEF N
  <2> QED BY <1>1, <1>2, <1>3, AllNumbers
<1> QED BY <1>1, <1>4 DEF Flattens

\* It is what FlattenSeq computes.
LEMMA FlattenIs ==
  ASSUME NEW S, NEW ss \in Seq(Seq(S)), Len(ss) # 0,
         NEW f \in [1 .. Len(ss) -> Seq(S)], Flattens(ss, f)
  PROVE  FlattenSeq(ss) = f[Len(ss)]
<1> DEFINE Rec(g) == g = [i \in 1 .. Len(ss) |-> IF i = 1 THEN ss[i] ELSE g[i - 1] \o ss[i]]
           h == CHOOSE g : Rec(g)
<1>1. FlattenSeq(ss) = h[Len(ss)]
  BY DEF FlattenSeq
<1>2. Len(ss) \in Nat
  OBVIOUS
<1>3. Rec(f)
  BY DEF Flattens, FlattensTo
<1>4. Rec(h)
  <2> HIDE DEF Rec
  <2> QED BY <1>3
<1> HIDE DEF h
<1> DEFINE N == {n \in Nat : n + 1 <= Len(ss) => h[n + 1] = f[n + 1]}
<1>5. 0 \in N
  BY <1>2, <1>3, <1>4
<1>6. ASSUME NEW n \in Nat, n \in N PROVE n + 1 \in N
  <2> SUFFICES ASSUME (n + 1) + 1 <= Len(ss) PROVE h[(n + 1) + 1] = f[(n + 1) + 1]
    OBVIOUS
  <2> DEFINE i == (n + 1) + 1
  <2>1. i \in 1 .. Len(ss) /\ i # 1 /\ i - 1 = n + 1 /\ n + 1 <= Len(ss)
    BY <1>2
  <2>2. h[i] = h[i - 1] \o ss[i] /\ f[i] = f[i - 1] \o ss[i]
    BY <1>3, <1>4, <2>1
  <2> QED BY <1>6, <2>1, <2>2
<1>7. Len(ss) - 1 \in N
  <2> HIDE DEF N
  <2>1. \A n \in Nat : n \in N
    BY <1>5, <1>6, AllNumbers
  <2>2. Len(ss) - 1 \in Nat
    BY <1>2
  <2> QED BY <2>1, <2>2
<1>8. (Len(ss) - 1) + 1 = Len(ss)
  BY <1>2
<1> QED BY <1>1, <1>2, <1>7, <1>8

\* One more string.
LEMMA FlattenAppend ==
  ASSUME NEW S, NEW ss \in Seq(Seq(S)), NEW x \in Seq(S)
  PROVE  /\ FlattenSeq(ss) \in Seq(S)
         /\ FlattenSeq(Append(ss, x)) = FlattenSeq(ss) \o x
<1> DEFINE tt == Append(ss, x)
           n == Len(ss)
<1>1. /\ tt \in Seq(Seq(S)) /\ Len(tt) = n + 1 /\ n \in Nat
      /\ \A i \in 1 .. n : tt[i] = ss[i]
      /\ tt[n + 1] = x
  BY AppendProperties
<1> HIDE DEF tt
<1>2. PICK f \in [1 .. n + 1 -> Seq(S)] : Flattens(tt, f)
  BY <1>1, FlatExists
<1>3. FlattenSeq(tt) = f[n + 1]
  BY <1>1, <1>2, FlattenIs
<1>4. f[n + 1] = IF n + 1 = 1 THEN x ELSE f[(n + 1) - 1] \o x
  <2>1. n + 1 \in 1 .. Len(tt)
    BY <1>1
  <2>2. f[n + 1] = IF n + 1 = 1 THEN tt[n + 1] ELSE f[(n + 1) - 1] \o tt[n + 1]
    BY <1>2, <2>1 DEF Flattens, FlattensTo
  <2> QED BY <1>1, <2>2
<1>5. CASE n = 0
  <2>1. ss = <<>> /\ FlattenSeq(ss) = <<>>
    BY <1>5 DEF FlattenSeq
  <2>2. FlattenSeq(tt) = x /\ <<>> \o x = x /\ <<>> \in Seq(S)
    BY <1>3, <1>4, <1>5, ConcatEmptySeq, EmptySeq
  <2> QED BY <2>1, <2>2 DEF tt
<1>6. CASE n # 0
  <2> DEFINE g == [i \in 1 .. n |-> f[i]]
  <2>1. g \in [1 .. n -> Seq(S)]
    BY <1>1, <1>2
  <2>2. Flattens(ss, g)
    <3> SUFFICES ASSUME NEW i \in 1 .. n
                 PROVE  g[i] = IF i = 1 THEN ss[i] ELSE g[i - 1] \o ss[i]
      BY DEF Flattens, FlattensTo
    <3>1. i \in 1 .. Len(tt) /\ tt[i] = ss[i] /\ (i # 1 => i - 1 \in 1 .. n)
      BY <1>1
    <3>2. f[i] = IF i = 1 THEN tt[i] ELSE f[i - 1] \o tt[i]
      BY <1>2, <3>1 DEF Flattens, FlattensTo
    <3> QED BY <3>1, <3>2
  <2>3. FlattenSeq(ss) = g[n]
    <3> HIDE DEF g
    <3> QED BY <1>6, <2>1, <2>2, FlattenIs
  <2>4. g[n] = f[n] /\ f[n] \in Seq(S) /\ (n + 1) - 1 = n /\ n + 1 # 1
    BY <1>1, <1>2, <1>6
  <2> QED BY <1>3, <1>4, <2>3, <2>4 DEF tt
<1> QED BY <1>5, <1>6

\* No string, and one.
LEMMA FlattenFew ==
  ASSUME NEW S, NEW x \in Seq(S)
  PROVE  FlattenSeq(<<>>) = <<>> /\ FlattenSeq(<<x>>) = x
<1>1. FlattenSeq(<<>>) = <<>>
  BY DEF FlattenSeq
<1>2. <<>> \in Seq(Seq(S)) /\ Append(<<>>, x) = <<x>>
  BY EmptySeq
<1>3. PICK none \in Seq(Seq(S)) : none = <<>>
  BY <1>2
<1>4. FlattenSeq(Append(none, x)) = FlattenSeq(none) \o x
  BY FlattenAppend
<1>5. <<>> \o x = x
  BY ConcatEmptySeq
<1> QED BY <1>1, <1>2, <1>3, <1>4, <1>5

\* Concatenation of strings is associative.
LEMMA Assoc ==
  ASSUME NEW S, NEW a \in Seq(S), NEW b \in Seq(S), NEW c \in Seq(S)
  PROVE  (a \o b) \o c = a \o (b \o c)
BY ConcatAssociative

\* Two lists of strings.
LEMMA FlattenConcat ==
  ASSUME NEW S, NEW ss \in Seq(Seq(S)), NEW tt \in Seq(Seq(S))
  PROVE  FlattenSeq(ss \o tt) = FlattenSeq(ss) \o FlattenSeq(tt)
<1> DEFINE N == {n \in Nat : \A uu \in Seq(Seq(S)) :
                   Len(uu) = n => FlattenSeq(ss \o uu) = FlattenSeq(ss) \o FlattenSeq(uu)}
<1>0. \A p, q, x \in Seq(S) : (p \o q) \o x = p \o (q \o x)
  BY Assoc
<1>1. \A uu \in Seq(Seq(S)) : FlattenSeq(uu) \in Seq(S)
  BY EmptySeq, FlattenAppend
<1>2. 0 \in N
  <2> SUFFICES ASSUME NEW uu \in Seq(Seq(S)), Len(uu) = 0
               PROVE  FlattenSeq(ss \o uu) = FlattenSeq(ss) \o FlattenSeq(uu)
    OBVIOUS
  <2>1. uu = <<>> /\ FlattenSeq(uu) = <<>>
    BY DEF FlattenSeq
  <2>2. ss \o <<>> = ss /\ FlattenSeq(ss) \o <<>> = FlattenSeq(ss)
    BY <1>1, ConcatEmptySeq
  <2> QED BY <2>1, <2>2
<1>3. ASSUME NEW n \in Nat, n \in N PROVE n + 1 \in N
  <2> SUFFICES ASSUME NEW uu \in Seq(Seq(S)), Len(uu) = n + 1
               PROVE  FlattenSeq(ss \o uu) = FlattenSeq(ss) \o FlattenSeq(uu)
    OBVIOUS
  <2>1. uu # <<>>
    OBVIOUS
  <2>2. PICK vv \in Seq(Seq(S)), x \in Seq(S) : uu = Append(vv, x)
    BY <2>1, SequenceEmptyOrAppend
  <2>3. Len(vv) = n
    BY <2>2
  <2>4. FlattenSeq(ss \o vv) = FlattenSeq(ss) \o FlattenSeq(vv)
    BY <1>3, <2>3
  <2>5. ss \o vv \in Seq(Seq(S)) /\ ss \o uu = Append(ss \o vv, x)
    BY <2>2
  <2>6. /\ FlattenSeq(ss \o uu) = FlattenSeq(ss \o vv) \o x
        /\ FlattenSeq(uu) = FlattenSeq(vv) \o x
    BY <2>2, <2>5, FlattenAppend
  <2>7. (FlattenSeq(ss) \o FlattenSeq(vv)) \o x = FlattenSeq(ss) \o (FlattenSeq(vv) \o x)
    <3> DEFINE p == FlattenSeq(ss)
               q == FlattenSeq(vv)
    <3>1. p \in Seq(S) /\ q \in Seq(S) /\ x \in Seq(S)
      BY <1>1, <2>2
    <3> HIDE DEF p, q
    <3> QED BY <1>0, <3>1, Zenon DEF p, q
  <2> QED BY <2>4, <2>6, <2>7
<1>4. Len(tt) \in N
  <2>1. Len(tt) \in Nat
    OBVIOUS
  <2> HIDE DEF N
  <2> QED BY <1>2, <1>3, <2>1, AllNumbers
<1> QED BY <1>4

----------------------------------------------------------------------------
(* remove_prefix of a list of strings *)

\* The strings of a list, up to a place and from there.
LEMMA SplitAt ==
  ASSUME NEW S, NEW ss \in Seq(Seq(S)), NEW k \in 0 .. Len(ss)
  PROVE  /\ SubSeq(ss, 1, k) \in Seq(Seq(S)) /\ SubSeq(ss, k + 1, Len(ss)) \in Seq(Seq(S))
         /\ FlattenSeq(SubSeq(ss, 1, k)) \in Seq(S)
         /\ FlattenSeq(SubSeq(ss, k + 1, Len(ss))) \in Seq(S)
         /\ FlattenSeq(ss) = FlattenSeq(SubSeq(ss, 1, k)) \o FlattenSeq(SubSeq(ss, k + 1, Len(ss)))
         /\ Len(FlattenSeq(SubSeq(ss, 1, k))) = upTo(ss, k)
<1> DEFINE a == SubSeq(ss, 1, k)
           b == SubSeq(ss, k + 1, Len(ss))
<1>1. a \in Seq(Seq(S)) /\ b \in Seq(Seq(S)) /\ <<>> \in Seq(S)
  OBVIOUS
<1>2. a \o b = ss
  <2>1. SubSeq(ss, 1, k) \o SubSeq(ss, k + 1, Len(ss)) = SubSeq(ss, 1, Len(ss))
    <3>1. 1 \in 1 .. Len(ss) + 1 /\ k \in 1 - 1 .. Len(ss) /\ Len(ss) \in k .. Len(ss)
      OBVIOUS
    <3> QED BY <3>1, ConcatAdjacentSubSeq
  <2> QED BY <2>1, SubSeqFull
<1> HIDE DEF a, b
<1>3. FlattenSeq(a) \in Seq(S) /\ FlattenSeq(b) \in Seq(S)
  BY <1>1, FlattenAppend
<1>4. FlattenSeq(ss) = FlattenSeq(a) \o FlattenSeq(b)
  BY <1>1, <1>2, FlattenConcat
<1> QED BY <1>1, <1>3, <1>4 DEF a, b, upTo

\* The sizes up to each place.
LEMMA UpTo ==
  ASSUME NEW S, NEW ss \in Seq(Seq(S))
  PROVE  /\ \A k \in 0 .. Len(ss) : upTo(ss, k) \in Nat
         /\ upTo(ss, 0) = 0
         /\ upTo(ss, Len(ss)) = Len(FlattenSeq(ss))
         /\ \A k \in 0 .. Len(ss) - 1 : /\ ss[k + 1] \in Seq(S)
                                        /\ upTo(ss, k + 1) = upTo(ss, k) + Len(ss[k + 1])
<1>1. ASSUME NEW k \in 0 .. Len(ss) PROVE upTo(ss, k) \in Nat
  BY SplitAt DEF upTo
<1>2. upTo(ss, 0) = 0
  <2>1. SubSeq(ss, 1, 0) = <<>>
    OBVIOUS
  <2> QED BY <2>1 DEF upTo, FlattenSeq
<1>3. upTo(ss, Len(ss)) = Len(FlattenSeq(ss))
  BY SubSeqFull DEF upTo
<1>4. ASSUME NEW k \in 0 .. Len(ss) - 1
      PROVE  ss[k + 1] \in Seq(S) /\ upTo(ss, k + 1) = upTo(ss, k) + Len(ss[k + 1])
  <2> DEFINE a == SubSeq(ss, 1, k)
             x == ss[k + 1]
  <2>1. a \in Seq(Seq(S)) /\ x \in Seq(S) /\ k \in 0 .. Len(ss)
    OBVIOUS
  <2>2. SubSeq(ss, 1, k + 1) = Append(a, x)
    OBVIOUS
  <2> HIDE DEF a, x
  <2>3. FlattenSeq(Append(a, x)) = FlattenSeq(a) \o x /\ FlattenSeq(a) \in Seq(S)
    BY <2>1, FlattenAppend
  <2>4. Len(FlattenSeq(a) \o x) = Len(FlattenSeq(a)) + Len(x)
    BY <2>1, <2>3, ConcatProperties
  <2> QED BY <2>1, <2>2, <2>3, <2>4 DEF upTo, a, x
<1> QED BY <1>1, <1>2, <1>3, <1>4

\* The loop stops at the first place where it has nothing more to pop.
LEMMA Popped ==
  ASSUME NEW S, NEW ss \in Seq(Seq(S)), NEW n \in Nat
  PROVE  LET p == popped(ss, n)
         IN  /\ p \in 0 .. Len(ss) /\ upTo(ss, p) <= n
             /\ p = Len(ss) \/ n = upTo(ss, p) \/ n < upTo(ss, p + 1)
<1> DEFINE K == {k \in 0 .. Len(ss) : k = Len(ss) \/ n = upTo(ss, k) \/ n < upTo(ss, k + 1)}
           p == Min(K)
<1>1. p \in K /\ \A y \in K : p <= y
  <2>1. Len(ss) \in K /\ K \subseteq Nat
    OBVIOUS
  <2> HIDE DEF K
  <2> QED BY <2>1, LeastNumber
<1>2. popped(ss, n) = p
  BY DEF popped
<1> HIDE DEF p
<1>3. upTo(ss, p) <= n
  <2>1. CASE p = 0
    BY <2>1, UpTo
  <2>2. CASE p # 0
    <3>1. p \in 0 .. Len(ss) /\ Len(ss) \in Nat
      BY <1>1
    <3>2. p - 1 \in 0 .. Len(ss) /\ p - 1 # Len(ss) /\ (p - 1) + 1 = p /\ ~(p <= p - 1)
      BY <2>2, <3>1
    <3>3. p - 1 \notin K
      <4> HIDE DEF K
      <4> QED BY <1>1, <3>2
    <3>4. ~(n < upTo(ss, (p - 1) + 1))
      BY <3>2, <3>3
    <3>5. upTo(ss, p) \in Nat
      BY <3>1, UpTo
    <3> QED BY <3>2, <3>4, <3>5
  <2> QED BY <2>1, <2>2
<1> QED BY <1>1, <1>2, <1>3

\* What is left of a sequence without its first m elements.
Drop(s, m) == SubSeq(s, m + 1, Len(s))

\* It is what the elements say.
LEMMA Dropped ==
  ASSUME NEW S, NEW s \in Seq(S), NEW m \in 0 .. Len(s)
  PROVE  /\ SubSeq(s, m + 1, Len(s)) \in Seq(S)
         /\ Len(SubSeq(s, m + 1, Len(s))) = Len(s) - m
         /\ \A i \in 1 .. Len(s) - m : SubSeq(s, m + 1, Len(s))[i] = s[m + i]
OBVIOUS

\* A sequence is its first element and the others, and a change of the first
\* leaves the others.
LEMMA FirstAndRest ==
  ASSUME NEW S, NEW s \in Seq(S), s # <<>>, NEW x \in S
  PROVE  LET rest == SubSeq(s, 2, Len(s))
         IN  /\ s[1] \in S /\ rest \in Seq(S)
             /\ <<s[1]>> \in Seq(S) /\ <<x>> \in Seq(S)
             /\ s = <<s[1]>> \o rest
             /\ [s EXCEPT ![1] = x] = <<x>> \o rest
<1> DEFINE rest == SubSeq(s, 2, Len(s))
<1>1. Len(s) \in Nat \ {0} /\ 1 \in 1 .. Len(s)
  OBVIOUS
<1>2. s[1] \in S /\ <<x>> \in Seq(S)
  BY <1>1
<1>3. /\ rest \in Seq(S) /\ Len(rest) = Len(s) - 1
      /\ \A i \in 1 .. Len(s) - 1 : rest[i] = s[1 + i]
  <2>1. 1 \in 0 .. Len(s) /\ 1 + 1 = 2
    BY <1>1
  <2> QED BY <2>1, Dropped
<1> HIDE DEF rest
<1>4. ASSUME NEW y \in S
      PROVE  [s EXCEPT ![1] = y] = <<y>> \o rest
  <2> DEFINE u == [s EXCEPT ![1] = y]
             v == <<y>> \o rest
  <2>1. /\ u \in Seq(S) /\ Len(u) = Len(s)
        /\ \A i \in 1 .. Len(s) : u[i] = IF i = 1 THEN y ELSE s[i]
    BY <1>1, ExceptSeq
  <2>2. PICK w \in Seq(S) : w = <<y>> /\ Len(w) = 1 /\ w[1] = y
    <3>1. <<y>> \in Seq(S) /\ Len(<<y>>) = 1 /\ <<y>>[1] = y
      OBVIOUS
    <3> QED BY <3>1, Zenon
  <2>3. rest \in Seq(S)
    BY <1>3
  <2>4. /\ w \o rest \in Seq(S) /\ Len(w \o rest) = 1 + Len(rest)
        /\ \A i \in 1 .. 1 + Len(rest) : (w \o rest)[i] = IF i <= 1 THEN w[i] ELSE rest[i - 1]
    BY <2>2, <2>3, ConcatProperties
  <2>5. v = w \o rest
    BY <2>2
  <2> HIDE DEF u, v
  <2>6. Len(v) = Len(s)
    BY <1>1, <1>3, <2>4, <2>5
  <2>7. ASSUME NEW i \in 1 .. Len(u) PROVE u[i] = v[i]
    <3>1. i \in 1 .. Len(s) /\ i \in 1 .. 1 + Len(rest)
      BY <1>1, <1>3, <2>1
    <3>2. CASE i = 1
      BY <2>1, <2>2, <2>4, <2>5, <3>1, <3>2
    <3>3. CASE i # 1
      <4>1. i - 1 \in 1 .. Len(s) - 1 /\ 1 + (i - 1) = i /\ ~(i <= 1)
        BY <1>1, <3>1, <3>3
      <4>2. v[i] = rest[i - 1]
        BY <2>4, <2>5, <3>1, <4>1
      <4>3. u[i] = s[i]
        BY <2>1, <3>1, <3>3
      <4> QED BY <1>3, <4>1, <4>2, <4>3
    <3> QED BY <3>2, <3>3
  <2>8. u = v
    <3>1. u \in Seq(S) /\ v \in Seq(S) /\ Len(u) = Len(v)
      BY <2>1, <2>4, <2>5, <2>6
    <3> QED BY <2>7, <3>1, SeqEqual
  <2> QED BY <2>8 DEF u, v
<1>5. [s EXCEPT ![1] = s[1]] = s
  OBVIOUS
<1> QED BY <1>2, <1>3, <1>4, <1>5 DEF rest

\* Discarding from the front, when it ends in the middle of a string.
LEMMA CutMiddle ==
  ASSUME NEW S, NEW a \in Seq(S), NEW h \in Seq(S), NEW t \in Seq(S), NEW m \in 0 .. Len(h)
  PROVE  Drop(a \o (h \o t), Len(a) + m) = Drop(h, m) \o t
<1> DEFINE b == h \o t
           all == a \o b
           cut == SubSeq(h, m + 1, Len(h))
           x == SubSeq(all, Len(a) + m + 1, Len(all))
           y == cut \o t
<1>1. Len(a) \in Nat /\ Len(h) \in Nat /\ Len(t) \in Nat
  OBVIOUS
<1>2. /\ b \in Seq(S) /\ Len(b) = Len(h) + Len(t)
      /\ \A i \in 1 .. Len(h) + Len(t) : b[i] = IF i <= Len(h) THEN h[i] ELSE t[i - Len(h)]
  BY ConcatProperties
<1>3. /\ cut \in Seq(S) /\ Len(cut) = Len(h) - m
      /\ \A i \in 1 .. Len(h) - m : cut[i] = h[m + i]
  OBVIOUS
<1> HIDE DEF b, cut
<1>4. /\ all \in Seq(S) /\ Len(all) = Len(a) + Len(b)
      /\ \A i \in 1 .. Len(a) + Len(b) : all[i] = IF i <= Len(a) THEN a[i] ELSE b[i - Len(a)]
  <2>1. b \in Seq(S)
    BY <1>2
  <2> QED BY <2>1, ConcatProperties
<1>5. /\ y \in Seq(S) /\ Len(y) = Len(cut) + Len(t)
      /\ \A i \in 1 .. Len(cut) + Len(t) : y[i] = IF i <= Len(cut) THEN cut[i] ELSE t[i - Len(cut)]
  <2>1. cut \in Seq(S)
    BY <1>3
  <2> QED BY <2>1, ConcatProperties
<1> HIDE DEF all, y
<1>6. Len(all) = Len(a) + (Len(h) + Len(t)) /\ Len(y) = (Len(h) - m) + Len(t)
  BY <1>2, <1>3, <1>4, <1>5
<1>7. /\ x \in Seq(S) /\ Len(x) = (Len(h) + Len(t)) - m
      /\ \A i \in 1 .. (Len(h) + Len(t)) - m : x[i] = all[Len(a) + m + i]
  <2>1. all \in Seq(S)
    BY <1>4
  <2> QED BY <1>1, <1>6, <2>1
<1> HIDE DEF x
<1>8. ASSUME NEW i \in 1 .. Len(x) PROVE x[i] = y[i]
  <2>1. i \in 1 .. (Len(h) + Len(t)) - m
    BY <1>7
  <2>2. x[i] = all[Len(a) + m + i]
    BY <1>7, <2>1
  <2>3. all[Len(a) + m + i] = b[m + i]
    <3>1. /\ Len(a) + m + i \in 1 .. Len(a) + Len(b) /\ ~(Len(a) + m + i <= Len(a))
          /\ (Len(a) + m + i) - Len(a) = m + i
      BY <1>1, <1>2, <2>1
    <3> QED BY <1>4, <3>1
  <2>4. CASE m + i <= Len(h)
    <3>1. m + i \in 1 .. Len(h) + Len(t) /\ i \in 1 .. Len(h) - m
      BY <1>1, <2>1, <2>4
    <3>2. b[m + i] = h[m + i] /\ cut[i] = h[m + i]
      BY <1>2, <1>3, <2>4, <3>1
    <3>3. y[i] = cut[i]
      <4>1. i \in 1 .. Len(cut) + Len(t) /\ i <= Len(cut)
        <5>1. Len(cut) = Len(h) - m
          BY <1>3
        <5> QED BY <1>1, <3>1, <5>1
      <4> QED BY <1>5, <4>1
    <3> QED BY <2>2, <2>3, <3>2, <3>3
  <2>5. CASE ~(m + i <= Len(h))
    <3>1. m + i \in 1 .. Len(h) + Len(t) /\ (m + i) - Len(h) = i - Len(cut)
          /\ i \in 1 .. Len(cut) + Len(t) /\ ~(i <= Len(cut))
      BY <1>1, <1>3, <2>1, <2>5
    <3>2. b[m + i] = t[(m + i) - Len(h)]
      BY <1>2, <2>5, <3>1
    <3>3. y[i] = t[i - Len(cut)]
      BY <1>5, <3>1
    <3> QED BY <2>2, <2>3, <3>1, <3>2, <3>3
  <2> QED BY <2>4, <2>5
<1>9. Len(x) = Len(y)
  BY <1>1, <1>6, <1>7
<1>10. x = y
  BY <1>5, <1>7, <1>8, <1>9, SeqEqual
<1> QED BY <1>10 DEF x, y, all, b, cut, Drop

\* Views show, after remove_prefix(n), what they showed without its first n bytes,
\* and nothing when that was less.
LEMMA ViewsRemove ==
  ASSUME NEW S, NEW views \in Seq(Seq(S)), NEW n \in Nat
  PROVE  /\ views_remove_prefix(views, n) \in Seq(Seq(S))
         /\ FlattenSeq(views_remove_prefix(views, n))
              = SubSeq(FlattenSeq(views), n + 1, Len(FlattenSeq(views)))
<1> DEFINE p == popped(views, n)
           m == within(views, n)
           rest == SubSeq(views, p + 1, Len(views))
           a == FlattenSeq(SubSeq(views, 1, p))
           all == FlattenSeq(views)
<1>1. /\ p \in 0 .. Len(views) /\ upTo(views, p) <= n
      /\ p = Len(views) \/ n = upTo(views, p) \/ n < upTo(views, p + 1)
  BY Popped
<1>2. m = n - upTo(views, p)
  BY DEF within
<1>3. views_remove_prefix(views, n)
        = IF rest = <<>> \/ m = 0 THEN rest ELSE [rest EXCEPT ![1] = SubSeq(@, m + 1, Len(@))]
  BY DEF views_remove_prefix
<1> HIDE DEF p, m
<1>4. /\ rest \in Seq(Seq(S)) /\ a \in Seq(S) /\ FlattenSeq(rest) \in Seq(S)
      /\ all = a \o FlattenSeq(rest) /\ Len(a) = upTo(views, p)
  BY <1>1, SplitAt
<1>5. /\ Len(rest) = Len(views) - p /\ Len(views) \in Nat
      /\ \A i \in 1 .. Len(views) - p : rest[i] = views[p + i]
  <2>1. p \in 0 .. Len(views)
    BY <1>1
  <2> QED BY <2>1, Dropped
<1>6. upTo(views, p) \in Nat /\ upTo(views, Len(views)) = Len(all)
  BY <1>1, UpTo
<1> HIDE DEF rest, a, all
<1>7. CASE p = Len(views)
  <2>1. rest = <<>>
    BY <1>4, <1>5, <1>7
  <2>2. FlattenSeq(rest) = <<>> /\ Len(all) <= n
    BY <1>1, <1>6, <1>7, <2>1 DEF FlattenSeq
  <2>3. SubSeq(all, n + 1, Len(all)) = <<>>
    <3>1. Len(all) \in Nat /\ Len(all) < n + 1
      BY <1>6, <1>7, <2>2
    <3> QED BY <3>1, SubSeqEmpty
  <2> QED BY <1>3, <1>4, <2>1, <2>2, <2>3 DEF all
<1>8. CASE p # Len(views)
  <2> DEFINE h == rest[1]
             tl == SubSeq(rest, 2, Len(rest))
             t == FlattenSeq(tl)
             new == views_remove_prefix(views, n)
  <2>1. Len(rest) \in Nat \ {0} /\ rest # <<>> /\ p \in 0 .. Len(views) - 1
    <3>1. p \in 0 .. Len(views) /\ Len(views) \in Nat /\ Len(rest) = Len(views) - p
      BY <1>1, <1>5
    <3>2. Len(rest) \in Nat \ {0} /\ p \in 0 .. Len(views) - 1
      BY <1>8, <3>1
    <3> QED BY <3>2
  <2>2. /\ h \in Seq(S) /\ tl \in Seq(Seq(S)) /\ <<h>> \in Seq(Seq(S))
        /\ rest = <<h>> \o tl
        /\ \A x \in Seq(S) : <<x>> \in Seq(Seq(S)) /\ [rest EXCEPT ![1] = x] = <<x>> \o tl
    <3>1. PICK T : T = Seq(S)
      OBVIOUS
    <3>2. rest \in Seq(T) /\ <<>> \in T
      BY <1>4, <3>1
    <3>3. /\ h \in T /\ tl \in Seq(T) /\ <<h>> \in Seq(T)
          /\ rest = <<h>> \o tl
          /\ \A x \in T : <<x>> \in Seq(T) /\ [rest EXCEPT ![1] = x] = <<x>> \o tl
      BY <2>1, <3>2, FirstAndRest
    <3> QED BY <3>1, <3>3
  <2>3. upTo(views, p + 1) = upTo(views, p) + Len(h)
    <3>1. h = views[p + 1]
      <4>1. 1 \in 1 .. Len(views) - p
        BY <1>5, <2>1
      <4> QED BY <1>5, <4>1
    <3> HIDE DEF h
    <3> QED BY <2>1, <3>1, UpTo
  <2> HIDE DEF h, tl
  <2>4. t \in Seq(S)
    BY <2>2, FlattenAppend
  <2>5. m \in 0 .. Len(h) /\ n + 1 = Len(a) + m + 1
    <3> DEFINE u == upTo(views, p)
               l == Len(h)
    <3>1. u \in Nat /\ l \in Nat /\ u <= n /\ (n = u \/ n < u + l) /\ m = n - u /\ Len(a) = u
      BY <1>1, <1>2, <1>4, <1>6, <1>8, <2>2, <2>3
    <3> HIDE DEF u, l
    <3>2. m \in 0 .. l /\ n + 1 = Len(a) + m + 1
      BY <3>1
    <3> QED BY <3>2 DEF l
  <2> DEFINE cut == SubSeq(h, m + 1, Len(h))
  <2>6. cut \in Seq(S) /\ <<cut>> \in Seq(Seq(S))
    <3>1. cut \in Seq(S)
      BY <2>2, <2>5, Dropped
    <3> HIDE DEF cut
    <3> QED BY <2>2, <3>1
  <2>7. ASSUME NEW x \in Seq(S)
        PROVE  <<x>> \o tl \in Seq(Seq(S)) /\ FlattenSeq(<<x>> \o tl) = x \o t
    <3>1. PICK one \in Seq(Seq(S)) : one = <<x>>
      BY <2>2
    <3>2. FlattenSeq(one \o tl) = FlattenSeq(one) \o FlattenSeq(tl) /\ one \o tl \in Seq(Seq(S))
      BY <2>2, FlattenConcat, ConcatProperties
    <3>3. FlattenSeq(<<x>>) = x
      BY FlattenFew
    <3> QED BY <3>1, <3>2, <3>3
  <2> HIDE DEF t
  <2>8. SubSeq(all, n + 1, Len(all)) = cut \o t
    <3>1. all = a \o (h \o t) /\ a \in Seq(S)
      BY <1>4, <2>2, <2>7
    <3>2. h \in Seq(S) /\ t \in Seq(S) /\ m \in 0 .. Len(h)
      BY <2>2, <2>4, <2>5
    <3>3. Drop(a \o (h \o t), Len(a) + m) = Drop(h, m) \o t
      BY <3>1, <3>2, CutMiddle
    <3>4. Len(a) + m = n
      <4>1. Len(a) \in Nat
        BY <3>1
      <4>2. m \in Nat /\ m = n - Len(a)
        BY <1>2, <1>4, <3>2
      <4> QED BY <4>1, <4>2
    <3> QED BY <3>1, <3>3, <3>4 DEF Drop
  <2>9. new = <<cut>> \o tl
    <3>1. CASE m = 0
      <4>1. new = rest
        BY <1>3, <3>1
      <4>2. cut = h
        BY <2>2, <3>1, SubSeqFull
      <4> QED BY <2>2, <4>1, <4>2
    <3>2. CASE m # 0
      <4>1. new = [rest EXCEPT ![1] = cut]
        BY <1>3, <2>1, <3>2 DEF h
      <4> HIDE DEF cut, new
      <4> QED BY <2>2, <2>6, <4>1
    <3> QED BY <3>1, <3>2
  <2>10. new \in Seq(Seq(S)) /\ FlattenSeq(new) = cut \o t
    <3> HIDE DEF cut, new
    <3> QED BY <2>6, <2>7, <2>9
  <2> QED BY <2>8, <2>10 DEF all
<1> QED BY <1>7, <1>8

\* What is left to remove in the string where the loop stops is no more than it.
LEMMA WithinFits ==
  ASSUME NEW S, NEW ss \in Seq(Seq(S)), NEW n \in Nat, popped(ss, n) # Len(ss)
  PROVE  /\ popped(ss, n) \in 0 .. Len(ss) - 1
         /\ within(ss, n) \in 0 .. Len(ss[popped(ss, n) + 1])
<1> DEFINE p == popped(ss, n)
           u == upTo(ss, p)
           l == Len(ss[p + 1])
<1>1. p \in 0 .. Len(ss) /\ u <= n /\ (p = Len(ss) \/ n = u \/ n < upTo(ss, p + 1))
  BY Popped
<1>2. within(ss, n) = n - u /\ p # Len(ss)
  BY DEF within
<1> HIDE DEF p
<1>3. p \in 0 .. Len(ss) - 1
  <2>1. Len(ss) \in Nat /\ p \in 0 .. Len(ss)
    BY <1>1
  <2> QED BY <1>2, <2>1
<1>4. ss[p + 1] \in Seq(S) /\ upTo(ss, p + 1) = u + l /\ u \in Nat
  BY <1>1, <1>3, UpTo
<1>5. l \in Nat
  BY <1>4
<1> HIDE DEF u, l
<1>6. within(ss, n) \in 0 .. l
  BY <1>1, <1>2, <1>4, <1>5
<1> QED BY <1>3, <1>6 DEF p, l

----------------------------------------------------------------------------
(* Buffers, and lists of them *)

\* The Buffers of bytes of S: one that holds a storage shows some of it, unless
\* the storage is empty.
Bufs(S) ==
  {b \in [held : BOOLEAN, storage : Seq(S), offset : Nat] :
     b.held => b.offset < Len(b.storage) \/ (b.storage = <<>> /\ b.offset = 0)}

\* What a Buffer shows.
LEMMA Shown ==
  ASSUME NEW S, NEW b \in Bufs(S)
  PROVE  /\ b.held \in BOOLEAN /\ b.storage \in Seq(S) /\ b.offset \in Nat
         /\ b.held => b.offset \in 0 .. Len(b.storage)
         /\ b.held => str(b) = Drop(b.storage, b.offset)
         /\ str(b) \in Seq(S)
         /\ size(b) = IF b.held THEN Len(b.storage) - b.offset ELSE 0
<1>1. b.held \in BOOLEAN /\ b.storage \in Seq(S) /\ b.offset \in Nat
  BY DEF Bufs
<1>2. b.held => b.offset \in 0 .. Len(b.storage)
  <2>1. Len(b.storage) \in Nat /\ (b.storage = <<>> => Len(b.storage) = 0)
    BY <1>1
  <2> QED BY <1>1, <2>1 DEF Bufs
<1>3. CASE b.held
  <2>1. str(b) = Drop(b.storage, b.offset)
    BY <1>3 DEF str, Drop
  <2>2. Drop(b.storage, b.offset) \in Seq(S) /\ Len(Drop(b.storage, b.offset)) = Len(b.storage) - b.offset
    BY <1>1, <1>2, <1>3, Dropped DEF Drop
  <2> QED BY <1>1, <1>2, <1>3, <2>1, <2>2 DEF size
<1>4. CASE ~b.held
  <2>1. str(b) = <<>> /\ <<>> \in Seq(S) /\ Len(<<>>) = 0
    BY <1>4 DEF str
  <2> QED BY <1>1, <1>4, <2>1 DEF size
<1> QED BY <1>3, <1>4

\* A Buffer that is made is one.
LEMMA MadeBuffers ==
  ASSUME NEW S, NEW s \in Seq(S)
  PROVE  /\ NewBuffer(s) \in Bufs(S) /\ str(NewBuffer(s)) = s
         /\ NoBuffer \in Bufs(S) /\ str(NoBuffer) = <<>>
<1>1. Len(s) \in Nat /\ (Len(s) = 0 => s = <<>>) /\ <<>> \in Seq(S)
  OBVIOUS
<1>2. NewBuffer(s) \in Bufs(S) /\ NoBuffer \in Bufs(S)
  BY <1>1 DEF NewBuffer, NoBuffer, Bufs
<1>3. str(NewBuffer(s)) = s
  <2>1. SubSeq(s, 0 + 1, Len(s)) = s
    BY SubSeqFull
  <2> QED BY <2>1 DEF NewBuffer, str
<1> QED BY <1>2, <1>3 DEF NoBuffer, str

\* Discarding twice.
LEMMA DropDrop ==
  ASSUME NEW S, NEW s \in Seq(S), NEW m \in Nat, NEW n \in Nat, m + n <= Len(s)
  PROVE  Drop(Drop(s, m), n) = Drop(s, m + n)
<1> DEFINE d == Drop(s, m)
           x == Drop(d, n)
           y == Drop(s, m + n)
<1>1. Len(s) \in Nat /\ m \in 0 .. Len(s) /\ m + n \in 0 .. Len(s) /\ n \in 0 .. Len(s) - m
  OBVIOUS
<1>2. d \in Seq(S) /\ Len(d) = Len(s) - m /\ \A i \in 1 .. Len(s) - m : d[i] = s[m + i]
  BY <1>1, Dropped DEF Drop
<1>3. /\ y \in Seq(S) /\ Len(y) = Len(s) - (m + n)
      /\ \A i \in 1 .. Len(s) - (m + n) : y[i] = s[(m + n) + i]
  BY <1>1, Dropped DEF Drop
<1> HIDE DEF d
<1>4. /\ x \in Seq(S) /\ Len(x) = Len(d) - n
      /\ \A i \in 1 .. Len(d) - n : x[i] = d[n + i]
  <2>1. d \in Seq(S) /\ n \in 0 .. Len(d)
    BY <1>1, <1>2
  <2> QED BY <2>1, Dropped DEF Drop
<1> HIDE DEF x, y
<1>5. Len(x) = Len(y)
  BY <1>1, <1>2, <1>3, <1>4
<1>6. ASSUME NEW i \in 1 .. Len(x) PROVE x[i] = y[i]
  <2>1. /\ i \in 1 .. Len(d) - n /\ n + i \in 1 .. Len(s) - m /\ i \in 1 .. Len(s) - (m + n)
        /\ m + (n + i) = (m + n) + i
    <3>1. Len(x) = Len(d) - n /\ Len(d) = Len(s) - m
      BY <1>2, <1>4
    <3> QED BY <1>1, <3>1
  <2> QED BY <1>2, <1>3, <1>4, <2>1
<1>7. x = y
  <2>1. x \in Seq(S) /\ y \in Seq(S)
    BY <1>3, <1>4
  <2> QED BY <1>5, <1>6, <2>1, SeqEqual
<1> QED BY <1>7 DEF x, y, d

\* remove_prefix(n) of a Buffer discards n bytes of what it shows, and drops the
\* storage with the last of them.
LEMMA RemoveKeeps ==
  ASSUME NEW S, NEW b \in Bufs(S), NEW n \in 0 .. size(b)
  PROVE  /\ remove_prefix(b, n) \in Bufs(S)
         /\ str(remove_prefix(b, n)) = Drop(str(b), n)
<1> DEFINE c == remove_prefix(b, n)
           o == b.offset
           l == Len(b.storage)
<1>1. /\ b.held \in BOOLEAN /\ b.storage \in Seq(S) /\ o \in Nat /\ l \in Nat
      /\ b.held => o \in 0 .. l /\ str(b) = Drop(b.storage, o) /\ n \in 0 .. l - o
      /\ ~b.held => n = 0 /\ str(b) = <<>>
      /\ b = [held |-> b.held, storage |-> b.storage, offset |-> b.offset]
  <2>1. /\ b.held \in BOOLEAN /\ b.storage \in Seq(S) /\ o \in Nat
        /\ b.held => o \in 0 .. l /\ str(b) = Drop(b.storage, o) /\ n \in 0 .. l - o
        /\ ~b.held => size(b) = 0
    BY Shown
  <2>2. l \in Nat
    BY <2>1
  <2>3. b = [held |-> b.held, storage |-> b.storage, offset |-> b.offset]
    BY DEF Bufs
  <2> QED BY <2>1, <2>2, <2>3 DEF str
<1>2. CASE b.held /\ o + n = l
  <2>1. c = [held |-> FALSE, storage |-> <<>>, offset |-> o + n]
    BY <1>2 DEF remove_prefix
  <2>2. c \in Bufs(S) /\ str(c) = <<>>
    BY <1>1, <1>2, <2>1 DEF Bufs, str
  <2>3. Drop(str(b), n) = Drop(b.storage, l)
    BY <1>1, <1>2, DropDrop
  <2>4. Drop(b.storage, l) = <<>>
    BY <1>1 DEF Drop
  <2> QED BY <2>2, <2>3, <2>4
<1>3. CASE b.held /\ o + n # l
  <2>1. c = [held |-> TRUE, storage |-> b.storage, offset |-> o + n]
    BY <1>1, <1>3 DEF remove_prefix
  <2>2. o + n \in Nat /\ o + n < l
    <3>1. o \in 0 .. l /\ n \in 0 .. l - o /\ l \in Nat
      BY <1>1, <1>3
    <3> QED BY <1>3, <3>1
  <2>3. c \in Bufs(S) /\ str(c) = Drop(b.storage, o + n)
    <3>1. b.storage \in Seq(S) /\ l = Len(b.storage)
      BY <1>1
    <3>2. c.held = TRUE /\ c.storage = b.storage /\ c.offset = o + n
      BY <2>1
    <3>3. str(c) = Drop(b.storage, o + n)
      BY <3>2 DEF str, Drop
    <3>4. c \in [held : BOOLEAN, storage : Seq(S), offset : Nat]
      BY <2>1, <2>2, <3>1
    <3> QED BY <2>2, <3>1, <3>2, <3>3, <3>4 DEF Bufs
  <2>4. Drop(str(b), n) = Drop(b.storage, o + n)
    <3>1. n \in Nat /\ o + n <= l /\ o \in Nat /\ b.storage \in Seq(S)
      BY <1>1, <1>3, <2>2
    <3>2. Drop(Drop(b.storage, o), n) = Drop(b.storage, o + n)
      BY <3>1, DropDrop
    <3> QED BY <1>1, <1>3, <3>2
  <2> QED BY <2>3, <2>4
<1>4. CASE ~b.held
  <2>1. n = 0 /\ str(b) = <<>>
    BY <1>1, <1>4
  <2>2. c = [b EXCEPT !.offset = o + n] /\ o + n = o
    BY <1>1, <1>4, <2>1 DEF remove_prefix
  <2>3. c = b
    BY <2>2 DEF Bufs
  <2>4. Drop(<<>>, 0) = <<>>
    BY DEF Drop
  <2> QED BY <2>1, <2>3, <2>4
<1> QED BY <1>2, <1>3, <1>4

\* The strings of a list.
LEMMA StrsOf ==
  ASSUME NEW S, NEW list \in Seq(Bufs(S))
  PROVE  /\ strs(list) \in Seq(Seq(S)) /\ Len(strs(list)) = Len(list)
         /\ \A i \in 1 .. Len(list) : list[i] \in Bufs(S) /\ strs(list)[i] = str(list[i])
         /\ concatenate(list) \in Seq(S)
<1>1. Len(list) \in Nat /\ DOMAIN list = 1 .. Len(list)
  OBVIOUS
<1>2. ASSUME NEW i \in 1 .. Len(list) PROVE list[i] \in Bufs(S)
  OBVIOUS
<1>3. ASSUME NEW i \in 1 .. Len(list) PROVE str(list[i]) \in Seq(S)
  BY <1>2, Shown
<1>4. strs(list) = [i \in 1 .. Len(list) |-> str(list[i])]
  BY <1>1 DEF strs
<1>5. strs(list) \in Seq(Seq(S)) /\ Len(strs(list)) = Len(list)
  <2>1. strs(list) \in [1 .. Len(list) -> Seq(S)]
    BY <1>3, <1>4
  <2> QED BY <1>1, <2>1
<1>6. concatenate(list) \in Seq(S)
  <2>1. <<>> \in Seq(S)
    OBVIOUS
  <2> QED BY <1>5, <2>1, FlattenAppend DEF concatenate
<1> QED BY <1>2, <1>4, <1>5, <1>6

\* A list does to its Buffers what views do to their strings.
LEMMA ListRemove ==
  ASSUME NEW S, NEW list \in Seq(Bufs(S)), NEW n \in Nat
  PROVE  /\ list_remove_prefix(list, n) \in Seq(Bufs(S))
         /\ strs(list_remove_prefix(list, n)) = views_remove_prefix(strs(list), n)
         /\ concatenate(list_remove_prefix(list, n)) = Drop(concatenate(list), n)
<1> DEFINE ss == strs(list)
           p == popped(ss, n)
           m == within(ss, n)
           left == SubSeq(list, p + 1, Len(list))
           rest == SubSeq(ss, p + 1, Len(ss))
           new == list_remove_prefix(list, n)
<1>1. ss \in Seq(Seq(S)) /\ Len(ss) = Len(list) /\ Len(list) \in Nat
      /\ \A i \in 1 .. Len(list) : list[i] \in Bufs(S) /\ ss[i] = str(list[i])
  BY StrsOf
<1>2. /\ new = IF left = <<>> \/ m = 0 THEN left ELSE [left EXCEPT ![1] = remove_prefix(@, m)]
      /\ views_remove_prefix(ss, n)
           = IF rest = <<>> \/ m = 0 THEN rest ELSE [rest EXCEPT ![1] = SubSeq(@, m + 1, Len(@))]
  BY DEF list_remove_prefix, views_remove_prefix
<1> HIDE DEF ss
<1>3. /\ p \in 0 .. Len(list)
      /\ p # Len(list) => p \in 0 .. Len(list) - 1 /\ m \in 0 .. Len(ss[p + 1])
  <2>1. p \in 0 .. Len(ss)
    BY <1>1, Popped
  <2> QED BY <1>1, <2>1, WithinFits
<1> HIDE DEF p, m
<1>4. /\ left \in Seq(Bufs(S)) /\ Len(left) = Len(list) - p
      /\ \A i \in 1 .. Len(list) - p : left[i] = list[p + i]
  BY <1>3, Dropped
<1>5. /\ rest \in Seq(Seq(S)) /\ Len(rest) = Len(list) - p
      /\ \A i \in 1 .. Len(list) - p : rest[i] = ss[p + i]
  <2>1. p \in 0 .. Len(ss) /\ ss \in Seq(Seq(S)) /\ Len(ss) = Len(list)
    BY <1>1, <1>3
  <2>2. /\ rest \in Seq(Seq(S)) /\ Len(rest) = Len(ss) - p
        /\ \A i \in 1 .. Len(ss) - p : rest[i] = ss[p + i]
    <3> HIDE DEF ss
    <3> QED BY <2>1, Dropped
  <2> QED BY <2>1, <2>2
<1> HIDE DEF left, rest, new
<1>6. strs(left) = rest
  <2>1. left \in Seq(Bufs(S)) /\ rest \in Seq(Seq(S)) /\ Len(left) = Len(rest)
    BY <1>4, <1>5
  <2>2. /\ strs(left) \in Seq(Seq(S)) /\ Len(strs(left)) = Len(left)
        /\ \A i \in 1 .. Len(left) : strs(left)[i] = str(left[i])
    BY <2>1, StrsOf
  <2>3. ASSUME NEW i \in 1 .. Len(strs(left)) PROVE strs(left)[i] = rest[i]
    <3>1. i \in 1 .. Len(list) - p /\ i \in 1 .. Len(left)
      BY <1>4, <2>2
    <3>2. p + i \in 1 .. Len(list)
      BY <1>1, <1>3, <3>1
    <3> QED BY <1>1, <1>4, <1>5, <2>2, <3>1, <3>2
  <2>4. strs(left) \in Seq(Seq(S)) /\ Len(strs(left)) = Len(rest)
    BY <2>1, <2>2
  <2> QED BY <2>1, <2>3, <2>4, SeqEqual
<1>7. new \in Seq(Bufs(S)) /\ strs(new) = views_remove_prefix(ss, n)
  <2>1. left = <<>> <=> rest = <<>>
    BY <1>4, <1>5
  <2>2. CASE left = <<>> \/ m = 0
    BY <1>2, <1>4, <1>6, <2>1, <2>2
  <2>3. CASE left # <<>> /\ m # 0
    <3> DEFINE b == left[1]
               c == remove_prefix(b, m)
    <3>1. Len(left) \in Nat \ {0} /\ 1 \in 1 .. Len(left) /\ 1 \in 1 .. Len(list) - p
          /\ p # Len(list) /\ p + 1 \in 1 .. Len(list)
      <4>1. left \in Seq(Bufs(S)) /\ Len(left) = Len(list) - p
        BY <1>4
      <4>2. Len(left) \in Nat \ {0}
        BY <2>3, <4>1
      <4> QED BY <1>1, <1>3, <4>1, <4>2
    <3>2. b = list[p + 1] /\ b \in Bufs(S) /\ rest[1] = str(b) /\ ss[p + 1] = str(b)
      BY <1>1, <1>4, <1>5, <3>1
    <3> HIDE DEF b
    <3>3. m \in 0 .. size(b)
      BY <1>3, <3>1, <3>2 DEF size
    <3>4. c \in Bufs(S) /\ str(c) = Drop(str(b), m)
      BY <3>2, <3>3, RemoveKeeps
    <3>5. new = [left EXCEPT ![1] = c]
      BY <1>2, <2>3 DEF b
    <3> HIDE DEF c
    <3>6. /\ new \in Seq(Bufs(S)) /\ Len(new) = Len(left)
          /\ \A i \in 1 .. Len(left) : new[i] = IF i = 1 THEN c ELSE left[i]
      BY <1>4, <3>1, <3>4, <3>5, ExceptSeq
    <3> DEFINE d == Drop(str(b), m)
               old == [rest EXCEPT ![1] = d]
    <3>7. views_remove_prefix(ss, n) = old
      BY <1>2, <2>1, <2>3, <3>2 DEF Drop
    <3>8. d \in Seq(S)
      BY <3>4, Shown
    <3> HIDE DEF d
    <3>9. /\ old \in Seq(Seq(S)) /\ Len(old) = Len(rest)
          /\ \A i \in 1 .. Len(rest) : old[i] = IF i = 1 THEN d ELSE rest[i]
      <4>1. rest \in Seq(Seq(S)) /\ 1 \in 1 .. Len(rest)
        BY <1>4, <1>5, <3>1
      <4> QED BY <3>8, <4>1, ExceptSeq
    <3> HIDE DEF old
    <3>10. /\ strs(new) \in Seq(Seq(S)) /\ Len(strs(new)) = Len(left)
           /\ \A i \in 1 .. Len(left) : strs(new)[i] = str(new[i])
      <4>1. new \in Seq(Bufs(S)) /\ Len(new) = Len(left)
        BY <3>6
      <4> QED BY <4>1, StrsOf
    <3>11. ASSUME NEW i \in 1 .. Len(strs(new)) PROVE strs(new)[i] = old[i]
      <4>1. i \in 1 .. Len(left) /\ i \in 1 .. Len(rest)
        BY <1>4, <1>5, <3>10
      <4>2. CASE i = 1
        BY <3>4, <3>6, <3>9, <3>10, <4>1, <4>2 DEF d
      <4>3. CASE i # 1
        <5>1. strs(new)[i] = str(left[i]) /\ old[i] = rest[i]
          BY <3>6, <3>9, <3>10, <4>1, <4>3
        <5>2. strs(left)[i] = str(left[i])
          BY <1>4, <4>1, StrsOf
        <5> QED BY <1>6, <5>1, <5>2
      <4> QED BY <4>2, <4>3
    <3>12. strs(new) = old
      <4>1. strs(new) \in Seq(Seq(S)) /\ old \in Seq(Seq(S)) /\ Len(strs(new)) = Len(old)
        BY <1>4, <1>5, <3>9, <3>10
      <4> QED BY <3>11, <4>1, SeqEqual
    <3> QED BY <3>6, <3>7, <3>12
  <2> QED BY <2>2, <2>3
<1>8. concatenate(new) = Drop(concatenate(list), n)
  <2>1. FlattenSeq(views_remove_prefix(ss, n)) = SubSeq(FlattenSeq(ss), n + 1, Len(FlattenSeq(ss)))
    BY <1>1, ViewsRemove
  <2> QED BY <1>7, <2>1 DEF concatenate, Drop, ss
<1> QED BY <1>7, <1>8 DEF new, ss
=============================================================================
