-------------------------- MODULE EventLoopProofs --------------------------
(***************************************************************************)
(* Proofs about EventLoop, for every set of descriptors and of rules, any  *)
(* number of handles, callbacks that do anything MayServe, MayClose,       *)
(* MayAdd, MayShut, Fickle and Lazy allow, any answers of poll(2) and any  *)
(* peers.                                                                  *)
(***************************************************************************)
EXTENDS EventLoop, SocketProofs, FiniteSetTheorems

----------------------------------------------------------------------------
(* The inductive invariant *)

\* Nobody but a callback writes, and nobody uses a closed wrapper.
Quiet == FDInv /\ ~misused /\ job = NoJob

\* No two wrappers have the same number, not even when one of them is closed.
Apart == \A v, w \in Wrapper :
           handles[v] > 0 /\ handles[w] > 0 /\ fdw[v].fd = fdw[w].fd => v = w

PollRec == [fd : Num, events : SUBSET {"IN", "OUT"},
            revents : SUBSET {"IN", "OUT", "HUP", "ERR", "NVAL"}]

LocalTypes ==
  /\ interest \in [Rule -> BOOLEAN]
  /\ triggered \in BOOLEAN /\ pollError \in BOOLEAN
  /\ something_to_poll \in BOOLEAN
  /\ count_before \in 0 .. UINT_MAX
  /\ served \in 0 .. MaxServes
  /\ result \in {"none", "Success", "Timeout", "Exit", "throw", "busy"}
  /\ pc \in {"idle", "scan", "poll", "dispatch", "callback", "called"}

\* Each rule is in the list at most once and has a handle on its wrapper.
Listed ==
  /\ _rules \in Seq(Rule) /\ IsInjective(_rules)
  /\ Range(_rules) \subseteq added /\ added \subseteq Rule /\ fresh \subseteq added
  /\ \A w \in Wrapper : /\ IsFiniteSet(rulesOn(w))
                        /\ handles[w] >= Cardinality(rulesOn(w))

\* Every rule that is not in the list has been cancelled once or not yet added.
Told == /\ cancelled \in [Rule -> 0 .. 2]
        /\ \A r \in Rule : cancelled[r] = IF r \in added /\ ~inList(r) THEN 1 ELSE 0

\* A pollfd was made for a rule: it asks for nothing but the rule's direction.
For(p, r) == p.fd = wrapper(r).fd /\ p.events \subseteq {RuleDir[r]}

Walking == pc \in {"dispatch", "callback", "called"}

\* Where wait_next_event is in the list and in the vector.
InStep ==
  /\ it \in 1 .. Len(_rules) + 1 /\ idx \in Nat \ {0} /\ pollfds \in Seq(PollRec)
  /\ pc = "idle" => it = 1 /\ idx = 1 /\ pollfds = <<>>
  /\ pc \in {"scan", "poll"} =>
       /\ idx = 1 /\ Len(pollfds) = it - 1
       /\ \A k \in 1 .. Len(pollfds) : For(pollfds[k], _rules[k]) /\ pollfds[k].revents = {}
  /\ pc = "poll" => it = Len(_rules) + 1
  /\ pc \in {"callback", "called"} => it <= Len(_rules)
  /\ Walking =>
       /\ idx + Len(_rules) - it >= Len(pollfds)
       /\ \A k \in it .. Len(_rules) :
            LET i == idx + k - it
            IN  IF i <= Len(pollfds) THEN For(pollfds[i], _rules[k]) ELSE _rules[k] \in fresh

\* How the count of the descriptor that is being served has moved.
counted(c, s) == LET n == c + (s % (UINT_MAX + 1))
                 IN  IF n <= UINT_MAX THEN n ELSE n - (UINT_MAX + 1)
Counted == /\ pc # "called" => served = 0
           /\ pc \in {"callback", "called"} => service_count(_rules[it], fdw) = counted(count_before, served)

LInv == Quiet /\ Apart /\ LocalTypes /\ Listed /\ Told /\ InStep /\ Counted

\* What the bookkeeping of callbacks keeps.
Extras == others \in 0 .. MaxServes /\ spoiled \subseteq Wrapper \X {"IN", "OUT"}

\* The descriptor of r can be used without waiting, or a callback of this call has
\* used it in the direction of r.
Spoiled(r) == <<RuleFd[r], RuleDir[r]>> \in spoiled
Usable(r) == /\ ~wrapper(r).closed
             /\ IF RuleDir[r] = "IN" THEN readable(RuleFd[r]) ELSE writable(RuleFd[r])
Ready(r) == Spoiled(r) \/ Usable(r)

\* What poll has reported is still so when the walk comes to it, and a callback is
\* only called for a rule of which poll has reported something.
StillReady ==
  /\ Walking => \A k \in it .. Len(_rules) :
                  LET i == idx + k - it
                  IN  /\ i <= Len(pollfds) /\ poll_ready(pollfds[i])
                      /\ pc = "called" => k # it
                      => Ready(_rules[k])
  /\ pc = "callback" /\ idx <= Len(pollfds) => poll_ready(pollfds[idx])

----------------------------------------------------------------------------
(* Operators *)

\* What is left of a sequence when one element is erased.
LEMMA Removed ==
  ASSUME NEW S, NEW s \in Seq(S), NEW i \in 1 .. Len(s)
  PROVE  /\ RemoveAt(s, i) \in Seq(S)
         /\ Len(RemoveAt(s, i)) = Len(s) - 1
         /\ \A k \in 1 .. Len(s) - 1 :
              RemoveAt(s, i)[k] = IF k < i THEN s[k] ELSE s[k + 1]
<1> DEFINE a == SubSeq(s, 1, i - 1)
           b == SubSeq(s, i + 1, Len(s))
<1>1. Len(s) \in Nat
  OBVIOUS
<1>2. a \in Seq(S) /\ Len(a) = i - 1 /\ \A k \in 1 .. i - 1 : a[k] = s[k]
  OBVIOUS
<1>3. b \in Seq(S) /\ Len(b) = Len(s) - i /\ \A k \in 1 .. Len(s) - i : b[k] = s[k + i]
  OBVIOUS
<1> HIDE DEF a, b
<1>4. /\ a \o b \in Seq(S) /\ Len(a \o b) = Len(a) + Len(b)
      /\ \A k \in 1 .. Len(a) + Len(b) :
           (a \o b)[k] = IF k <= Len(a) THEN a[k] ELSE b[k - Len(a)]
  <2>1. a \in Seq(S) /\ b \in Seq(S)
    BY <1>2, <1>3
  <2> QED BY <2>1
<1>5. RemoveAt(s, i) = a \o b
  BY DEF RemoveAt, a, b
<1>6. ASSUME NEW k \in 1 .. Len(s) - 1
      PROVE  RemoveAt(s, i)[k] = IF k < i THEN s[k] ELSE s[k + 1]
  <2>1. CASE k < i
    BY <1>1, <1>2, <1>3, <1>4, <1>5, <2>1
  <2>2. CASE k >= i
    <3>1. k - (i - 1) \in 1 .. Len(s) - i /\ (k - (i - 1)) + i = k + 1
      BY <1>1, <2>2
    <3>2. RemoveAt(s, i)[k] = b[k - (i - 1)]
      BY <1>1, <1>2, <1>3, <1>4, <1>5, <2>2
    <3> QED BY <1>3, <2>2, <3>1, <3>2
  <2> QED BY <1>1, <2>1, <2>2
<1>7. Len(a) + Len(b) = Len(s) - 1
  BY <1>1, <1>2, <1>3
<1> QED BY <1>4, <1>5, <1>6, <1>7

\* Where every element is there once, the others stay, each once.
LEMMA RemovedOnce ==
  ASSUME NEW S, NEW s \in Seq(S), NEW i \in 1 .. Len(s), IsInjective(s)
  PROVE  /\ IsInjective(RemoveAt(s, i))
         /\ Range(RemoveAt(s, i)) = Range(s) \ {s[i]}
<1> DEFINE t == RemoveAt(s, i)
<1>1. /\ t \in Seq(S) /\ Len(t) = Len(s) - 1
      /\ \A k \in 1 .. Len(t) : t[k] = IF k < i THEN s[k] ELSE s[k + 1]
  BY Removed
<1> HIDE DEF t
<1>2. DOMAIN s = 1 .. Len(s) /\ DOMAIN t = 1 .. Len(t) /\ Len(s) \in Nat /\ Len(t) \in Nat
  BY <1>1
<1>3. IsInjective(t)
  <2> SUFFICES ASSUME NEW a \in 1 .. Len(t), NEW b \in 1 .. Len(t), t[a] = t[b] PROVE a = b
    BY <1>2 DEF IsInjective
  <2> DEFINE place(k) == IF k < i THEN k ELSE k + 1
  <2>1. t[a] = s[place(a)] /\ t[b] = s[place(b)]
    BY <1>1
  <2>2. place(a) \in 1 .. Len(s) /\ place(b) \in 1 .. Len(s)
    BY <1>1, <1>2
  <2>3. place(a) = place(b)
    BY <1>2, <2>1, <2>2 DEF IsInjective
  <2> QED BY <1>2, <2>3
<1>4. Range(t) = Range(s) \ {s[i]}
  <2>1. ASSUME NEW k \in 1 .. Len(t) PROVE t[k] \in Range(s) /\ t[k] # s[i]
    <3>1. CASE k < i
      <4>1. t[k] = s[k] /\ k \in 1 .. Len(s) /\ k # i
        BY <1>1, <1>2, <3>1
      <4> QED BY <1>2, <4>1 DEF Range, IsInjective
    <3>2. CASE k >= i
      <4>1. t[k] = s[k + 1] /\ k + 1 \in 1 .. Len(s) /\ k + 1 # i
        BY <1>1, <1>2, <3>2
      <4> QED BY <1>2, <4>1 DEF Range, IsInjective
    <3> QED BY <1>2, <3>1, <3>2
  <2>2. ASSUME NEW k \in 1 .. Len(s), s[k] # s[i] PROVE s[k] \in Range(t)
    <3>1. CASE k < i
      <4>1. t[k] = s[k] /\ k \in 1 .. Len(t)
        BY <1>1, <1>2, <3>1
      <4> QED BY <1>2, <4>1 DEF Range
    <3>2. CASE k > i
      <4>1. t[k - 1] = s[k] /\ k - 1 \in 1 .. Len(t)
        BY <1>1, <1>2, <3>2
      <4> QED BY <1>2, <4>1 DEF Range
    <3> QED BY <1>2, <2>2, <3>1, <3>2
  <2> QED BY <1>2, <2>1, <2>2 DEF Range
<1> QED BY <1>3, <1>4 DEF t

\* The same for an element that is put at the end.
LEMMA AppendedOnce ==
  ASSUME NEW S, NEW s \in Seq(S), NEW x \in S, x \notin Range(s), IsInjective(s)
  PROVE  /\ Append(s, x) \in Seq(S) /\ Len(Append(s, x)) = Len(s) + 1
         /\ \A k \in 1 .. Len(s) : Append(s, x)[k] = s[k]
         /\ Append(s, x)[Len(s) + 1] = x
         /\ IsInjective(Append(s, x))
         /\ Range(Append(s, x)) = Range(s) \cup {x}
<1> DEFINE t == Append(s, x)
<1>1. /\ t \in Seq(S) /\ Len(t) = Len(s) + 1
      /\ \A k \in 1 .. Len(s) : t[k] = s[k]
      /\ t[Len(s) + 1] = x
  OBVIOUS
<1> HIDE DEF t
<1>2. DOMAIN s = 1 .. Len(s) /\ DOMAIN t = 1 .. Len(t) /\ Len(s) \in Nat
  BY <1>1
<1>3. \A k \in 1 .. Len(s) : s[k] # x
  BY <1>2 DEF Range
<1>4. IsInjective(t)
  BY <1>1, <1>2, <1>3 DEF IsInjective
<1>5. Range(t) = Range(s) \cup {x}
  <2>1. \A k \in 1 .. Len(t) : t[k] \in Range(s) \cup {x}
    BY <1>1, <1>2 DEF Range
  <2>2. \A k \in 1 .. Len(s) : s[k] \in Range(t)
    BY <1>1, <1>2 DEF Range
  <2>3. x \in Range(t)
    BY <1>1, <1>2 DEF Range
  <2> QED BY <1>2, <2>1, <2>2, <2>3 DEF Range
<1> QED BY <1>1, <1>4, <1>5 DEF t

\* Counting on by one in a width of m.
LEMMA ModNext ==
  ASSUME NEW m \in Nat \ {0}, NEW n \in Nat
  PROVE  /\ n % m \in 0 .. m - 1
         /\ (n + 1) % m = IF n % m = m - 1 THEN 0 ELSE (n % m) + 1
<1> DEFINE q == n \div m
           r == n % m
           q2 == (n + 1) \div m
           r2 == (n + 1) % m
<1>1. q \in Int /\ r \in 0 .. m - 1 /\ n = m * q + r
  OBVIOUS
<1>2. q2 \in Int /\ r2 \in 0 .. m - 1 /\ n + 1 = m * q2 + r2
  OBVIOUS
<1> HIDE DEF q, r, q2, r2
<1>3. m * (q2 - q) = r + 1 - r2
  <2>1. m * (q2 - q) = m * q2 - m * q
    BY <1>1, <1>2
  <2> QED BY <1>1, <1>2, <2>1
<1>4. CASE q2 - q >= 2
  <2>1. m * (q2 - q) >= m + m
    BY <1>1, <1>2, <1>4
  <2> QED BY <1>1, <1>2, <1>3, <2>1
<1>5. CASE q2 - q <= -1
  <2>1. m * (q2 - q) <= -m
    BY <1>1, <1>2, <1>5
  <2> QED BY <1>1, <1>2, <1>3, <2>1
<1>6. CASE q2 - q = 0
  <2>1. m * (q2 - q) = 0
    BY <1>6
  <2> QED BY <1>1, <1>2, <1>3, <2>1 DEF r, r2
<1>7. CASE q2 - q = 1
  <2>1. m * (q2 - q) = m
    BY <1>7
  <2> QED BY <1>1, <1>2, <1>3, <2>1 DEF r, r2
<1> QED BY <1>1, <1>2, <1>4, <1>5, <1>6, <1>7

----------------------------------------------------------------------------
(* The list of rules *)

\* Types that most steps need.
LEMMA LoopFacts ==
  ASSUME LInv
  PROVE  /\ FDInv /\ FDTypes /\ Life /\ Own /\ Ends /\ ~misused /\ job = NoJob
         /\ fdw \in [Wrapper -> FdRec] /\ file \in [Wrapper -> FileRec]
         /\ handles \in [Wrapper -> 0 .. MaxHandles] /\ MaxHandles \in Nat
         /\ kernel \in [Num -> Wrapper \cup {None}]
         /\ outcome \in {"returned", "threw"}
         /\ _rules \in Seq(Rule) /\ Len(_rules) \in Nat /\ DOMAIN _rules = 1 .. Len(_rules)
         /\ it \in 1 .. Len(_rules) + 1 /\ idx \in Nat \ {0}
         /\ pollfds \in Seq(PollRec) /\ Len(pollfds) \in Nat
<1>1. /\ FDInv /\ FDTypes /\ Life /\ Own /\ Ends /\ ~misused /\ job = NoJob
      /\ AllOrThrow
  BY DEF LInv, Quiet, FDInv
<1>2. /\ fdw \in [Wrapper -> FdRec] /\ file \in [Wrapper -> FileRec]
      /\ handles \in [Wrapper -> 0 .. MaxHandles] /\ MaxHandles \in Nat
      /\ kernel \in [Num -> Wrapper \cup {None}]
      /\ outcome \in {"returned", "threw"}
  BY <1>1, FDAssumption DEF FDTypes, FdRec, FileRec, AllOrThrow
<1>3. /\ _rules \in Seq(Rule)
      /\ it \in 1 .. Len(_rules) + 1 /\ idx \in Nat \ {0}
      /\ pollfds \in Seq(PollRec)
  BY DEF LInv, Listed, InStep
<1>4. Len(_rules) \in Nat /\ DOMAIN _rules = 1 .. Len(_rules) /\ Len(pollfds) \in Nat
  BY <1>3
<1> QED BY <1>1, <1>2, <1>3, <1>4

\* A rule in the list has a handle on its wrapper.
LEMMA RuleHolds ==
  ASSUME LInv, NEW r \in Range(_rules)
  PROVE  /\ r \in Rule /\ RuleFd[r] \in Wrapper /\ RuleDir[r] \in {"IN", "OUT"}
         /\ handles[RuleFd[r]] > 0 /\ wrapper(r) \in FdRec /\ wrapper(r).fd \in Num
<1>1. r \in Rule /\ RuleFd[r] \in Wrapper /\ RuleDir[r] \in {"IN", "OUT"}
  BY LoopAssumption DEF LInv, Listed
<1>2. /\ IsFiniteSet(rulesOn(RuleFd[r])) /\ r \in rulesOn(RuleFd[r])
      /\ handles[RuleFd[r]] >= Cardinality(rulesOn(RuleFd[r]))
  BY <1>1 DEF LInv, Listed, rulesOn
<1>3. Cardinality(rulesOn(RuleFd[r])) \in Nat \ {0}
  BY <1>2, FS_EmptySet, FS_CardinalityType
<1>4. handles[RuleFd[r]] > 0
  BY <1>1, <1>2, <1>3, LoopFacts
<1> QED BY <1>1, <1>4, LoopFacts DEF Life, wrapper

\* The rule under the iterator is one of the list.
LEMMA AtIt == ASSUME LInv, it <= Len(_rules)
              PROVE  it \in 1 .. Len(_rules) /\ _rules[it] \in Range(_rules)
  BY LoopFacts DEF Range

\* No wrapper comes to life, and those that live keep their numbers.
Kept == \A v \in Wrapper : handles'[v] > 0 => handles[v] > 0 /\ fdw'[v].fd = fdw[v].fd

\* So they stay apart.
LEMMA KeptApart == ASSUME LInv, Kept PROVE Apart'
  BY DEF LInv, Apart, Kept

\* The list and the handles stay.
LEMMA SameList ==
  ASSUME LInv, UNCHANGED <<_rules, added, cancelled, handles>>, fresh' \subseteq added
  PROVE  Listed' /\ Told'
  BY DEF LInv, Listed, Told, rulesOn, inList

\* add_rule(): one more rule, one more handle.
LEMMA AddStep ==
  ASSUME LInv, NEW r \in Rule, add_rule(r)
  PROVE  /\ Quiet' /\ Listed' /\ Told' /\ Kept
         /\ _rules' = Append(_rules, r) /\ r \notin Range(_rules)
<1> DEFINE w == RuleFd[r]
<1>1. w \in Wrapper /\ r \notin added /\ r \notin Range(_rules)
  BY LoopAssumption DEF add_rule, LInv, Listed
<1>2. /\ _rules' = Append(_rules, r) /\ added' = added \cup {r}
      /\ handles' = [handles EXCEPT ![w] = @ + 1]
      /\ UNCHANGED <<fdw, kernel, file, job, outcome, misused, cancelled>>
      /\ fresh' \subseteq added'
  BY DEF add_rule, history, services, LInv, Listed
<1>3. \A v \in Wrapper : IsFiniteSet(rulesOn(v)) /\ handles[v] >= Cardinality(rulesOn(v))
                         /\ Cardinality(rulesOn(v)) \in Nat
  BY FS_CardinalityType DEF LInv, Listed
<1>4. handles[w] > 0 /\ handles[w] < MaxHandles
  BY <1>1, <1>3, LoopFacts DEF add_rule, appHas
<1>5. Quiet'
  BY <1>1, <1>2, <1>4, LoopFacts, DuplicateInv DEF Quiet
<1>6. /\ _rules' \in Seq(Rule) /\ IsInjective(_rules')
      /\ Range(_rules') = Range(_rules) \cup {r}
  BY <1>1, <1>2, AppendedOnce DEF LInv, Listed
<1>7. ASSUME NEW v \in Wrapper
      PROVE  IsFiniteSet(rulesOn(v))' /\ handles'[v] >= Cardinality(rulesOn(v))'
  <2> DEFINE S == rulesOn(v)
             T == rulesOn(v)'
  <2>1. IsFiniteSet(S) /\ handles[v] >= Cardinality(S) /\ Cardinality(S) \in Nat
    BY <1>3
  <2>2. CASE v = w
    <3>1. T = S \cup {r} /\ r \notin S
      BY <1>1, <1>6, <2>2 DEF rulesOn
    <3>2. handles'[v] = handles[v] + 1
      BY <1>2, <2>2, LoopFacts
    <3> HIDE DEF S, T
    <3>3. IsFiniteSet(T) /\ Cardinality(T) = Cardinality(S) + 1
      BY <2>1, <3>1, FS_AddElement
    <3>4. handles'[v] >= Cardinality(T)
      BY <2>1, <3>2, <3>3, LoopFacts
    <3> QED BY <3>3, <3>4 DEF T
  <2>3. CASE v # w
    <3>1. T = S
      BY <1>6, <2>3 DEF rulesOn
    <3>2. handles'[v] = handles[v]
      BY <1>2, <2>3, LoopFacts
    <3> QED BY <2>1, <3>1, <3>2
  <2> QED BY <2>2, <2>3
<1>8. Listed'
  BY <1>2, <1>6, <1>7 DEF LInv, Listed
<1>9. Told'
  BY <1>1, <1>2, <1>6 DEF LInv, Told, inList
<1>10. Kept
  BY <1>1, <1>2, <1>4, LoopFacts DEF Kept
<1> QED BY <1>1, <1>2, <1>5, <1>8, <1>9, <1>10

\* cancel() and erase(): the rule goes, with its handle and perhaps the wrapper,
\* but not a wrapper that another rule of the list is on.
LEMMA CancelStep ==
  ASSUME LInv, it <= Len(_rules), cancelRule(_rules[it]), UNCHANGED <<added, fresh>>
  PROVE  /\ Quiet' /\ Listed' /\ Told' /\ Kept
         /\ _rules' \in Seq(Rule) /\ Len(_rules') = Len(_rules) - 1
         /\ \A k \in 1 .. Len(_rules') : _rules'[k] = IF k < it THEN _rules[k] ELSE _rules[k + 1]
         /\ \A q \in Range(_rules') : /\ q \in Range(_rules) /\ handles'[RuleFd[q]] > 0
                                      /\ fdw'[RuleFd[q]] = fdw[RuleFd[q]]
         /\ \A v \in Wrapper : handles'[v] > 0 => fdw'[v] = fdw[v]
<1> DEFINE r == _rules[it]
           w == RuleFd[r]
<1>1. it \in 1 .. Len(_rules) /\ r \in Range(_rules)
  BY AtIt
<1>2. r \in Rule /\ w \in Wrapper /\ handles[w] > 0
  BY <1>1, RuleHolds
<1>3. /\ cancelled' = [cancelled EXCEPT ![r] = min2(@ + 1, 2)]
      /\ _rules' = RemoveAt(_rules, it)
      /\ destroy(w)
      /\ UNCHANGED <<job, outcome, misused, added, fresh>>
  BY DEF cancelRule
<1>4. /\ _rules' \in Seq(Rule) /\ Len(_rules') = Len(_rules) - 1
      /\ \A k \in 1 .. Len(_rules) - 1 :
           _rules'[k] = IF k < it THEN _rules[k] ELSE _rules[k + 1]
  BY <1>1, <1>3, Removed, LoopFacts
<1>5. IsInjective(_rules') /\ Range(_rules') = Range(_rules) \ {r}
  BY <1>1, <1>3, RemovedOnce DEF LInv, Listed
<1>6. /\ handles' = [handles EXCEPT ![w] = @ - 1]
      /\ fdw' = IF handles[w] > 1 THEN fdw ELSE [fdw EXCEPT ![w] = Freed]
  BY <1>3 DEF destroy
<1>7. Quiet'
  <2> HIDE DEF r, w
  <2>1. /\ FDInv /\ ~misused /\ job = NoJob /\ UNCHANGED <<job, misused>>
        /\ outcome' \in {"returned", "threw"} /\ misused' \in BOOLEAN
    BY <1>3, LoopFacts DEF FDTypes
  <2>2. FDInv'
    BY <1>2, <1>3, <2>1, DestroyInv
  <2> QED BY <2>1, <2>2 DEF Quiet
<1> HIDE DEF r, w
<1>8. ASSUME NEW v \in Wrapper
      PROVE  IsFiniteSet(rulesOn(v))' /\ handles'[v] >= Cardinality(rulesOn(v))'
  <2> DEFINE S == rulesOn(v)
             T == rulesOn(v)'
  <2>1. IsFiniteSet(S) /\ handles[v] >= Cardinality(S) /\ Cardinality(S) \in Nat
    BY FS_CardinalityType DEF LInv, Listed
  <2>2. CASE v = w
    <3>1. T = S \ {r} /\ r \in S
      BY <1>1, <1>5, <2>2 DEF rulesOn, w
    <3>2. handles'[v] = handles[v] - 1
      BY <1>2, <1>6, <2>2, LoopFacts
    <3> HIDE DEF S, T
    <3>3. IsFiniteSet(T) /\ Cardinality(T) = Cardinality(S) - 1
      BY <2>1, <3>1, FS_RemoveElement
    <3>4. handles'[v] >= Cardinality(T)
      BY <2>1, <3>2, <3>3, LoopFacts
    <3> QED BY <3>3, <3>4 DEF T
  <2>3. CASE v # w
    <3>1. T = S
      BY <1>5, <2>3 DEF rulesOn, w
    <3>2. handles'[v] = handles[v]
      BY <1>2, <1>6, <2>3, LoopFacts
    <3> QED BY <2>1, <3>1, <3>2
  <2> QED BY <2>2, <2>3
<1>9. Listed'
  BY <1>3, <1>4, <1>5, <1>8 DEF LInv, Listed
<1>10. Told'
  <2>1. cancelled[r] = 0 /\ r \in added
    BY <1>1, <1>2 DEF LInv, Told, Listed, inList
  <2>2. cancelled' = [cancelled EXCEPT ![r] = 1]
    BY <1>3, <2>1 DEF min2
  <2> QED BY <1>2, <1>3, <1>5, <2>1, <2>2 DEF LInv, Told, inList
<1>11. \A v \in Wrapper : handles'[v] > 0 => fdw'[v] = fdw[v]
  <2> SUFFICES ASSUME NEW v \in Wrapper, handles'[v] > 0 PROVE fdw'[v] = fdw[v]
    OBVIOUS
  <2>1. CASE v = w
    <3>1. handles'[v] = handles[w] - 1 /\ handles[w] \in Nat
      BY <1>2, <1>6, <2>1, LoopFacts
    <3> QED BY <1>6, <3>1
  <2>2. CASE v # w
    BY <1>6, <2>2, LoopFacts
  <2> QED BY <2>1, <2>2
<1>12. ASSUME NEW q \in Range(_rules')
       PROVE  /\ q \in Range(_rules) /\ handles'[RuleFd[q]] > 0
              /\ fdw'[RuleFd[q]] = fdw[RuleFd[q]]
  <2>1. q \in Range(_rules) /\ RuleFd[q] \in Wrapper
    BY <1>5, RuleHolds
  <2> DEFINE T == rulesOn(RuleFd[q])'
  <2>2. IsFiniteSet(T) /\ q \in T /\ handles'[RuleFd[q]] >= Cardinality(T)
    BY <1>8, <2>1 DEF rulesOn
  <2> HIDE DEF T
  <2>3. Cardinality(T) \in Nat \ {0}
    BY <2>2, FS_EmptySet, FS_CardinalityType
  <2>4. handles'[RuleFd[q]] \in Int
    BY <1>2, <1>6, <2>1, LoopFacts
  <2>5. handles'[RuleFd[q]] > 0
    BY <2>2, <2>3, <2>4
  <2> QED BY <1>11, <2>1, <2>5
<1>13. Kept
  BY <1>2, <1>6, <1>11, LoopFacts DEF Kept
<1> QED BY <1>4, <1>7, <1>9, <1>10, <1>11, <1>12, <1>13, LoopFacts

----------------------------------------------------------------------------
(* The place in the walk *)

\* A step that leaves the list, the vector and both indices alone.
LEMMA SamePlace ==
  ASSUME LInv, UNCHANGED <<_rules, it, idx, pollfds, handles>>, Kept, fresh \subseteq fresh',
         \/ pc' = pc
         \/ Walking /\ Walking' /\ it <= Len(_rules)
  PROVE  InStep'
<1>1. \A k \in 1 .. Len(_rules) : wrapper(_rules[k])'.fd = wrapper(_rules[k]).fd
  <2> SUFFICES ASSUME NEW k \in 1 .. Len(_rules)
               PROVE  fdw'[RuleFd[_rules[k]]].fd = fdw[RuleFd[_rules[k]]].fd
    BY DEF wrapper
  <2>1. _rules[k] \in Range(_rules)
    BY LoopFacts DEF Range
  <2> QED BY <2>1, RuleHolds DEF Kept
<1>2. /\ it' \in 1 .. Len(_rules') + 1 /\ idx' \in Nat \ {0} /\ pollfds' \in Seq(PollRec)
      /\ Len(_rules) \in Nat /\ it \in Nat \ {0}
  BY LoopFacts
<1>3. /\ pc' = "idle" => it' = 1 /\ idx' = 1 /\ pollfds' = <<>>
      /\ pc' = "poll" => it' = Len(_rules') + 1
      /\ pc' \in {"callback", "called"} => it' <= Len(_rules')
      /\ pc' \in {"scan", "poll"} => idx' = 1 /\ Len(pollfds') = it' - 1
      /\ Walking' => Walking /\ idx' + Len(_rules') - it' >= Len(pollfds')
  BY DEF LInv, InStep, Walking
<1>4. ASSUME pc' \in {"scan", "poll"}, NEW k \in 1 .. Len(pollfds)
      PROVE  For(pollfds[k], _rules[k])' /\ pollfds[k].revents = {}
  <2>1. k \in 1 .. Len(_rules) /\ pc \in {"scan", "poll"}
    BY <1>2, <1>3, <1>4 DEF Walking
  <2>2. For(pollfds[k], _rules[k]) /\ pollfds[k].revents = {}
    BY <2>1 DEF LInv, InStep
  <2> QED BY <1>1, <2>1, <2>2 DEF For
<1>5. ASSUME Walking', NEW k \in it .. Len(_rules)
      PROVE  IF idx + k - it <= Len(pollfds) THEN For(pollfds[idx + k - it], _rules[k])'
                                             ELSE _rules[k] \in fresh'
  <2>1. k \in 1 .. Len(_rules) /\ Walking
    BY <1>2, <1>3, <1>5
  <2>2. IF idx + k - it <= Len(pollfds) THEN For(pollfds[idx + k - it], _rules[k])
                                        ELSE _rules[k] \in fresh
    BY <2>1 DEF LInv, InStep
  <2> QED BY <1>1, <2>1, <2>2 DEF For
<1> QED BY <1>2, <1>3, <1>4, <1>5 DEF InStep

\* The call returns or throws.
LEMMA Returned ==
  ASSUME LInv, NEW x \in {"none", "Success", "Timeout", "Exit", "throw", "busy"}, Return(x),
         UNCHANGED _rules, served' = 0
  PROVE  /\ InStep' /\ Counted' /\ pc' = "idle"
         /\ result' \in {"none", "Success", "Timeout", "Exit", "throw", "busy"}
         /\ something_to_poll' \in BOOLEAN /\ count_before' \in 0 .. UINT_MAX
<1>1. /\ it' = 1 /\ idx' = 1 /\ pollfds' = <<>> /\ pc' = "idle" /\ result' = x
      /\ something_to_poll' = FALSE /\ count_before' = 0
  BY DEF Return
<1>2. /\ it' \in 1 .. Len(_rules') + 1 /\ pollfds' \in Seq(PollRec)
      /\ something_to_poll' \in BOOLEAN /\ count_before' \in 0 .. UINT_MAX
  <2>1. Len(_rules) \in Nat /\ UINT_MAX \in Nat
    BY LoopFacts, FDAssumption
  <2>2. it' \in 1 .. Len(_rules') + 1 /\ count_before' \in 0 .. UINT_MAX
    BY <1>1, <2>1
  <2>3. pollfds' \in Seq(PollRec)
    BY <1>1
  <2>4. something_to_poll' \in BOOLEAN
    BY <1>1
  <2> QED BY <2>2, <2>3, <2>4
<1> QED BY <1>1, <1>2 DEF InStep, Counted, Walking

\* A step that is none of the descriptors'.
LEMMA StillQuiet == ASSUME LInv, UNCHANGED fdVars PROVE Quiet' /\ Apart' /\ Kept
<1>1. FDInv'
  BY LoopFacts, FDStutter
<1>2. UNCHANGED <<fdw, handles, job, misused>>
  BY DEF fdVars
<1> QED BY <1>1, <1>2 DEF LInv, Quiet, Apart, Kept

----------------------------------------------------------------------------
(* wait_next_event *)

\* The call begins.
LEMMA CallKeeps == ASSUME LInv, Call PROVE LInv'
<1>1. /\ pc = "idle" /\ pc' = "scan" /\ result' = "none" /\ triggered' = FALSE
      /\ pollError' = FALSE /\ fresh' = {} /\ UNCHANGED fdVars
      /\ UNCHANGED <<_rules, interest, added, cancelled, served>>
      /\ UNCHANGED <<it, idx, pollfds, something_to_poll, count_before>>
  BY DEF Call, locals, services
<1>2. Quiet' /\ Apart'
  BY <1>1, StillQuiet
<1>3. Listed' /\ Told'
  BY <1>1, SameList DEF fdVars
<1>4. it = 1 /\ idx = 1 /\ pollfds = <<>>
  BY <1>1 DEF LInv, InStep
<1>5. InStep'
  BY <1>1, <1>4, LoopFacts DEF InStep, Walking
<1>6. LocalTypes' /\ Counted'
  BY <1>1 DEF LInv, LocalTypes, Counted
<1> QED BY <1>2, <1>3, <1>5, <1>6 DEF LInv

\* A rule that is defunct is cancelled before polling.
LEMMA ScanCancels ==
  ASSUME LInv, pc = "scan", it <= Len(_rules), cancelRule(_rules[it]),
         UNCHANGED <<locals, pollError>>, UNCHANGED <<app, pc, result>>
  PROVE  LInv'
<1>1. /\ UNCHANGED <<it, idx, pollfds, something_to_poll, count_before>>
      /\ UNCHANGED <<interest, added, fresh, pc, result, pollError, served>> /\ triggered' = TRUE
  BY DEF locals, app, cancelRule, services
<1>2. /\ Quiet' /\ Listed' /\ Told' /\ Kept
      /\ _rules' \in Seq(Rule) /\ Len(_rules') = Len(_rules) - 1
      /\ \A k \in 1 .. Len(_rules') : _rules'[k] = IF k < it THEN _rules[k] ELSE _rules[k + 1]
      /\ \A q \in Range(_rules') : fdw'[RuleFd[q]] = fdw[RuleFd[q]]
  BY <1>1, CancelStep
<1>3. Apart'
  BY <1>2, KeptApart
<1>4. it \in 1 .. Len(_rules) /\ Len(pollfds) = it - 1 /\ idx = 1 /\ Len(_rules) \in Nat
      /\ pollfds \in Seq(PollRec)
  BY AtIt, LoopFacts DEF LInv, InStep
<1>5. ASSUME NEW k \in 1 .. Len(pollfds)
      PROVE  For(pollfds[k], _rules[k])' /\ pollfds[k].revents = {}
  <2>1. k \in 1 .. Len(_rules') /\ k < it
    BY <1>2, <1>4
  <2>2. _rules'[k] = _rules[k] /\ _rules'[k] \in Range(_rules')
    BY <1>2, <2>1 DEF Range
  <2>3. For(pollfds[k], _rules[k]) /\ pollfds[k].revents = {}
    BY DEF LInv, InStep
  <2> QED BY <1>1, <1>2, <2>2, <2>3 DEF For, wrapper
<1>6. InStep'
  BY <1>1, <1>2, <1>4, <1>5 DEF InStep, Walking
<1>7. LocalTypes' /\ Counted'
  BY <1>1 DEF LInv, LocalTypes, Counted
<1> QED BY <1>2, <1>3, <1>6, <1>7 DEF LInv

\* What a rule is polled for.
LEMMA EntryType ==
  ASSUME LInv, NEW r \in Range(_rules)
  PROVE  entry(r) \in PollRec /\ For(entry(r), r) /\ entry(r).revents = {}
<1>1. r \in Rule /\ RuleDir[r] \in {"IN", "OUT"} /\ wrapper(r).fd \in Num
  BY RuleHolds
<1> QED BY <1>1 DEF entry, PollRec, For

\* Every other rule gets its pollfd.
LEMMA ScanPushes ==
  ASSUME LInv, pc = "scan", it <= Len(_rules), pollfds' = pushed(_rules[it]),
         something_to_poll' = (something_to_poll \/ interest[_rules[it]]), it' = it + 1,
         UNCHANGED <<fdVars, _rules, history, idx, count_before, spoiled>>,
         UNCHANGED <<app, pc, result>>
  PROVE  LInv'
<1> DEFINE r == _rules[it]
           e == entry(r)
<1>1. /\ UNCHANGED fdVars /\ UNCHANGED <<_rules, idx, count_before>>
      /\ UNCHANGED <<interest, added, fresh, pc, result>>
      /\ UNCHANGED <<cancelled, triggered, pollError, served>>
      /\ pollfds' = Append(pollfds, e)
  BY DEF history, services, app, pushed
<1>2. Quiet' /\ Apart' /\ Kept
  BY <1>1, StillQuiet
<1>3. Listed' /\ Told'
  BY <1>1, SameList DEF fdVars, LInv, Listed
<1>4. /\ it \in 1 .. Len(_rules) /\ Len(pollfds) = it - 1 /\ idx = 1 /\ Len(_rules) \in Nat
      /\ pollfds \in Seq(PollRec) /\ r \in Range(_rules) /\ r \in Rule
  BY AtIt, LoopFacts, RuleHolds DEF LInv, InStep
<1>5. e \in PollRec /\ For(e, r) /\ e.revents = {}
  BY <1>4, EntryType
<1> HIDE DEF e
<1>6. /\ pollfds' \in Seq(PollRec) /\ Len(pollfds') = Len(pollfds) + 1
      /\ \A k \in 1 .. Len(pollfds) : pollfds'[k] = pollfds[k]
      /\ pollfds'[Len(pollfds) + 1] = e
  BY <1>1, <1>4, <1>5
<1>7. ASSUME NEW k \in 1 .. Len(pollfds')
      PROVE  For(pollfds[k], _rules[k])' /\ pollfds'[k].revents = {}
  <2>1. For(pollfds'[k], _rules[k]) /\ pollfds'[k].revents = {}
    <3>1. CASE k <= Len(pollfds)
      <4>1. k \in Nat \ {0} /\ Len(pollfds) \in Nat
        BY <1>4, <1>6
      <4>2. k \in 1 .. Len(pollfds)
        BY <3>1, <4>1
      <4>3. pollfds'[k] = pollfds[k]
        BY <1>6, <4>2
      <4>4. For(pollfds[k], _rules[k]) /\ pollfds[k].revents = {}
        BY <4>2 DEF LInv, InStep
      <4> QED BY <4>3, <4>4
    <3>2. CASE k = it
      BY <1>4, <1>5, <1>6, <3>2
    <3> QED BY <1>4, <1>6, <3>1, <3>2
  <2> QED BY <1>1, <2>1 DEF For, wrapper, fdVars
<1>8. InStep'
  BY <1>1, <1>4, <1>6, <1>7 DEF InStep, Walking
<1>9. something_to_poll' \in BOOLEAN
  BY <1>4 DEF LInv, LocalTypes
<1>10. LocalTypes' /\ Counted'
  BY <1>1, <1>9 DEF LInv, LocalTypes, Counted
<1> QED BY <1>2, <1>3, <1>8, <1>10 DEF LInv

\* One rule is scanned.
LEMMA ScanKeeps == ASSUME LInv, Scan PROVE LInv'
  BY ScanCancels, ScanPushes DEF Scan

\* The list has been scanned.
LEMMA ScanEndsKeeps == ASSUME LInv, ScanEnds PROVE LInv'
<1>1. /\ pc = "scan" /\ it > Len(_rules) /\ UNCHANGED fdVars
      /\ UNCHANGED <<_rules, interest, added, fresh, cancelled, triggered, pollError, served>>
  BY DEF ScanEnds, app, history, services
<1>2. Quiet' /\ Apart' /\ Kept
  BY <1>1, StillQuiet
<1>3. Listed' /\ Told'
  BY <1>1, SameList DEF fdVars, LInv, Listed
<1>4. served = 0
  BY <1>1 DEF LInv, Counted
<1>5. CASE Return("Exit")
  <2>1. /\ InStep' /\ Counted' /\ pc' = "idle"
        /\ result' \in {"none", "Success", "Timeout", "Exit", "throw", "busy"}
        /\ something_to_poll' \in BOOLEAN /\ count_before' \in 0 .. UINT_MAX
    BY <1>1, <1>4, <1>5, Returned
  <2>2. LocalTypes'
    BY <1>1, <2>1 DEF LInv, LocalTypes
  <2> QED BY <1>2, <1>3, <2>1, <2>2 DEF LInv
<1>6. CASE pc' = "poll" /\ UNCHANGED <<locals, result>>
  <2>1. UNCHANGED <<it, idx, pollfds, something_to_poll, count_before, result>>
    BY <1>6 DEF locals
  <2>2. it = Len(_rules) + 1
    BY <1>1, LoopFacts
  <2>3. InStep'
    BY <1>1, <1>6, <2>1, <2>2 DEF LInv, InStep, Walking, For, wrapper, fdVars
  <2>4. LocalTypes' /\ Counted'
    BY <1>1, <1>4, <1>6, <2>1 DEF LInv, LocalTypes, Counted
  <2> QED BY <1>2, <1>3, <2>3, <2>4 DEF LInv
<1> QED BY <1>5, <1>6 DEF ScanEnds

\* What poll(2) may say of a pollfd, and what it means for its rule.
LEMMA PolledType ==
  ASSUME LInv, NEW p \in PollRec
  PROVE  polled(p) \in SUBSET {"IN", "OUT", "HUP", "ERR", "NVAL"}
<1>1. p.events \in SUBSET {"IN", "OUT"}
  BY DEF PollRec
<1> QED BY <1>1 DEF polled

\* A vector whose revents have been filled in asks the same of the same numbers.
LEMMA Reported ==
  ASSUME LInv, pollfds' = [k \in DOMAIN pollfds |->
                             [pollfds[k] EXCEPT !.revents = polled(pollfds[k])]]
  PROVE  /\ pollfds' \in Seq(PollRec) /\ Len(pollfds') = Len(pollfds)
         /\ \A k \in 1 .. Len(pollfds) : /\ pollfds'[k].fd = pollfds[k].fd
                                         /\ pollfds'[k].events = pollfds[k].events
                                         /\ pollfds'[k].revents = polled(pollfds[k])
<1>1. DOMAIN pollfds = 1 .. Len(pollfds) /\ Len(pollfds) \in Nat
      /\ \A k \in 1 .. Len(pollfds) : pollfds[k] \in PollRec
  BY LoopFacts
<1>2. ASSUME NEW k \in 1 .. Len(pollfds)
      PROVE  /\ pollfds'[k] \in PollRec /\ pollfds'[k].fd = pollfds[k].fd
             /\ pollfds'[k].events = pollfds[k].events
             /\ pollfds'[k].revents = polled(pollfds[k])
  <2> DEFINE p == pollfds[k]
             v == polled(p)
  <2>1. v \in SUBSET {"IN", "OUT", "HUP", "ERR", "NVAL"} /\ p \in PollRec
    BY <1>1, PolledType
  <2>2. pollfds'[k] = [p EXCEPT !.revents = v]
    BY <1>1
  <2> HIDE DEF p, v
  <2>3. /\ pollfds'[k] \in PollRec /\ pollfds'[k].fd = p.fd
        /\ pollfds'[k].events = p.events /\ pollfds'[k].revents = v
    BY <2>1, <2>2 DEF PollRec
  <2> QED BY <2>3 DEF p, v
<1>3. DOMAIN pollfds' = 1 .. Len(pollfds)
  BY <1>1
<1>4. pollfds' \in [1 .. Len(pollfds) -> PollRec]
  <2>1. pollfds' = [k \in 1 .. Len(pollfds) |-> pollfds'[k]]
    BY <1>1
  <2> QED BY <1>2, <2>1
<1>5. pollfds' \in Seq(PollRec) /\ Len(pollfds') = Len(pollfds)
  BY <1>1, <1>4
<1> QED BY <1>2, <1>5

\* The walk over the results begins.
LEMMA WalkBegins ==
  ASSUME LInv, pc = "poll", Dispatching, UNCHANGED fdVars, UNCHANGED <<_rules, app>>,
         UNCHANGED <<cancelled, triggered, served>>, pollError' \in BOOLEAN,
         pollfds' \in Seq(PollRec), Len(pollfds') = Len(pollfds),
         \A k \in 1 .. Len(pollfds) : /\ pollfds'[k].fd = pollfds[k].fd
                                      /\ pollfds'[k].events = pollfds[k].events
  PROVE  LInv'
<1>1. /\ pc' = "dispatch" /\ it' = 1 /\ idx' = 1
      /\ UNCHANGED <<_rules, interest, added, fresh, something_to_poll, count_before, result>>
  BY DEF Dispatching, app
<1>2. Quiet' /\ Apart'
  BY StillQuiet
<1>3. Listed' /\ Told'
  BY <1>1, SameList DEF fdVars, LInv, Listed
<1>4. Len(pollfds) = Len(_rules) /\ Len(_rules) \in Nat
  BY LoopFacts DEF LInv, InStep
<1>5. \A k \in 1 .. Len(_rules) : For(pollfds[k], _rules[k])
  BY <1>4 DEF LInv, InStep
<1>6. \A k \in 1 .. Len(_rules) : For(pollfds[k], _rules[k])'
  BY <1>1, <1>4, <1>5 DEF For, wrapper, fdVars
<1>7. InStep'
  <2>1. ASSUME NEW k \in it' .. Len(_rules')
        PROVE  IF idx' + k - it' <= Len(pollfds') THEN For(pollfds[idx + k - it], _rules[k])'
                                                  ELSE _rules'[k] \in fresh'
    <3>1. idx' + k - it' = k /\ k \in 1 .. Len(_rules) /\ k <= Len(pollfds')
      BY <1>1, <1>4
    <3> QED BY <1>6, <3>1
  <2>2. /\ it' \in 1 .. Len(_rules') + 1 /\ idx' \in Nat \ {0}
        /\ idx' + Len(_rules') - it' >= Len(pollfds')
    BY <1>1, <1>4
  <2> QED BY <1>1, <2>1, <2>2 DEF InStep, Walking
<1>8. LocalTypes' /\ Counted'
  BY <1>1 DEF LInv, LocalTypes, Counted
<1> QED BY <1>2, <1>3, <1>7, <1>8 DEF LInv

\* poll(2) reports, fails, or gives up.
LEMMA PollKeeps == ASSUME LInv, PollReports \/ PollGivesUp \/ PollFails PROVE LInv'
<1>1. CASE PollReports
  <2>1. /\ pc = "poll" /\ Dispatching /\ UNCHANGED fdVars /\ UNCHANGED <<_rules, app>>
        /\ UNCHANGED <<cancelled, triggered, pollError, served>>
        /\ pollfds' = [k \in DOMAIN pollfds |->
                         [pollfds[k] EXCEPT !.revents = polled(pollfds[k])]]
    BY <1>1 DEF PollReports, history, services
  <2>2. /\ pollfds' \in Seq(PollRec) /\ Len(pollfds') = Len(pollfds)
        /\ \A k \in 1 .. Len(pollfds) : /\ pollfds'[k].fd = pollfds[k].fd
                                        /\ pollfds'[k].events = pollfds[k].events
    BY <2>1, Reported
  <2>3. pollError' \in BOOLEAN
    BY <2>1 DEF LInv, LocalTypes
  <2> HIDE DEF PollReports
  <2> QED BY <2>1, <2>2, <2>3, WalkBegins
<1>2. CASE PollFails
  BY <1>2, WalkBegins, LoopFacts DEF PollFails, services
<1>3. CASE PollGivesUp
  <2>1. /\ pc = "poll" /\ UNCHANGED fdVars /\ UNCHANGED served
        /\ UNCHANGED <<_rules, interest, added, fresh, cancelled, triggered, pollError>>
    BY <1>3 DEF PollGivesUp, app, history, services
  <2>2. PICK x \in {"Timeout", "Exit"} : Return(x)
    BY <1>3 DEF PollGivesUp
  <2>3. served' = 0
    BY <2>1 DEF LInv, Counted
  <2>4. /\ InStep' /\ Counted' /\ pc' = "idle"
        /\ result' \in {"none", "Success", "Timeout", "Exit", "throw", "busy"}
        /\ something_to_poll' \in BOOLEAN /\ count_before' \in 0 .. UINT_MAX
    BY <2>1, <2>2, <2>3, Returned
  <2>5. LocalTypes'
    BY <2>1, <2>3, <2>4 DEF LInv, LocalTypes
  <2>6. Quiet' /\ Apart'
    BY <2>1, StillQuiet
  <2>7. Listed' /\ Told'
    BY <2>1, SameList DEF fdVars, LInv, Listed
  <2> QED BY <2>4, <2>5, <2>6, <2>7 DEF LInv
<1> QED BY <1>1, <1>2, <1>3

\* The rule under the iterator has hung up and goes; both indices agree again.
LEMMA DispatchCancels ==
  ASSUME LInv, pc = "dispatch", it <= Len(_rules), cancelRule(_rules[it]),
         it' = it, idx' = idx + 1,
         UNCHANGED <<pollfds, something_to_poll, count_before, pollError, pc, result>>,
         UNCHANGED app
  PROVE  LInv'
<1>1. UNCHANGED <<interest, added, fresh, served>> /\ triggered' = TRUE
  BY DEF app, cancelRule, services
<1>2. /\ Quiet' /\ Listed' /\ Told' /\ Kept
      /\ _rules' \in Seq(Rule) /\ Len(_rules') = Len(_rules) - 1
      /\ \A k \in 1 .. Len(_rules') : _rules'[k] = IF k < it THEN _rules[k] ELSE _rules[k + 1]
      /\ \A q \in Range(_rules') : fdw'[RuleFd[q]] = fdw[RuleFd[q]]
  BY <1>1, CancelStep
<1>3. Apart'
  BY <1>2, KeptApart
<1>4. /\ it \in 1 .. Len(_rules) /\ Len(_rules) \in Nat /\ Walking
      /\ pollfds \in Seq(PollRec) /\ idx \in Nat \ {0} /\ Len(pollfds) \in Nat
  BY AtIt, LoopFacts DEF Walking
<1>5. ASSUME NEW k \in it .. Len(_rules')
      PROVE  IF idx' + k - it <= Len(pollfds) THEN For(pollfds[idx + k - it], _rules[k])'
                                              ELSE _rules'[k] \in fresh
  <2>1. k + 1 \in it .. Len(_rules) /\ k \in 1 .. Len(_rules') /\ _rules'[k] = _rules[k + 1]
        /\ idx' + k - it = idx + (k + 1) - it
    <3>1. Len(_rules') = Len(_rules) - 1
      BY <1>2
    <3>2. k + 1 \in it .. Len(_rules) /\ k \in 1 .. Len(_rules') /\ k >= it
          /\ idx' + k - it = idx + (k + 1) - it
      BY <1>4, <3>1
    <3>3. _rules'[k] = IF k < it THEN _rules[k] ELSE _rules[k + 1]
      BY <1>2, <3>2
    <3> QED BY <1>4, <3>2, <3>3
  <2>2. _rules'[k] \in Range(_rules')
    BY <1>2, <2>1 DEF Range
  <2>3. IF idx + (k + 1) - it <= Len(pollfds)
        THEN For(pollfds[idx + (k + 1) - it], _rules[k + 1])
        ELSE _rules[k + 1] \in fresh
    BY <1>4, <2>1 DEF LInv, InStep
  <2> QED BY <1>2, <2>1, <2>2, <2>3 DEF For, wrapper
<1>6. InStep'
  <2>1. /\ idx + Len(_rules) - it >= Len(pollfds)
    BY <1>4 DEF LInv, InStep
  <2>2. /\ it' \in 1 .. Len(_rules') + 1 /\ idx' \in Nat \ {0}
        /\ idx' + Len(_rules') - it' >= Len(pollfds')
    BY <1>2, <1>4, <2>1
  <2> QED BY <1>1, <1>4, <1>5, <2>2 DEF InStep, Walking
<1>7. LocalTypes' /\ Counted'
  BY <1>1 DEF LInv, LocalTypes, Counted
<1> QED BY <1>2, <1>3, <1>6, <1>7 DEF LInv

\* On to the next rule and the next pollfd.
LEMMA NextRule ==
  ASSUME LInv, Walking, it <= Len(_rules), it' = it + 1, idx' = idx + 1, pc' = "dispatch",
         UNCHANGED fdVars, UNCHANGED <<_rules, fresh, pollfds>>
  PROVE  InStep'
<1>1. /\ it \in 1 .. Len(_rules) /\ Len(_rules) \in Nat
      /\ pollfds \in Seq(PollRec) /\ idx \in Nat \ {0} /\ Len(pollfds) \in Nat
  BY AtIt, LoopFacts
<1>2. ASSUME NEW k \in it' .. Len(_rules)
      PROVE  IF idx' + k - it' <= Len(pollfds) THEN For(pollfds[idx + k - it], _rules[k])'
                                               ELSE _rules[k] \in fresh
  <2>1. k \in it .. Len(_rules) /\ idx' + k - it' = idx + k - it
    BY <1>1
  <2>2. IF idx + k - it <= Len(pollfds) THEN For(pollfds[idx + k - it], _rules[k])
                                        ELSE _rules[k] \in fresh
    BY <2>1 DEF LInv, InStep
  <2> QED BY <2>1, <2>2 DEF For, wrapper, fdVars
<1>3. idx + Len(_rules) - it >= Len(pollfds)
  BY DEF LInv, InStep
<1>4. /\ it' \in 1 .. Len(_rules') + 1 /\ idx' \in Nat \ {0}
      /\ idx' + Len(_rules') - it' >= Len(pollfds')
  BY <1>1, <1>3
<1> QED BY <1>1, <1>2, <1>4 DEF InStep, Walking

\* Nothing has been counted yet when a callback is called.
LEMMA CountedZero ==
  ASSUME NEW c \in 0 .. UINT_MAX PROVE counted(c, 0) = c
<1>1. 0 % (UINT_MAX + 1) = 0
  BY FDAssumption
<1> QED BY <1>1, FDAssumption DEF counted

\* The count of a rule's direction is a count.
LEMMA ServiceCount ==
  ASSUME LInv, NEW r \in Range(_rules) PROVE service_count(r, fdw) \in 0 .. UINT_MAX
<1>1. fdw[RuleFd[r]] \in FdRec
  BY RuleHolds DEF wrapper
<1> QED BY <1>1 DEF service_count, FdRec

\* One rule of the walk.
LEMMA DispatchKeeps == ASSUME LInv, Dispatch PROVE LInv'
<1> DEFINE r == _rules[it]
<1>1. /\ pc = "dispatch" /\ it <= Len(_rules) /\ UNCHANGED app
      /\ UNCHANGED <<interest, added, fresh>>
  BY DEF Dispatch, app
<1>2. served = 0 /\ r \in Range(_rules)
  BY <1>1, AtIt DEF LInv, Counted
<1>3. CASE Return("throw") /\ UNCHANGED <<fdVars, _rules, history>>
  <2>1. UNCHANGED fdVars /\ UNCHANGED <<_rules, cancelled, triggered, pollError, served>>
    BY <1>3 DEF history, services
  <2>2. /\ InStep' /\ Counted' /\ pc' = "idle"
        /\ result' \in {"none", "Success", "Timeout", "Exit", "throw", "busy"}
        /\ something_to_poll' \in BOOLEAN /\ count_before' \in 0 .. UINT_MAX
    BY <1>2, <1>3, <2>1, Returned
  <2>3. LocalTypes'
    BY <1>1, <2>1, <2>2 DEF LInv, LocalTypes
  <2>4. Quiet' /\ Apart'
    BY <2>1, StillQuiet
  <2>5. Listed' /\ Told'
    BY <1>1, <2>1, SameList DEF fdVars, LInv, Listed
  <2> QED BY <2>2, <2>3, <2>4, <2>5 DEF LInv
<1>4. CASE /\ cancelRule(r) /\ afterErase /\ idx' = idx + 1
           /\ UNCHANGED <<pollfds, something_to_poll, count_before, spoiled, pollError, pc, result>>
  BY <1>1, <1>4, DispatchCancels DEF afterErase
<1>5. CASE /\ pc' = "callback" /\ count_before' = service_count(r, fdw) /\ triggered' = TRUE
           /\ UNCHANGED <<fdVars, _rules, it, idx, pollfds, something_to_poll, cancelled,
                          spoiled, pollError, services, result>>
  <2>1. UNCHANGED fdVars /\ UNCHANGED <<_rules, it, idx, pollfds, handles, fdw>>
    BY <1>5 DEF fdVars
  <2>2. Quiet' /\ Apart' /\ Kept
    BY <2>1, StillQuiet
  <2>3. Listed' /\ Told'
    BY <1>1, <1>5, <2>1, SameList DEF LInv, Listed
  <2>4. InStep'
    BY <1>1, <1>5, <2>1, <2>2, SamePlace DEF Walking
  <2>5. count_before' \in 0 .. UINT_MAX
    BY <1>2, <1>5, ServiceCount
  <2>6. counted(count_before', 0) = count_before'
    BY <2>5, CountedZero
  <2>7. Counted'
    BY <1>2, <1>5, <2>1, <2>6 DEF Counted, service_count, services
  <2>8. LocalTypes'
    BY <1>1, <1>5, <2>5 DEF LInv, LocalTypes, services
  <2> QED BY <2>2, <2>3, <2>4, <2>7, <2>8 DEF LInv
<1>6. CASE /\ it' = it + 1 /\ idx' = idx + 1
           /\ UNCHANGED <<fdVars, _rules, pollfds, something_to_poll, count_before, spoiled,
                          history, pc, result>>
  <2>1. /\ UNCHANGED fdVars /\ UNCHANGED <<_rules, pollfds, fresh>> /\ pc' = "dispatch"
        /\ UNCHANGED <<cancelled, triggered, pollError, served>>
        /\ UNCHANGED <<something_to_poll, count_before, result>>
    BY <1>1, <1>6 DEF history, services
  <2>2. Quiet' /\ Apart'
    BY <2>1, StillQuiet
  <2>3. Listed' /\ Told'
    BY <1>1, <2>1, SameList DEF fdVars, LInv, Listed
  <2>4. InStep'
    BY <1>1, <1>6, <2>1, NextRule DEF Walking
  <2>5. LocalTypes' /\ Counted'
    BY <1>1, <1>2, <2>1 DEF LInv, LocalTypes, Counted
  <2> QED BY <2>2, <2>3, <2>4, <2>5 DEF LInv
<1> QED BY <1>3, <1>4, <1>5, <1>6 DEF Dispatch

\* The walk is over.
LEMMA DispatchEndsKeeps == ASSUME LInv, DispatchEnds PROVE LInv'
<1>1. /\ pc = "dispatch" /\ Return("Success") /\ UNCHANGED fdVars
      /\ UNCHANGED <<_rules, interest, added, fresh, cancelled, triggered, pollError, served>>
  BY DEF DispatchEnds, app, history, services
<1>2. served' = 0
  BY <1>1 DEF LInv, Counted
<1>3. /\ InStep' /\ Counted' /\ pc' = "idle"
      /\ result' \in {"none", "Success", "Timeout", "Exit", "throw", "busy"}
      /\ something_to_poll' \in BOOLEAN /\ count_before' \in 0 .. UINT_MAX
  BY <1>1, <1>2, Returned
<1>4. LocalTypes'
  BY <1>1, <1>3 DEF LInv, LocalTypes
<1>5. Quiet' /\ Apart'
  BY <1>1, StillQuiet
<1>6. Listed' /\ Told'
  BY <1>1, SameList DEF fdVars, LInv, Listed
<1> QED BY <1>3, <1>4, <1>5, <1>6 DEF LInv

----------------------------------------------------------------------------
(* The callbacks *)

\* A number that is open behind a wrapper's own is the wrapper's.
LEMMA OpenIsOwn ==
  ASSUME LInv, NEW w \in Wrapper, handles[w] > 0
  PROVE  /\ fileOf(w) \in Wrapper \cup {None}
         /\ fileOf(w) # None => fileOf(w) = w /\ ~fdw[w].closed
<1>1. fdw[w].fd \in Num /\ fileOf(w) \in Wrapper \cup {None}
  BY LoopFacts, OwnFile
<1>2. ASSUME fileOf(w) # None PROVE fileOf(w) = w /\ ~fdw[w].closed
  <2> DEFINE v == fileOf(w)
  <2>1. v \in Wrapper /\ kernel[fdw[w].fd] = v
    BY <1>1, <1>2 DEF fileOf
  <2>2. handles[v] > 0 /\ fdw[v].fd = fdw[w].fd /\ ~fdw[v].closed
    BY <1>1, <2>1, LoopFacts DEF Own
  <2>3. v = w
    BY <2>1, <2>2 DEF LInv, Apart
  <2> QED BY <2>2, <2>3
<1> QED BY <1>1, <1>2

\* One more on a count that wraps, and one more service.
LEMMA CountsOn ==
  ASSUME NEW c \in 0 .. UINT_MAX, NEW s \in Nat
  PROVE  counted(c, s + 1) = Inc(counted(c, s))
<1> DEFINE t == s % (UINT_MAX + 1)
           u == (s + 1) % (UINT_MAX + 1)
           n == IF c + t <= UINT_MAX THEN c + t ELSE (c + t) - (UINT_MAX + 1)
<1>1. UINT_MAX \in Nat /\ UINT_MAX + 1 \in Nat \ {0} /\ (UINT_MAX + 1) - 1 = UINT_MAX
  BY FDAssumption
<1>2. t \in 0 .. UINT_MAX /\ u = IF t = UINT_MAX THEN 0 ELSE t + 1
  BY <1>1, ModNext
<1>3. counted(c, s) = n
  BY DEF counted
<1>4. counted(c, s + 1) = IF c + u <= UINT_MAX THEN c + u ELSE (c + u) - (UINT_MAX + 1)
  BY DEF counted
<1> HIDE DEF t, u
<1>5. n \in 0 .. UINT_MAX
  BY <1>1, <1>2
<1>6. n % (UINT_MAX + 1) = n
  <2> HIDE DEF n
  <2> QED BY <1>1, <1>5
<1>7. (n + 1) % (UINT_MAX + 1) = IF n = UINT_MAX THEN 0 ELSE n + 1
  <2> HIDE DEF n
  <2>1. n \in Nat
    BY <1>1, <1>5
  <2>2. (n + 1) % (UINT_MAX + 1)
          = IF n % (UINT_MAX + 1) = (UINT_MAX + 1) - 1 THEN 0 ELSE (n % (UINT_MAX + 1)) + 1
    BY <1>1, <2>1, ModNext
  <2> QED BY <1>1, <1>6, <2>2
<1>8. Inc(counted(c, s)) = IF n = UINT_MAX THEN 0 ELSE n + 1
  BY <1>3, <1>7 DEF Inc
<1>9. (IF c + u <= UINT_MAX THEN c + u ELSE (c + u) - (UINT_MAX + 1))
        = IF n = UINT_MAX THEN 0 ELSE n + 1
  BY <1>1, <1>2
<1> QED BY <1>4, <1>8, <1>9

\* A service of w in direction d is counted there, and changes nothing else of any
\* wrapper but an EOF flag.
Serviced(w, d) ==
  \A v \in Wrapper :
    /\ fdw'[v].fd = fdw[v].fd /\ fdw'[v].closed = fdw[v].closed
    /\ fdw'[v].read_count = IF v = w /\ d = "IN" THEN Inc(fdw[v].read_count)
                                                ELSE fdw[v].read_count
    /\ fdw'[v].write_count = IF v = w /\ d = "OUT" THEN Inc(fdw[v].write_count)
                                                  ELSE fdw[v].write_count

\* What the rule whose callback it is sees of that.
LEMMA CountMoves ==
  ASSUME LInv, NEW r \in Range(_rules), NEW w \in Wrapper, NEW d \in {"IN", "OUT"},
         Serviced(w, d)
  PROVE  service_count(r, fdw') = IF own(r, w, d) THEN Inc(service_count(r, fdw))
                                                  ELSE service_count(r, fdw)
<1>1. RuleFd[r] \in Wrapper /\ RuleDir[r] \in {"IN", "OUT"}
  BY RuleHolds
<1> QED BY <1>1 DEF Serviced, service_count, own

\* read() by a callback.
LEMMA ReadsServe ==
  ASSUME LInv, NEW w \in Wrapper, handles[w] > 0,
         fileOf(w) = w, ~fdw[w].closed, reads(w, w), UNCHANGED <<handles, kernel, job, misused>>
  PROVE  FDInv' /\ Serviced(w, "IN")
<1>1. PICK n \in readResults(w, MaxIn) : gotRead(w, w, MaxIn, n)
  BY DEF reads
<1>2. handles[w] > 0 /\ MaxIn \in Nat /\ misused' \in BOOLEAN
  BY LoopFacts, FDAssumption DEF FDTypes
<1>3. FDInv'
  BY <1>1, <1>2, LoopFacts, GotReadStep
<1>4. PICK e : fdw' = [fdw EXCEPT ![w].eof = e, ![w].read_count = Inc(@)]
  BY <1>1 DEF gotRead
<1>5. Serviced(w, "IN")
  <2>1. fdw \in [Wrapper -> FdRec]
    BY LoopFacts
  <2> QED BY <1>4, <2>1 DEF Serviced, FdRec
<1> QED BY <1>3, <1>5

\* write() by a callback.
LEMMA WritesServe ==
  ASSUME LInv, NEW w \in Wrapper, handles[w] > 0,
         fileOf(w) = w, ~fdw[w].closed, writes(w, w), UNCHANGED <<handles, kernel, job, misused>>
  PROVE  FDInv' /\ Serviced(w, "OUT")
<1> DEFINE a == fdw[w].read_count
           b == Inc(fdw[w].write_count)
           room == file[w].room - IF datagrams(w) THEN 0 ELSE 1
           g == [file[w] EXCEPT !.room = room]
<1>1. /\ fdw \in [Wrapper -> FdRec] /\ file \in [Wrapper -> FileRec] /\ FDInv /\ ~misused
      /\ job = NoJob /\ FDTypes /\ outcome' \in {"returned", "threw"}
  BY LoopFacts DEF writes
<1>2. handles[w] > 0 /\ misused' \in BOOLEAN /\ job' \in JobRec /\ JobOK'
  BY <1>1, NoWrite DEF FDTypes
<1>3. a \in 0 .. UINT_MAX /\ b \in 0 .. UINT_MAX
  BY <1>1, CountTypes
<1>4. room \in 0 .. MaxOut
  <2>1. file[w].room \in 0 .. MaxOut /\ MaxOut \in Nat
    BY <1>1, FDAssumption DEF FileRec
  <2>2. PICK n : n \in writeResults(w, 1)
    BY DEF writes
  <2>3. datagrams(w) \/ file[w].room >= 1
    BY <2>1, <2>2 DEF writeResults, min2
  <2> QED BY <2>1, <2>3
<1>5. Counts(w, a, b, w, g)
  BY <1>1 DEF writes, Counts, FdRec
<1> HIDE DEF room
<1>6. g \in FileRec /\ g.kind = file[w].kind /\ g.in = file[w].in /\ g.is = file[w].is
  BY <1>1, <1>4 DEF FileRec
<1>7. atEnd(file[w]) => atEnd(g)
  BY <1>6 DEF atEnd
<1>8. Serviced(w, "OUT")
  BY <1>1 DEF writes, Serviced, FdRec
<1> HIDE DEF a, b, g
<1>9. FDInv'
  BY <1>1, <1>2, <1>3, <1>5, <1>6, <1>7, CountStep
<1> QED BY <1>8, <1>9

\* shutdown() by a callback.
LEMMA ShutsServe ==
  ASSUME LInv, NEW w \in Wrapper, NEW d \in {"IN", "OUT"}, handles[w] > 0,
         fileOf(w) = w, ~fdw[w].closed, shuts(w, w, d), UNCHANGED <<handles, kernel, job, misused>>
  PROVE  FDInv' /\ Serviced(w, d)
<1> DEFINE how == {IF d = "IN" THEN "rd" ELSE "wr"}
<1>1. fdw \in [Wrapper -> FdRec] /\ FDInv /\ ~misused /\ job = NoJob /\ FDTypes
  BY LoopFacts
<1>2. handles[w] > 0 /\ misused' \in BOOLEAN /\ job' \in JobRec /\ JobOK'
  BY <1>1, NoWrite DEF FDTypes
<1>3. shutDown(w, w, how) /\ how \in SUBSET {"rd", "wr"}
  BY DEF shuts
<1>4. FDInv'
  <2> HIDE DEF how
  <2> QED BY <1>1, <1>2, <1>3, ShutDownStep
<1>5. Serviced(w, d)
  <2>1. CASE d = "IN"
    BY <1>1, <1>3, <2>1 DEF shutDown, Serviced, FdRec
  <2>2. CASE d = "OUT"
    BY <1>1, <1>3, <2>2 DEF shutDown, Serviced, FdRec
  <2> QED BY <2>1, <2>2
<1> QED BY <1>4, <1>5

\* A callback that throws: an error is told, if there was one.
LEMMA CallbackThrows ==
  ASSUME LInv, NEW w \in Wrapper, handles[w] > 0,
         file' = [g \in Wrapper |->
                    [file[g] EXCEPT !.is = IF g = fileOf(w) THEN @ \ {"reset"} ELSE @]],
         UNCHANGED <<fdw, handles, kernel, job, outcome, misused>>
  PROVE  FDInv'
<1> DEFINE f == fileOf(w)
           marks == file[f].is \ {"reset"}
<1>1. /\ FDInv /\ ~misused /\ file \in [Wrapper -> FileRec] /\ job = NoJob
      /\ outcome' \in {"returned", "threw"} /\ misused' \in BOOLEAN
  BY LoopFacts DEF FDTypes
<1>2. job' \in JobRec /\ JobOK'
  BY <1>1, NoWrite
<1>3. f \in Wrapper \cup {None} /\ (f # None => ~fdw[w].closed)
  BY OpenIsOwn
<1>4. CASE f = None
  <2>1. \A g \in Wrapper : file'[g] = file[g]
    BY <1>1, <1>4, FDAssumption DEF FileRec
  <2>2. file' = file
    BY <1>1, <2>1
  <2> QED BY <1>1, <1>2, <2>2, QuietCall
<1>5. CASE f \in Wrapper
  <2>1. marks \in SUBSET Marks /\ file[f].is \cap {"ended", "rd"} \subseteq marks
    BY <1>1, <1>5 DEF FileRec
  <2>2. \A g \in Wrapper : file'[g] = [file EXCEPT ![f].is = marks][g]
    BY <1>1, <1>5 DEF FileRec
  <2>3. file' = [file EXCEPT ![f].is = marks]
    BY <1>1, <2>2
  <2>4. Remarks(f, marks)
    BY <2>3 DEF Remarks
  <2>5. ~fdw[w].closed
    BY <1>3, <1>5, FDAssumption
  <2> HIDE DEF marks
  <2> QED BY <1>1, <1>2, <1>5, <2>1, <2>4, <2>5, MarkStep
<1> QED BY <1>3, <1>4, <1>5

\* A callback has served w in direction d.
Serves(r, w, d) ==
  /\ \/ moves(w, w, d) /\ spoiled' = spoiled \cup {<<w, d>>}
     \/ r \in MayShut /\ shuts(w, w, d) /\ UNCHANGED spoiled
  /\ IF own(r, w, d) THEN served' = served + 1 /\ UNCHANGED others
                     ELSE others' = others + 1 /\ UNCHANGED served
  /\ pc' = "called"
  /\ UNCHANGED <<it, idx, pollfds, something_to_poll, count_before, result>>

\* A callback has failed to.
ServeFails(w) ==
  /\ file' = [g \in Wrapper |->
                [file[g] EXCEPT !.is = IF g = fileOf(w) THEN @ \ {"reset"} ELSE @]]
  /\ Return("throw") /\ served' = 0 /\ others' = 0 /\ UNCHANGED <<fdw, outcome>>

\* What there is to say of a service before looking at what was done.
LEMMA ServeCases ==
  ASSUME LInv, CallbackServes
  PROVE  /\ pc \in {"callback", "called"} /\ served + others < MaxServes
         /\ it <= Len(_rules) /\ Walking /\ _rules[it] \in Range(_rules)
         /\ UNCHANGED <<job, misused, cancelled, triggered, pollError>>
         /\ UNCHANGED <<handles, kernel, _rules, interest, added, fresh>>
         /\ \E w \in Wrapper, d \in {"IN", "OUT"} :
              /\ handles[w] > 0
              /\ \/ fileOf(w) = w /\ ~fdw[w].closed /\ Serves(_rules[it], w, d)
                 \/ ServeFails(w)
<1> DEFINE r == _rules[it]
<1>1. /\ pc \in {"callback", "called"} /\ served + others < MaxServes
      /\ UNCHANGED <<job, misused, cancelled, triggered, pollError>>
      /\ UNCHANGED <<handles, kernel, _rules, interest, added, fresh>>
  BY DEF CallbackServes, inCallback, app
<1>2. it <= Len(_rules) /\ Walking
  BY <1>1 DEF LInv, InStep, Walking
<1>3. r \in Range(_rules) /\ r \in Rule
  BY <1>2, AtIt, RuleHolds
<1>4. PICK s \in MayServe[r] :
        /\ handles[s[1]] > 0
        /\ \/ /\ fileOf(s[1]) # None
              /\ \/ moves(s[1], fileOf(s[1]), s[2]) /\ spoiled' = spoiled \cup {s}
                 \/ r \in MayShut /\ shuts(s[1], fileOf(s[1]), s[2]) /\ UNCHANGED spoiled
              /\ IF own(r, s[1], s[2]) THEN served' = served + 1 /\ UNCHANGED others
                                       ELSE others' = others + 1 /\ UNCHANGED served
              /\ pc' = "called"
              /\ UNCHANGED <<it, idx, pollfds, something_to_poll, count_before, result>>
           \/ ServeFails(s[1])
  BY Zenon DEF CallbackServes, ServeFails
<1>5. s \in Wrapper \X {"IN", "OUT"}
  BY <1>3, LoopAssumption
<1>6. PICK w \in Wrapper, d \in {"IN", "OUT"} : s = <<w, d>>
  BY <1>5
<1>7. s[1] = w /\ s[2] = d
  BY <1>6
<1>8. fileOf(w) # None => fileOf(w) = w /\ ~fdw[w].closed
  BY <1>4, <1>7, OpenIsOwn
<1>9. CASE ServeFails(w)
  BY <1>1, <1>2, <1>3, <1>4, <1>7, <1>9
<1>10. CASE ~ServeFails(w)
  <2>1. fileOf(w) = w /\ ~fdw[w].closed /\ Serves(r, w, d)
    BY <1>4, <1>6, <1>7, <1>8, <1>10 DEF Serves
  <2> QED BY <1>1, <1>2, <1>3, <1>4, <1>7, <2>1
<1> QED BY <1>9, <1>10

\* A service keeps what the descriptors promise.
LEMMA ServesServe ==
  ASSUME LInv, NEW r, NEW w \in Wrapper, NEW d \in {"IN", "OUT"}, handles[w] > 0,
         fileOf(w) = w, ~fdw[w].closed, Serves(r, w, d), UNCHANGED <<handles, kernel, job, misused>>
  PROVE  FDInv' /\ Serviced(w, d)
<1>1. CASE moves(w, w, d) /\ d = "IN"
  BY <1>1, ReadsServe DEF moves
<1>2. CASE moves(w, w, d) /\ d = "OUT"
  BY <1>2, WritesServe DEF moves
<1>3. CASE shuts(w, w, d)
  BY <1>3, ShutsServe
<1> QED BY <1>1, <1>2, <1>3 DEF Serves

\* A callback serves a descriptor or fails to.
LEMMA ServesKeeps == ASSUME LInv, Extras, CallbackServes PROVE LInv'
<1> DEFINE r == _rules[it]
<1>1. /\ pc \in {"callback", "called"} /\ served + others < MaxServes
      /\ it <= Len(_rules) /\ Walking /\ r \in Range(_rules)
      /\ UNCHANGED <<job, misused, cancelled, triggered, pollError>>
      /\ UNCHANGED <<handles, kernel, _rules, interest, added, fresh>>
  BY ServeCases
<1>2. PICK w \in Wrapper, d \in {"IN", "OUT"} :
        /\ handles[w] > 0
        /\ \/ fileOf(w) = w /\ ~fdw[w].closed /\ Serves(r, w, d)
           \/ ServeFails(w)
  BY ServeCases
<1>3. Listed' /\ Told'
  BY <1>1, SameList DEF LInv, Listed
<1>4. CASE fileOf(w) = w /\ ~fdw[w].closed /\ Serves(r, w, d)
  <2>1. /\ UNCHANGED <<it, idx, pollfds, something_to_poll, count_before, result>>
        /\ pc' = "called" /\ served' = IF own(r, w, d) THEN served + 1 ELSE served
    BY <1>4 DEF Serves
  <2>2. FDInv' /\ Serviced(w, d)
    BY <1>1, <1>2, <1>4, ServesServe
  <2>3. Quiet' /\ Kept
    BY <1>1, <2>2, LoopFacts DEF Quiet, Serviced, Kept
  <2>4. Apart'
    BY <2>3, KeptApart
  <2>5. InStep'
    BY <1>1, <2>1, <2>3, SamePlace DEF Walking
  <2>6. Counted'
    <3>1. service_count(r, fdw) = counted(count_before, served)
      BY <1>1 DEF LInv, Counted
    <3>2. count_before \in 0 .. UINT_MAX /\ served \in Nat
      BY DEF LInv, LocalTypes
    <3>3. counted(count_before, served + 1) = Inc(counted(count_before, served))
      BY <3>2, CountsOn
    <3>4. service_count(r, fdw') = IF own(r, w, d) THEN Inc(service_count(r, fdw))
                                                   ELSE service_count(r, fdw)
      BY <1>1, <2>2, CountMoves
    <3>5. service_count(r, fdw') = counted(count_before, served')
      BY <2>1, <3>1, <3>3, <3>4
    <3> QED BY <1>1, <2>1, <3>5 DEF Counted, service_count
  <2>7. LocalTypes'
    <3>1. served \in Nat /\ others \in Nat /\ MaxServes \in Nat /\ served + others < MaxServes
      BY <1>1, LoopAssumption DEF LInv, LocalTypes, Extras
    <3>2. served' \in {served, served + 1}
      BY <2>1
    <3>3. served' \in 0 .. MaxServes
      BY <3>1, <3>2
    <3> QED BY <1>1, <2>1, <3>3 DEF LInv, LocalTypes
  <2> QED BY <1>3, <2>3, <2>4, <2>5, <2>6, <2>7 DEF LInv
<1>5. CASE ServeFails(w)
  <2>1. FDInv'
    BY <1>1, <1>2, <1>5, CallbackThrows DEF ServeFails
  <2>2. Quiet' /\ Kept
    BY <1>1, <1>5, <2>1, LoopFacts DEF Quiet, Kept, ServeFails
  <2>3. Apart'
    BY <2>2, KeptApart
  <2>4. /\ InStep' /\ Counted' /\ pc' = "idle"
        /\ result' \in {"none", "Success", "Timeout", "Exit", "throw", "busy"}
        /\ something_to_poll' \in BOOLEAN /\ count_before' \in 0 .. UINT_MAX
    BY <1>1, <1>5, Returned DEF ServeFails
  <2>5. LocalTypes'
    <3>1. served' \in 0 .. MaxServes
      BY <1>5, LoopAssumption DEF ServeFails
    <3> QED BY <1>1, <2>4, <3>1 DEF LInv, LocalTypes
  <2> QED BY <1>3, <2>2, <2>3, <2>4, <2>5 DEF LInv
<1> QED BY <1>2, <1>4, <1>5

\* Closing touches no number and no count.
LEMMA CloseFields ==
  ASSUME LInv, NEW w \in Wrapper, closeWrapper(w)
  PROVE  \A v \in Wrapper : /\ fdw'[v].fd = fdw[v].fd
                            /\ fdw'[v].read_count = fdw[v].read_count
                            /\ fdw'[v].write_count = fdw[v].write_count
                            /\ v # w => fdw'[v] = fdw[v]
<1>1. fdw \in [Wrapper -> FdRec]
  BY LoopFacts
<1>2. fdw' = fdw \/ fdw' = [fdw EXCEPT ![w].eof = TRUE, ![w].closed = TRUE]
  BY DEF closeWrapper
<1> QED BY <1>1, <1>2 DEF FdRec

\* A callback closes a descriptor.
LEMMA ClosesKeeps == ASSUME LInv, CallbackCloses PROVE LInv'
<1>1. /\ pc \in {"callback", "called"} /\ pc' = "called"
      /\ UNCHANGED <<job, misused, cancelled, triggered, pollError, handles, served>>
      /\ UNCHANGED <<_rules, interest, added, fresh, result>>
      /\ UNCHANGED <<it, idx, pollfds, something_to_poll, count_before>>
  BY DEF CallbackCloses, inCallback, app, services
<1>2. it <= Len(_rules) /\ Walking
  BY <1>1 DEF LInv, InStep, Walking
<1>3. PICK w \in MayClose[_rules[it]] : handles[w] > 0 /\ ~fdw[w].closed /\ closeWrapper(w)
  BY DEF CallbackCloses
<1>4. _rules[it] \in Range(_rules) /\ w \in Wrapper
  BY <1>2, AtIt, RuleHolds, LoopAssumption
<1>5. FDInv'
  BY <1>1, <1>3, <1>4, LoopFacts, CloseInv DEF FDTypes
<1>6. \A v \in Wrapper : /\ fdw'[v].fd = fdw[v].fd
                         /\ fdw'[v].read_count = fdw[v].read_count
                         /\ fdw'[v].write_count = fdw[v].write_count
  BY <1>3, <1>4, CloseFields
<1>7. Quiet' /\ Kept
  BY <1>1, <1>5, <1>6, LoopFacts DEF Quiet, Kept
<1>8. Apart'
  BY <1>7, KeptApart
<1>9. Listed' /\ Told'
  BY <1>1, SameList DEF LInv, Listed
<1>10. InStep'
  BY <1>1, <1>2, <1>7, SamePlace DEF Walking
<1>11. Counted'
  <2>1. RuleFd[_rules[it]] \in Wrapper
    BY <1>4, RuleHolds
  <2>2. service_count(_rules[it], fdw') = service_count(_rules[it], fdw)
    BY <1>6, <2>1 DEF service_count
  <2>3. service_count(_rules[it], fdw) = counted(count_before, served)
    BY <1>1 DEF LInv, Counted
  <2> QED BY <1>1, <2>2, <2>3 DEF Counted, service_count
<1>12. LocalTypes'
  BY <1>1 DEF LInv, LocalTypes
<1> QED BY <1>7, <1>8, <1>9, <1>10, <1>11, <1>12 DEF LInv

\* A rule is added, by a callback or between two calls.
LEMMA AddKeeps ==
  ASSUME LInv, NEW r \in Rule, add_rule(r), pc \in {"idle", "called"} PROVE LInv'
<1>1. /\ UNCHANGED <<interest, pc, result, fdw>>
      /\ UNCHANGED <<cancelled, triggered, pollError, served>>
      /\ UNCHANGED <<it, idx, pollfds, something_to_poll, count_before>>
      /\ fresh' = IF pc = "idle" THEN {} ELSE fresh \cup {r}
  BY DEF add_rule, history, services, locals
<1>2. /\ Quiet' /\ Listed' /\ Told' /\ Kept
      /\ _rules' = Append(_rules, r) /\ r \notin Range(_rules)
  BY AddStep
<1>3. Apart'
  BY <1>2, KeptApart
<1>4. /\ _rules' \in Seq(Rule) /\ Len(_rules') = Len(_rules) + 1
      /\ \A k \in 1 .. Len(_rules) : _rules'[k] = _rules[k]
      /\ _rules'[Len(_rules) + 1] = r
  BY <1>2, AppendedOnce DEF LInv, Listed
<1>5. /\ it \in 1 .. Len(_rules) + 1 /\ idx \in Nat \ {0} /\ pollfds \in Seq(PollRec)
      /\ Len(_rules) \in Nat /\ Len(pollfds) \in Nat
  BY LoopFacts
<1>6. pc = "called" => it <= Len(_rules)
  BY DEF LInv, InStep
<1>7. ASSUME pc = "called", NEW k \in it .. Len(_rules')
      PROVE  IF idx + k - it <= Len(pollfds) THEN For(pollfds[idx + k - it], _rules[k])'
                                             ELSE _rules'[k] \in fresh'
  <2>1. CASE k <= Len(_rules)
    <3>1. k \in it .. Len(_rules) /\ _rules'[k] = _rules[k]
      BY <1>4, <1>5, <2>1
    <3>2. IF idx + k - it <= Len(pollfds) THEN For(pollfds[idx + k - it], _rules[k])
                                          ELSE _rules[k] \in fresh
      BY <1>7, <3>1 DEF LInv, InStep, Walking
    <3>3. fresh \subseteq fresh'
      BY <1>1, <1>7
    <3> QED BY <1>1, <3>1, <3>2, <3>3 DEF For, wrapper
  <2>2. CASE k = Len(_rules) + 1
    <3>1. idx + Len(_rules) - it >= Len(pollfds)
      BY <1>7 DEF LInv, InStep, Walking
    <3>2. ~(idx + k - it <= Len(pollfds))
      BY <1>5, <2>2, <3>1
    <3>3. _rules'[k] = r /\ r \in fresh'
      BY <1>1, <1>4, <1>7, <2>2
    <3> QED BY <3>2, <3>3
  <2> QED BY <1>4, <1>5, <2>1, <2>2
<1>8. it' \in 1 .. Len(_rules') + 1 /\ (pc = "called" => it' <= Len(_rules'))
  BY <1>1, <1>4, <1>5, <1>6
<1>9. pc = "called" => idx' + Len(_rules') - it' >= Len(pollfds')
  <2>1. pc = "called" => idx + Len(_rules) - it >= Len(pollfds)
    BY DEF LInv, InStep, Walking
  <2> QED BY <1>1, <1>4, <1>5, <2>1
<1>10. pc = "idle" => it' = 1 /\ idx' = 1 /\ pollfds' = <<>>
  BY <1>1 DEF LInv, InStep
<1>11. InStep'
  BY <1>1, <1>5, <1>7, <1>8, <1>9, <1>10 DEF InStep, Walking
<1>12. Counted'
  <2>1. pc = "called" => _rules'[it'] = _rules[it]
    BY <1>1, <1>4, <1>5, <1>6
  <2>2. pc = "called" => service_count(_rules[it], fdw) = counted(count_before, served)
    BY DEF LInv, Counted
  <2>3. pc # "called" => served' = 0
    BY <1>1 DEF LInv, Counted
  <2> QED BY <1>1, <2>1, <2>2, <2>3 DEF Counted, service_count
<1>13. LocalTypes'
  BY <1>1 DEF LInv, LocalTypes
<1> QED BY <1>2, <1>3, <1>11, <1>12, <1>13 DEF LInv

\* A callback adds a rule.
LEMMA CallbackAddsKeeps == ASSUME LInv, CallbackAdds PROVE LInv'
<1>1. pc = "called" /\ it <= Len(_rules)
  BY DEF CallbackAdds, LInv, InStep
<1>2. _rules[it] \in Rule
  BY <1>1, AtIt, RuleHolds
<1>3. PICK r \in MayAdd[_rules[it]] : add_rule(r)
  BY DEF CallbackAdds
<1>4. r \in Rule
  BY <1>2, LoopAssumption
<1> QED BY <1>1, <1>3, <1>4, AddKeeps

\* A callback does nothing, or loses interest.
LEMMA IdlesKeeps == ASSUME LInv, CallbackIdles PROVE LInv'
<1>1. /\ pc = "callback" /\ pc' = "called" /\ UNCHANGED fdVars
      /\ UNCHANGED <<_rules, added, fresh, result>>
      /\ UNCHANGED <<cancelled, triggered, pollError, served>>
      /\ UNCHANGED <<it, idx, pollfds, something_to_poll, count_before>>
  BY DEF CallbackIdles, history, services, locals
<1>2. Walking /\ Walking' /\ it <= Len(_rules)
  BY <1>1 DEF LInv, InStep, Walking
<1>3. Quiet' /\ Apart' /\ Kept
  BY <1>1, StillQuiet
<1>4. Listed' /\ Told'
  BY <1>1, SameList DEF fdVars, LInv, Listed
<1>5. InStep'
  BY <1>1, <1>2, <1>3, SamePlace DEF fdVars
<1>6. interest' \in [Rule -> BOOLEAN]
  BY DEF CallbackIdles, LInv, LocalTypes
<1>7. LocalTypes'
  BY <1>1, <1>6 DEF LInv, LocalTypes
<1>8. Counted'
  BY <1>1 DEF LInv, Counted, service_count, fdVars
<1> QED BY <1>3, <1>4, <1>5, <1>7, <1>8 DEF LInv

\* The callback has returned.
LEMMA ReturnsKeeps == ASSUME LInv, CallbackReturns PROVE LInv'
<1>1. /\ pc = "called" /\ served' = 0 /\ UNCHANGED fdVars
      /\ UNCHANGED <<_rules, interest, added, fresh, cancelled, triggered, pollError>>
  BY DEF CallbackReturns, app
<1>2. Walking /\ it <= Len(_rules)
  BY <1>1 DEF LInv, InStep, Walking
<1>3. Quiet' /\ Apart'
  BY <1>1, StillQuiet
<1>4. Listed' /\ Told'
  BY <1>1, SameList DEF fdVars, LInv, Listed
<1>5. served' \in 0 .. MaxServes /\ 0 \in 0 .. UINT_MAX
  BY <1>1, LoopAssumption, FDAssumption
<1>6. CASE Return("busy")
  <2>1. /\ InStep' /\ Counted' /\ pc' = "idle"
        /\ result' \in {"none", "Success", "Timeout", "Exit", "throw", "busy"}
        /\ something_to_poll' \in BOOLEAN /\ count_before' \in 0 .. UINT_MAX
    BY <1>1, <1>6, Returned
  <2>2. LocalTypes'
    BY <1>1, <1>5, <2>1 DEF LInv, LocalTypes
  <2> QED BY <1>3, <1>4, <2>1, <2>2 DEF LInv
<1>7. CASE /\ pc' = "dispatch" /\ it' = it + 1 /\ idx' = idx + 1 /\ count_before' = 0
           /\ UNCHANGED <<pollfds, something_to_poll, spoiled, result>>
  <2>1. InStep'
    BY <1>1, <1>2, <1>7, NextRule
  <2>2. LocalTypes' /\ Counted'
    BY <1>1, <1>5, <1>7 DEF LInv, LocalTypes, Counted
  <2> QED BY <1>3, <1>4, <2>1, <2>2 DEF LInv
<1> QED BY <1>6, <1>7 DEF CallbackReturns

----------------------------------------------------------------------------
(* The application and the peers *)

\* A step of somebody else: wait_next_event and the list stay where they are.
LEMMA OthersKeep ==
  ASSUME LInv, Quiet', Kept, UNCHANGED <<handles, _rules, added, fresh, history, pc, locals, result>>,
         interest' \in [Rule -> BOOLEAN],
         \A w \in Wrapper : /\ fdw'[w].read_count = fdw[w].read_count
                            /\ fdw'[w].write_count = fdw[w].write_count
  PROVE  LInv'
<1>1. /\ UNCHANGED <<handles, _rules, added, fresh, pc, result>>
      /\ UNCHANGED <<cancelled, triggered, pollError, served>>
      /\ UNCHANGED <<it, idx, pollfds, something_to_poll, count_before>>
  BY DEF history, services, locals
<1>2. Apart' /\ Listed' /\ Told'
  BY <1>1, KeptApart, SameList DEF LInv, Listed
<1>3. InStep'
  BY <1>1, SamePlace
<1>4. LocalTypes'
  BY <1>1 DEF LInv, LocalTypes
<1>5. Counted'
  <2>1. ASSUME pc \in {"callback", "called"}
        PROVE  service_count(_rules[it], fdw') = service_count(_rules[it], fdw)
    <3>1. it <= Len(_rules)
      BY <2>1 DEF LInv, InStep
    <3>2. RuleFd[_rules[it]] \in Wrapper
      BY <3>1, AtIt, RuleHolds
    <3> QED BY <3>2 DEF service_count
  <2> QED BY <1>1, <2>1 DEF LInv, Counted, service_count
<1> QED BY <1>2, <1>3, <1>4, <1>5 DEF LInv

\* interest() changes its mind.
LEMMA InterestKeeps == ASSUME LInv, NEW r \in Rule, ChangeInterest(r) PROVE LInv'
<1>1. /\ UNCHANGED fdVars /\ UNCHANGED <<_rules, added, fresh, history, pc, locals, result>>
      /\ interest' = [interest EXCEPT ![r] = ~@]
  BY DEF ChangeInterest
<1>2. Quiet' /\ Kept
  BY <1>1, StillQuiet
<1>3. interest' \in [Rule -> BOOLEAN]
  BY <1>1 DEF LInv, LocalTypes
<1> QED BY <1>1, <1>2, <1>3, OthersKeep DEF fdVars

\* The application closes a descriptor.
LEMMA AppClosesKeeps == ASSUME LInv, NEW w \in Wrapper, AppCloses(w) PROVE LInv'
<1>1. /\ ~fdw[w].closed /\ handles[w] > 0 /\ closeWrapper(w) /\ Noticing(w)
      /\ UNCHANGED <<handles, job>>
      /\ UNCHANGED <<_rules, interest, added, fresh, history, pc, locals, result>>
  BY DEF AppCloses, close, Calling, app
<1>2. FDInv /\ ~misused /\ misused' \in BOOLEAN
  BY <1>1, LoopFacts, Noticed
<1>3. FDInv'
  BY <1>1, <1>2, CloseInv
<1>4. Quiet'
  <2>1. ~misused'
    BY <1>1, <1>2 DEF Noticing
  <2> QED BY <1>1, <1>3, <2>1, LoopFacts DEF Quiet
<1>5. \A v \in Wrapper : /\ fdw'[v].fd = fdw[v].fd
                         /\ fdw'[v].read_count = fdw[v].read_count
                         /\ fdw'[v].write_count = fdw[v].write_count
  BY <1>1, CloseFields
<1>6. Kept /\ interest' \in [Rule -> BOOLEAN]
  BY <1>1, <1>5 DEF Kept, LInv, LocalTypes
<1> QED BY <1>1, <1>4, <1>5, <1>6, OthersKeep

\* The application gives up its own handle; the rules keep theirs.
LEMMA AppDropsKeeps == ASSUME LInv, NEW w \in Wrapper, AppDrops(w) PROVE LInv'
<1>1. /\ pc = "idle" /\ appHas(w) /\ handles[w] > 0 /\ destroy(w) /\ outcome' = Ok
      /\ UNCHANGED <<job, misused>>
      /\ UNCHANGED <<_rules, interest, added, fresh, pc, result>>
      /\ UNCHANGED <<cancelled, triggered, pollError, served>>
      /\ UNCHANGED <<it, idx, pollfds, something_to_poll, count_before>>
  BY DEF AppDrops, Drop, Calling, app, history, services, locals
<1>2. /\ handles' = [handles EXCEPT ![w] = @ - 1]
      /\ fdw' = IF handles[w] > 1 THEN fdw ELSE [fdw EXCEPT ![w] = Freed]
  BY <1>1 DEF destroy
<1>3. FDInv /\ ~misused /\ job = NoJob /\ misused' \in BOOLEAN
  BY <1>1, LoopFacts DEF FDTypes
<1>4. Quiet'
  BY <1>1, <1>3, Outcomes, DestroyInv DEF Quiet
<1>5. ASSUME NEW v \in Wrapper
      PROVE  IsFiniteSet(rulesOn(v))' /\ handles'[v] >= Cardinality(rulesOn(v))'
  <2>1. /\ IsFiniteSet(rulesOn(v)) /\ handles[v] >= Cardinality(rulesOn(v))
        /\ Cardinality(rulesOn(v)) \in Nat
    BY FS_CardinalityType DEF LInv, Listed
  <2>2. rulesOn(v)' = rulesOn(v)
    BY <1>1 DEF rulesOn
  <2>3. handles'[v] = (IF v = w THEN handles[v] - 1 ELSE handles[v]) /\ handles[v] \in Nat
    BY <1>2, LoopFacts
  <2>4. v = w => handles[v] > Cardinality(rulesOn(v))
    BY <1>1 DEF appHas
  <2>5. handles'[v] >= Cardinality(rulesOn(v))
    BY <2>1, <2>3, <2>4
  <2> QED BY <2>1, <2>2, <2>5
<1>6. Listed' /\ Told'
  BY <1>1, <1>5 DEF LInv, Listed, Told, inList
<1>7. Kept
  <2> SUFFICES ASSUME NEW v \in Wrapper, handles'[v] > 0
               PROVE  handles[v] > 0 /\ fdw'[v] = fdw[v]
    BY DEF Kept
  <2>1. handles[v] \in Nat /\ handles'[v] = IF v = w THEN handles[v] - 1 ELSE handles[v]
    BY <1>2, LoopFacts
  <2>2. CASE v = w
    <3>1. handles[w] > 1
      BY <2>1, <2>2
    <3> QED BY <1>1, <1>2, <2>2, <3>1
  <2>3. CASE v # w
    BY <1>2, <2>1, <2>3, LoopFacts
  <2> QED BY <2>2, <2>3
<1>8. Apart'
  BY <1>7, KeptApart
<1>9. InStep'
  <2>1. it = 1 /\ idx = 1 /\ pollfds = <<>>
    BY <1>1 DEF LInv, InStep
  <2>2. it \in 1 .. Len(_rules) + 1 /\ idx \in Nat \ {0} /\ pollfds \in Seq(PollRec)
    BY LoopFacts
  <2> QED BY <1>1, <2>1, <2>2 DEF InStep, Walking
<1>10. LocalTypes' /\ Counted'
  BY <1>1 DEF LInv, LocalTypes, Counted
<1> QED BY <1>4, <1>6, <1>8, <1>9, <1>10 DEF LInv

\* The peers act at any moment.
LEMMA PeersKeep == ASSUME LInv, Peers PROVE LInv'
<1>1. PICK w \in Wrapper : Peer(w)
  BY DEF Peers
<1>2. UNCHANGED <<fdw, handles, kernel, job, outcome, misused>>
  <2>1. PICK g : PeerMakes(w, g)
    <3>1. CASE PeerSends(w)
      BY <3>1, Zenon DEF PeerSends
    <3>2. CASE PeerTakes(w)
      BY <3>2, Zenon DEF PeerTakes
    <3>3. CASE PeerEnds(w)
      BY <3>3, Zenon DEF PeerEnds
    <3>4. CASE PeerResets(w)
      BY <3>4, Zenon DEF PeerResets
    <3> QED BY <1>1, <3>1, <3>2, <3>3, <3>4 DEF Peer
  <2> QED BY <2>1 DEF PeerMakes
<1>3. UNCHANGED <<_rules, interest, added, fresh, history, pc, locals, result>>
  BY DEF Peers, app
<1>4. FDInv'
  <2>1. FDInv /\ ~misused
    BY LoopFacts
  <2> QED BY <1>1, <2>1, PeerInv
<1>5. Quiet' /\ Kept /\ interest' \in [Rule -> BOOLEAN]
  BY <1>2, <1>3, <1>4 DEF LInv, Quiet, Kept, LocalTypes
<1> QED BY <1>2, <1>3, <1>5, OthersKeep

----------------------------------------------------------------------------
(* The invariant *)

\* Every step keeps it.
LEMMA LoopNextInv == ASSUME LInv, Extras, [LoopNext]_loopVars PROVE LInv'
<1>1. CASE UNCHANGED loopVars
  <2>1. /\ UNCHANGED fdVars /\ UNCHANGED <<_rules, interest, added, fresh, history, pc, locals, result>>
    BY <1>1 DEF loopVars, app
  <2>2. Quiet' /\ Kept /\ interest' \in [Rule -> BOOLEAN]
    BY <2>1, StillQuiet DEF LInv, LocalTypes
  <2> QED BY <2>1, <2>2, OthersKeep DEF fdVars
<1>2. CASE Call
  BY <1>2, CallKeeps
<1>3. CASE Step
  BY <1>3, ScanKeeps, ScanEndsKeeps, PollKeeps, DispatchKeeps, DispatchEndsKeeps, ServesKeeps,
     ClosesKeeps, CallbackAddsKeeps, IdlesKeeps, ReturnsKeeps DEF Step
<1>4. CASE Application
  BY <1>4, AddKeeps, InterestKeeps, AppClosesKeeps, AppDropsKeeps DEF Application
<1>5. CASE Peers
  BY <1>5, PeersKeep
<1> QED BY <1>1, <1>2, <1>3, <1>4, <1>5 DEF LoopNext


\* What the application starts with: every wrapper open on a number of its own.
LEMMA StartsOwned ==
  ASSUME NEW number \in [Wrapper -> Num], IsInjective(number),
         fdw = [w \in Wrapper |-> [Unborn EXCEPT !.fd = number[w]]],
         kernel = [n \in Num |-> IF n \in Range(number) THEN CHOOSE w \in Wrapper : number[w] = n
                                                        ELSE None],
         handles = [w \in Wrapper |-> 1],
         file \in [Wrapper -> FileRec], job = NoJob, outcome = Ok, misused = FALSE
  PROVE  FDInv /\ Apart
<1>1. /\ Unborn \in FdRec /\ UINT_MAX \in Nat /\ MaxHandles \in Nat \ {0} /\ None \notin Wrapper
      /\ Num \subseteq Nat
  BY FDAssumption, FreedType
<1>2. ASSUME NEW w \in Wrapper
      PROVE  /\ fdw[w] \in FdRec /\ fdw[w].fd = number[w] /\ number[w] \in Num
             /\ ~fdw[w].closed /\ ~fdw[w].eof
  BY <1>1 DEF FdRec, Unborn
<1>3. \A v, w \in Wrapper : number[v] = number[w] => v = w
  BY DEF IsInjective
<1>4. ASSUME NEW n \in Num
      PROVE  /\ kernel[n] \in Wrapper \cup {None}
             /\ \A w \in Wrapper : kernel[n] = w <=> number[w] = n
  <2>1. CASE n \in Range(number)
    <3>1. PICK v \in Wrapper : number[v] = n
      BY <2>1 DEF Range
    <3>2. kernel[n] \in Wrapper /\ number[kernel[n]] = n
      BY <2>1, <3>1
    <3> QED BY <1>3, <3>2
  <2>2. CASE n \notin Range(number)
    <3>1. kernel[n] = None /\ \A w \in Wrapper : number[w] # n
      BY <2>2 DEF Range
    <3> QED BY <1>1, <3>1
  <2> QED BY <2>1, <2>2
<1>5. \A w \in Wrapper : handles[w] = 1
  OBVIOUS
<1>6. fdw \in [Wrapper -> FdRec] /\ handles \in [Wrapper -> 0 .. MaxHandles]
  <2>1. 1 \in 0 .. MaxHandles
    BY <1>1
  <2> QED BY <1>2, <2>1
<1>7. kernel \in [Num -> Wrapper \cup {None}]
  <2>1. \A n \in Num : kernel[n] \in Wrapper \cup {None}
    BY <1>4
  <2>2. kernel = [n \in Num |-> kernel[n]]
    OBVIOUS
  <2> QED BY <2>1, <2>2
<1>8. job \in JobRec /\ JobOK /\ AllOrThrow /\ outcome \in {"returned", "short", "threw"}
  BY Outcomes DEF NoJob, JobRec, JobOK, AllOrThrow
<1>9. FDTypes
  BY <1>6, <1>7, <1>8 DEF FDTypes, FdRec, FileRec, JobRec
<1>10. Life
  BY <1>2, <1>5 DEF Life
<1>11. Own
  BY <1>2, <1>4, <1>5 DEF Own
<1>12. Ends
  BY <1>2 DEF Ends
<1>13. Apart
  BY <1>2, <1>3 DEF Apart
<1> QED BY <1>8, <1>9, <1>10, <1>11, <1>12, <1>13 DEF FDInv

\* The files that the application starts with.
LEMMA StartsConnected ==
  ASSUME file \in {g \in [Wrapper -> {NewFile(k, {"connected"}) : k \in UNION Range(Kinds)}] :
                     \A w \in Wrapper : g[w].kind \in Kinds[w]}
  PROVE  file \in [Wrapper -> FileRec] /\ \A w \in Wrapper : file[w].is = {"connected"}
<1>1. file \in [Wrapper -> {NewFile(k, {"connected"}) : k \in UNION Range(Kinds)}]
  OBVIOUS
<1>2. \A k \in UNION Range(Kinds) : k \in {"pipe", "unix", "tcp", "udp"}
  BY FDAssumption DEF Range
<1>3. ASSUME NEW w \in Wrapper PROVE file[w] \in FileRec /\ file[w].is = {"connected"}
  <2>1. PICK k \in UNION Range(Kinds) : file[w] = NewFile(k, {"connected"})
    BY <1>1
  <2>2. k \in {None, "pipe", "unix", "tcp", "udp"} /\ {"connected"} \in SUBSET Marks
    BY <1>2 DEF Marks
  <2>3. NewFile(k, {"connected"}).is = {"connected"}
    BY DEF NewFile
  <2> QED BY <2>1, <2>2, <2>3, NewFileType
<1> QED BY <1>1, <1>3

\* The invariant holds before the first call.
LEMMA LoopInitInv == LoopInit => LInv
<1> SUFFICES ASSUME LoopInit PROVE LInv
  OBVIOUS
<1> DEFINE number == CHOOSE f \in [Wrapper -> Num] : IsInjective(f)
<1>1. /\ fdw = [w \in Wrapper |-> [Unborn EXCEPT !.fd = number[w]]]
      /\ kernel = [n \in Num |-> IF n \in Range(number) THEN CHOOSE w \in Wrapper : number[w] = n
                                                        ELSE None]
      /\ handles = [w \in Wrapper |-> 1] /\ job = NoJob /\ outcome = Ok /\ misused = FALSE
  BY DEF LoopInit
<1>2. number \in [Wrapper -> Num] /\ IsInjective(number)
  BY LoopAssumption
<1>3. file \in [Wrapper -> FileRec]
  BY StartsConnected DEF LoopInit
<1> HIDE DEF number
<1>4. Quiet /\ Apart
  BY <1>1, <1>2, <1>3, StartsOwned DEF Quiet
<1>5. /\ _rules = <<>> /\ interest = [r \in Rule |-> TRUE]
      /\ added = {} /\ fresh = {} /\ served = 0 /\ cancelled = [r \in Rule |-> 0]
      /\ triggered = FALSE /\ pollError = FALSE /\ pc = "idle"
      /\ it = 1 /\ idx = 1 /\ pollfds = <<>>
      /\ something_to_poll = FALSE /\ count_before = 0 /\ result = "none"
  BY DEF LoopInit
<1>6. LocalTypes
  <2>1. count_before \in 0 .. UINT_MAX /\ served \in 0 .. MaxServes
    BY <1>5, FDAssumption, LoopAssumption
  <2>2. triggered \in BOOLEAN /\ pollError \in BOOLEAN /\ something_to_poll \in BOOLEAN
    BY <1>5
  <2> QED BY <1>5, <2>1, <2>2 DEF LocalTypes
<1>7. Range(_rules) = {} /\ \A w \in Wrapper : rulesOn(w) = {}
  BY <1>5 DEF Range, rulesOn
<1>8. Listed
  <2>1. IsFiniteSet({}) /\ Cardinality({}) = 0
    BY FS_EmptySet
  <2>2. \A w \in Wrapper : IsFiniteSet(rulesOn(w)) /\ handles[w] >= Cardinality(rulesOn(w))
    <3> SUFFICES ASSUME NEW w \in Wrapper
                 PROVE  IsFiniteSet(rulesOn(w)) /\ handles[w] >= Cardinality(rulesOn(w))
      OBVIOUS
    <3>1. handles[w] = 1 /\ rulesOn(w) = {}
      BY <1>1, <1>7
    <3>2. IsFiniteSet(rulesOn(w)) /\ Cardinality(rulesOn(w)) = 0
      BY <2>1, <3>1
    <3> QED BY <3>1, <3>2
  <2>3. _rules \in Seq(Rule) /\ IsInjective(_rules)
    BY <1>5 DEF IsInjective
  <2> QED BY <1>5, <1>7, <2>2, <2>3 DEF Listed
<1>9. Told
  BY <1>5 DEF Told
<1>10. InStep
  BY <1>5 DEF InStep, Walking
<1>11. Counted
  BY <1>5 DEF Counted
<1> QED BY <1>4, <1>6, <1>8, <1>9, <1>10, <1>11 DEF LInv

\* The bookkeeping of callbacks starts empty.
LEMMA ExtrasInit == LoopInit => Extras
<1>1. MaxServes \in Nat
  BY LoopAssumption
<1> QED BY <1>1 DEF LoopInit, Extras

\* A service adds one to one of the counts, and one descriptor to what was used.
LEMMA ServesExtras == ASSUME LInv, Extras, CallbackServes PROVE Extras'
<1>1. PICK w \in Wrapper, d \in {"IN", "OUT"} : Serves(_rules[it], w, d) \/ ServeFails(w)
  BY ServeCases
<1>2. /\ served + others < MaxServes /\ served \in Nat /\ others \in Nat /\ MaxServes \in Nat
      /\ spoiled \subseteq Wrapper \X {"IN", "OUT"} /\ others <= MaxServes
  BY ServeCases, LoopAssumption DEF LInv, LocalTypes, Extras
<1>3. CASE Serves(_rules[it], w, d)
  <2>1. others' \in {others, others + 1}
    BY <1>3 DEF Serves
  <2>2. spoiled' \in {spoiled, spoiled \cup {<<w, d>>}}
    BY <1>3 DEF Serves
  <2>3. spoiled' \subseteq Wrapper \X {"IN", "OUT"}
    BY <1>2, <2>2
  <2> QED BY <1>2, <2>1, <2>3 DEF Extras
<1>4. CASE ServeFails(w)
  <2>1. others' = 0 /\ spoiled' = {}
    BY <1>4 DEF ServeFails, Return
  <2> QED BY <1>2, <2>1 DEF Extras
<1> QED BY <1>1, <1>3, <1>4

\* A close counts as use in both directions.
LEMMA ClosesExtras == ASSUME LInv, Extras, CallbackCloses PROVE Extras'
<1>1. pc \in {"callback", "called"} /\ UNCHANGED others
  BY DEF CallbackCloses, services
<1>2. it <= Len(_rules)
  BY <1>1 DEF LInv, InStep
<1>3. _rules[it] \in Rule
  BY <1>2, AtIt, RuleHolds
<1>4. PICK v \in MayClose[_rules[it]] : spoiled' = spoiled \cup ({v} \X {"IN", "OUT"})
  BY DEF CallbackCloses
<1>5. v \in Wrapper
  BY <1>3, LoopAssumption
<1> QED BY <1>1, <1>4, <1>5 DEF Extras

\* Every other step leaves the bookkeeping alone or empties it.
LEMMA ExtrasNext == ASSUME LInv, Extras, [LoopNext]_loopVars PROVE Extras'
<1> DEFINE Emptied == others' \in {others, 0} /\ spoiled' \in {spoiled, {}}
<1>1. ASSUME Emptied PROVE Extras'
  <2>1. 0 \in 0 .. MaxServes
    BY LoopAssumption
  <2> QED BY <1>1, <2>1 DEF Extras
<1>2. CASE CallbackServes \/ CallbackCloses
  BY <1>2, ServesExtras, ClosesExtras
<1>3. CASE UNCHANGED loopVars \/ Call \/ Peers
  <2>1. Emptied
    BY <1>3 DEF loopVars, Call, Peers, history, services, locals
  <2> QED BY <1>1, <2>1
<1>4. CASE Application \/ CallbackAdds
  <2>1. Emptied
    BY <1>4 DEF Application, CallbackAdds, add_rule, ChangeInterest, AppCloses, AppDrops, history,
                services, locals
  <2> QED BY <1>1, <2>1
<1>5. CASE Scan \/ ScanEnds \/ PollReports \/ PollGivesUp \/ PollFails
  <2>1. Emptied
    BY <1>5 DEF Scan, cancelRule, ScanEnds, PollReports, PollGivesUp, PollFails, Dispatching,
                Return, history, services, locals
  <2> QED BY <1>1, <2>1
<1>6. CASE Dispatch \/ DispatchEnds
  <2>1. Emptied
    BY <1>6 DEF Dispatch, cancelRule, DispatchEnds, Return, history, services, locals
  <2> QED BY <1>1, <2>1
<1>7. CASE CallbackIdles \/ CallbackReturns
  <2>1. Emptied
    BY <1>7 DEF CallbackIdles, CallbackReturns, Return, history, services, locals
  <2> QED BY <1>1, <2>1
<1> QED BY <1>2, <1>3, <1>4, <1>5, <1>6, <1>7 DEF LoopNext, Step

\* The loop never loses its place in the list, the list never its handles, and no
\* step of the loop, of a callback, of the application or of a peer disturbs what
\* the descriptors promise.
THEOREM LoopInvariance == LoopSpec => [](LInv /\ Extras)
<1>1. LInv /\ Extras /\ [LoopNext]_loopVars => LInv' /\ Extras'
  BY LoopNextInv, ExtrasNext
<1> QED BY LoopInitInv, ExtrasInit, <1>1, PTL DEF LoopSpec

\* Every variable of wait_next_event keeps its type, and the iterator never runs
\* further than one past the end of the list.
THEOREM LoopTyped == LoopSpec => []LoopTypeOK
<1>1. LInv /\ Extras => LoopTypeOK
  <2> SUFFICES ASSUME LInv, Extras PROVE LoopTypeOK
    OBVIOUS
  <2>1. FDTypes /\ Life /\ idx \in Nat
    BY LoopFacts
  <2>2. FDTypeOK
    BY <2>1 DEF FDTypeOK, Life
  <2>3. {served, others} \subseteq 0 .. MaxServes
    BY DEF LInv, LocalTypes, Extras
  <2> QED BY <2>1, <2>2, <2>3 DEF LInv, LocalTypes, Listed, Told, InStep, PollRec, Extras, LoopTypeOK
<1> QED BY <1>1, LoopInvariance, PTL

\* The walk over the results stays in step with the list: no rule is judged by
\* another rule's revents, and the index runs past the vector for rules only that
\* a callback of the same call has added.
THEOREM LoopAligned == LoopSpec => []Aligned
<1>1. LInv => Aligned
  <2> SUFFICES ASSUME LInv, Walking, NEW k \in it .. Len(_rules)
               PROVE  IF idx + k - it <= Len(pollfds)
                      THEN /\ pollfds[idx + k - it].fd = wrapper(_rules[k]).fd
                           /\ pollfds[idx + k - it].events \subseteq {RuleDir[_rules[k]]}
                      ELSE _rules[k] \in fresh
    BY DEF Aligned, Walking
  <2>1. IF idx + k - it <= Len(pollfds) THEN For(pollfds[idx + k - it], _rules[k])
                                        ELSE _rules[k] \in fresh
    BY DEF LInv, InStep
  <2> QED BY <2>1 DEF For
<1> QED BY <1>1, LoopInvariance, PTL

\* A rule leaves the list with exactly one call of cancel(), wherever it was found
\* to be over.
THEOREM LoopCancelsOnce == LoopSpec => []CancelOnce
<1>1. LInv => CancelOnce
  BY DEF LInv, Told, Listed, CancelOnce
<1> QED BY <1>1, LoopInvariance, PTL

----------------------------------------------------------------------------
(* The busy wait *)

\* The count is where it was exactly after a whole number of rounds.
LEMMA CountedRound ==
  ASSUME NEW c \in 0 .. UINT_MAX, NEW s \in Nat
  PROVE  counted(c, s) = c <=> s % (UINT_MAX + 1) = 0
<1> DEFINE t == s % (UINT_MAX + 1)
<1>1. UINT_MAX \in Nat /\ UINT_MAX + 1 \in Nat \ {0} /\ (UINT_MAX + 1) - 1 = UINT_MAX
  BY FDAssumption
<1>2. t \in 0 .. UINT_MAX
  BY <1>1, ModNext
<1>3. counted(c, s) = IF c + t <= UINT_MAX THEN c + t ELSE (c + t) - (UINT_MAX + 1)
  BY DEF counted
<1> HIDE DEF t
<1>4. counted(c, s) = c <=> t = 0
  BY <1>1, <1>2, <1>3
<1> QED BY <1>4 DEF t

\* A call has no result before it returns.
Pending == pc # "idle" => result = "none"

\* Every step keeps it so.
LEMMA PendingInv == Pending /\ [LoopNext]_loopVars => Pending'
<1> SUFFICES ASSUME Pending, [LoopNext]_loopVars PROVE Pending'
  OBVIOUS
<1>1. CASE UNCHANGED loopVars
  BY <1>1 DEF loopVars, Pending
<1>2. CASE Call
  BY <1>2 DEF Call, Pending
<1>3. CASE Step
  <2>1. CASE Scan \/ ScanEnds
    BY <2>1 DEF Scan, ScanEnds, Return, Pending
  <2>2. CASE PollReports \/ PollGivesUp \/ PollFails
    BY <2>2 DEF PollReports, PollGivesUp, PollFails, Dispatching, Return, Pending
  <2>3. CASE Dispatch
    BY <2>3 DEF Dispatch, Return, Pending
  <2>4. CASE DispatchEnds
    BY <2>4 DEF DispatchEnds, Return, Pending
  <2>5. CASE CallbackServes
    BY <2>5 DEF CallbackServes, Return, Pending
  <2>6. CASE CallbackCloses \/ CallbackAdds \/ CallbackIdles
    BY <2>6 DEF CallbackCloses, CallbackAdds, add_rule, CallbackIdles, Pending
  <2>7. CASE CallbackReturns
    BY <2>7 DEF CallbackReturns, Return, Pending
  <2> QED BY <1>3, <2>1, <2>2, <2>3, <2>4, <2>5, <2>6, <2>7 DEF Step
<1>4. CASE Application
  BY <1>4 DEF Application, add_rule, ChangeInterest, AppCloses, AppDrops, Pending
<1>5. CASE Peers
  BY <1>5 DEF Peers, Pending
<1> QED BY <1>1, <1>2, <1>3, <1>4, <1>5 DEF LoopNext

\* What the return of a callback comes to.
LEMMA BlameStep ==
  ASSUME LInv, Pending, CallbackReturns
  PROVE  result' = "busy" <=> interest[_rules[it]] /\ served % (UINT_MAX + 1) = 0
<1> DEFINE r == _rules[it]
<1>1. pc = "called" /\ result = "none"
  BY DEF CallbackReturns, Pending
<1>2. service_count(r, fdw) = counted(count_before, served)
  BY <1>1 DEF LInv, Counted
<1>3. count_before \in 0 .. UINT_MAX /\ served \in Nat
  BY DEF LInv, LocalTypes
<1>4. service_count(r, fdw) = count_before <=> served % (UINT_MAX + 1) = 0
  BY <1>2, <1>3, CountedRound
<1>5. result' = "busy" <=> service_count(r, fdw) = count_before /\ interest[r]
  <2>1. CASE service_count(r, fdw) = count_before /\ interest[r]
    BY <2>1 DEF CallbackReturns, Return
  <2>2. CASE ~(service_count(r, fdw) = count_before /\ interest[r])
    BY <1>1, <2>2 DEF CallbackReturns
  <2> QED BY <2>1, <2>2
<1> QED BY <1>4, <1>5

\* Whatever a callback serves, closes or adds, it is blamed for a busy wait exactly
\* when it stays interested and has served the descriptor of its rule in the rule's
\* own direction not at all, or a whole number of rounds of the unsigned count.  So
\* a callback that only writes to the descriptor it was called to read from, which
\* the comment on the check allows, is blamed.
THEOREM LoopBlamesIdling == LoopSpec => BlamedForIdling
<1> DEFINE blame == pc = "called" /\ pc' \in {"idle", "dispatch"} /\ result' # "throw"
                      => (result' = "busy" <=> interest[_rules[it]] /\ served % (UINT_MAX + 1) = 0)
<1>1. LInv /\ Pending /\ [LoopNext]_loopVars => [blame]_loopVars
  <2> SUFFICES ASSUME LInv, Pending, LoopNext, pc = "called", pc' \in {"idle", "dispatch"},
                      result' # "throw"
               PROVE  CallbackReturns
    BY BlameStep
  <2>1. ~Call /\ ~Application
    BY DEF Call, Application, ChangeInterest, AppCloses, AppDrops
  <2>2. ~Peers /\ ~CallbackAdds
    BY DEF Peers, CallbackAdds, add_rule
  <2>3. ~Scan /\ ~ScanEnds /\ ~PollReports /\ ~PollGivesUp /\ ~PollFails
    BY DEF Scan, ScanEnds, PollReports, PollGivesUp, PollFails
  <2>4. ~Dispatch /\ ~DispatchEnds /\ ~CallbackIdles /\ ~CallbackCloses
    BY DEF Dispatch, DispatchEnds, CallbackIdles, CallbackCloses
  <2>5. ~CallbackServes
    BY DEF CallbackServes, Return
  <2> QED BY <2>1, <2>2, <2>3, <2>4, <2>5 DEF LoopNext, Step
<1>2. LoopInit => Pending
  BY DEF LoopInit, Pending
<1>3. LoopSpec => []Pending
  BY <1>2, PendingInv, PTL DEF LoopSpec
<1> QED BY <1>1, <1>3, LoopInvariance, PTL DEF LoopSpec, BlamedForIdling


----------------------------------------------------------------------------
(* Readiness *)

\* A step leaves the descriptor of a rule usable, if it was.
Spares(q) == Ready(q) => Ready(q)'

\* A step that does not touch the descriptor of the rule.
LEMMA Untouched ==
  ASSUME NEW q, UNCHANGED spoiled,
         fdw'[RuleFd[q]].closed = fdw[RuleFd[q]].closed, file'[RuleFd[q]] = file[RuleFd[q]]
  PROVE  Spares(q)
  BY DEF Spares, Ready, Spoiled, Usable, wrapper, readable, writable, is

\* A rule whose descriptor was used stays so.
LEMMA UsedBefore ==
  ASSUME NEW q, NEW S, spoiled' = spoiled \cup S, Usable(q) => Ready(q)'
  PROVE  Spares(q)
  BY DEF Spares, Ready, Spoiled

\* A step of the walk that stays where it is and spares the rules to come.
LEMMA StaysReady ==
  ASSUME LInv, StillReady, Walking, Walking', UNCHANGED <<_rules, it, idx, pollfds>>,
         pc' = "called" \/ pc' = pc,
         \A k \in it .. Len(_rules) : (pc' = "called" => k # it) => Spares(_rules[k])
  PROVE  StillReady'
<1>1. ASSUME NEW k \in it .. Len(_rules), idx + k - it <= Len(pollfds),
             poll_ready(pollfds[idx + k - it]), pc' = "called" => k # it
      PROVE  Ready(_rules[k])'
  <2>1. Ready(_rules[k])
    BY <1>1 DEF StillReady
  <2>2. Spares(_rules[k])
    BY <1>1
  <2> QED BY <2>1, <2>2 DEF Spares
<1>2. pc' = "callback" /\ idx' <= Len(pollfds') => poll_ready(pollfds[idx])'
  BY DEF StillReady, poll_ready
<1> QED BY <1>1, <1>2 DEF StillReady, poll_ready

\* poll(2) tells the truth about the descriptors, or nothing when it fails.
LEMMA PollReady ==
  ASSUME LInv, LInv', PollReports \/ PollGivesUp \/ PollFails PROVE StillReady'
<1>1. CASE PollGivesUp
  BY <1>1 DEF PollGivesUp, Return, StillReady, Walking
<1>2. ASSUME PollReports \/ PollFails
      PROVE  /\ pc = "poll" /\ pc' = "dispatch" /\ it' = 1 /\ idx' = 1
             /\ UNCHANGED fdVars /\ UNCHANGED <<_rules, spoiled>>
             /\ Len(pollfds) = Len(_rules) /\ Len(_rules) \in Nat
  BY <1>2, LoopFacts DEF PollReports, PollFails, Dispatching, LInv, InStep
<1>3. CASE PollFails
  <2>1. UNCHANGED pollfds
    BY <1>3 DEF PollFails
  <2>2. \A k \in 1 .. Len(_rules) : ~poll_ready(pollfds[k])
    BY <1>2, <1>3 DEF LInv, InStep, poll_ready
  <2>3. \A k \in 1 .. Len(_rules) : 1 + k - 1 = k
    BY <1>2, <1>3
  <2> QED BY <1>2, <1>3, <2>1, <2>2, <2>3 DEF StillReady, poll_ready
<1>4. CASE PollReports
  <2>1. /\ Len(pollfds') = Len(pollfds)
        /\ \A k \in 1 .. Len(pollfds) : /\ pollfds'[k].fd = pollfds[k].fd
                                        /\ pollfds'[k].events = pollfds[k].events
                                        /\ pollfds'[k].revents = polled(pollfds[k])
    BY <1>4, Reported DEF PollReports
  <2>2. ASSUME NEW k \in 1 .. Len(_rules), poll_ready(pollfds'[k])
        PROVE  Ready(_rules[k])'
    <3> DEFINE p == pollfds[k]
               r == _rules[k]
               w == RuleFd[r]
               f == kernel[p.fd]
    <3>1. /\ For(p, r) /\ p.events \cap polled(p) # {} /\ r \in Range(_rules)
      BY <1>2, <1>4, <2>1, <2>2, LoopFacts DEF LInv, InStep, poll_ready, Range
    <3>2. RuleDir[r] \in {"IN", "OUT"} /\ w \in Wrapper /\ handles[w] > 0 /\ f = fileOf(w)
      BY <3>1, RuleHolds DEF For, wrapper, fileOf
    <3>3. RuleDir[r] \in polled(p)
      BY <3>1 DEF For
    <3>4. f # None
      BY <3>2, <3>3 DEF polled
    <3>5. f = w /\ ~fdw[w].closed
      BY <3>2, <3>4, OpenIsOwn
    <3>6. IF RuleDir[r] = "IN" THEN file[f].in > 0 \/ readable(f) ELSE writable(f)
      BY <3>2, <3>3, <3>4 DEF polled
    <3>7. Ready(r)
      BY <3>5, <3>6 DEF Ready, Usable, wrapper, readable
    <3>8. Spares(r)
      BY <1>2, <1>4, Untouched DEF fdVars
    <3> QED BY <1>2, <1>4, <3>7, <3>8 DEF Spares
  <2>3. \A k \in 1 .. Len(_rules) : 1 + k - 1 = k
    BY <1>2, <1>4
  <2> QED BY <1>2, <1>4, <2>2, <2>3 DEF StillReady, poll_ready
<1> QED BY <1>1, <1>3, <1>4

\* A rule that goes takes no file away from a wrapper that stays.
LEMMA CancelSpares ==
  ASSUME LInv, NEW w \in Wrapper, handles[w] > 0, destroy(w), NEW v \in Wrapper, handles'[v] > 0
  PROVE  file'[v] = file[v]
<1>1. handles[w] \in Nat /\ handles'[w] = handles[w] - 1 /\ fdw[w].fd \in Num
  BY LoopFacts, OwnFile DEF destroy
<1>2. CASE handles[w] > 1 \/ fdw[w].closed
  BY <1>2 DEF destroy
<1>3. CASE ~(handles[w] > 1 \/ fdw[w].closed)
  <2>1. sysClose(fdw[w].fd) /\ handles'[w] = 0
    BY <1>1, <1>3 DEF destroy
  <2>2. v # kernel[fdw[w].fd]
    <3>1. kernel[fdw[w].fd] # None => kernel[fdw[w].fd] = w
      BY OpenIsOwn DEF fileOf
    <3> QED BY <2>1, <3>1, FDAssumption
  <2> QED BY <1>1, <2>1, <2>2, LoopFacts, SysCloseType
<1> QED BY <1>2, <1>3

\* One rule of the walk.
LEMMA DispatchReady == ASSUME LInv, LInv', StillReady, Dispatch PROVE StillReady'
<1> DEFINE r == _rules[it]
<1>1. /\ pc = "dispatch" /\ it <= Len(_rules) /\ UNCHANGED app /\ Walking
      /\ UNCHANGED <<interest, added, fresh>>
  BY DEF Dispatch, app, Walking
<1>2. /\ it \in 1 .. Len(_rules) /\ r \in Range(_rules) /\ Len(_rules) \in Nat
      /\ idx \in Nat \ {0}
  BY <1>1, AtIt, LoopFacts
<1>3. CASE Return("throw")
  BY <1>3 DEF Return, StillReady, Walking
<1>4. CASE cancelRule(r) /\ UNCHANGED it /\ idx' = idx + 1 /\ UNCHANGED <<pollfds, spoiled, pc>>
  <2>1. /\ Len(_rules') = Len(_rules) - 1 /\ _rules' \in Seq(Rule)
        /\ \A k \in 1 .. Len(_rules') : _rules'[k] = IF k < it THEN _rules[k] ELSE _rules[k + 1]
        /\ \A q \in Range(_rules') : /\ q \in Range(_rules) /\ handles'[RuleFd[q]] > 0
                                     /\ fdw'[RuleFd[q]] = fdw[RuleFd[q]]
    BY <1>1, <1>4, CancelStep
  <2>2. destroy(RuleFd[r]) /\ RuleFd[r] \in Wrapper /\ handles[RuleFd[r]] > 0
    BY <1>2, <1>4, RuleHolds DEF cancelRule
  <2>3. ASSUME NEW q \in Range(_rules') PROVE Spares(q)
    <3>1. /\ fdw'[RuleFd[q]] = fdw[RuleFd[q]] /\ RuleFd[q] \in Wrapper
          /\ handles'[RuleFd[q]] > 0
      BY <2>1, RuleHolds
    <3>2. file'[RuleFd[q]] = file[RuleFd[q]]
      BY <2>2, <3>1, CancelSpares
    <3> QED BY <1>4, <3>1, <3>2, Untouched
  <2>4. ASSUME NEW k \in it .. Len(_rules'), idx' + k - it <= Len(pollfds),
               poll_ready(pollfds[idx' + k - it])
        PROVE  Ready(_rules[k])'
    <3>1. k + 1 \in it .. Len(_rules) /\ k \in 1 .. Len(_rules') /\ k >= it
          /\ idx' + k - it = idx + (k + 1) - it
      <4>1. Len(_rules') = Len(_rules) - 1
        BY <2>1
      <4> QED BY <1>2, <1>4, <4>1
    <3>2. _rules'[k] = _rules[k + 1] /\ _rules'[k] \in Range(_rules')
      <4>1. _rules'[k] = IF k < it THEN _rules[k] ELSE _rules[k + 1]
        BY <2>1, <3>1
      <4>2. k \in DOMAIN _rules'
        BY <2>1, <3>1
      <4>3. ~(k < it)
        BY <1>2, <3>1
      <4> QED BY <4>1, <4>2, <4>3 DEF Range
    <3>3. Ready(_rules[k + 1])
      BY <1>1, <2>4, <3>1 DEF StillReady
    <3> QED BY <2>3, <3>2, <3>3 DEF Spares
  <2> QED BY <1>1, <1>4, <2>4 DEF StillReady, poll_ready
<1>5. CASE /\ pc' = "callback" /\ UNCHANGED <<_rules, it, idx, pollfds, spoiled>> /\ UNCHANGED fdVars
           /\ \E p \in pollfdAt(idx) : poll_ready(p)
  <2>1. idx <= Len(pollfds) => poll_ready(pollfds[idx])
    BY <1>5 DEF pollfdAt
  <2>2. ASSUME NEW k \in it .. Len(_rules), idx + k - it <= Len(pollfds),
               poll_ready(pollfds[idx + k - it])
        PROVE  Ready(_rules[k])'
    <3>1. Ready(_rules[k])
      BY <1>1, <2>2 DEF StillReady
    <3>2. Spares(_rules[k])
      BY <1>5, Untouched DEF fdVars
    <3> QED BY <1>5, <3>1, <3>2 DEF Spares
  <2> QED BY <1>5, <2>1, <2>2 DEF StillReady, poll_ready
<1>6. CASE /\ it' = it + 1 /\ idx' = idx + 1 /\ UNCHANGED <<_rules, pollfds, spoiled, pc>>
           /\ UNCHANGED fdVars
  <2>1. ASSUME NEW k \in it' .. Len(_rules), idx' + k - it' <= Len(pollfds),
               poll_ready(pollfds[idx' + k - it'])
        PROVE  Ready(_rules[k])'
    <3>1. k \in it .. Len(_rules) /\ idx' + k - it' = idx + k - it
      BY <1>2, <1>6
    <3>2. Ready(_rules[k])
      BY <1>1, <2>1, <3>1 DEF StillReady
    <3>3. Spares(_rules[k])
      BY <1>6, Untouched DEF fdVars
    <3> QED BY <1>6, <3>2, <3>3 DEF Spares
  <2> QED BY <1>1, <1>6, <2>1 DEF StillReady, poll_ready
<1> QED BY <1>3, <1>4, <1>5, <1>6 DEF Dispatch, afterErase


\* Another rule than the one under the iterator.
LEMMA OtherRule ==
  ASSUME LInv, it <= Len(_rules), NEW k \in it .. Len(_rules), k # it
  PROVE  _rules[k] \in Range(_rules) /\ _rules[k] # _rules[it]
<1>1. it \in 1 .. Len(_rules) /\ k \in 1 .. Len(_rules) /\ DOMAIN _rules = 1 .. Len(_rules)
  BY AtIt, LoopFacts
<1>2. IsInjective(_rules)
  BY DEF LInv, Listed
<1> QED BY <1>1, <1>2 DEF IsInjective, Range

\* A shutdown makes no descriptor wait, and a read or a write spares the other
\* direction of its descriptor and every other descriptor.
LEMMA ServiceSpares ==
  ASSUME LInv, NEW q \in Range(_rules), NEW w \in Wrapper, NEW d \in {"IN", "OUT"},
         \/ moves(w, w, d) /\ spoiled' = spoiled \cup {<<w, d>>}
         \/ shuts(w, w, d) /\ UNCHANGED spoiled,
         Serviced(w, d)
  PROVE  Spares(q)
<1>1. file \in [Wrapper -> FileRec] /\ RuleFd[q] \in Wrapper /\ RuleDir[q] \in {"IN", "OUT"}
  BY LoopFacts, RuleHolds
<1>2. fdw'[RuleFd[q]].closed = fdw[RuleFd[q]].closed
  BY <1>1 DEF Serviced
<1>3. PICK S : spoiled' = spoiled \cup S
  <2>1. CASE spoiled' = spoiled
    <3>1. spoiled' = spoiled \cup {}
      BY <2>1
    <3> QED BY <3>1, Zenon
  <2> QED BY <2>1, Zenon
<1>4. CASE RuleFd[q] = w /\ RuleDir[q] = d /\ moves(w, w, d) /\ spoiled' = spoiled \cup {<<w, d>>}
  BY <1>4 DEF Spares, Ready, Spoiled
<1>5. CASE RuleFd[q] # w
  <2>1. PICK g : file' = [file EXCEPT ![w] = g]
    <3>1. CASE d = "IN" /\ moves(w, w, d)
      <4>1. PICK n : file' = [file EXCEPT ![w].in = @ - taken(w, MaxIn, n)]
        BY <3>1 DEF moves, reads, gotRead
      <4> QED BY <4>1, Zenon
    <3>2. CASE d = "OUT" /\ moves(w, w, d)
      <4>1. writes(w, w)
        BY <3>2 DEF moves
      <4> QED BY <4>1, Zenon DEF writes
    <3>3. CASE shuts(w, w, d)
      BY <3>3, Zenon DEF shuts, shutDown
    <3> QED BY <3>1, <3>2, <3>3
  <2>2. file'[RuleFd[q]] = file[RuleFd[q]]
    BY <1>1, <1>5, <2>1
  <2>3. Usable(q) => Usable(q)'
    BY <1>2, <2>2 DEF Usable, wrapper, readable, writable, is
  <2> QED BY <1>3, <2>3, UsedBefore DEF Ready
<1>6. CASE RuleFd[q] = w /\ RuleDir[q] = "OUT" /\ d = "IN" /\ moves(w, w, d)
  <2>1. PICK n : file' = [file EXCEPT ![w].in = @ - taken(w, MaxIn, n)]
    BY <1>6 DEF moves, reads, gotRead
  <2>2. file'[w].room = file[w].room /\ file'[w].is = file[w].is
    BY <1>1, <2>1 DEF FileRec
  <2>3. Usable(q) => Usable(q)'
    BY <1>2, <1>6, <2>2 DEF Usable, wrapper, writable, is
  <2> QED BY <1>3, <2>3, UsedBefore DEF Ready
<1>7. CASE RuleFd[q] = w /\ RuleDir[q] = "IN" /\ d = "OUT" /\ moves(w, w, d)
  <2>1. file'[w].in = file[w].in /\ file'[w].is = file[w].is
    BY <1>1, <1>7 DEF moves, writes, FileRec
  <2>2. Usable(q) => Usable(q)'
    BY <1>2, <1>7, <2>1 DEF Usable, wrapper, readable
  <2> QED BY <1>3, <2>2, UsedBefore DEF Ready
<1>8. CASE RuleFd[q] = w /\ shuts(w, w, d)
  <2>1. PICK how : file' = [file EXCEPT ![w] = shutFile(w, how)]
    BY <1>8 DEF shuts, shutDown
  <2>2. ~is(w, "listening")
    BY <1>8 DEF shuts, is
  <2>3. file'[w] = [file[w] EXCEPT !.is = @ \cup how]
    BY <1>1, <2>1, <2>2 DEF shutFile
  <2>4. /\ file'[w].in = file[w].in /\ file'[w].room = file[w].room
        /\ file[w].is \subseteq file'[w].is
    BY <1>1, <2>3 DEF FileRec
  <2>5. Usable(q) => Usable(q)'
    <3>1. readable(w) => readable(w)'
      BY <2>4 DEF readable
    <3>2. writable(w) => writable(w)'
      BY <2>4 DEF writable, is
    <3> QED BY <1>2, <1>8, <3>1, <3>2 DEF Usable, wrapper
  <2> QED BY <1>3, <2>5, UsedBefore DEF Ready
<1> QED BY <1>1, <1>4, <1>5, <1>6, <1>7, <1>8

\* A callback serves a descriptor, its rule's or another's, in either direction.
LEMMA ServesReady == ASSUME LInv, StillReady, CallbackServes PROVE StillReady'
<1>1. /\ it <= Len(_rules) /\ Walking /\ UNCHANGED _rules
      /\ UNCHANGED <<job, misused>> /\ UNCHANGED <<handles, kernel>>
  BY ServeCases
<1>2. PICK w \in Wrapper, d \in {"IN", "OUT"} :
        /\ handles[w] > 0
        /\ \/ fileOf(w) = w /\ ~fdw[w].closed /\ Serves(_rules[it], w, d)
           \/ ServeFails(w)
  BY ServeCases
<1>3. CASE ServeFails(w)
  BY <1>3 DEF ServeFails, Return, StillReady, Walking
<1>4. CASE fileOf(w) = w /\ ~fdw[w].closed /\ Serves(_rules[it], w, d)
  <2>1. /\ UNCHANGED <<it, idx, pollfds>> /\ pc' = "called" /\ Walking'
        /\ \/ moves(w, w, d) /\ spoiled' = spoiled \cup {<<w, d>>}
           \/ shuts(w, w, d) /\ UNCHANGED spoiled
    BY <1>4 DEF Serves, Walking
  <2>2. Serviced(w, d)
    BY <1>1, <1>2, <1>4, ServesServe
  <2>3. ASSUME NEW k \in it .. Len(_rules), k # it PROVE Spares(_rules[k])
    <3>1. _rules[k] \in Range(_rules)
      BY <1>1, <2>3, OtherRule
    <3> QED BY <2>1, <2>2, <3>1, ServiceSpares
  <2> QED BY <1>1, <2>1, <2>3, StaysReady
<1> QED BY <1>2, <1>3, <1>4

\* A callback closes a descriptor, which other rules may watch.
LEMMA ClosesReady == ASSUME LInv, StillReady, CallbackCloses PROVE StillReady'
<1>1. /\ pc \in {"callback", "called"} /\ pc' = "called"
      /\ UNCHANGED <<_rules, it, idx, pollfds>>
  BY DEF CallbackCloses
<1>2. it <= Len(_rules) /\ Walking /\ Walking'
  BY <1>1 DEF LInv, InStep, Walking
<1>3. PICK v \in MayClose[_rules[it]] : /\ handles[v] > 0 /\ closeWrapper(v)
                                       /\ spoiled' = spoiled \cup ({v} \X {"IN", "OUT"})
  BY DEF CallbackCloses
<1>4. v \in Wrapper
  BY <1>2, AtIt, RuleHolds, LoopAssumption
<1>5. ASSUME NEW k \in it .. Len(_rules), k # it PROVE Spares(_rules[k])
  <2> DEFINE u == RuleFd[_rules[k]]
  <2>1. _rules[k] \in Range(_rules)
    BY <1>2, <1>5, OtherRule
  <2>2. u \in Wrapper /\ RuleDir[_rules[k]] \in {"IN", "OUT"}
    BY <2>1, RuleHolds
  <2>3. CASE u = v
    <3>1. <<u, RuleDir[_rules[k]]>> \in spoiled'
      BY <1>3, <2>2, <2>3
    <3> QED BY <1>1, <3>1 DEF Spares, Ready, Spoiled
  <2>4. CASE u # v
    <3>1. fdw'[u] = fdw[u]
      BY <1>3, <1>4, <2>2, <2>4, CloseFields
    <3>2. fileOf(v) # u /\ fdw[v].fd \in Num
      BY <1>3, <1>4, <2>2, <2>4, OpenIsOwn, FDAssumption, LoopFacts DEF Life
    <3>3. file'[u] = file[u]
      BY <1>3, <2>2, <3>2, LoopFacts, SysCloseType DEF closeWrapper, fileOf
    <3> QED BY <1>1, <1>3, <3>1, <3>3 DEF Spares, Ready, Spoiled, Usable, wrapper, readable, writable, is
  <2> QED BY <2>3, <2>4
<1> QED BY <1>1, <1>2, <1>5, StaysReady

\* A callback adds a rule, which was not polled.
LEMMA AddsReady == ASSUME LInv, StillReady, CallbackAdds PROVE StillReady'
<1>1. pc = "called" /\ it <= Len(_rules)
  BY DEF CallbackAdds, LInv, InStep
<1>2. _rules[it] \in Rule
  BY <1>1, AtIt, RuleHolds
<1>3. PICK r \in MayAdd[_rules[it]] : add_rule(r)
  BY DEF CallbackAdds
<1>4. r \in Rule
  BY <1>2, LoopAssumption
<1>5. _rules' = Append(_rules, r) /\ UNCHANGED <<fdw, file, pc, it, idx, pollfds, spoiled>>
  BY <1>3 DEF add_rule, locals
<1>6. /\ _rules \in Seq(Rule) /\ Len(_rules) \in Nat
      /\ it \in 1 .. Len(_rules) + 1 /\ idx \in Nat \ {0} /\ Len(pollfds) \in Nat
  BY LoopFacts
<1>7. Len(_rules') = Len(_rules) + 1 /\ \A k \in 1 .. Len(_rules) : _rules'[k] = _rules[k]
  BY <1>4, <1>5, <1>6
<1>8. ASSUME NEW k \in it .. Len(_rules'), idx + k - it <= Len(pollfds),
             poll_ready(pollfds[idx + k - it]), k # it
      PROVE  Ready(_rules[k])'
  <2>1. idx + Len(_rules) - it >= Len(pollfds)
    BY <1>1 DEF LInv, InStep, Walking
  <2>2. k \in it .. Len(_rules) /\ k \in 1 .. Len(_rules)
    <3>1. Len(_rules') = Len(_rules) + 1
      BY <1>7
    <3> QED BY <1>6, <1>8, <2>1, <3>1
  <2>3. Ready(_rules[k]) /\ _rules'[k] = _rules[k]
    BY <1>1, <1>7, <1>8, <2>2 DEF StillReady, Walking
  <2>4. Spares(_rules[k])
    BY <1>5, Untouched
  <2> QED BY <2>3, <2>4 DEF Spares
<1> QED BY <1>1, <1>5, <1>8 DEF StillReady, poll_ready

\* The callback has returned, and the walk goes on.
LEMMA ReturnsReady == ASSUME LInv, StillReady, CallbackReturns PROVE StillReady'
<1>1. pc = "called" /\ UNCHANGED fdVars /\ UNCHANGED _rules /\ Walking
  BY DEF CallbackReturns, Walking
<1>2. it \in 1 .. Len(_rules) + 1 /\ Len(_rules) \in Nat /\ idx \in Nat \ {0}
  BY LoopFacts
<1>3. CASE Return("busy")
  BY <1>3 DEF Return, StillReady, Walking
<1>4. CASE /\ pc' = "dispatch" /\ it' = it + 1 /\ idx' = idx + 1
           /\ UNCHANGED <<pollfds, spoiled>>
  <2>1. ASSUME NEW k \in it' .. Len(_rules), idx' + k - it' <= Len(pollfds),
               poll_ready(pollfds[idx' + k - it'])
        PROVE  Ready(_rules[k])'
    <3>1. k \in it .. Len(_rules) /\ idx' + k - it' = idx + k - it /\ k # it
      BY <1>2, <1>4
    <3>2. Ready(_rules[k])
      BY <1>1, <2>1, <3>1 DEF StillReady
    <3>3. Spares(_rules[k])
      BY <1>1, <1>4, Untouched DEF fdVars
    <3> QED BY <1>1, <3>2, <3>3 DEF Spares
  <2> QED BY <1>1, <1>4, <2>1 DEF StillReady, poll_ready
<1> QED BY <1>3, <1>4 DEF CallbackReturns

\* What a peer does makes no descriptor wait that would not have waited.
LEMMA PeersSpare ==
  ASSUME LInv, NEW w \in Wrapper, Peer(w), UNCHANGED spoiled, NEW q, RuleFd[q] \in Wrapper
  PROVE  Spares(q)
<1>1. file \in [Wrapper -> FileRec]
  BY LoopFacts
<1>2. UNCHANGED fdw /\ file'[w] \in FileRec /\ \A v \in Wrapper : v # w => file'[v] = file[v]
  <2>1. PICK g : PeerMakes(w, g)
    <3>1. CASE PeerSends(w)
      BY <3>1, Zenon DEF PeerSends
    <3>2. CASE PeerTakes(w)
      BY <3>2, Zenon DEF PeerTakes
    <3>3. CASE PeerEnds(w)
      BY <3>3, Zenon DEF PeerEnds
    <3>4. CASE PeerResets(w)
      BY <3>4, Zenon DEF PeerResets
    <3> QED BY <3>1, <3>2, <3>3, <3>4 DEF Peer
  <2>2. FDInv'
    <3>1. FDInv /\ ~misused
      BY LoopFacts
    <3> QED BY <3>1, PeerInv
  <2>3. file' \in [Wrapper -> FileRec]
    BY <2>2 DEF FDInv, FDTypes, FileRec
  <2> QED BY <1>1, <2>1, <2>3 DEF PeerMakes
<1>3. readable(w) => readable(w)'
  <2>1. file[w] \in FileRec /\ file[w].in \in Nat
    BY <1>1, FDAssumption DEF FileRec
  <2>2. CASE PeerSends(w)
    BY <1>1, <2>1, <2>2 DEF PeerSends, PeerMakes, readable, FileRec
  <2>3. CASE PeerTakes(w)
    BY <1>1, <2>1, <2>3 DEF PeerTakes, PeerMakes, readable, FileRec
  <2>4. CASE PeerEnds(w)
    BY <1>1, <2>1, <2>4 DEF PeerEnds, PeerMakes, readable, FileRec
  <2>5. CASE PeerResets(w)
    BY <1>1, <2>1, <2>5 DEF PeerResets, PeerMakes, readable, FileRec
  <2> QED BY <2>2, <2>3, <2>4, <2>5 DEF Peer
<1>4. writable(w) => writable(w)'
  <2>1. file[w] \in FileRec /\ file[w].room \in Nat
    BY <1>1, FDAssumption DEF FileRec
  <2>2. CASE PeerSends(w)
    BY <1>1, <2>1, <2>2 DEF PeerSends, PeerMakes, writable, is, FileRec
  <2>3. CASE PeerTakes(w)
    BY <1>1, <2>1, <2>3 DEF PeerTakes, PeerMakes, writable, is, FileRec
  <2>4. CASE PeerEnds(w)
    BY <1>1, <2>1, <2>4 DEF PeerEnds, PeerMakes, writable, is, FileRec
  <2>5. CASE PeerResets(w)
    BY <1>1, <2>1, <2>5 DEF PeerResets, PeerMakes, writable, is, FileRec
  <2> QED BY <2>2, <2>3, <2>4, <2>5 DEF Peer
<1>5. CASE RuleFd[q] = w
  BY <1>2, <1>3, <1>4, <1>5 DEF Spares, Ready, Spoiled, Usable, wrapper
<1>6. CASE RuleFd[q] # w
  BY <1>2, <1>6, Untouched
<1> QED BY <1>5, <1>6

\* Every step keeps what poll has reported true for the rules to come.
LEMMA ReadyNext == ASSUME LInv, LInv', StillReady, [LoopNext]_loopVars PROVE StillReady'
<1>1. ASSUME UNCHANGED <<_rules, it, idx, pollfds, pc>>,
             \A q \in Range(_rules) : Spares(q)
      PROVE  StillReady'
  <2>1. CASE Walking
    <3>1. ASSUME NEW k \in it .. Len(_rules) PROVE _rules[k] \in Range(_rules)
      <4>1. it \in 1 .. Len(_rules) + 1 /\ Len(_rules) \in Nat /\ DOMAIN _rules = 1 .. Len(_rules)
        BY LoopFacts
      <4>2. k \in DOMAIN _rules
        BY <4>1
      <4> QED BY <4>2 DEF Range
    <3>2. Walking'
      BY <1>1, <2>1 DEF Walking
    <3> QED BY <1>1, <2>1, <3>1, <3>2, StaysReady
  <2>2. CASE ~Walking
    BY <1>1, <2>2 DEF StillReady, Walking
  <2> QED BY <2>1, <2>2
<1>2. CASE UNCHANGED loopVars
  <2>1. UNCHANGED <<_rules, it, idx, pollfds, spoiled, pc>> /\ UNCHANGED fdVars
    BY <1>2 DEF loopVars, locals
  <2>2. \A q \in Range(_rules) : Spares(q)
    BY <2>1, Untouched DEF fdVars
  <2> QED BY <1>1, <2>1, <2>2
<1>3. CASE Peers
  <2>1. UNCHANGED <<_rules, it, idx, pollfds, spoiled, pc>>
    BY <1>3 DEF Peers, locals
  <2>2. PICK w \in Wrapper : Peer(w)
    BY <1>3 DEF Peers
  <2>3. \A q \in Range(_rules) : Spares(q)
    BY <2>1, <2>2, RuleHolds, PeersSpare
  <2> QED BY <1>1, <2>1, <2>3
<1>4. CASE Call \/ Scan \/ ScanEnds \/ DispatchEnds
  BY <1>4 DEF Call, Scan, ScanEnds, DispatchEnds, Return, StillReady, Walking
<1>5. CASE Application
  BY <1>5 DEF Application, add_rule, ChangeInterest, AppCloses, AppDrops, StillReady, Walking
<1>6. CASE PollReports \/ PollGivesUp \/ PollFails
  BY <1>6, PollReady
<1>7. CASE Dispatch
  BY <1>7, DispatchReady
<1>8. CASE CallbackServes \/ CallbackCloses \/ CallbackAdds \/ CallbackReturns
  BY <1>8, ServesReady, ClosesReady, AddsReady, ReturnsReady
<1>9. CASE CallbackIdles
  <2>1. /\ UNCHANGED <<_rules, it, idx, pollfds, spoiled>> /\ UNCHANGED fdVars
        /\ pc = "callback" /\ pc' = "called" /\ Walking /\ Walking'
    BY <1>9 DEF CallbackIdles, locals, Walking
  <2>2. \A k \in it .. Len(_rules) : Spares(_rules[k])
    BY <2>1, Untouched DEF fdVars
  <2> QED BY <2>1, <2>2, StaysReady
<1> QED BY <1>2, <1>3, <1>4, <1>5, <1>6, <1>7, <1>8, <1>9 DEF LoopNext, Step

\* A callback of a rule that was polled finds its descriptor open and ready, whatever
\* the peers did meanwhile and whatever the callbacks before it did, unless one of
\* those has read, written or closed the same descriptor in the rule's own direction.
\* In that case it need not be ready: the run of EventLoopStale.cfg.
THEOREM LoopStaleOnlyByCallbacks == LoopSpec => []StaleOnlyByCallbacks
<1>1. LoopInit => StillReady
  BY DEF LoopInit, StillReady, Walking
<1>2. LInv /\ LInv' /\ StillReady /\ [LoopNext]_loopVars => StillReady'
  BY ReadyNext
<1>3. LInv /\ StillReady => StaleOnlyByCallbacks
  <2> SUFFICES ASSUME LInv, StillReady, pc = "callback", _rules[it] \notin fresh,
                      ~Spoiled(_rules[it])
               PROVE  readyNow
    BY DEF StaleOnlyByCallbacks, Spoiled
  <2> DEFINE r == _rules[it]
             w == RuleFd[r]
  <2>1. it <= Len(_rules) /\ Walking
    BY DEF LInv, InStep, Walking
  <2>2. r \in Range(_rules) /\ w \in Wrapper /\ handles[w] > 0 /\ fdw[w].fd \in Num
    BY <2>1, AtIt, RuleHolds DEF wrapper
  <2>3. /\ it \in it .. Len(_rules) /\ idx + it - it = idx
    BY <2>1, LoopFacts
  <2>4. idx <= Len(pollfds)
    BY <2>1, <2>3 DEF LInv, InStep
  <2>5. Usable(r)
    BY <2>1, <2>3, <2>4 DEF StillReady, Ready
  <2>6. fileOf(w) = w
    BY <2>2, <2>5, LoopFacts DEF Usable, wrapper, Own, fileOf
  <2> QED BY <2>2, <2>5, <2>6, FDAssumption DEF Usable, readyNow
<1> QED BY <1>1, <1>2, <1>3, LoopInvariance, PTL DEF LoopSpec

=============================================================================
