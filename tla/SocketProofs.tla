---------------------------- MODULE SocketProofs ----------------------------
(***************************************************************************)
(* Proofs about FileDescriptor and Socket, for every set of wrappers and   *)
(* of numbers, every width of the counts, every bound on handles, buffers  *)
(* and sizes, and every peer.                                              *)
(***************************************************************************)
EXTENDS Socket, WellFoundedInduction, TLAPS

----------------------------------------------------------------------------
(* The inductive invariant *)

FdRec == [fd : Num \cup {-1}, eof : BOOLEAN, closed : BOOLEAN,
          read_count : 0 .. UINT_MAX, write_count : 0 .. UINT_MAX]

FileRec == [kind : {None, "pipe", "unix", "tcp", "udp"}, in : 0 .. MaxIn,
            room : 0 .. MaxOut, is : SUBSET Marks]

JobRec == [w : Wrapper \cup {None}, left : Nat, total : Nat, size : Nat, all : BOOLEAN]

\* A wrapper with a handle has had a number; one without is not born or freed.
Life == \A w \in Wrapper : IF handles[w] > 0 THEN fdw[w].fd \in Num
                           ELSE fdw[w] \in {Unborn, Freed}

\* The call of write() under way is on an object that exists, and what is left
\* and what is done add up.
JobOK == job # NoJob => /\ job.w \in Wrapper /\ handles[job.w] > 0
                        /\ job.left + job.total = job.size

\* Ownership and EofIsTrue without their condition.
Own == \A w \in Wrapper, n \in Num :
         kernel[n] = w <=> handles[w] > 0 /\ fdw[w].fd = n /\ ~fdw[w].closed

atEnd(g) == g.in = 0 /\ g.is \cap {"ended", "rd"} # {}

Ends == \A w \in Wrapper :
          fdw[w].eof /\ ~fdw[w].closed /\ file[w].kind # "udp" => atEnd(file[w])

\* The types know nothing of who owns a number; Ownership needs to know that a
\* wrapper without handles has none, EofIsTrue that a call on a wrapper works on
\* the file of that wrapper, and AllOrThrow how far a write() has come.
FDInv == /\ FDTypes /\ Life /\ JobOK /\ AllOrThrow
         /\ ~misused => Own /\ Ends

\* The invariant contains the properties.
LEMMA FDInvImplies == FDInv => FDTypeOK /\ Ownership /\ EofIsTrue /\ AllOrThrow
  BY DEF FDInv, FDTypeOK, Life, Own, Ends, Ownership, EofIsTrue, atEnd, datagrams

----------------------------------------------------------------------------
(* Operators *)

\* Every set of numbers that is not empty has a least one.
LEMMA MinOfNats == ASSUME NEW S, S \subseteq Nat, S # {}
                   PROVE  Min(S) \in S /\ \A y \in S : Min(S) <= y
<1>1. PICK x \in S : \A y \in S : ~(<<y, x>> \in OpToRel(<, Nat))
  BY NatLessThanWellFounded, WFMin, Zenon
<1>2. \A y \in S : x <= y
  <2> TAKE y \in S
  <2>1. x \in Nat /\ y \in Nat
    OBVIOUS
  <2>2. ~(y < x)
    BY <1>1, <2>1 DEF OpToRel
  <2> QED BY <2>1, <2>2
<1>3. \E z \in S : \A y \in S : z <= y
  BY <1>2
<1> QED BY <1>3 DEF Min

\* The lowest free number is a number and is free.
LEMMA LowestFree == free # {} => Min(free) \in Num /\ kernel[Min(free)] = None
<1> SUFFICES ASSUME free # {} PROVE Min(free) \in free
  BY DEF free
<1>1. free \subseteq Nat
  BY FDAssumption DEF free
<1> QED BY <1>1, MinOfNats

\* The counts wrap inside their width.
LEMMA IncType == \A n \in Nat : Inc(n) \in 0 .. UINT_MAX
  BY FDAssumption DEF Inc

\* A wrapper that is not born has no handle, and no number is open on it.
LEMMA UnbornIsNobody ==
  ASSUME FDTypes, Life, Own, NEW c \in Wrapper, fdw[c] = Unborn
  PROVE  handles[c] = 0 /\ \A n \in Num : kernel[n] # c
<1>1. fdw[c].fd = -1 /\ -1 \notin Num
  BY FDAssumption DEF Unborn
<1>2. handles[c] \in Nat
  BY FDAssumption DEF FDTypes
<1> QED BY <1>1, <1>2 DEF Life, Own

\* The number of a wrapper that is open is open on the wrapper's own file.
LEMMA OwnFile ==
  ASSUME FDTypes, Life, Own, NEW w \in Wrapper, handles[w] > 0
  PROVE  /\ fdw[w].fd \in Num
         /\ fileOf(w) \in Wrapper \cup {None}
         /\ ~fdw[w].closed => fileOf(w) = w
  BY DEF FDTypes, Life, Own, fileOf

----------------------------------------------------------------------------
(* Calls that change counts, flags and one file *)

\* Such a call keeps the invariant when it gives no EOF that is not one and takes
\* no end away.
LEMMA ServeStep ==
  ASSUME FDInv, ~misused, NEW w \in Wrapper, handles[w] > 0,
         UNCHANGED <<handles, kernel>>,
         NEW h \in FdRec, h.fd = fdw[w].fd, h.closed = fdw[w].closed,
         fdw' = [fdw EXCEPT ![w] = h],
         NEW f \in Wrapper, NEW g \in FileRec, g.kind = file[f].kind,
         file' = [file EXCEPT ![f] = g],
         job' \in JobRec, JobOK', outcome' \in {"returned", "threw"}, misused' \in BOOLEAN,
         misused' \/ g.kind = "udp" \/ (atEnd(file[f]) => atEnd(g)),
         misused' \/ (h.eof => fdw[w].eof \/ (f = w /\ (g.kind = "udp" \/ atEnd(g))))
  PROVE  FDInv'
<1>1. FDTypes /\ Life /\ Own /\ Ends
  BY DEF FDInv
<1>2. /\ fdw \in [Wrapper -> FdRec] /\ file \in [Wrapper -> FileRec]
      /\ handles \in [Wrapper -> 0 .. MaxHandles]
      /\ kernel \in [Num -> Wrapper \cup {None}]
  BY <1>1 DEF FDTypes, FdRec, FileRec
<1>3. fdw' \in [Wrapper -> FdRec] /\ file' \in [Wrapper -> FileRec]
  BY <1>2
<1>4. FDTypes'
  BY <1>2, <1>3 DEF FDTypes, FdRec, FileRec, JobRec
<1>5. \A v \in Wrapper : /\ fdw'[v] = IF v = w THEN h ELSE fdw[v]
                         /\ file'[v] = IF v = f THEN g ELSE file[v]
  BY <1>2
<1>6. Life'
  BY <1>1, <1>5 DEF Life
<1>7. Own'
  BY <1>1, <1>5 DEF Own
<1>8. ~misused' => Ends'
  <2> SUFFICES ASSUME ~misused', NEW v \in Wrapper,
                      fdw'[v].eof, ~fdw'[v].closed, file'[v].kind # "udp"
               PROVE  atEnd(file'[v])
    BY DEF Ends
  <2>1. CASE v = w
    BY <1>1, <1>5, <2>1 DEF Ends
  <2>2. CASE v # w
    BY <1>1, <1>5, <2>2 DEF Ends
  <2> QED BY <2>1, <2>2
<1>9. AllOrThrow'
  BY DEF AllOrThrow
<1> QED BY <1>4, <1>6, <1>7, <1>8, <1>9 DEF FDInv

\* A read that got an answer.
LEMMA GotReadStep ==
  ASSUME FDInv, ~misused, NEW w \in Wrapper, handles[w] > 0,
         NEW f \in Wrapper, f = fileOf(w), NEW limit \in Nat,
         NEW n \in readResults(f, limit), gotRead(w, f, limit, n),
         UNCHANGED <<handles, kernel, job>>,
         misused' \in BOOLEAN, misused' \/ ~fdw[w].closed
  PROVE  FDInv'
<1> DEFINE h == [fdw[w] EXCEPT !.eof = @ \/ ends(limit, n), !.read_count = Inc(@)]
           g == [file[f] EXCEPT !.in = @ - taken(f, limit, n)]
<1>1. FDTypes /\ Life /\ Own /\ Ends
  BY DEF FDInv
<1>2. fdw \in [Wrapper -> FdRec] /\ file \in [Wrapper -> FileRec] /\ job \in JobRec
  BY <1>1 DEF FDTypes, FdRec, FileRec, JobRec
<1>3. fdw[w] \in FdRec /\ file[f] \in FileRec /\ file[f].in \in Nat /\ MaxIn \in Nat
  BY <1>2, FDAssumption DEF FileRec
<1>4. /\ taken(f, limit, n) \in 0 .. file[f].in
      /\ ends(limit, n) => file[f].kind = "udp" \/ atEnd(file[f])
  BY <1>3 DEF readResults, taken, ends, datagrams, readable, min2, atEnd
<1>5. h \in FdRec /\ h.fd = fdw[w].fd /\ h.closed = fdw[w].closed
      /\ h.eof = (fdw[w].eof \/ ends(limit, n))
  <2> DEFINE e == fdw[w].eof \/ ends(limit, n)
             c == Inc(fdw[w].read_count)
  <2>1. c \in 0 .. UINT_MAX
    BY <1>3, IncType, FDAssumption DEF FdRec
  <2>2. e \in BOOLEAN
    OBVIOUS
  <2>3. h = [fdw[w] EXCEPT !.eof = e, !.read_count = c]
    OBVIOUS
  <2> HIDE DEF e, c, h
  <2>4. h \in FdRec /\ h.fd = fdw[w].fd /\ h.closed = fdw[w].closed /\ h.eof = e
    BY <1>3, <2>1, <2>2, <2>3 DEF FdRec
  <2> QED BY <2>4 DEF e
<1>6. g \in FileRec /\ g.kind = file[f].kind /\ g.is = file[f].is
      /\ g.in = file[f].in - taken(f, limit, n)
  BY <1>3, <1>4 DEF FileRec
<1>7. atEnd(file[f]) => atEnd(g)
  BY <1>3, <1>4, <1>6 DEF atEnd
<1>8. fdw' = [fdw EXCEPT ![w] = h] /\ file' = [file EXCEPT ![f] = g]
  BY <1>2 DEF gotRead
<1>9. misused' \/ f = w
  BY <1>1, OwnFile
<1>10. outcome' \in {"returned", "threw"} /\ JobOK'
  BY DEF gotRead, Ok, Moved, FDInv, JobOK
<1> HIDE DEF h, g
<1> QED BY <1>2, <1>4, <1>5, <1>6, <1>7, <1>8, <1>9, <1>10, ServeStep

\* A step of the peer on the file of w.
LEMMA PeerStep ==
  ASSUME FDInv, ~misused, NEW w \in Wrapper, NEW g \in FileRec, PeerMakes(w, g),
         g.kind = file[w].kind, atEnd(file[w]) => atEnd(g)
  PROVE  FDInv'
<1>1. FDTypes /\ Life /\ Own /\ Ends
  BY DEF FDInv
<1>2. fdw \in [Wrapper -> FdRec] /\ job \in JobRec
  BY <1>1 DEF FDTypes, FdRec, JobRec
<1>3. handles[w] > 0
  BY <1>1 DEF PeerMakes, Own
<1>4. fdw' = [fdw EXCEPT ![w] = fdw[w]] /\ file' = [file EXCEPT ![w] = g]
  BY <1>2 DEF PeerMakes
<1>5. outcome' \in {"returned", "threw"} /\ misused' \in BOOLEAN /\ JobOK'
  BY <1>1 DEF PeerMakes, FDInv, JobOK, FDTypes, AllOrThrow
<1>6. fdw[w] \in FdRec /\ job' \in JobRec /\ UNCHANGED <<handles, kernel>>
  BY <1>2 DEF PeerMakes
<1> QED BY <1>3, <1>4, <1>5, <1>6, ServeStep

\* Whatever the peers do, the invariant stays.
LEMMA PeerInv == ASSUME FDInv, ~misused, NEW w \in Wrapper, Peer(w) PROVE FDInv'
<1>1. file[w] \in FileRec /\ MaxIn \in Nat /\ MaxOut \in Nat
  BY FDAssumption DEF FDInv, FDTypes, FileRec
<1>2. CASE PeerSends(w)
  <2> DEFINE g == [file[w] EXCEPT !.in = @ + 1]
  <2>1. g \in FileRec /\ g.kind = file[w].kind
    BY <1>1, <1>2 DEF PeerSends, FileRec
  <2>2. PeerMakes(w, g) /\ ~atEnd(file[w])
    BY <1>2 DEF PeerSends, atEnd
  <2> HIDE DEF g
  <2> QED BY <2>1, <2>2, PeerStep
<1>3. CASE PeerTakes(w)
  <2> DEFINE g == [file[w] EXCEPT !.room = @ + 1]
  <2>1. g \in FileRec /\ g.kind = file[w].kind /\ g.in = file[w].in /\ g.is = file[w].is
    BY <1>1, <1>3 DEF PeerTakes, FileRec
  <2>2. PeerMakes(w, g)
    BY <1>3 DEF PeerTakes
  <2> HIDE DEF g
  <2> QED BY <2>1, <2>2, PeerStep DEF atEnd
<1>4. CASE PeerEnds(w)
  <2> DEFINE g == [file[w] EXCEPT !.is = @ \cup {"ended"}]
  <2>1. g \in FileRec /\ g.kind = file[w].kind /\ g.in = file[w].in
        /\ g.is = file[w].is \cup {"ended"}
    BY <1>1 DEF FileRec, Marks
  <2>2. PeerMakes(w, g)
    BY <1>4 DEF PeerEnds
  <2> HIDE DEF g
  <2> QED BY <2>1, <2>2, PeerStep DEF atEnd
<1>5. CASE PeerResets(w)
  <2>1. PICK n \in (IF is(w, "ended") THEN file[w].in ELSE 0) .. file[w].in :
          PeerMakes(w, [file[w] EXCEPT !.in = n, !.is = @ \cup {"reset", "rd", "wr"}])
    BY <1>5 DEF PeerResets
  <2> DEFINE g == [file[w] EXCEPT !.in = n, !.is = @ \cup {"reset", "rd", "wr"}]
  <2>2. n \in 0 .. file[w].in /\ n \in 0 .. MaxIn
    BY <1>1 DEF FileRec
  <2>3. g \in FileRec /\ g.kind = file[w].kind /\ g.in = n
        /\ g.is = file[w].is \cup {"reset", "rd", "wr"}
    BY <1>1, <2>2 DEF FileRec, Marks
  <2>4. PeerMakes(w, g)
    BY <2>1
  <2>5. atEnd(file[w]) => atEnd(g)
    BY <2>2, <2>3 DEF atEnd
  <2> HIDE DEF g
  <2> QED BY <2>3, <2>4, <2>5, PeerStep
<1> QED BY <1>2, <1>3, <1>4, <1>5 DEF Peer

----------------------------------------------------------------------------
(* Calls that create, share and destroy *)

\* Another handle: nothing else changes.
LEMMA DuplicateInv ==
  ASSUME FDInv, ~misused, NEW w \in Wrapper, handles[w] > 0, handles[w] < MaxHandles,
         handles' = [handles EXCEPT ![w] = @ + 1],
         outcome' \in {"returned", "threw"},
         UNCHANGED <<fdw, kernel, file, job, misused>>
  PROVE  FDInv'
<1>1. FDTypes /\ Life /\ Own /\ Ends /\ JobOK /\ MaxHandles \in Nat
  BY FDAssumption DEF FDInv
<1>2. handles \in [Wrapper -> 0 .. MaxHandles]
  BY <1>1 DEF FDTypes
<1>3. /\ handles' \in [Wrapper -> 0 .. MaxHandles]
      /\ \A v \in Wrapper : handles'[v] > 0 <=> handles[v] > 0
  BY <1>1, <1>2
<1>4. FDTypes'
  BY <1>1, <1>3 DEF FDTypes
<1>5. Life' /\ Own' /\ JobOK'
  BY <1>1, <1>3 DEF Life, Own, JobOK
<1>6. Ends'
  BY <1>1 DEF Ends
<1> QED BY <1>4, <1>5, <1>6 DEF FDInv, AllOrThrow

\* A wrapper is constructed on a free number; the others keep theirs.
LEMMA BornStep ==
  ASSUME FDInv, ~misused, NEW c \in Wrapper, fdw[c] = Unborn,
         NEW m \in Num, kernel[m] = None,
         fdw' \in [Wrapper -> FdRec], file' \in [Wrapper -> FileRec],
         fdw'[c] = [Unborn EXCEPT !.fd = m],
         \A v \in Wrapper \ {c} :
           /\ fdw'[v].fd = fdw[v].fd /\ fdw'[v].closed = fdw[v].closed
           /\ fdw'[v].eof => fdw[v].eof
           /\ handles[v] = 0 => fdw'[v] = fdw[v]
           /\ file'[v].kind = file[v].kind
           /\ misused' \/ (atEnd(file[v]) => atEnd(file'[v])),
         kernel' = [kernel EXCEPT ![m] = c],
         handles' = [handles EXCEPT ![c] = 1],
         outcome' \in {"returned", "threw"}, misused' \in BOOLEAN,
         job = NoJob, UNCHANGED job
  PROVE  FDInv'
<1>1. FDTypes /\ Life /\ Own /\ Ends /\ JobOK /\ 1 \in 0 .. MaxHandles
  BY FDAssumption DEF FDInv
<1>2. /\ handles \in [Wrapper -> 0 .. MaxHandles]
      /\ kernel \in [Num -> Wrapper \cup {None}]
  BY <1>1 DEF FDTypes
<1>3. handles[c] = 0 /\ \A n \in Num : kernel[n] # c
  BY <1>1, UnbornIsNobody
<1>4. FDTypes'
  BY <1>1, <1>2 DEF FDTypes, FdRec, FileRec
<1>5. /\ \A v \in Wrapper : handles'[v] = IF v = c THEN 1 ELSE handles[v]
      /\ \A n \in Num : kernel'[n] = IF n = m THEN c ELSE kernel[n]
  BY <1>2
<1>6. fdw'[c].fd = m /\ ~fdw'[c].closed /\ ~fdw'[c].eof
  BY DEF Unborn
<1>7. Life'
  <2> SUFFICES ASSUME NEW v \in Wrapper
               PROVE  IF handles'[v] > 0 THEN fdw'[v].fd \in Num ELSE fdw'[v] \in {Unborn, Freed}
    BY DEF Life
  <2>1. CASE v = c
    <3>1. handles'[v] = 1
      BY <1>5, <2>1, Zenon
    <3>2. fdw'[v].fd \in Num
      BY <1>6, <2>1, Zenon
    <3> QED BY <3>1, <3>2
  <2>2. CASE v # c
    <3>1. handles'[v] = handles[v] /\ handles[v] \in Nat
      BY <1>2, <1>5, <2>2
    <3>2. fdw'[v].fd = fdw[v].fd /\ (handles[v] = 0 => fdw'[v] = fdw[v])
      BY <2>2
    <3>3. IF handles[v] > 0 THEN fdw[v].fd \in Num ELSE fdw[v] \in {Unborn, Freed}
      BY <1>1 DEF Life
    <3> QED BY <3>1, <3>2, <3>3
  <2> QED BY <2>1, <2>2
<1>8. Own'
  <2> SUFFICES ASSUME NEW v \in Wrapper, NEW n \in Num
               PROVE  kernel'[n] = v
                        <=> handles'[v] > 0 /\ fdw'[v].fd = n /\ ~fdw'[v].closed
    BY DEF Own
  <2>1. CASE v = c
    <3>1. handles'[c] > 0 /\ (kernel'[n] = c <=> n = m)
      BY <1>3, <1>5
    <3> QED BY <1>6, <2>1, <3>1, Zenon
  <2>2. CASE v # c
    <3>1. kernel[m] # v
      BY FDAssumption
    <3> QED BY <1>1, <1>5, <2>2, <3>1 DEF Own
  <2> QED BY <2>1, <2>2
<1>9. ~misused' => Ends'
  BY <1>1, <1>6 DEF Ends
<1> QED BY <1>4, <1>7, <1>8, <1>9 DEF FDInv, AllOrThrow, JobOK

\* A fresh file of one of the kinds.
LEMMA NewFileType ==
  ASSUME NEW k \in {None, "pipe", "unix", "tcp", "udp"}, NEW marks \in SUBSET Marks
  PROVE  NewFile(k, marks) \in FileRec /\ NewFile(k, marks).kind = k
  BY FDAssumption DEF NewFile, FileRec

\* FDWrapper(fd) makes an owner of the number.
LEMMA OpenInv ==
  ASSUME FDInv, ~misused, NEW w \in Wrapper, NEW k \in {"pipe", "unix", "tcp", "udp"},
         Open(w, k)
  PROVE  FDInv'
<1> DEFINE m == Min(free)
           new == NewFile(k, IF k \in {"pipe", "unix"} THEN {"connected"} ELSE {})
           h == [Unborn EXCEPT !.fd = m]
<1>1. FDTypes /\ fdw \in [Wrapper -> FdRec] /\ file \in [Wrapper -> FileRec]
  BY DEF FDInv, FDTypes, FdRec, FileRec
<1>2. m \in Num /\ kernel[m] = None
  BY LowestFree DEF Open
<1>3. new \in FileRec
  <2>1. k \in {None, "pipe", "unix", "tcp", "udp"}
    OBVIOUS
  <2> DEFINE marks == IF k \in {"pipe", "unix"} THEN {"connected"} ELSE {}
  <2>2. marks \in SUBSET Marks
    BY DEF Marks
  <2> HIDE DEF marks
  <2>3. NewFile(k, marks) \in FileRec
    BY <2>1, <2>2, NewFileType
  <2> QED BY <2>3 DEF marks
<1>4. h \in FdRec
  <2> HIDE DEF m
  <2>1. Unborn \in FdRec
    BY <1>1 DEF Open
  <2> QED BY <1>2, <2>1 DEF FdRec
<1>5. /\ fdw[w] = Unborn /\ job = NoJob /\ outcome' = Ok
      /\ fdw' = [fdw EXCEPT ![w].fd = m]
      /\ file' = [file EXCEPT ![w] = new]
      /\ kernel' = [kernel EXCEPT ![m] = w]
      /\ handles' = [handles EXCEPT ![w] = 1]
      /\ UNCHANGED <<job, misused>>
  BY DEF Open
<1> HIDE DEF m, new
<1>6. fdw' = [fdw EXCEPT ![w] = h]
  BY <1>1, <1>5
<1> HIDE DEF h
<1>7. /\ fdw' \in [Wrapper -> FdRec] /\ file' \in [Wrapper -> FileRec]
      /\ fdw'[w] = h
      /\ \A v \in Wrapper \ {w} : fdw'[v] = fdw[v] /\ file'[v] = file[v]
  BY <1>1, <1>3, <1>4, <1>5, <1>6
<1>8. outcome' \in {"returned", "threw"} /\ misused' \in BOOLEAN
  BY <1>1, <1>5 DEF Ok, Moved, FDTypes
<1> QED BY <1>2, <1>5, <1>7, <1>8, BornStep DEF h

\* The kernel forgets a number and the file behind it.
LEMMA SysCloseType ==
  ASSUME FDTypes, NEW n \in Num, sysClose(n)
  PROVE  /\ kernel' \in [Num -> Wrapper \cup {None}]
         /\ file' \in [Wrapper -> FileRec]
         /\ \A i \in Num : kernel'[i] = IF i = n THEN None ELSE kernel[i]
         /\ \A v \in Wrapper : /\ v # kernel[n] => file'[v] = file[v]
                               /\ file'[v].kind = file[v].kind
<1>1. file \in [Wrapper -> FileRec] /\ kernel \in [Num -> Wrapper \cup {None}]
  BY DEF FDTypes, FileRec
<1>2. \A v \in Wrapper : /\ NewFile(file[v].kind, {}) \in FileRec
                         /\ NewFile(file[v].kind, {}).kind = file[v].kind
  <2> TAKE v \in Wrapper
  <2>1. file[v].kind \in {None, "pipe", "unix", "tcp", "udp"} /\ {} \in SUBSET Marks
    BY <1>1 DEF FileRec
  <2> QED BY <2>1, NewFileType
<1>3. \A v \in Wrapper :
        file'[v] = IF v = kernel[n] THEN NewFile(file[v].kind, {}) ELSE file[v]
  BY DEF sysClose
<1>4. file' = [v \in Wrapper |-> IF v = kernel[n] THEN NewFile(file[v].kind, {}) ELSE file[v]]
  BY DEF sysClose
<1>5. file' \in [Wrapper -> FileRec]
  BY <1>1, <1>2, <1>4
<1>6. kernel' \in [Num -> Wrapper \cup {None}]
      /\ \A i \in Num : kernel'[i] = IF i = n THEN None ELSE kernel[i]
  BY <1>1 DEF sysClose
<1> QED BY <1>2, <1>3, <1>5, <1>6

\* FDWrapper::close(), whether the wrapper was open or not.
LEMMA CloseInv ==
  ASSUME FDInv, ~misused, NEW w \in Wrapper, handles[w] > 0, closeWrapper(w),
         misused' \in BOOLEAN, misused' \/ ~fdw[w].closed,
         UNCHANGED <<handles, job>>
  PROVE  FDInv'
<1> DEFINE n == fdw[w].fd
           h == [fdw[w] EXCEPT !.eof = TRUE, !.closed = TRUE]
<1>1. FDTypes /\ Life /\ Own /\ Ends /\ JobOK
  BY DEF FDInv
<1>2. fdw \in [Wrapper -> FdRec] /\ n \in Num
  BY <1>1, OwnFile DEF FDTypes, FdRec
<1>3. h \in FdRec /\ h.fd = n /\ h.closed = TRUE
  BY <1>2 DEF FdRec
<1>4. /\ sysClose(n)
      /\ \/ outcome' = Threw /\ fdw' = fdw /\ fileOf(w) = None
         \/ outcome' = Ok /\ fdw' = [fdw EXCEPT ![w] = h]
  BY <1>2 DEF closeWrapper
<1> HIDE DEF n, h
<1>5. fdw' \in [Wrapper -> FdRec] /\ \A v \in Wrapper \ {w} : fdw'[v] = fdw[v]
  BY <1>2, <1>3, <1>4
<1>6. fdw'[w] = h \/ (fdw'[w] = fdw[w] /\ fileOf(w) = None)
  BY <1>2, <1>4
<1>7. /\ kernel' \in [Num -> Wrapper \cup {None}]
      /\ file' \in [Wrapper -> FileRec]
      /\ \A i \in Num : kernel'[i] = IF i = n THEN None ELSE kernel[i]
      /\ \A v \in Wrapper : v # kernel[n] => file'[v] = file[v]
  BY <1>1, <1>2, <1>4, SysCloseType
<1>8. outcome' \in {"returned", "threw"}
  BY <1>4 DEF Ok, Moved, Threw
<1>9. FDTypes'
  BY <1>1, <1>5, <1>7, <1>8 DEF FDTypes, FdRec, FileRec
<1>10. Life'
  <2>1. fdw'[w].fd = n
    BY <1>3, <1>6 DEF n
  <2> QED BY <1>1, <1>2, <1>5, <2>1 DEF Life
<1>11. ASSUME ~misused' PROVE Own' /\ Ends'
  <2>1. kernel[n] = w /\ fdw'[w] = h
    BY <1>1, <1>6, <1>11, OwnFile, FDAssumption DEF fileOf, n
  <2>2. Own'
    <3> SUFFICES ASSUME NEW v \in Wrapper, NEW i \in Num
                 PROVE  kernel'[i] = v
                          <=> handles'[v] > 0 /\ fdw'[v].fd = i /\ ~fdw'[v].closed
      BY DEF Own
    <3>1. CASE v = w
      <4>1. kernel[i] = w => i = n
        BY <1>1, <1>2 DEF Own, n
      <4> QED BY <1>3, <1>7, <2>1, <3>1, <4>1, FDAssumption
    <3>2. CASE v # w
      BY <1>1, <1>2, <1>5, <1>7, <2>1, <3>2, FDAssumption DEF Own
    <3> QED BY <3>1, <3>2
  <2>3. Ends'
    BY <1>1, <1>3, <1>5, <1>7, <2>1 DEF Ends
  <2> QED BY <2>2, <2>3
<1> QED BY <1>1, <1>8, <1>9, <1>10, <1>11 DEF FDInv, AllOrThrow, JobOK

\* The two states of a wrapper without handles.
LEMMA FreedType == /\ Unborn \in FdRec /\ Freed \in FdRec
                   /\ ~Unborn.eof /\ ~Freed.eof /\ Freed.closed
<1>1. Unborn \in FdRec /\ ~Unborn.eof
  BY FDAssumption DEF Unborn, FdRec
<1>2. Freed \in FdRec /\ Freed.closed /\ Freed.eof = Unborn.eof
  BY <1>1 DEF Freed, FdRec
<1> QED BY <1>1, <1>2

\* A handle goes, and with the last one the number, unless it was closed before.
LEMMA DestroyInv ==
  ASSUME FDInv, ~misused, NEW w \in Wrapper, handles[w] > 0, destroy(w),
         job = NoJob, UNCHANGED job,
         outcome' \in {"returned", "threw"}, misused' \in BOOLEAN
  PROVE  FDInv'
<1> DEFINE n == fdw[w].fd
<1>1. FDTypes /\ Life /\ Own /\ Ends /\ MaxHandles \in Nat
  BY FDAssumption DEF FDInv
<1>2. /\ fdw \in [Wrapper -> FdRec] /\ handles \in [Wrapper -> 0 .. MaxHandles]
      /\ file \in [Wrapper -> FileRec] /\ kernel \in [Num -> Wrapper \cup {None}]
      /\ n \in Num
  BY <1>1, OwnFile DEF FDTypes, FdRec, FileRec
<1>3. handles[w] \in 1 .. MaxHandles
  BY <1>2
<1>4. /\ handles' \in [Wrapper -> 0 .. MaxHandles]
      /\ \A v \in Wrapper : handles'[v] = IF v = w THEN handles[w] - 1 ELSE handles[v]
  BY <1>1, <1>2, <1>3 DEF destroy
<1>5. JobOK' /\ AllOrThrow'
  BY DEF JobOK, AllOrThrow
<1>6. CASE handles[w] > 1
  <2>1. UNCHANGED <<fdw, kernel, file>>
    BY <1>6 DEF destroy
  <2>2. \A v \in Wrapper : handles'[v] > 0 <=> handles[v] > 0
    BY <1>2, <1>3, <1>4, <1>6
  <2>3. FDTypes' /\ Life' /\ Own' /\ Ends'
    <3>1. FDTypes'
      BY <1>1, <1>4, <2>1 DEF FDTypes
    <3>2. Life' /\ Own'
      BY <1>1, <2>1, <2>2 DEF Life, Own
    <3>3. Ends'
      BY <1>1, <2>1 DEF Ends
    <3> QED BY <3>1, <3>2, <3>3
  <2> QED BY <1>5, <2>3 DEF FDInv
<1>7. CASE handles[w] = 1
  <2>1. fdw' = [fdw EXCEPT ![w] = Freed]
    BY <1>7 DEF destroy
  <2>2. /\ fdw' \in [Wrapper -> FdRec] /\ fdw'[w] = Freed
        /\ \A v \in Wrapper \ {w} : fdw'[v] = fdw[v]
    BY <1>2, <2>1, FreedType
  <2>3. handles'[w] = 0
    BY <1>4, <1>7
  <2>4. /\ kernel' \in [Num -> Wrapper \cup {None}] /\ file' \in [Wrapper -> FileRec]
        /\ \A i \in Num : kernel'[i] # w
        /\ \A v \in Wrapper \ {w} : /\ file'[v] = file[v]
                                    /\ \A i \in Num : kernel'[i] = v <=> kernel[i] = v
    <3>1. CASE fdw[w].closed
      <4>1. UNCHANGED <<kernel, file>>
        BY <3>1 DEF destroy
      <4> QED BY <1>1, <1>2, <3>1, <4>1 DEF Own
    <3>2. CASE ~fdw[w].closed
      <4>1. sysClose(n) /\ kernel[n] = w
        BY <1>1, <1>7, <3>2, OwnFile DEF destroy, fileOf
      <4> HIDE DEF n
      <4>2. /\ kernel' \in [Num -> Wrapper \cup {None}] /\ file' \in [Wrapper -> FileRec]
            /\ \A i \in Num : kernel'[i] = IF i = n THEN None ELSE kernel[i]
            /\ \A v \in Wrapper : v # w => file'[v] = file[v]
        BY <1>1, <1>2, <4>1, SysCloseType
      <4>3. \A i \in Num : kernel[i] = w => i = n
        BY <1>1 DEF Own, n
      <4> QED BY <4>1, <4>2, <4>3, FDAssumption
    <3> QED BY <3>1, <3>2
  <2> HIDE DEF n
  <2>5. FDTypes'
    BY <1>1, <1>4, <2>2, <2>4 DEF FDTypes, FdRec, FileRec
  <2>6. Life'
    <3> SUFFICES ASSUME NEW v \in Wrapper
                 PROVE  IF handles'[v] > 0 THEN fdw'[v].fd \in Num
                                           ELSE fdw'[v] \in {Unborn, Freed}
      BY DEF Life
    <3>1. CASE v = w
      BY <2>2, <2>3, <3>1
    <3>2. CASE v # w
      <4>1. handles'[v] = handles[v] /\ fdw'[v] = fdw[v]
        BY <1>4, <2>2, <3>2
      <4> QED BY <1>1, <4>1 DEF Life
    <3> QED BY <3>1, <3>2
  <2>7. Own'
    <3> SUFFICES ASSUME NEW v \in Wrapper, NEW i \in Num
                 PROVE  kernel'[i] = v
                          <=> handles'[v] > 0 /\ fdw'[v].fd = i /\ ~fdw'[v].closed
      BY DEF Own
    <3>1. CASE v = w
      BY <2>3, <2>4, <3>1
    <3>2. CASE v # w
      BY <1>1, <1>4, <2>2, <2>4, <3>2 DEF Own
    <3> QED BY <3>1, <3>2
  <2>8. Ends'
    BY <1>1, <2>2, <2>4, FreedType DEF Ends
  <2> QED BY <1>5, <2>5, <2>6, <2>7, <2>8 DEF FDInv
<1> QED BY <1>3, <1>6, <1>7

----------------------------------------------------------------------------
(* The calls of FileDescriptor *)

\* The marks of a file change and nothing else.
Remarks(f, marks) == /\ file' = [file EXCEPT ![f].is = marks]
                     /\ UNCHANGED <<fdw, handles, kernel>>

\* A call that changes marks keeps the invariant when it takes no end away.
LEMMA MarkStep ==
  ASSUME FDInv, ~misused, NEW w \in Wrapper, handles[w] > 0,
         NEW f \in Wrapper, f = fileOf(w),
         NEW marks \in SUBSET Marks,
         file[f].is \cap {"ended", "rd"} \subseteq marks,
         Remarks(f, marks),
         job' \in JobRec, JobOK', outcome' \in {"returned", "threw"},
         misused' \in BOOLEAN, misused' \/ ~fdw[w].closed
  PROVE  FDInv'
<1> DEFINE g == [file[f] EXCEPT !.is = marks]
           h == fdw[w]
<1>1. FDTypes /\ Life /\ Own
  BY DEF FDInv
<1>2. fdw \in [Wrapper -> FdRec] /\ file \in [Wrapper -> FileRec]
  BY <1>1 DEF FDTypes, FdRec, FileRec
<1>3. g \in FileRec /\ g.kind = file[f].kind /\ g.in = file[f].in /\ g.is = marks
  BY <1>2 DEF FileRec
<1>4. atEnd(file[f]) => atEnd(g)
  BY <1>3 DEF atEnd
<1>5. /\ fdw' = [fdw EXCEPT ![w] = h] /\ file' = [file EXCEPT ![f] = g]
      /\ UNCHANGED <<handles, kernel>>
  BY <1>2 DEF Remarks
<1>6. h \in FdRec /\ h.fd = fdw[w].fd /\ h.closed = fdw[w].closed /\ (h.eof => fdw[w].eof)
  BY <1>2
<1>7. misused' \/ f = w
  BY <1>1, OwnFile
<1> HIDE DEF g, h
<1> QED BY <1>3, <1>4, <1>5, <1>6, <1>7, ServeStep

\* A call that only says how it went.
LEMMA QuietCall ==
  ASSUME FDInv, ~misused, UNCHANGED <<fdw, handles, kernel, file>>,
         job' \in JobRec, JobOK', outcome' \in {"returned", "threw"}, misused' \in BOOLEAN
  PROVE  FDInv'
<1>1. FDTypes /\ Life /\ Own /\ Ends
  BY DEF FDInv
<1>2. FDTypes'
  BY <1>1 DEF FDTypes, JobRec
<1>3. Life' /\ Own' /\ Ends'
  BY <1>1 DEF Life, Own, Ends
<1> QED BY <1>2, <1>3 DEF FDInv, AllOrThrow

\* A caller that uses a closed wrapper is noticed.
LEMMA Noticed ==
  ASSUME FDInv, ~misused, NEW w \in Wrapper, Noticing(w)
  PROVE  misused' \in BOOLEAN /\ (misused' \/ ~fdw[w].closed)
  BY Zenon DEF Noticing

\* No call of write() is under way, and none begins.
LEMMA NoWrite == ASSUME FDInv, job = NoJob, UNCHANGED job PROVE job' \in JobRec /\ JobOK'
  BY DEF FDInv, FDTypes, JobRec, JobOK

\* A step that is not one of the descriptors'.
LEMMA FDStutter == ASSUME FDInv, UNCHANGED fdVars PROVE FDInv'
  BY DEF fdVars, FDInv, FDTypes, Life, JobOK, AllOrThrow, Own, Ends

\* Both ways to end a call that moves nothing in parts.
LEMMA Outcomes == Ok = "returned" /\ Threw = "threw"
  BY DEF Ok, Threw, Moved

\* A call that throws and tells an error once.
LEMMA ErrorTold ==
  ASSUME FDInv, ~misused, NEW w \in Wrapper, handles[w] > 0,
         NEW f \in Wrapper, f = fileOf(w),
         file' = [file EXCEPT ![f].is = @ \ {"reset"}],
         outcome' = Threw, UNCHANGED <<fdw, handles, kernel>>,
         job' \in JobRec, JobOK', misused' \in BOOLEAN, misused' \/ ~fdw[w].closed
  PROVE  FDInv'
<1> DEFINE marks == file[f].is \ {"reset"}
<1>1. file[f].is \in SUBSET Marks
  BY DEF FDInv, FDTypes
<1>2. marks \in SUBSET Marks /\ file[f].is \cap {"ended", "rd"} \subseteq marks
  BY <1>1
<1>3. Remarks(f, marks)
  BY DEF Remarks
<1> HIDE DEF marks
<1> QED BY <1>2, <1>3, Outcomes, MarkStep

\* FileDescriptor::read().
LEMMA ReadInv ==
  ASSUME FDInv, ~misused, NEW w \in Wrapper, NEW limit \in Nat, read(w, limit) PROVE FDInv'
<1> DEFINE f == fileOf(w)
<1>1. FDTypes /\ Life /\ Own /\ handles[w] > 0 /\ job = NoJob
  BY DEF FDInv, read, Calling
<1>2. f \in Wrapper \cup {None}
  BY <1>1, OwnFile
<1>3. /\ misused' \in BOOLEAN /\ (misused' \/ ~fdw[w].closed)
      /\ job' \in JobRec /\ JobOK' /\ UNCHANGED <<handles, kernel, job>>
  BY <1>1, Noticed, NoWrite DEF read
<1> HIDE DEF f
<1>4. CASE f # None /\ \E n \in readResults(f, limit) : gotRead(w, f, limit, n)
  <2>1. PICK n \in readResults(f, limit) : gotRead(w, f, limit, n)
    BY <1>4
  <2>2. f \in Wrapper /\ f = fileOf(w)
    BY <1>2, <1>4 DEF f
  <2> QED BY <1>1, <1>3, <2>1, <2>2, GotReadStep
<1>5. CASE f = None /\ outcome' = Threw /\ UNCHANGED <<fdw, file>>
  BY <1>3, <1>5, Outcomes, QuietCall
<1>6. CASE /\ f # None /\ outcome' = Threw /\ UNCHANGED fdw
           /\ file' = [file EXCEPT ![f].is = @ \ {"reset"}]
  <2>1. f \in Wrapper /\ f = fileOf(w)
    BY <1>2, <1>6 DEF f
  <2> QED BY <1>1, <1>3, <1>6, <2>1, ErrorTold
<1> QED BY <1>4, <1>5, <1>6 DEF read, f

\* FileDescriptor::write() is entered.
LEMMA WriteInv ==
  ASSUME FDInv, ~misused, NEW w \in Wrapper, NEW size \in Nat, NEW all \in BOOLEAN,
         write(w, size, all)
  PROVE  FDInv'
<1>1. /\ handles[w] > 0 /\ UNCHANGED <<fdw, handles, kernel, file, outcome>>
      /\ job' = [w |-> w, left |-> size, total |-> 0, size |-> size, all |-> all]
  BY DEF write, Calling
<1>2. job' \in JobRec /\ JobOK'
  BY <1>1 DEF JobRec, JobOK
<1>3. outcome' \in {"returned", "threw"}
  BY <1>1 DEF FDInv, FDTypes, AllOrThrow
<1>4. misused' \in BOOLEAN
  BY Noticed DEF write
<1> QED BY <1>1, <1>2, <1>3, <1>4, QuietCall

\* What writev(2) may take of what is left.
LEMMA WriteResults ==
  ASSUME FDTypes, NEW f \in Wrapper, NEW left \in Nat, NEW n \in writeResults(f, left)
  PROVE  n \in 0 .. left /\ (datagrams(f) \/ n <= file[f].room)
<1>1. file[f].room \in Nat
  BY FDAssumption DEF FDTypes
<1> QED BY <1>1 DEF writeResults, min2

\* One round of the loop of write().
LEMMA WriteRoundInv == ASSUME FDInv, ~misused, WriteRound PROVE FDInv'
<1> DEFINE w == job.w
           f == fileOf(w)
<1>1. FDTypes /\ Life /\ Own /\ AllOrThrow /\ job \in JobRec
  BY DEF FDInv, FDTypes, JobRec
<1>2. /\ w \in Wrapper /\ handles[w] > 0
      /\ job.left + job.total = job.size
      /\ job.left \in Nat /\ job.total \in Nat /\ job.size \in Nat
  BY <1>1 DEF FDInv, JobOK, WriteRound, JobRec
<1>3. f \in Wrapper \cup {None}
  BY <1>1, <1>2, OwnFile
<1>4. UNCHANGED <<handles, kernel, misused>> /\ misused' \in BOOLEAN
  BY <1>1 DEF WriteRound, FDTypes
<1>5. NoJob \in JobRec /\ (job' = NoJob => JobOK')
  BY DEF NoJob, JobRec, JobOK
<1> HIDE DEF w, f
<1>6. CASE f # None /\ \E n \in writeResults(f, job.left) : writev(w, f, n)
  <2>1. PICK n \in writeResults(f, job.left) : writev(w, f, n)
    BY <1>6
  <2>2. f \in Wrapper
    BY <1>3, <1>6
  <2>3. n \in 0 .. job.left /\ (datagrams(f) \/ n <= file[f].room)
    BY <1>1, <1>2, <2>1, <2>2, WriteResults
  <2> DEFINE c == Inc(fdw[w].write_count)
             r == file[f].room - IF datagrams(f) THEN 0 ELSE n
             h == [fdw[w] EXCEPT !.write_count = c]
             g == [file[f] EXCEPT !.room = r]
  <2>4. fdw \in [Wrapper -> FdRec] /\ file \in [Wrapper -> FileRec]
    BY <1>1 DEF FDTypes, FdRec, FileRec
  <2>5. c \in 0 .. UINT_MAX
    BY <1>2, <2>4, IncType, FDAssumption DEF FdRec
  <2>6. r \in 0 .. MaxOut
    BY <2>2, <2>3, <2>4, FDAssumption DEF FileRec
  <2>7. fdw' = [fdw EXCEPT ![w] = h] /\ file' = [file EXCEPT ![f] = g]
    BY <2>1, <2>4 DEF writev
  <2> HIDE DEF c, r
  <2>8. h \in FdRec /\ h.fd = fdw[w].fd /\ h.closed = fdw[w].closed /\ h.eof = fdw[w].eof
    BY <1>2, <2>4, <2>5 DEF FdRec
  <2>9. g \in FileRec /\ g.kind = file[f].kind /\ g.in = file[f].in /\ g.is = file[f].is
    BY <2>2, <2>4, <2>6 DEF FileRec
  <2>10. job' \in JobRec /\ JobOK' /\ outcome' \in {"returned", "threw"}
    <3>1. CASE goOn(job.left - n)
      <4>1. job' = [job EXCEPT !.left = @ - n, !.total = @ + n] /\ outcome' = outcome
        BY <2>1, <3>1 DEF writev
      <4>2. /\ job' \in JobRec /\ job'.w = job.w /\ job'.size = job.size
            /\ job'.left = job.left - n /\ job'.total = job.total + n
        <5> DEFINE a == job.left - n
                   b == job.total + n
        <5>1. a \in Nat /\ b \in Nat
          BY <1>2, <2>3
        <5>2. job' = [job EXCEPT !.left = a, !.total = b]
          BY <4>1
        <5> HIDE DEF a, b
        <5>3. /\ job' \in JobRec /\ job'.w = job.w /\ job'.size = job.size
              /\ job'.left = a /\ job'.total = b
          BY <1>1, <5>1, <5>2 DEF JobRec
        <5> QED BY <5>3 DEF a, b
      <4>3. JobOK'
        BY <1>2, <1>4, <2>3, <4>2 DEF JobOK, w
      <4> QED BY <1>1, <4>1, <4>2, <4>3 DEF FDTypes, AllOrThrow
    <3>2. CASE ~goOn(job.left - n)
      <4>1. job' = NoJob /\ outcome' = Moved(job.all, job.size, job.total + n)
        BY <2>1, <3>2 DEF writev
      <4>2. job.all => job.total + n = job.size
        BY <1>2, <2>3, <3>2 DEF goOn
      <4> QED BY <1>5, <4>1, <4>2 DEF Moved
    <3> QED BY <3>1, <3>2
  <2>11. atEnd(file[f]) => atEnd(g)
    BY <2>9 DEF atEnd
  <2> HIDE DEF h, g
  <2> QED BY <1>2, <1>4, <2>2, <2>7, <2>8, <2>9, <2>10, <2>11, ServeStep
<1>7. CASE f = None /\ job' = NoJob /\ outcome' = Threw /\ UNCHANGED <<fdw, file>>
  BY <1>4, <1>5, <1>7, Outcomes, QuietCall
<1>8. CASE /\ f # None /\ job' = NoJob /\ outcome' = Threw /\ UNCHANGED fdw
           /\ file' = [file EXCEPT ![f].is = @ \ {"reset"}]
  <2> DEFINE marks == file[f].is \ {"reset"}
             g == [file[f] EXCEPT !.is = marks]
             h == fdw[w]
  <2>1. f \in Wrapper
    BY <1>3, <1>8
  <2>2. fdw \in [Wrapper -> FdRec] /\ file \in [Wrapper -> FileRec]
    BY <1>1 DEF FDTypes, FdRec, FileRec
  <2>3. marks \in SUBSET Marks
    BY <2>1, <2>2 DEF FileRec
  <2>4. /\ g \in FileRec /\ g.kind = file[f].kind
        /\ g.in = file[f].in /\ g.is = marks
    <3> HIDE DEF marks
    <3> QED BY <2>1, <2>2, <2>3 DEF FileRec
  <2>5. atEnd(file[f]) => atEnd(g)
    BY <2>4 DEF atEnd
  <2>6. /\ fdw' = [fdw EXCEPT ![w] = h] /\ file' = [file EXCEPT ![f] = g]
        /\ h \in FdRec /\ h.fd = fdw[w].fd /\ h.closed = fdw[w].closed /\ h.eof = fdw[w].eof
    BY <1>2, <1>8, <2>2
  <2>7. job' \in JobRec /\ JobOK' /\ outcome' \in {"returned", "threw"}
    BY <1>5, <1>8, Outcomes
  <2> HIDE DEF g, h
  <2> QED BY <1>2, <1>4, <2>1, <2>4, <2>5, <2>6, <2>7, ServeStep
<1> QED BY <1>6, <1>7, <1>8 DEF WriteRound, w, f

\* FileDescriptor::set_blocking().
LEMMA SetBlockingInv ==
  ASSUME FDInv, ~misused, NEW w \in Wrapper, NEW blocking \in BOOLEAN,
         set_blocking(w, blocking)
  PROVE  FDInv'
<1> DEFINE f == fileOf(w)
           marks == IF blocking THEN file[f].is \ {"nonblock"} ELSE file[f].is \cup {"nonblock"}
<1>1. FDTypes /\ Life /\ Own /\ handles[w] > 0 /\ job = NoJob
  BY DEF FDInv, set_blocking, Calling
<1>2. f \in Wrapper \cup {None}
  BY <1>1, OwnFile
<1>3. /\ misused' \in BOOLEAN /\ (misused' \/ ~fdw[w].closed)
      /\ job' \in JobRec /\ JobOK' /\ UNCHANGED <<fdw, handles, kernel>>
  BY <1>1, Noticed, NoWrite DEF set_blocking
<1>4. CASE f = None
  <2>1. outcome' = Threw /\ UNCHANGED file
    BY <1>4 DEF set_blocking
  <2> QED BY <1>3, <2>1, Outcomes, QuietCall
<1>5. CASE f # None
  <2>1. f \in Wrapper
    BY <1>2, <1>5
  <2>2. outcome' = Ok /\ file' = [file EXCEPT ![f].is = marks]
    BY <1>5 DEF set_blocking
  <2>3. file[f].is \in SUBSET Marks
    BY <1>1, <2>1 DEF FDTypes
  <2>4. marks \in SUBSET Marks /\ file[f].is \cap {"ended", "rd"} \subseteq marks
    BY <2>3 DEF Marks
  <2> HIDE DEF marks
  <2>5. Remarks(f, marks)
    BY <1>3, <2>2 DEF Remarks
  <2> QED BY <1>1, <1>3, <2>1, <2>2, <2>4, <2>5, Outcomes, MarkStep
<1> QED BY <1>4, <1>5

\* Every step of the class and of the peers keeps the invariant.
LEMMA FDNextInv == ASSUME FDInv, ~misused, FDNext PROVE FDInv'
<1>1. ASSUME NEW w \in Wrapper, duplicate(w) PROVE FDInv'
  BY <1>1, Outcomes, DuplicateInv DEF duplicate, Calling
<1>2. ASSUME NEW w \in Wrapper, close(w) PROVE FDInv'
  <2>1. misused' \in BOOLEAN /\ (misused' \/ ~fdw[w].closed)
    BY <1>2, Noticed DEF close
  <2> QED BY <1>2, <2>1, CloseInv DEF close, Calling
<1>3. ASSUME NEW w \in Wrapper, Drop(w) PROVE FDInv'
  <2>1. misused' \in BOOLEAN
    BY <1>3 DEF Drop, FDInv, FDTypes
  <2> QED BY <1>3, <2>1, Outcomes, DestroyInv DEF Drop, Calling
<1>4. ASSUME NEW w \in Wrapper, Peer(w) PROVE FDInv'
  BY <1>4, PeerInv
<1>5. ASSUME NEW w \in Wrapper, NEW k \in Kinds[w], Open(w, k) PROVE FDInv'
  <2>1. k \in {"pipe", "unix", "tcp", "udp"}
    BY <1>5, FDAssumption
  <2> QED BY <1>5, <2>1, OpenInv
<1>6. ASSUME NEW w \in Wrapper, NEW limit \in Limits, read(w, limit) PROVE FDInv'
  BY <1>6, ReadInv, FDAssumption
<1>7. ASSUME NEW w \in Wrapper, NEW size \in Sizes, NEW all \in BOOLEAN, write(w, size, all)
      PROVE  FDInv'
  BY <1>7, WriteInv, FDAssumption
<1>8. ASSUME NEW w \in Wrapper, NEW blocking \in BOOLEAN, set_blocking(w, blocking)
      PROVE  FDInv'
  BY <1>8, SetBlockingInv
<1>9. CASE WriteRound
  BY <1>9, WriteRoundInv
<1>10. ASSUME NEW w \in Wrapper, OpenFails(w) PROVE FDInv'
  <2>1. misused' \in BOOLEAN /\ job = NoJob /\ UNCHANGED job
    BY <1>10 DEF OpenFails, FDInv, FDTypes
  <2>2. job' \in JobRec /\ JobOK'
    BY <2>1, NoWrite
  <2> QED BY <1>10, <2>1, <2>2, Outcomes, QuietCall DEF OpenFails
<1> QED BY <1>1, <1>2, <1>3, <1>4, <1>5, <1>6, <1>7, <1>8, <1>9, <1>10 DEF FDNext

----------------------------------------------------------------------------
(* The calls of the sockets *)

\* What a call on a socket is given and leaves alone.
LEMMA Called ==
  ASSUME FDInv, ~misused, NEW w \in Wrapper, NEW classes, OnSocket(w, classes)
  PROVE  /\ handles[w] > 0 /\ job = NoJob /\ file[w].kind \in classes
         /\ fileOf(w) \in Wrapper \cup {None}
         /\ misused' \in BOOLEAN /\ (misused' \/ fileOf(w) = w)
         /\ misused' \/ ~fdw[w].closed
         /\ UNCHANGED job /\ job' \in JobRec /\ JobOK'
<1>1. FDTypes /\ Life /\ Own
  BY DEF FDInv
<1>2. handles[w] > 0 /\ job = NoJob /\ file[w].kind \in classes /\ UNCHANGED job /\ Noticing(w)
  BY DEF OnSocket, Calling, class
<1> QED BY <1>1, <1>2, Noticed, NoWrite, OwnFile

\* A call that throws before it has changed anything.
LEMMA FailsInv ==
  ASSUME FDInv, ~misused, NEW w \in Wrapper, NEW classes, OnSocket(w, classes), Fails
  PROVE  FDInv'
  BY Called, Outcomes, QuietCall DEF Fails

\* A call that sets marks and returns.
LEMMA MarkedInv ==
  ASSUME FDInv, ~misused, NEW w \in Wrapper, NEW classes, OnSocket(w, classes),
         NEW f \in Wrapper, f = fileOf(w), NEW marks \in SUBSET Marks,
         file[f].is \subseteq marks, Marked(f, marks)
  PROVE  FDInv'
<1>1. Remarks(f, marks) /\ outcome' = Ok
  BY DEF Marked, Remarks
<1> QED BY <1>1, Called, Outcomes, MarkStep

\* bind() and the others whose answer is the kernel's.
LEMMA PassOnInv == ASSUME FDInv, ~misused, NEW w \in Wrapper, passOn(w) PROVE FDInv'
<1> DEFINE f == fileOf(w)
<1>1. OnSocket(w, {"unix", "tcp", "udp"})
  BY DEF passOn
<1>2. CASE Fails
  BY <1>1, <1>2, FailsInv
<1>3. CASE f # None /\ Marked(f, file[f].is)
  <2>1. f \in Wrapper
    BY <1>1, <1>3, Called
  <2>2. file[f].is \in SUBSET Marks
    BY <2>1 DEF FDInv, FDTypes
  <2> QED BY <1>1, <1>3, <2>1, <2>2, MarkedInv
<1> QED BY <1>2, <1>3 DEF passOn

\* listen().
LEMMA ListenInv == ASSUME FDInv, ~misused, NEW w \in Wrapper, listen(w) PROVE FDInv'
<1> DEFINE f == fileOf(w)
           marks == file[f].is \cup {"listening"}
<1>1. OnSocket(w, {"tcp"})
  BY DEF listen
<1>2. CASE Fails
  BY <1>1, <1>2, FailsInv
<1>3. CASE f # None /\ Marked(f, marks)
  <2>1. f \in Wrapper
    BY <1>1, <1>3, Called
  <2>2. marks \in SUBSET Marks
    BY <2>1 DEF FDInv, FDTypes, Marks
  <2> QED BY <1>1, <1>3, <2>1, <2>2, MarkedInv
<1> QED BY <1>2, <1>3 DEF listen

\* connect(), also when it throws and the connection is being made.
LEMMA ConnectInv == ASSUME FDInv, ~misused, NEW w \in Wrapper, connect(w) PROVE FDInv'
<1> DEFINE f == fileOf(w)
<1>1. OnSocket(w, {"tcp", "udp"})
  BY DEF connect
<1>2. CASE Fails
  BY <1>1, <1>2, FailsInv
<1>3. CASE f # None /\ Marked(f, file[f].is \cup {"connected"})
  <2> DEFINE marks == file[f].is \cup {"connected"}
  <2>1. f \in Wrapper
    BY <1>1, <1>3, Called
  <2>2. marks \in SUBSET Marks
    BY <2>1 DEF FDInv, FDTypes, Marks
  <2> QED BY <1>1, <1>3, <2>1, <2>2, MarkedInv
<1>4. CASE /\ f # None
           /\ file' = [file EXCEPT ![f].is = @ \cup {"connecting"}]
           /\ outcome' = Threw /\ UNCHANGED <<fdw, handles, kernel>>
  <2> DEFINE marks == file[f].is \cup {"connecting"}
  <2>1. f \in Wrapper
    BY <1>1, <1>4, Called
  <2>2. marks \in SUBSET Marks /\ file[f].is \cap {"ended", "rd"} \subseteq marks
    BY <2>1 DEF FDInv, FDTypes, Marks
  <2>3. Remarks(f, marks)
    BY <1>4 DEF Remarks
  <2> HIDE DEF marks
  <2> QED BY <1>1, <1>4, <2>1, <2>2, <2>3, Called, Outcomes, MarkStep
<1> QED BY <1>2, <1>3, <1>4 DEF connect

\* The connection that connect() did not wait for.
LEMMA PeerAnswersInv == ASSUME FDInv, ~misused, NEW w \in Wrapper, PeerAnswers(w) PROVE FDInv'
<1>1. PICK answer \in {{"connected"}, {}} :
        PeerMakes(w, [file[w] EXCEPT !.is = (@ \ {"connecting"}) \cup answer])
  BY DEF PeerAnswers
<1> DEFINE marks == (file[w].is \ {"connecting"}) \cup answer
           g == [file[w] EXCEPT !.is = marks]
<1>2. file[w] \in FileRec
  BY DEF FDInv, FDTypes, FileRec
<1>3. marks \in SUBSET Marks /\ file[w].is \cap {"ended", "rd"} \subseteq marks
  BY <1>2 DEF FileRec, Marks
<1>4. PeerMakes(w, g)
  BY <1>1
<1> HIDE DEF marks
<1>5. g \in FileRec /\ g.kind = file[w].kind /\ g.in = file[w].in /\ g.is = marks
  BY <1>2, <1>3 DEF FileRec
<1>6. atEnd(file[w]) => atEnd(g)
  BY <1>3, <1>5 DEF atEnd
<1> HIDE DEF g
<1> QED BY <1>4, <1>5, <1>6, PeerStep

\* The counts of a wrapper and one file change and nothing else.
Counts(w, a, b, f, g) == /\ fdw' = [fdw EXCEPT ![w].read_count = a, ![w].write_count = b]
                         /\ file' = [file EXCEPT ![f] = g]
                         /\ UNCHANGED <<handles, kernel>>

\* A call that counts keeps the invariant when it takes no end away.
LEMMA CountStep ==
  ASSUME FDInv, ~misused, NEW w \in Wrapper, handles[w] > 0,
         NEW a \in 0 .. UINT_MAX, NEW b \in 0 .. UINT_MAX,
         NEW f \in Wrapper, NEW g \in FileRec, g.kind = file[f].kind,
         Counts(w, a, b, f, g),
         job' \in JobRec, JobOK', outcome' \in {"returned", "threw"}, misused' \in BOOLEAN,
         misused' \/ g.kind = "udp" \/ (atEnd(file[f]) => atEnd(g))
  PROVE  FDInv'
<1> DEFINE h == [fdw[w] EXCEPT !.read_count = a, !.write_count = b]
<1>1. fdw \in [Wrapper -> FdRec]
  BY DEF FDInv, FDTypes, FdRec
<1>2. h \in FdRec /\ h.fd = fdw[w].fd /\ h.closed = fdw[w].closed /\ h.eof = fdw[w].eof
  BY <1>1 DEF FdRec
<1>3. /\ fdw' = [fdw EXCEPT ![w] = h] /\ file' = [file EXCEPT ![f] = g]
      /\ UNCHANGED <<handles, kernel>>
  BY <1>1 DEF Counts
<1> HIDE DEF h
<1> QED BY <1>2, <1>3, ServeStep

\* The counts of a wrapper, and what they become, are counts.
LEMMA CountTypes ==
  ASSUME FDInv, NEW w \in Wrapper
  PROVE  /\ fdw[w].read_count \in 0 .. UINT_MAX /\ fdw[w].write_count \in 0 .. UINT_MAX
         /\ Inc(fdw[w].read_count) \in 0 .. UINT_MAX
         /\ Inc(fdw[w].write_count) \in 0 .. UINT_MAX
<1>1. fdw[w].read_count \in 0 .. UINT_MAX /\ fdw[w].write_count \in 0 .. UINT_MAX
  BY DEF FDInv, FDTypes
<1> QED BY <1>1, IncType, FDAssumption

\* A file stays what it is after a shutdown, and at its end if it was there.
LEMMA ShutFile ==
  ASSUME FDInv, NEW f \in Wrapper, NEW how \in SUBSET {"rd", "wr"}
  PROVE  /\ shutFile(f, how) \in FileRec /\ shutFile(f, how).kind = file[f].kind
         /\ atEnd(file[f]) => atEnd(shutFile(f, how))
<1>1. file[f] \in FileRec
  BY DEF FDInv, FDTypes, FileRec
<1>2. CASE ~is(f, "listening")
  <2> DEFINE marks == file[f].is \cup how
             g == [file[f] EXCEPT !.is = marks]
  <2>1. marks \in SUBSET Marks /\ file[f].is \subseteq marks
    BY <1>1 DEF FileRec, Marks
  <2>2. shutFile(f, how) = g
    BY <1>2 DEF shutFile
  <2> HIDE DEF marks
  <2>3. g \in FileRec /\ g.kind = file[f].kind /\ g.in = file[f].in /\ g.is = marks
    BY <1>1, <2>1 DEF FileRec
  <2> HIDE DEF g
  <2> QED BY <2>1, <2>2, <2>3 DEF atEnd
<1>3. CASE is(f, "listening") /\ "rd" \in how
  <2> DEFINE marks == file[f].is \ {"listening"}
             g == [file[f] EXCEPT !.is = marks, !.in = 0]
  <2>1. marks \in SUBSET Marks /\ file[f].is \cap {"ended", "rd"} \subseteq marks
        /\ 0 \in 0 .. MaxIn
    BY <1>1, FDAssumption DEF FileRec, Marks
  <2>2. shutFile(f, how) = g
    BY <1>3 DEF shutFile
  <2> HIDE DEF marks
  <2>3. g \in FileRec /\ g.kind = file[f].kind /\ g.in = 0 /\ g.is = marks
    BY <1>1, <2>1 DEF FileRec
  <2> HIDE DEF g
  <2> QED BY <2>1, <2>2, <2>3 DEF atEnd
<1>4. CASE is(f, "listening") /\ "rd" \notin how
  BY <1>1, <1>4 DEF shutFile
<1> QED BY <1>2, <1>3, <1>4

\* shutdown(2) has succeeded and is counted.
LEMMA ShutDownStep ==
  ASSUME FDInv, ~misused, NEW w \in Wrapper, handles[w] > 0, NEW f \in Wrapper,
         NEW how \in SUBSET {"rd", "wr"}, shutDown(w, f, how), UNCHANGED <<handles, kernel>>,
         job' \in JobRec, JobOK', misused' \in BOOLEAN
  PROVE  FDInv'
<1> DEFINE g == shutFile(f, how)
           a == IF "rd" \in how THEN Inc(fdw[w].read_count) ELSE fdw[w].read_count
           b == IF "wr" \in how THEN Inc(fdw[w].write_count) ELSE fdw[w].write_count
<1>1. a \in 0 .. UINT_MAX /\ b \in 0 .. UINT_MAX
  BY CountTypes
<1>2. g \in FileRec /\ g.kind = file[f].kind /\ (atEnd(file[f]) => atEnd(g))
  BY ShutFile
<1>3. Counts(w, a, b, f, g) /\ outcome' \in {"returned", "threw"}
  <2>1. fdw \in [Wrapper -> FdRec]
    BY DEF FDInv, FDTypes, FdRec
  <2> QED BY <2>1, Outcomes DEF shutDown, Counts, FdRec
<1> HIDE DEF a, b, g
<1> QED BY <1>1, <1>2, <1>3, CountStep

\* shutdown().
LEMMA ShutdownInv ==
  ASSUME FDInv, ~misused, NEW w \in Wrapper, NEW how \in SUBSET {"rd", "wr"}, shutdown(w, how)
  PROVE  FDInv'
<1> DEFINE f == fileOf(w)
<1>1. OnSocket(w, {"unix", "tcp", "udp"})
  BY DEF shutdown
<1>2. CASE Fails
  BY <1>1, <1>2, FailsInv
<1>3. CASE f # None /\ shutDown(w, f, how) /\ UNCHANGED <<handles, kernel>>
  <2>1. f \in Wrapper
    BY <1>1, <1>3, Called
  <2> HIDE DEF f
  <2> QED BY <1>1, <1>3, <2>1, Called, ShutDownStep
<1> QED BY <1>2, <1>3 DEF shutdown

\* accept() that fails has counted.
LEMMA AcceptFailsInv == ASSUME FDInv, ~misused, NEW w \in Wrapper, acceptFails(w) PROVE FDInv'
<1> DEFINE a == Inc(fdw[w].read_count)
           b == fdw[w].write_count
           g == file[w]
<1>1. OnSocket(w, {"tcp"}) /\ outcome' \in {"returned", "threw"}
  BY Outcomes DEF acceptFails
<1>2. fdw \in [Wrapper -> FdRec] /\ file \in [Wrapper -> FileRec]
  BY DEF FDInv, FDTypes, FdRec, FileRec
<1>3. a \in 0 .. UINT_MAX /\ b \in 0 .. UINT_MAX /\ g \in FileRec
  BY <1>2, CountTypes
<1>4. Counts(w, a, b, w, g)
  BY <1>2 DEF acceptFails, Counts, FdRec
<1> HIDE DEF a, b, g
<1> QED BY <1>1, <1>3, <1>4, Called, CountStep DEF g

\* UDPSocket::recv().
LEMMA RecvInv ==
  ASSUME FDInv, ~misused, NEW w \in Wrapper, NEW mtu \in Nat, recv(w, mtu) PROVE FDInv'
<1> DEFINE f == fileOf(w)
           i == file[f].in - min2(1, file[f].in)
           g == [file[f] EXCEPT !.in = i]
<1>1. OnSocket(w, {"udp"})
  BY DEF recv
<1>2. CASE Fails
  BY <1>1, <1>2, FailsInv
<1>3. CASE /\ f # None /\ UNCHANGED <<handles, kernel>>
           /\ file' = [file EXCEPT ![f].in = @ - min2(1, @)]
           /\ \E size \in (IF file[f].in > 0 THEN DatagramSizes ELSE {0}) :
                 IF oversized(size, mtu)
                 THEN outcome' = Threw /\ UNCHANGED fdw
                 ELSE /\ outcome' = Moved(TRUE, size, min2(size, mtu))
                      /\ fdw' = [fdw EXCEPT ![w].read_count = Inc(@)]
  <2>1. f \in Wrapper /\ (misused' \/ f = w) /\ file[w].kind = "udp"
    BY <1>1, <1>3, Called
  <2>2. fdw \in [Wrapper -> FdRec] /\ file \in [Wrapper -> FileRec]
    BY DEF FDInv, FDTypes, FdRec, FileRec
  <2>3. i \in 0 .. MaxIn
    BY <2>1, <2>2, FDAssumption DEF FileRec, min2
  <2>4. outcome' \in {"returned", "threw"}
    <3>1. PICK size \in (IF file[f].in > 0 THEN DatagramSizes ELSE {0}) :
            IF oversized(size, mtu) THEN outcome' = Threw
                                    ELSE outcome' = Moved(TRUE, size, min2(size, mtu))
      BY <1>3
    <3>2. size \in Nat /\ mtu \in Nat
      BY SocketAssumption
    <3>3. ~oversized(size, mtu) => min2(size, mtu) = size
      BY <3>2 DEF oversized, min2
    <3> QED BY <3>1, <3>3, Outcomes DEF Moved
  <2>5. file' = [file EXCEPT ![f] = g]
    BY <1>3, <2>2
  <2> HIDE DEF i
  <2>6. g \in FileRec /\ g.kind = file[f].kind
    BY <2>1, <2>2, <2>3 DEF FileRec
  <2>7. PICK a \in 0 .. UINT_MAX : fdw' = [fdw EXCEPT ![w].read_count = a]
    <3>1. fdw[w].read_count \in 0 .. UINT_MAX /\ Inc(fdw[w].read_count) \in 0 .. UINT_MAX
      BY CountTypes
    <3>2. fdw' = fdw \/ fdw' = [fdw EXCEPT ![w].read_count = Inc(@)]
      BY <1>3
    <3>3. fdw = [fdw EXCEPT ![w].read_count = fdw[w].read_count]
      BY <2>2 DEF FdRec
    <3> QED BY <3>1, <3>2, <3>3
  <2> DEFINE b == fdw[w].write_count
  <2>8. b \in 0 .. UINT_MAX
    BY CountTypes
  <2>9. Counts(w, a, b, f, g)
    BY <1>3, <2>2, <2>5, <2>7 DEF Counts, FdRec
  <2> HIDE DEF b, f, g
  <2> QED BY <1>1, <2>1, <2>4, <2>6, <2>8, <2>9, Called, CountStep
<1> QED BY <1>2, <1>3 DEF recv

\* UDPSocket::sendto() and send().
LEMMA SendInv ==
  ASSUME FDInv, ~misused, NEW w \in Wrapper, NEW size \in Nat, NEW addressed \in BOOLEAN,
         send(w, size, addressed)
  PROVE  FDInv'
<1> DEFINE a == fdw[w].read_count
           b == Inc(fdw[w].write_count)
           g == file[w]
<1>1. OnSocket(w, {"udp"})
  BY DEF send
<1>2. CASE Fails
  BY <1>1, <1>2, FailsInv
<1>3. CASE /\ \E n \in 0 .. size : /\ sent(n, size)
                                   /\ outcome' = Moved(TRUE, size, n)
                                   /\ fdw' = [fdw EXCEPT ![w].write_count = Inc(@)]
           /\ UNCHANGED <<handles, kernel, file>>
  <2>1. outcome' \in {"returned", "threw"}
    BY <1>3 DEF sent, Moved
  <2>2. fdw \in [Wrapper -> FdRec] /\ file \in [Wrapper -> FileRec]
    BY DEF FDInv, FDTypes, FdRec, FileRec
  <2>3. a \in 0 .. UINT_MAX /\ b \in 0 .. UINT_MAX /\ g \in FileRec
    BY <2>2, CountTypes
  <2>4. Counts(w, a, b, w, g)
    BY <1>3, <2>2 DEF Counts, FdRec
  <2> HIDE DEF a, b, g
  <2> QED BY <1>1, <2>1, <2>3, <2>4, Called, CountStep DEF g
<1> QED BY <1>2, <1>3 DEF send

\* Socket(FileDescriptor &&, domain, type), also when it throws half-way.
LEMMA AdoptInv ==
  ASSUME FDInv, ~misused, NEW w \in Wrapper, NEW k, adopt(w, k) PROVE FDInv'
<1>1. /\ handles[w] > 0 /\ job = NoJob /\ UNCHANGED job
      /\ misused' \in BOOLEAN /\ job' \in JobRec /\ JobOK'
  BY Noticed, NoWrite DEF adopt, Calling
<1>2. CASE outcome' = Ok /\ UNCHANGED <<fdw, handles, kernel, file>>
  BY <1>1, <1>2, Outcomes, QuietCall
<1>3. CASE outcome' = Threw /\ refused(w)
  BY <1>1, <1>3, Outcomes, DestroyInv DEF refused
<1> QED BY <1>2, <1>3 DEF adopt

\* accept() that gets a connection.
LEMMA AcceptInv ==
  ASSUME FDInv, ~misused, NEW w \in Wrapper, NEW c \in Wrapper, accept(w, c) PROVE FDInv'
<1> DEFINE f == fileOf(w)
           m == Min(free)
           i == file[f].in - 1
           a == Inc(fdw[w].read_count)
           new == NewFile("tcp", {"connected"})
           h == [Unborn EXCEPT !.fd = m]
<1>1. OnSocket(w, {"tcp"}) /\ f # None /\ fdw[c] = Unborn /\ free # {} /\ file[f].in > 0
  BY DEF accept
<1>2. /\ fdw \in [Wrapper -> FdRec] /\ file \in [Wrapper -> FileRec]
      /\ FDTypes /\ Life /\ Own
  BY DEF FDInv, FDTypes, FdRec, FileRec
<1>3. m \in Num /\ kernel[m] = None
  BY <1>1, LowestFree
<1>4. /\ f \in Wrapper /\ handles[w] > 0 /\ job = NoJob /\ UNCHANGED job
      /\ misused' \in BOOLEAN
  BY <1>1, Called
<1>5. handles[c] = 0 /\ c # f /\ c # w
  <2>1. fdw[w].fd \in Num
    BY <1>2, <1>4, OwnFile
  <2> QED BY <1>1, <1>2, <1>4, <2>1, UnbornIsNobody DEF fileOf
<1>6. a \in 0 .. UINT_MAX /\ i \in 0 .. MaxIn
  BY <1>1, <1>2, <1>4, CountTypes, FDAssumption DEF FileRec
<1>7. new \in FileRec
  <2>1. {"connected"} \in SUBSET Marks
    BY DEF Marks
  <2> QED BY <2>1, NewFileType
<1>8. h \in FdRec
  BY <1>3, FreedType DEF FdRec
<1>9. /\ kernel' = [kernel EXCEPT ![m] = c]
      /\ handles' = [handles EXCEPT ![c] = 1]
      /\ fdw' = [fdw EXCEPT ![w].read_count = a, ![c].fd = m]
      /\ file' = [file EXCEPT ![f].in = i, ![c] = new]
      /\ outcome' = Ok
  BY DEF accept
<1> HIDE DEF f, m, i, a, new
<1> DEFINE hw == [fdw[w] EXCEPT !.read_count = a]
           gf == [file[f] EXCEPT !.in = i]
<1>10. hw \in FdRec /\ hw.fd = fdw[w].fd /\ hw.closed = fdw[w].closed /\ hw.eof = fdw[w].eof
  BY <1>2, <1>6 DEF FdRec
<1>11. gf \in FileRec /\ gf.kind = file[f].kind
  BY <1>2, <1>4, <1>6 DEF FileRec
<1>12. fdw' = [fdw EXCEPT ![w] = hw, ![c] = h] /\ file' = [file EXCEPT ![f] = gf, ![c] = new]
  BY <1>1, <1>2, <1>5, <1>9
<1> HIDE DEF h, hw, gf
<1>13. /\ fdw' \in [Wrapper -> FdRec] /\ fdw'[c] = h /\ fdw'[w] = hw
       /\ \A v \in Wrapper \ {c, w} : fdw'[v] = fdw[v]
  BY <1>2, <1>5, <1>8, <1>10, <1>12
<1>14. /\ file' \in [Wrapper -> FileRec] /\ file'[f] = gf
       /\ \A v \in Wrapper \ {c, f} : file'[v] = file[v]
  BY <1>2, <1>4, <1>5, <1>7, <1>11, <1>12
<1>15. \A v \in Wrapper \ {c} :
           /\ fdw'[v].fd = fdw[v].fd /\ fdw'[v].closed = fdw[v].closed
           /\ fdw'[v].eof => fdw[v].eof
           /\ handles[v] = 0 => fdw'[v] = fdw[v]
  BY <1>4, <1>10, <1>13
<1>16. ~atEnd(file[f])
  BY <1>1 DEF atEnd, f
<1>17. \A v \in Wrapper \ {c} :
           /\ file'[v].kind = file[v].kind
           /\ misused' \/ (atEnd(file[v]) => atEnd(file'[v]))
  BY <1>11, <1>14, <1>16
<1> QED BY <1>1, <1>3, <1>4, <1>9, <1>13, <1>14, <1>15, <1>17, Outcomes, BornStep DEF h

\* Every step of the sockets keeps the invariant.
LEMMA SocketNextInv == ASSUME FDInv, ~misused, SocketNext PROVE FDInv'
<1>1. ASSUME NEW w \in Wrapper, NEW how \in SUBSET {"rd", "wr"} \ {{}}, shutdown(w, how)
      PROVE  FDInv'
  BY <1>1, ShutdownInv
<1>2. ASSUME NEW w \in Wrapper, NEW mtu \in Mtus, recv(w, mtu) PROVE FDInv'
  BY <1>2, RecvInv, SocketAssumption
<1>3. ASSUME NEW w \in Wrapper, NEW size \in Sizes, NEW addressed \in BOOLEAN,
             send(w, size, addressed)
      PROVE  FDInv'
  BY <1>3, SendInv, FDAssumption
<1> QED BY <1>1, <1>2, <1>3, FDNextInv, PassOnInv, ConnectInv, PeerAnswersInv, ListenInv,
           AcceptFailsInv, AdoptInv, AcceptInv DEF SocketNext

----------------------------------------------------------------------------
(* The theorems *)

\* Nothing has happened yet.
LEMMA FDInitInv == FDInit => FDInv
<1> SUFFICES ASSUME FDInit PROVE FDInv
  OBVIOUS
<1>1. NewFile(None, {}) \in FileRec
  BY NewFileType
<1>2. 0 \in 0 .. MaxHandles /\ NoJob \in JobRec
  BY FDAssumption DEF NoJob, JobRec
<1>3. FDTypes
  BY <1>1, <1>2, FreedType, Outcomes DEF FDInit, FDTypes, FdRec, FileRec, JobRec
<1>4. Life /\ JobOK /\ AllOrThrow
  BY Outcomes DEF FDInit, Life, JobOK, AllOrThrow
<1>5. Own
  BY FDAssumption DEF FDInit, Own
<1>6. Ends
  BY FreedType DEF FDInit, Ends
<1> QED BY <1>3, <1>4, <1>5, <1>6 DEF FDInv

\* The invariant of the descriptors and the sockets holds in every state up to
\* and including the one in which a closed wrapper is first used.
THEOREM SocketInvariance == SocketSpec => []FDInv
<1>1. FDInv /\ [~misused /\ SocketNext]_fdVars => FDInv'
  <2> SUFFICES ASSUME FDInv, [~misused /\ SocketNext]_fdVars PROVE FDInv'
    OBVIOUS
  <2>1. CASE UNCHANGED fdVars
    BY <2>1, FDStutter
  <2>2. CASE ~misused /\ SocketNext
    BY <2>2, SocketNextInv
  <2> QED BY <2>1, <2>2
<1> QED BY <1>1, FDInitInv, PTL DEF SocketSpec

\* Every member, count, use count, kernel table and file keeps to its type, and every
\* object that exists has a number, also after accept() or a constructor has failed.
THEOREM SocketTyped == SocketSpec => []FDTypeOK
  BY SocketInvariance, FDInvImplies, PTL

\* RAII: a number is open on a wrapper's file exactly from construction to close,
\* whatever the calls, failures, sharing and peers.
THEOREM SocketOwnership == SocketSpec => []Ownership
  BY SocketInvariance, FDInvImplies, PTL

\* eof() of an open stream is never set too early.
THEOREM SocketEof == SocketSpec => []EofIsTrue
  BY SocketInvariance, FDInvImplies, PTL

\* write() with write_all, sendto(), send() and recv() move all or throw.
THEOREM SocketAllOrThrow == SocketSpec => []AllOrThrow
  BY SocketInvariance, FDInvImplies, PTL
=============================================================================
