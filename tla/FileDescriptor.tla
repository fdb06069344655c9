--------------------------- MODULE FileDescriptor ---------------------------
(***************************************************************************)
(* libsponge/util/file_descriptor.{hh,cc}: reference-counted handles on a  *)
(* shared FDWrapper, which owns one file descriptor number of the kernel   *)
(* and closes it when the last handle goes.                                *)
(*                                                                         *)
(* The kernel and the peers are external: a table from numbers to open     *)
(* files, and for each file what waits to be read, the room for writing    *)
(* and its marks.  The kernel gives out the lowest free number, so that a  *)
(* number is soon used again.                                              *)
(*                                                                         *)
(* Nothing in the class keeps a caller from using a wrapper that has been  *)
(* closed.  misused records that one did.                                  *)
(***************************************************************************)
EXTENDS Integers, FiniteSetsExt

CONSTANTS Wrapper,    \* FDWrapper objects, each constructed at most once
          None,       \* no wrapper
          Num,        \* the file descriptor numbers of the process
          UINT_MAX,   \* the largest unsigned, where the counts wrap
          MaxHandles, \* bound on the handles of one wrapper
          MaxIn,      \* bound on what waits to be read
          MaxOut,     \* the room of an empty send buffer
          Kinds,      \* the kinds of file each wrapper may be opened on
          Limits,     \* arguments of read()
          Sizes       \* sizes of the buffers passed to write()

ASSUME FDAssumption == /\ None \notin Wrapper
                       /\ Num \subseteq Nat
                       /\ UINT_MAX \in Nat
                       /\ {MaxHandles, MaxIn, MaxOut} \subseteq Nat \ {0}
                       /\ Kinds \in [Wrapper -> SUBSET {"pipe", "unix", "tcp", "udp"}]
                       /\ Limits \subseteq Nat /\ Sizes \subseteq Nat

VARIABLES fdw,      \* the members of each FDWrapper
          handles,  \* use count of the shared_ptr to it
          kernel,   \* which wrapper's file a number is open on
          file,     \* the state of that file
          job,      \* the call of write() that is under way
          outcome,  \* how the last call went
          misused   \* a caller has used a closed wrapper

fdVars == <<fdw, handles, kernel, file, job, outcome, misused>>

Inc(n) == (n + 1) % (UINT_MAX + 1)

min2(a, b) == IF a <= b THEN a ELSE b

Unborn == [fd |-> -1, eof |-> FALSE, closed |-> FALSE,
           read_count |-> 0, write_count |-> 0]

\* An object whose memory is gone: never constructed again.
Freed == [Unborn EXCEPT !.closed = TRUE]

NoJob == [w |-> None, left |-> 0, total |-> 0, size |-> 0, all |-> FALSE]

\* A call has returned, having moved n of size bytes, where all says that it may
\* not return with less.
Moved(all, size, n) == IF all /\ n # size THEN "short" ELSE "returned"
Ok == Moved(FALSE, 0, 0)
Threw == "threw"

\* The wrapper whose file the kernel finds behind the number of w, if any.
fileOf(w) == kernel[fdw[w].fd]

free == {n \in Num : kernel[n] = None}

Marks == {"connected", "connecting", "listening",  \* of sockets
          "nonblock",
          "ended",        \* the peer sends no more
          "rd", "wr",     \* shut down for reading, for writing
          "reset"}        \* an error waits to be told

\* in counts bytes, datagrams or, on a listening socket, connections.
NewFile(k, marks) == [kind |-> k, in |-> 0, room |-> MaxOut, is |-> marks]

is(f, mark) == mark \in file[f].is
datagrams(f) == file[f].kind = "udp"
readable(f) == file[f].in > 0 \/ file[f].is \cap {"ended", "rd"} # {}
writable(f) == file[f].room > 0 \/ is(f, "wr")

FDInit == /\ fdw = [w \in Wrapper |-> Unborn]
          /\ handles = [w \in Wrapper |-> 0]
          /\ kernel = [n \in Num |-> None]
          /\ file = [w \in Wrapper |-> NewFile(None, {})]
          /\ job = NoJob
          /\ outcome = Ok
          /\ misused = FALSE

----------------------------------------------------------------------------
(* The class.  One thread calls it; write() may wait inside its loop. *)

\* A call on an object that exists, made when no other call is under way.
Calling(w) == handles[w] > 0 /\ job = NoJob

Noticing(w) == misused' = (misused \/ fdw[w].closed)

\* FDWrapper(fd) with the number the kernel gave out.
Open(w, k) ==
  /\ job = NoJob
  /\ fdw[w] = Unborn
  /\ free # {}
  /\ fdw' = [fdw EXCEPT ![w].fd = Min(free)]
  /\ kernel' = [kernel EXCEPT ![Min(free)] = w]
  /\ file' = [file EXCEPT ![w] = NewFile(k, IF k \in {"pipe", "unix"} THEN {"connected"} ELSE {})]
  /\ handles' = [handles EXCEPT ![w] = 1]
  /\ outcome' = Ok
  /\ UNCHANGED <<job, misused>>

\* Mutant: the constructor does not look at the number.
OpenFails_unchecked(w) ==
  /\ job = NoJob
  /\ fdw[w] = Unborn
  /\ handles' = [handles EXCEPT ![w] = 1]
  /\ outcome' = Ok
  /\ UNCHANGED <<fdw, kernel, file, job, misused>>

\* FDWrapper(fd) with what a failed open() or the like has returned: the constructor
\* throws, and there is no object.
OpenFails(w) ==
  /\ job = NoJob
  /\ fdw[w] = Unborn
  /\ outcome' = Threw
  /\ UNCHANGED <<fdw, handles, kernel, file, job, misused>>

duplicate(w) == /\ Calling(w)
                /\ handles[w] < MaxHandles
                /\ handles' = [handles EXCEPT ![w] = @ + 1]
                /\ outcome' = Ok
                /\ UNCHANGED <<fdw, kernel, file, job, misused>>

\* close(2): the number is free again and the file, if there is one, is gone.
sysClose(n) ==
  /\ kernel' = [kernel EXCEPT ![n] = None]
  /\ file' = [f \in Wrapper |-> IF f = kernel[n] THEN NewFile(file[f].kind, {}) ELSE file[f]]

\* FDWrapper::close(): the flags are set only when close(2) succeeded.
closeWrapper(w) ==
  /\ sysClose(fdw[w].fd)
  /\ IF fileOf(w) = None
     THEN outcome' = Threw /\ UNCHANGED fdw
     ELSE /\ outcome' = Ok
          /\ fdw' = [fdw EXCEPT ![w].eof = TRUE, ![w].closed = TRUE]

close(w) == /\ Calling(w)
            /\ closeWrapper(w)
            /\ Noticing(w)
            /\ UNCHANGED <<handles, job>>

\* Mutant: closing is left to the user of the object.
destroyOnly(w) ==
  /\ handles' = [handles EXCEPT ![w] = @ - 1]
  /\ fdw' = IF handles[w] > 1 THEN fdw ELSE [fdw EXCEPT ![w] = Freed]
  /\ UNCHANGED <<kernel, file>>

\* A handle is destroyed; the last one runs ~FDWrapper(), which closes the
\* number unless close() was called before, and swallows a failure to.
destroy(w) ==
  /\ handles' = [handles EXCEPT ![w] = @ - 1]
  /\ fdw' = IF handles[w] > 1 THEN fdw ELSE [fdw EXCEPT ![w] = Freed]
  /\ IF handles[w] > 1 \/ fdw[w].closed
     THEN UNCHANGED <<kernel, file>>
     ELSE sysClose(fdw[w].fd)

Drop(w) == /\ Calling(w)
           /\ destroy(w)
           /\ outcome' = Ok
           /\ UNCHANGED <<job, misused>>

\* read(2) on file f: what it may return, nothing if it fails or has to wait.
\* A datagram of any size may be next, an empty one too.
cannotRead(f) == \/ file[f].kind = "tcp" /\ ~is(f, "connected")
                 \/ file[f].in = 0 /\ is(f, "reset") /\ ~is(f, "ended")
readResults(f, limit) ==
  IF limit = 0 THEN {0}
  ELSE IF cannotRead(f) \/ ~readable(f) THEN {}
  ELSE IF file[f].in > 0 /\ datagrams(f) THEN 0 .. limit
  ELSE min2(1, file[f].in) .. min2(limit, file[f].in)

\* What a read of n takes away from what waits.
taken(f, limit, n) == IF datagrams(f) /\ limit > 0 THEN min2(1, file[f].in) ELSE n

\* Mutant: a read of nothing counts as the end of the file.
ends_anyLimit(limit, n) == n = 0

\* Mutant: the end of the file goes unnoticed.
ends_never(limit, n) == FALSE

\* An empty answer to a real question is the end of the file.
ends(limit, n) == limit > 0 /\ n = 0

\* read() with an answer.
gotRead(w, f, limit, n) ==
  /\ fdw' = [fdw EXCEPT ![w].eof = @ \/ ends(limit, n), ![w].read_count = Inc(@)]
  /\ file' = [file EXCEPT ![f].in = @ - taken(f, limit, n)]
  /\ outcome' = Ok

\* A read that fails (EBADF, ECONNRESET, ENOTCONN, or EAGAIN where it would have
\* to wait) throws before it counts; an error is told once.
read(w, limit) ==
  /\ Calling(w)
  /\ LET f == fileOf(w)
     IN  \/ /\ f # None
            /\ \E n \in readResults(f, limit) : gotRead(w, f, limit, n)
         \/ /\ f = None
            /\ outcome' = Threw
            /\ UNCHANGED <<fdw, file>>
         \/ /\ f # None
            /\ readResults(f, limit) = {}
            /\ cannotRead(f) \/ is(f, "nonblock")
            /\ outcome' = Threw
            /\ file' = [file EXCEPT ![f].is = @ \ {"reset"}]
            /\ UNCHANGED fdw
  /\ Noticing(w)
  /\ UNCHANGED <<handles, kernel, job>>

\* write() is entered; its loop does the work.
write(w, size, all) ==
  /\ Calling(w)
  /\ job' = [w |-> w, left |-> size, total |-> 0, size |-> size, all |-> all]
  /\ Noticing(w)
  /\ UNCHANGED <<fdw, handles, kernel, file, outcome>>

\* The loop's condition.
goOn(left) == job.all /\ left > 0

\* writev(2) on file f: how much it may take, nothing if it fails or has to
\* wait.  A datagram goes as a whole.
cannotWrite(f) == \/ ~is(f, "connected") \/ is(f, "wr")
                  \/ is(f, "ended") /\ file[f].kind \in {"pipe", "unix"}
writeResults(f, left) ==
  IF left = 0 /\ file[f].kind = "pipe" THEN {0}
  ELSE IF cannotWrite(f) THEN {}
  ELSE IF left = 0 \/ datagrams(f) THEN {left}
  ELSE 1 .. min2(left, file[f].room)

\* One round: what writev(2) took is counted.
writev(w, f, n) ==
  /\ fdw' = [fdw EXCEPT ![w].write_count = Inc(@)]
  /\ file' = [file EXCEPT ![f].room = @ - IF datagrams(f) THEN 0 ELSE n]
  /\ IF goOn(job.left - n)
     THEN /\ job' = [job EXCEPT !.left = @ - n, !.total = @ + n]
          /\ UNCHANGED outcome
     ELSE /\ job' = NoJob
          /\ outcome' = Moved(job.all, job.size, job.total + n)

\* An error throws out of the loop: what earlier rounds wrote stays written and
\* the caller is not told how much that was.
WriteRound ==
  /\ job # NoJob
  /\ LET f == fileOf(job.w)
     IN  \/ /\ f # None
            /\ \E n \in writeResults(f, job.left) : writev(job.w, f, n)
         \/ /\ f = None
            /\ job' = NoJob
            /\ outcome' = Threw
            /\ UNCHANGED <<fdw, file>>
         \/ /\ f # None
            /\ writeResults(f, job.left) = {}
            /\ cannotWrite(f) \/ is(f, "nonblock")
            /\ job' = NoJob
            /\ outcome' = Threw
            /\ file' = [file EXCEPT ![f].is = @ \ {"reset"}]
            /\ UNCHANGED fdw
  /\ UNCHANGED <<handles, kernel, misused>>

set_blocking(w, blocking) ==
  /\ Calling(w)
  /\ IF fileOf(w) = None
     THEN outcome' = Threw /\ UNCHANGED file
     ELSE /\ outcome' = Ok
          /\ file' = [file EXCEPT ![fileOf(w)].is =
                        IF blocking THEN @ \ {"nonblock"} ELSE @ \cup {"nonblock"}]
  /\ Noticing(w)
  /\ UNCHANGED <<fdw, handles, kernel, job>>

----------------------------------------------------------------------------
(* The peer of each file (external) *)

\* The file of w is open and becomes g.
PeerMakes(w, g) == /\ \E n \in Num : kernel[n] = w
                   /\ file' = [file EXCEPT ![w] = g]
                   /\ UNCHANGED <<fdw, handles, kernel, job, outcome, misused>>

hasPeer(w) == is(w, "connected") /\ ~is(w, "reset")

\* More arrives: bytes, a datagram, or a connection.
PeerSends(w) == /\ file[w].in < MaxIn
                /\ file[w].is \cap {"ended", "rd"} = {}
                /\ hasPeer(w) \/ is(w, "listening") \/ datagrams(w)
                /\ PeerMakes(w, [file[w] EXCEPT !.in = @ + 1])

PeerTakes(w) == /\ file[w].room < MaxOut
                /\ hasPeer(w) /\ ~is(w, "wr")
                /\ PeerMakes(w, [file[w] EXCEPT !.room = @ + 1])

PeerEnds(w) == /\ hasPeer(w) /\ ~datagrams(w) /\ ~is(w, "ended")
               /\ PeerMakes(w, [file[w] EXCEPT !.is = @ \cup {"ended"}])

\* The connection breaks off; what has arrived may be lost with it, unless the
\* peer had ended: then a read still finds the rest and the end.
PeerResets(w) ==
  /\ hasPeer(w) /\ file[w].kind = "tcp" /\ ~({"rd", "wr"} \subseteq file[w].is)
  /\ \E n \in (IF is(w, "ended") THEN file[w].in ELSE 0) .. file[w].in :
       PeerMakes(w, [file[w] EXCEPT !.in = n, !.is = @ \cup {"reset", "rd", "wr"}])

Peer(w) == PeerSends(w) \/ PeerTakes(w) \/ PeerEnds(w) \/ PeerResets(w)

FDNext == \/ \E w \in Wrapper : duplicate(w) \/ close(w) \/ Drop(w) \/ Peer(w) \/ OpenFails(w)
          \/ \E w \in Wrapper : \E k \in Kinds[w] : Open(w, k)
          \/ \E w \in Wrapper, limit \in Limits : read(w, limit)
          \/ \E w \in Wrapper, size \in Sizes, all \in BOOLEAN : write(w, size, all)
          \/ \E w \in Wrapper, blocking \in BOOLEAN : set_blocking(w, blocking)
          \/ WriteRound

----------------------------------------------------------------------------
(* Properties *)

FDTypes ==
  /\ fdw \in [Wrapper -> [fd : Num \cup {-1}, eof : BOOLEAN, closed : BOOLEAN,
                          read_count : 0 .. UINT_MAX, write_count : 0 .. UINT_MAX]]
  /\ handles \in [Wrapper -> 0 .. MaxHandles]
  /\ kernel \in [Num -> Wrapper \cup {None}]
  /\ file \in [Wrapper -> [kind : {None, "pipe", "unix", "tcp", "udp"}, in : 0 .. MaxIn, room : 0 .. MaxOut, is : SUBSET Marks]]
  /\ job \in [w : Wrapper \cup {None}, left : Nat, total : Nat, size : Nat, all : BOOLEAN]
  /\ outcome \in {"returned", "short", "threw"}
  /\ misused \in BOOLEAN

\* The types of the members, and an object that exists has a number: what ::open
\* and the like return without one never gets as far as an FDWrapper.
FDTypeOK == FDTypes /\ \A w \in Wrapper : handles[w] > 0 => fdw[w].fd \in Num

\* While no caller uses a closed wrapper, a number is open on the wrapper's file
\* exactly from its construction to its close: no handle ever works on a number
\* that was given to somebody else, and no number outlives the last handle, also
\* when a constructor throws half-way or accept() fails.
Ownership ==
  ~misused => \A w \in Wrapper, n \in Num :
    kernel[n] = w <=> handles[w] > 0 /\ fdw[w].fd = n /\ ~fdw[w].closed

\* "Flag indicating whether FDWrapper::_fd is at EOF": on an open wrapper it is
\* only set when nothing will ever be readable again.  Not so for datagrams: an
\* empty one reads like the end of a file.
EofIsTrue ==
  ~misused => \A w \in Wrapper :
    fdw[w].eof /\ ~fdw[w].closed /\ ~datagrams(w)
      => file[w].in = 0 /\ file[w].is \cap {"ended", "rd"} # {}

\* A write() with write_all, a send or a recv that returns has moved the whole
\* buffer or datagram, however the kernel cut it up and whatever the peer did.
AllOrThrow == outcome # "short"
=============================================================================
