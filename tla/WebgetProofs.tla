---------------------------- MODULE WebgetProofs ----------------------------
(***************************************************************************)
(* Proofs about Webget, for every page and request, every size of the      *)
(* buffers, every kernel table and every server.                           *)
(***************************************************************************)
EXTENDS Webget, SocketProofs

sockFile == file[Sock]

\* get_URL has its socket: one handle on a number that is open.
inGetURL == pc \in {"resolve", "connect", "request", "reading", "return", "unwind"}

Places == /\ pc \in {"main", "resolve", "connect", "request", "reading", "return",
                     "unwind", "done"}
          /\ pc = "main" => fdw[Sock] = Unborn /\ page = 0 /\ printed = 0
          /\ inGetURL => handles[Sock] = 1 /\ ~fdw[Sock].closed /\ sockFile.kind = "tcp"
          /\ pc = "done" => handles[Sock] = 0
          /\ job # NoJob => pc = "request"
          /\ page \in Nat /\ printed \in Nat

\* Until an error is told, nothing is missing: what was printed and what waits
\* is what the server sent, unless the connection broke off before its end.
Account == inGetURL /\ pc # "unwind" =>
             /\ "ended" \in sockFile.is => complete
             /\ "rd" \in sockFile.is => "reset" \in sockFile.is
             /\ "ended" \in sockFile.is \/ "reset" \notin sockFile.is
                  => printed + sockFile.in = page
             /\ fdw[Sock].eof => "ended" \in sockFile.is /\ sockFile.in = 0
             /\ pc = "return" => fdw[Sock].eof

Exits == exit = "SUCCESS" => pc = "done" /\ complete /\ printed = page

\* FDInv knows the socket; Places and Account relate it to what get_URL has done,
\* and Exits keeps that after the socket is gone.
WInv == FDInv /\ ~misused /\ Places /\ Account /\ Exits

----------------------------------------------------------------------------

\* What the invariant says of the socket.
LEMMA TheSocket ==
  ASSUME WInv
  PROVE  /\ Sock \in Wrapper /\ Sock # None
         /\ fdw \in [Wrapper -> FdRec] /\ file \in [Wrapper -> FileRec]
         /\ handles \in [Wrapper -> 0 .. MaxHandles]
         /\ sockFile.in \in Nat /\ fdw[Sock].eof \in BOOLEAN
         /\ inGetURL => fileOf(Sock) = Sock
<1>1. Sock \in Wrapper /\ Sock # None
  BY WebAssumption, FDAssumption
<1>2. FDTypes /\ Life /\ Own
  BY DEF WInv, FDInv
<1>3. /\ fdw \in [Wrapper -> FdRec] /\ file \in [Wrapper -> FileRec]
      /\ handles \in [Wrapper -> 0 .. MaxHandles]
  BY <1>2 DEF FDTypes, FdRec, FileRec
<1>4. sockFile.in \in Nat /\ fdw[Sock].eof \in BOOLEAN
  BY <1>1, <1>3, FDAssumption DEF sockFile, FdRec, FileRec
<1>5. inGetURL => fileOf(Sock) = Sock
  BY <1>1, <1>2, OwnFile DEF WInv, Places
<1> QED BY <1>1, <1>3, <1>4, <1>5

\* A caller of an open wrapper does no harm.
LEMMA NoMisuse == ASSUME WInv, inGetURL, Noticing(Sock) PROVE misused' = FALSE
  BY DEF WInv, Places, Noticing

\* main() gets a socket, or leaves.
LEMMA MainStep == ASSUME WInv, Main PROVE WInv'
<1>1. Sock \in Wrapper /\ pc = "main" /\ ~misused /\ FDInv
  BY TheSocket DEF Main, WInv
<1>2. /\ fdw \in [Wrapper -> FdRec] /\ file \in [Wrapper -> FileRec]
      /\ handles \in [Wrapper -> 0 .. MaxHandles]
  BY TheSocket
<1>3. fdw[Sock] = Unborn /\ page = 0 /\ printed = 0 /\ exit # "SUCCESS" /\ job = NoJob
  BY <1>1 DEF WInv, Places, Exits
<1>4. CASE Open(Sock, "tcp") /\ pc' = "resolve" /\ UNCHANGED exit
  <2>1. FDInv'
    BY <1>1, <1>4, OpenInv
  <2>2. /\ handles' = [handles EXCEPT ![Sock] = 1]
        /\ fdw' = [fdw EXCEPT ![Sock].fd = Min(free)]
        /\ file' = [file EXCEPT ![Sock] = NewFile("tcp", {})]
        /\ job' = NoJob /\ misused' = misused
    BY <1>3, <1>4 DEF Open
  <2>3. handles'[Sock] = 1 /\ file'[Sock] = NewFile("tcp", {})
    BY <1>1, <1>2, <2>2
  <2>4. ~fdw'[Sock].closed /\ ~fdw'[Sock].eof
    BY <1>1, <1>2, <1>3, <2>2 DEF Unborn, FdRec
  <2>5. /\ file'[Sock].kind = "tcp" /\ file'[Sock].in = 0 /\ file'[Sock].is = {}
    BY <2>3 DEF NewFile
  <2>6. page' = 0 /\ printed' = 0
    BY <1>3 DEF Main, server
  <2>7. Places'
    BY <1>4, <2>2, <2>3, <2>4, <2>5, <2>6 DEF Places, inGetURL, sockFile
  <2>8. Account'
    BY <1>4, <2>4, <2>5, <2>6 DEF Account, inGetURL, sockFile
  <2> QED BY <1>1, <1>3, <1>4, <2>1, <2>2, <2>7, <2>8 DEF WInv, Exits
<1>5. CASE Return("FAILURE") /\ UNCHANGED fdVars
  <2>1. FDInv'
    BY <1>1, <1>5, FDStutter
  <2>2. handles[Sock] = 0
    BY <1>1, <1>3, UnbornIsNobody DEF FDInv
  <2>3. /\ pc' = "done" /\ exit' = "FAILURE" /\ UNCHANGED fdVars
        /\ page' = 0 /\ printed' = 0
    BY <1>3, <1>5 DEF Main, server, Return
  <2>4. Places' /\ Account'
    BY <1>3, <2>2, <2>3 DEF Places, Account, inGetURL, fdVars
  <2> QED BY <1>1, <2>1, <2>3, <2>4 DEF WInv, Exits, fdVars
<1> QED BY <1>4, <1>5 DEF Main

\* The resolver answers or not.
LEMMA ResolveStep == ASSUME WInv, Resolve PROVE WInv'
<1>1. FDInv'
  BY FDStutter DEF WInv, Resolve
<1>2. Places'
  BY DEF WInv, Places, Resolve, At, server, fdVars, inGetURL, sockFile
<1>3. Account'
  BY DEF WInv, Account, Resolve, At, server, fdVars, inGetURL, sockFile
<1> QED BY <1>1, <1>2, <1>3 DEF WInv, Exits, Resolve, At, fdVars

\* A call of get_URL that keeps the handle and either throws, or goes on with an
\* account that is still right.
LEMMA CallStep ==
  ASSUME WInv, inGetURL, FDInv', misused' = FALSE,
         UNCHANGED <<handles, server, exit>>,
         ~fdw'[Sock].closed, sockFile'.kind = "tcp",
         pc' \in {"connect", "request", "reading", "unwind"},
         job' # NoJob => pc' = "request", printed' \in Nat,
         pc' = "unwind" \/ Account'
  PROVE  WInv'
<1>1. Places'
  BY DEF WInv, Places, inGetURL, server, sockFile
<1>2. Account'
  BY DEF Account
<1>3. Exits'
  BY DEF WInv, Exits, inGetURL
<1> QED BY <1>1, <1>2, <1>3 DEF WInv

\* connect().
LEMMA ConnectStep == ASSUME WInv, Connect PROVE WInv'
<1>1. pc = "connect" /\ inGetURL /\ connect(Sock) /\ UNCHANGED <<server, exit, printed>>
  BY DEF Connect, At, inGetURL
<1>2. /\ Sock \in Wrapper /\ fileOf(Sock) = Sock /\ Sock # None
      /\ fdw \in [Wrapper -> FdRec] /\ file \in [Wrapper -> FileRec]
  BY <1>1, TheSocket
<1>3. FDInv'
  BY <1>1, <1>2, ConnectInv DEF WInv
<1>4. misused' = FALSE /\ job = NoJob /\ UNCHANGED job
  BY <1>1, NoMisuse DEF connect, OnSocket, Calling
<1>5. sockFile.kind = "tcp" /\ ~fdw[Sock].closed /\ printed \in Nat
  BY <1>1 DEF WInv, Places
<1>6. /\ UNCHANGED <<fdw, handles>> /\ sockFile'.kind = "tcp"
      /\ \/ outcome' = Threw
         \/ /\ outcome' = Ok /\ sockFile'.in = sockFile.in
            /\ sockFile'.is = sockFile.is \cup {"connected"}
  <2>1. CASE Fails
    BY <1>5, <2>1 DEF Fails, sockFile
  <2>2. CASE Marked(Sock, file[Sock].is \cup {"connected"})
    BY <1>2, <1>5, <2>2 DEF Marked, sockFile, FileRec
  <2>3. CASE /\ file' = [file EXCEPT ![Sock].is = @ \cup {"connecting"}]
             /\ outcome' = Threw /\ UNCHANGED <<fdw, handles, kernel>>
    BY <1>2, <1>5, <2>3 DEF sockFile, FileRec
  <2> QED BY <1>1, <1>2, <2>1, <2>2, <2>3 DEF connect
<1>7. pc' \in {"request", "unwind"} /\ (outcome' = Ok => pc' = "request")
      /\ (outcome' = Threw => pc' = "unwind")
  BY Outcomes DEF Connect, Then
<1>8. pc' = "unwind" \/ Account'
  <2> SUFFICES ASSUME pc' = "request" PROVE Account'
    BY <1>7
  <2>1. /\ fdw' = fdw /\ sockFile'.in = sockFile.in
        /\ sockFile'.is = sockFile.is \cup {"connected"}
        /\ page' = page /\ printed' = printed /\ complete' = complete
    BY <1>1, <1>6, <1>7 DEF server
  <2> QED BY <1>1, <2>1 DEF WInv, Account, inGetURL
<1> QED BY <1>1, <1>3, <1>4, <1>5, <1>6, <1>7, <1>8, CallStep

\* A file with the same marks and the same input has the same account.
LEMMA SameAccount ==
  ASSUME WInv, inGetURL, pc # "unwind", inGetURL', pc' # "return",
         sockFile'.is = sockFile.is, sockFile'.in = sockFile.in,
         fdw'[Sock].eof = fdw[Sock].eof, UNCHANGED <<server, printed>>
  PROVE  Account'
  BY DEF WInv, Account, inGetURL, server

\* write() and the rounds of its loop.
LEMMA RequestStep == ASSUME WInv, SendRequest PROVE WInv'
<1>1. pc = "request" /\ inGetURL /\ UNCHANGED <<server, exit, printed>>
  BY DEF SendRequest, At, inGetURL
<1>2. /\ Sock \in Wrapper /\ fileOf(Sock) = Sock /\ Sock # None
      /\ fdw \in [Wrapper -> FdRec] /\ file \in [Wrapper -> FileRec]
  BY <1>1, TheSocket
<1>3. sockFile.kind = "tcp" /\ ~fdw[Sock].closed /\ printed \in Nat
  BY <1>1 DEF WInv, Places
<1>4. CASE job = NoJob
  <2>1. write(Sock, Request, TRUE) /\ pc' = pc
    BY <1>4 DEF SendRequest
  <2>2. FDInv'
    BY <1>2, <2>1, WriteInv, WebAssumption DEF WInv
  <2>3. misused' = FALSE /\ UNCHANGED <<fdw, handles, file>>
    BY <1>1, <2>1, NoMisuse DEF write
  <2>4. /\ sockFile' = sockFile /\ inGetURL' /\ pc' = "request"
        /\ fdw'[Sock] = fdw[Sock]
    BY <1>1, <2>1, <2>3 DEF sockFile, inGetURL
  <2>5. Account'
    BY <1>1, <2>4, SameAccount
  <2> QED BY <1>1, <1>3, <2>2, <2>3, <2>4, <2>5, CallStep
<1>5. CASE job # NoJob
  <2>1. WriteRound /\ IF job' = NoJob THEN Then("reading") ELSE UNCHANGED pc
    BY <1>5 DEF SendRequest
  <2>2. FDInv' /\ misused' = FALSE /\ UNCHANGED handles
    BY <2>1, WriteRoundInv DEF WInv, WriteRound
  <2>3. job.w = Sock
    BY <1>5, WebAssumption DEF WInv, FDInv, JobOK
  <2>4. /\ sockFile'.kind = "tcp" /\ ~fdw'[Sock].closed
        /\ \/ outcome' = Threw /\ job' = NoJob
           \/ /\ sockFile'.is = sockFile.is /\ sockFile'.in = sockFile.in
              /\ fdw'[Sock].eof = fdw[Sock].eof
    <3>1. CASE \E n \in writeResults(Sock, job.left) : writev(Sock, Sock, n)
      <4>1. PICK n : writev(Sock, Sock, n)
        BY <3>1
      <4>2. PICK c, r : /\ fdw' = [fdw EXCEPT ![Sock].write_count = c]
                        /\ file' = [file EXCEPT ![Sock].room = r]
        BY <4>1 DEF writev
      <4> QED BY <1>2, <1>3, <4>2 DEF sockFile, FdRec, FileRec
    <3>2. CASE /\ job' = NoJob /\ outcome' = Threw
               /\ file' = [file EXCEPT ![Sock].is = @ \ {"reset"}] /\ UNCHANGED fdw
      BY <1>2, <1>3, <3>2 DEF sockFile, FileRec
    <3> QED BY <1>2, <2>1, <2>3, <3>1, <3>2 DEF WriteRound
  <2>5. /\ pc' \in {"request", "reading", "unwind"}
        /\ job' # NoJob => pc' = "request"
        /\ outcome' = Threw /\ job' = NoJob => pc' = "unwind"
    BY <1>1, <2>1 DEF Then
  <2>6. pc' = "unwind" \/ Account'
    <3> SUFFICES ASSUME pc' # "unwind" PROVE Account'
      OBVIOUS
    <3>1. inGetURL' /\ pc' # "return"
      BY <2>5 DEF inGetURL
    <3> QED BY <1>1, <2>4, <2>5, <3>1, SameAccount
  <2> QED BY <1>1, <1>3, <2>2, <2>4, <2>5, <2>6, CallStep
<1> QED BY <1>4, <1>5

\* One round of the reading loop.
LEMMA ReadStep == ASSUME WInv, ReadAndPrint PROVE WInv'
<1>1. /\ pc = "reading" /\ inGetURL /\ UNCHANGED <<server, exit>> /\ read(Sock, MaxIn)
      /\ ~fdw[Sock].eof /\ printed' = printed + (sockFile.in - sockFile'.in)
  BY DEF ReadAndPrint, At, inGetURL, finished, sockFile
<1>2. /\ Sock \in Wrapper /\ fileOf(Sock) = Sock /\ Sock # None
      /\ fdw \in [Wrapper -> FdRec] /\ file \in [Wrapper -> FileRec]
      /\ sockFile.in \in Nat /\ MaxIn \in Nat \ {0}
  BY <1>1, TheSocket, FDAssumption
<1>3. sockFile.kind = "tcp" /\ ~fdw[Sock].closed /\ printed \in Nat
  BY <1>1 DEF WInv, Places
<1>4. FDInv'
  BY <1>1, <1>2, ReadInv DEF WInv
<1>5. misused' = FALSE /\ job = NoJob /\ UNCHANGED <<job, handles>>
  BY <1>1, NoMisuse DEF read, Calling
<1>6. /\ pc' \in {"reading", "unwind"}
      /\ outcome' = Threw => pc' = "unwind"
  BY DEF ReadAndPrint, Then
<1>7. CASE \E n \in readResults(Sock, MaxIn) : gotRead(Sock, Sock, MaxIn, n)
  <2>1. PICK n \in readResults(Sock, MaxIn) : gotRead(Sock, Sock, MaxIn, n)
    BY <1>7
  <2>2. /\ ~datagrams(Sock) /\ ~cannotRead(Sock) /\ readable(Sock)
        /\ n \in min2(1, sockFile.in) .. min2(MaxIn, sockFile.in)
    BY <1>2, <1>3, <2>1 DEF readResults, datagrams, sockFile
  <2>3. n \in 0 .. sockFile.in /\ (n = 0 => sockFile.in = 0)
    BY <1>2, <2>2 DEF min2
  <2>4. taken(Sock, MaxIn, n) = n
    BY <2>2 DEF taken
  <2>5. PICK e, c : /\ fdw' = [fdw EXCEPT ![Sock].eof = e, ![Sock].read_count = c]
                    /\ e = (fdw[Sock].eof \/ ends(MaxIn, n))
    BY <1>2, <2>1 DEF gotRead
  <2>6. file' = [file EXCEPT ![Sock].in = @ - n]
    BY <2>1, <2>4 DEF gotRead
  <2>7. /\ sockFile'.kind = "tcp" /\ sockFile'.is = sockFile.is
        /\ sockFile'.in = sockFile.in - n
    BY <1>2, <1>3, <2>6 DEF sockFile, FileRec
  <2>8. fdw'[Sock].eof = e /\ fdw'[Sock].closed = fdw[Sock].closed
    BY <1>2, <2>5 DEF FdRec
  <2>9. e <=> n = 0
    <3>1. ends(MaxIn, n) <=> n = 0
      BY <1>2 DEF ends
    <3> QED BY <1>1, <2>5, <3>1, Zenon
  <2>10. printed' = printed + n /\ printed' \in Nat
    BY <1>1, <1>2, <1>3, <2>3, <2>7
  <2>11. printed' + sockFile'.in = printed + sockFile.in
    BY <1>2, <1>3, <2>3, <2>7, <2>10
  <2>12. Account'
    <3>1. /\ "ended" \in sockFile.is => complete
          /\ "rd" \in sockFile.is => "reset" \in sockFile.is
          /\ "ended" \in sockFile.is \/ "reset" \notin sockFile.is
               => printed + sockFile.in = page
      BY <1>1 DEF WInv, Account, inGetURL
    <3>2. n = 0 => "ended" \in sockFile.is /\ sockFile'.in = 0
      BY <1>2, <2>2, <2>3, <2>7, <3>1 DEF cannotRead, readable, is, sockFile
    <3>3. page' = page /\ complete' = complete /\ pc' # "return"
      BY <1>1, <1>6 DEF server
    <3> QED BY <2>7, <2>8, <2>9, <2>11, <3>1, <3>2, <3>3 DEF Account
  <2> QED BY <1>1, <1>3, <1>4, <1>5, <1>6, <2>7, <2>8, <2>10, <2>12, CallStep
<1>8. CASE /\ outcome' = Threw /\ UNCHANGED fdw
           /\ file' = [file EXCEPT ![Sock].is = @ \ {"reset"}]
  <2>1. sockFile'.kind = "tcp" /\ sockFile'.in = sockFile.in
    BY <1>2, <1>3, <1>8 DEF sockFile, FileRec
  <2>2. printed' \in Nat
    BY <1>1, <1>2, <1>3, <2>1
  <2> QED BY <1>1, <1>3, <1>4, <1>5, <1>6, <1>8, <2>1, <2>2, CallStep
<1> QED BY <1>1, <1>2, <1>7, <1>8 DEF read

\* The loop ends at eof().
LEMMA LoopEndsStep == ASSUME WInv, LoopEnds PROVE WInv'
<1>1. FDInv'
  BY FDStutter DEF WInv, LoopEnds
<1>2. Places'
  BY DEF WInv, Places, LoopEnds, At, server, fdVars, inGetURL, sockFile
<1>3. Account'
  BY DEF WInv, Account, LoopEnds, At, server, fdVars, inGetURL, sockFile, finished
<1> QED BY <1>1, <1>2, <1>3 DEF WInv, Exits, LoopEnds, At, fdVars

\* get_URL is left.
LEMMA LeaveStep == ASSUME WInv, Leave PROVE WInv'
<1>1. /\ pc \in {"return", "unwind"} /\ inGetURL /\ Drop(Sock)
      /\ UNCHANGED <<server, printed>> /\ pc' = "done"
      /\ exit' = IF pc = "return" THEN "SUCCESS" ELSE "FAILURE"
  BY DEF Leave, inGetURL, Return
<1>2. Sock \in Wrapper /\ handles \in [Wrapper -> 0 .. MaxHandles] /\ handles[Sock] = 1
  BY <1>1, TheSocket DEF WInv, Places
<1>3. /\ job = NoJob /\ job' = NoJob /\ misused' = FALSE /\ outcome' = Ok
      /\ destroy(Sock) /\ handles' = [handles EXCEPT ![Sock] = @ - 1]
  BY <1>1 DEF WInv, Drop, Calling, destroy
<1>4. FDInv'
  <2>1. FDInv /\ ~misused /\ handles[Sock] > 0 /\ UNCHANGED job
    BY <1>2, <1>3 DEF WInv
  <2>2. outcome' \in {"returned", "threw"} /\ misused' \in BOOLEAN
    BY <1>3, Outcomes
  <2> QED BY <1>2, <1>3, <2>1, <2>2, DestroyInv
<1>5. handles'[Sock] = 0
  BY <1>2, <1>3
<1>6. Places' /\ Account'
  BY <1>1, <1>3, <1>5 DEF WInv, Places, Account, inGetURL, server
<1>7. Exits'
  <2>1. CASE pc = "return"
    <3>1. printed + sockFile.in = page /\ sockFile.in = 0 /\ complete /\ printed \in Nat
      BY <2>1 DEF WInv, Places, Account, inGetURL
    <3>2. printed = page
      BY <3>1
    <3> QED BY <1>1, <3>1, <3>2 DEF Exits, server
  <2>2. CASE pc # "return"
    BY <1>1, <2>2 DEF Exits
  <2> QED BY <2>1, <2>2
<1> QED BY <1>3, <1>4, <1>6, <1>7 DEF WInv

\* What the server and the network do to the socket.
LEMMA ServerStep == ASSUME WInv, Server PROVE WInv'
<1>1. UNCHANGED <<pc, printed, exit>>
  BY DEF Server
<1>2. Sock \in Wrapper /\ FDInv /\ ~misused
  BY TheSocket DEF WInv
<1>3. PICK g : PeerMakes(Sock, g)
  BY DEF Server, ServerSends, ServerTakes, ServerEnds, Breaks,
         PeerSends, PeerTakes, PeerEnds, PeerResets
<1>4. FDInv'
  BY <1>2, PeerInv DEF Server, ServerSends, ServerTakes, ServerEnds, Breaks, Peer
<1>5. UNCHANGED <<fdw, handles, kernel, job, outcome, misused>>
  BY <1>3 DEF PeerMakes
<1>6. handles[Sock] > 0 /\ fdw[Sock].fd \in Num
  BY <1>2, <1>3 DEF PeerMakes, FDInv, Own, Life
<1>7. inGetURL
  <2>1. pc # "main"
    BY <1>6, FDAssumption DEF WInv, Places, Unborn
  <2>2. pc # "done"
    BY <1>6 DEF WInv, Places
  <2> QED BY <2>1, <2>2 DEF WInv, Places, inGetURL
<1>8. file \in [Wrapper -> FileRec] /\ sockFile.in \in Nat /\ sockFile.kind = "tcp"
  BY <1>7, TheSocket DEF WInv, Places
<1>9. printed \in Nat /\ page \in Nat
  BY DEF WInv, Places
<1>10. /\ sockFile'.kind = "tcp" /\ page' \in Nat
       /\ pc # "unwind" =>
             /\ "ended" \in sockFile'.is => complete'
             /\ "rd" \in sockFile'.is => "reset" \in sockFile'.is
             /\ "ended" \in sockFile'.is \/ "reset" \notin sockFile'.is
                  => printed + sockFile'.in = page'
             /\ fdw[Sock].eof => "ended" \in sockFile'.is /\ sockFile'.in = 0
  <2>0. pc # "unwind" =>
             /\ "ended" \in sockFile.is => complete
             /\ "rd" \in sockFile.is => "reset" \in sockFile.is
             /\ "ended" \in sockFile.is \/ "reset" \notin sockFile.is
                  => printed + sockFile.in = page
             /\ fdw[Sock].eof => "ended" \in sockFile.is /\ sockFile.in = 0
    BY <1>7 DEF WInv, Account
  <2>1. CASE ServerSends
    <3>1. /\ sockFile'.kind = "tcp" /\ sockFile'.is = sockFile.is
          /\ sockFile'.in = sockFile.in + 1
      BY <1>2, <1>8, <2>1 DEF ServerSends, PeerSends, PeerMakes, sockFile, FileRec
    <3>2. /\ "ended" \notin sockFile.is /\ "rd" \notin sockFile.is
          /\ page' = page + 1 /\ complete' = complete
      BY <2>1 DEF ServerSends, PeerSends, sockFile
    <3> QED BY <1>8, <1>9, <2>0, <3>1, <3>2
  <2>2. CASE ServerTakes
    <3>1. /\ sockFile'.kind = "tcp" /\ sockFile'.is = sockFile.is
          /\ sockFile'.in = sockFile.in
      BY <1>2, <1>8, <2>2 DEF ServerTakes, PeerTakes, PeerMakes, sockFile, FileRec
    <3> QED BY <1>9, <2>0, <2>2, <3>1 DEF ServerTakes, server
  <2>3. CASE ServerEnds
    <3>1. /\ sockFile'.kind = "tcp" /\ sockFile'.is = sockFile.is \cup {"ended"}
          /\ sockFile'.in = sockFile.in
      BY <1>2, <1>8, <2>3 DEF ServerEnds, PeerEnds, PeerMakes, sockFile, FileRec
    <3>2. page' = page /\ complete' = TRUE /\ "reset" \notin sockFile.is
      BY <2>3 DEF ServerEnds, PeerEnds, hasPeer, is, sockFile
    <3> QED BY <1>9, <2>0, <3>1, <3>2
  <2>4. CASE Breaks
    <3>1. PICK n \in (IF is(Sock, "ended") THEN file[Sock].in ELSE 0) .. file[Sock].in :
            PeerMakes(Sock, [file[Sock] EXCEPT !.in = n, !.is = @ \cup {"reset", "rd", "wr"}])
      BY <2>4 DEF Breaks, PeerResets
    <3>2. /\ sockFile'.kind = "tcp" /\ sockFile'.is = sockFile.is \cup {"reset", "rd", "wr"}
          /\ sockFile'.in = n
      BY <1>2, <1>8, <3>1 DEF PeerMakes, sockFile, FileRec
    <3>3. "ended" \in sockFile.is => n = sockFile.in
      BY <1>8, <3>1 DEF is, sockFile
    <3>4. "reset" \notin sockFile.is /\ page' = page /\ complete' = complete
      BY <2>4 DEF Breaks, PeerResets, hasPeer, is, sockFile, server
    <3> QED BY <1>9, <2>0, <3>2, <3>3, <3>4
  <2> QED BY <2>1, <2>2, <2>3, <2>4 DEF Server
<1>11. Places'
  BY <1>1, <1>5, <1>7, <1>10 DEF WInv, Places, inGetURL, sockFile
<1>12. Account'
  BY <1>1, <1>5, <1>7, <1>10 DEF WInv, Account, inGetURL
<1>13. Exits'
  BY <1>1, <1>7 DEF WInv, Exits, inGetURL
<1> QED BY <1>4, <1>5, <1>11, <1>12, <1>13 DEF WInv

----------------------------------------------------------------------------
(* The theorems *)

\* The program and the server start from nothing.
LEMMA WebInitInv == WebInit => WInv
<1> SUFFICES ASSUME WebInit PROVE WInv
  OBVIOUS
<1>1. FDInv
  BY FDInitInv DEF WebInit
<1>2. fdw[Sock] = Unborn /\ job = NoJob /\ misused = FALSE
  BY WebAssumption DEF WebInit, FDInit
<1>3. Places /\ Account /\ Exits
  BY <1>2 DEF WebInit, Places, Account, Exits, inGetURL
<1> QED BY <1>1, <1>2, <1>3 DEF WInv

\* In every state of webget the socket, the account of the page and the exit code
\* agree.
THEOREM WebInvariance == WebSpec => []WInv
<1>1. WInv /\ [WebNext]_webVars => WInv'
  <2> SUFFICES ASSUME WInv, [WebNext]_webVars PROVE WInv'
    OBVIOUS
  <2>1. CASE UNCHANGED webVars
    <3>1. FDInv'
      BY <2>1, FDStutter DEF WInv, webVars
    <3> QED BY <2>1, <3>1 DEF webVars, fdVars, WInv, Places, Account, Exits, inGetURL, sockFile
  <2>2. CASE Client
    BY <2>2, MainStep, ResolveStep, ConnectStep, RequestStep, ReadStep, LoopEndsStep,
       LeaveStep DEF Client
  <2>3. CASE Server
    BY <2>3, ServerStep
  <2> QED BY <2>1, <2>2, <2>3 DEF WebNext, Done
<1> QED BY <1>1, WebInitInv, PTL DEF WebSpec

\* webget exits with success only after it has printed the whole of a page that
\* the server has ended, also when the connection broke off.
THEOREM WebSuccessIsWhole == WebSpec => []SuccessIsWhole
<1>1. WInv => SuccessIsWhole
  BY DEF WInv, Exits, SuccessIsWhole
<1> QED BY <1>1, WebInvariance, PTL

\* Every way out of main gives the number of the socket back.
THEOREM WebClosedAtExit == WebSpec => []ClosedAtExit
<1>1. WInv => ClosedAtExit
  <2> SUFFICES ASSUME WInv, pc = "done", NEW n \in Num PROVE kernel[n] = None
    BY DEF ClosedAtExit
  <2>1. handles[Sock] = 0 /\ Own /\ kernel[n] \in Wrapper \cup {None}
    BY DEF WInv, Places, FDInv, FDTypes
  <2>2. kernel[n] # Sock
    BY <2>1, WebAssumption DEF Own
  <2> QED BY <2>1, <2>2, WebAssumption
<1> QED BY <1>1, WebInvariance, PTL
=============================================================================
