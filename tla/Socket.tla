------------------------------- MODULE Socket -------------------------------
(***************************************************************************)
(* libsponge/util/socket.{hh,cc}: the socket classes, which add their      *)
(* calls to FileDescriptor.  A file remembers its kind after it is closed: *)
(* it is the class of the object.  Addresses are left out here; binding    *)
(* and naming only pass them on.                                           *)
(***************************************************************************)
EXTENDS FileDescriptor

CONSTANTS DatagramSizes,  \* sizes of the datagrams that arrive
          Mtus            \* arguments of recv()

ASSUME SocketAssumption == DatagramSizes \subseteq Nat /\ Mtus \subseteq Nat

class(w) == file[w].kind

\* A call on a socket of one of these classes.
OnSocket(w, classes) == Calling(w) /\ class(w) \in classes /\ Noticing(w) /\ UNCHANGED job

\* The call throws before it has changed anything.
Fails == outcome' = Threw /\ UNCHANGED <<fdw, handles, kernel, file>>

\* The call only changes the marks on the file.
Marked(f, marks) == /\ file' = [file EXCEPT ![f].is = marks]
                    /\ outcome' = Ok
                    /\ UNCHANGED <<fdw, handles, kernel>>

\* Mutant: the failing constructor forgets the handle it was given.
refused_leaks(w) == handles' = [handles EXCEPT ![w] = @ - 1] /\ UNCHANGED <<fdw, kernel, file>>

\* A constructor throws after its base class took the handle: the handle goes.
refused(w) == destroy(w)

\* Socket(FileDescriptor &&, domain, type): the descriptor is moved into the
\* object and then asked what it is.
adopt(w, k) ==
  /\ Calling(w) /\ Noticing(w) /\ UNCHANGED job
  /\ IF fileOf(w) # None /\ file[fileOf(w)].kind = k
     THEN outcome' = Ok /\ UNCHANGED <<fdw, handles, kernel, file>>
     ELSE outcome' = Threw /\ refused(w)

\* bind(), set_reuseaddr(), local_address(), peer_address(): the kernel decides.
passOn(w) ==
  /\ OnSocket(w, {"unix", "tcp", "udp"})
  /\ \/ fileOf(w) # None /\ Marked(fileOf(w), file[fileOf(w)].is)
     \/ Fails

\* connect().  On a socket that does not block the call throws (EINPROGRESS)
\* although the connection is being made.
connect(w) ==
  /\ OnSocket(w, {"tcp", "udp"})
  /\ LET f == fileOf(w)
         unused == f # None /\ (datagrams(f) \/ file[f].is \subseteq {"nonblock"})
     IN  \/ /\ unused /\ (datagrams(f) \/ ~is(f, "nonblock"))
            /\ Marked(f, file[f].is \cup {"connected"})
         \/ /\ unused /\ ~datagrams(f) /\ is(f, "nonblock")
            /\ file' = [file EXCEPT ![f].is = @ \cup {"connecting"}]
            /\ outcome' = Threw
            /\ UNCHANGED <<fdw, handles, kernel>>
         \/ Fails

\* The connection that a call of connect() did not wait for comes about or not.
PeerAnswers(w) ==
  /\ is(w, "connecting")
  /\ \E answer \in {{"connected"}, {}} :
       PeerMakes(w, [file[w] EXCEPT !.is = (@ \ {"connecting"}) \cup answer])

\* shutdown(): counted as a read, a write or both, once shutdown(2) succeeded.
shutFile(f, how) ==
  IF ~is(f, "listening") THEN [file[f] EXCEPT !.is = @ \cup how]
  ELSE IF "rd" \in how THEN [file[f] EXCEPT !.is = @ \ {"listening"}, !.in = 0]
  ELSE file[f]

\* Mutant: a shutdown is not registered.
shutDown_silent(w, f, how) ==
  file' = [file EXCEPT ![f] = shutFile(f, how)] /\ outcome' = Ok /\ UNCHANGED fdw

shutDown(w, f, how) ==
  /\ file' = [file EXCEPT ![f] = shutFile(f, how)]
  /\ fdw' = [fdw EXCEPT ![w].read_count = IF "rd" \in how THEN Inc(@) ELSE @,
                        ![w].write_count = IF "wr" \in how THEN Inc(@) ELSE @]
  /\ outcome' = Ok

shutdown(w, how) ==
  /\ OnSocket(w, {"unix", "tcp", "udp"})
  /\ LET f == fileOf(w)
     IN  IF f # None /\ file[f].is \cap {"connected", "listening"} # {} /\ ~is(f, "reset")
         THEN shutDown(w, f, how) /\ UNCHANGED <<handles, kernel>>
         ELSE Fails

listen(w) ==
  /\ OnSocket(w, {"tcp"})
  /\ LET f == fileOf(w)
     IN  IF f # None /\ file[f].is \subseteq {"nonblock", "listening"}
         THEN Marked(f, file[f].is \cup {"listening"})
         ELSE Fails

\* accept(): counts, then accepts; the new number is the new object's.  The
\* check of its kind cannot fail: it is a connection of a TCP socket.
accept(w, c) ==
  /\ OnSocket(w, {"tcp"})
  /\ fdw[c] = Unborn
  /\ free # {}
  /\ LET f == fileOf(w)
     IN  /\ f # None
         /\ is(f, "listening") /\ file[f].in > 0
         /\ fdw' = [fdw EXCEPT ![w].read_count = Inc(@), ![c].fd = Min(free)]
         /\ kernel' = [kernel EXCEPT ![Min(free)] = c]
         /\ handles' = [handles EXCEPT ![c] = 1]
         /\ file' = [file EXCEPT ![f].in = @ - 1, ![c] = NewFile("tcp", {"connected"})]
         /\ outcome' = Ok

\* No connection to wait for, or no number for it: it throws, having counted.
acceptFails(w) ==
  /\ OnSocket(w, {"tcp"})
  /\ LET f == fileOf(w)
     IN  \/ f = None \/ free = {}
         \/ f # None /\ (~is(f, "listening") \/ (is(f, "nonblock") /\ file[f].in = 0))
  /\ fdw' = [fdw EXCEPT ![w].read_count = Inc(@)]
  /\ outcome' = Threw
  /\ UNCHANGED <<handles, kernel, file>>

\* Mutant: the size of the datagram is not compared with the mtu.
oversized_never(recv_len, mtu) == FALSE

\* MSG_TRUNC: recvfrom(2) returns the real size, however little fits the buffer.
oversized(recv_len, mtu) == recv_len > mtu

\* recv(): a datagram that does not fit is gone, and not counted.  After
\* shutdown an empty one is returned for none.
recv(w, mtu) ==
  /\ OnSocket(w, {"udp"})
  /\ LET f == fileOf(w)
     IN  \/ /\ f # None /\ readable(f)
            /\ \E size \in IF file[f].in > 0 THEN DatagramSizes ELSE {0} :
                 IF oversized(size, mtu)
                 THEN outcome' = Threw /\ UNCHANGED fdw
                 ELSE /\ outcome' = Moved(TRUE, size, min2(size, mtu))
                      /\ fdw' = [fdw EXCEPT ![w].read_count = Inc(@)]
            /\ file' = [file EXCEPT ![f].in = @ - min2(1, @)]
            /\ UNCHANGED <<handles, kernel>>
         \/ /\ IF f = None THEN TRUE ELSE ~readable(f) /\ is(f, "nonblock")
            /\ Fails

\* sendmsg_helper's last check.
sent(n, size) == n = size

\* sendto() with an address, send() to the peer connect() was called for.
send(w, size, addressed) ==
  /\ OnSocket(w, {"udp"})
  /\ LET f == fileOf(w)
     IN  \/ /\ f # None /\ ~is(f, "wr") /\ (addressed \/ is(f, "connected"))
            /\ \E n \in 0 .. size :
                 /\ sent(n, size)
                 /\ outcome' = Moved(TRUE, size, n)
                 /\ fdw' = [fdw EXCEPT ![w].write_count = Inc(@)]
            /\ UNCHANGED <<handles, kernel, file>>
         \/ Fails

SocketNext ==
  \/ FDNext
  \/ \E w \in Wrapper : \/ passOn(w) \/ connect(w) \/ PeerAnswers(w)
                        \/ listen(w) \/ acceptFails(w)
  \/ \E w \in Wrapper, k \in {"unix", "udp"} : adopt(w, k)
  \/ \E w, c \in Wrapper : accept(w, c)
  \/ \E w \in Wrapper, how \in SUBSET {"rd", "wr"} \ {{}} : shutdown(w, how)
  \/ \E w \in Wrapper, mtu \in Mtus : recv(w, mtu)
  \/ \E w \in Wrapper, size \in Sizes, addressed \in BOOLEAN : send(w, size, addressed)

\* Nothing is promised after the first misuse: behaviours end there.
SocketSpec == FDInit /\ [][~misused /\ SocketNext]_fdVars
=============================================================================
