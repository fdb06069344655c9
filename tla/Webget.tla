------------------------------- MODULE Webget -------------------------------
(***************************************************************************)
(* apps/webget.cc: main() and get_URL() as a client of TCPSocket.  An      *)
(* exception anywhere leaves get_URL, destroys the socket on the way and   *)
(* makes main return EXIT_FAILURE.                                         *)
(*                                                                         *)
(* External: the resolver, and the server with the network, which send     *)
(* any page, take the request, end the connection or break it off.         *)
(***************************************************************************)
EXTENDS Socket

CONSTANTS Sock,     \* the TCPSocket of get_URL
          Request,  \* the size of the request
          MaxPage   \* bound on what the server sends

ASSUME WebAssumption == Wrapper = {Sock} /\ Request \in Nat /\ MaxPage \in Nat

VARIABLES pc,        \* where get_URL is
          printed,   \* how much of the page has been printed
          page,      \* how much of it the server has sent
          complete,  \* the server has ended the connection
          exit       \* what main returned

webVars == <<fdVars, pc, printed, page, complete, exit>>
server  == <<page, complete>>

WebInit == /\ FDInit
           /\ pc = "main"
           /\ printed = 0 /\ page = 0 /\ complete = FALSE
           /\ exit = "none"

At(here) == pc = here /\ UNCHANGED <<server, exit>>

\* The next step, unless the call has thrown.
Then(next) == pc' = IF outcome' = Threw THEN "unwind" ELSE next

Return(code) == pc' = "done" /\ exit' = code

\* main(): the usage message, or get_URL with its TCPSocket, which there may be
\* no number for.
Main == /\ pc = "main"
        /\ \/ Open(Sock, "tcp") /\ pc' = "resolve" /\ UNCHANGED exit
           \/ Return("FAILURE") /\ UNCHANGED fdVars
        /\ UNCHANGED <<server, printed>>

\* Address(host, "http"): getaddrinfo finds an address or the constructor throws.
Resolve == /\ At("resolve")
           /\ pc' \in {"connect", "unwind"}
           /\ UNCHANGED <<fdVars, printed>>

Connect == /\ At("connect")
           /\ connect(Sock)
           /\ Then("request")
           /\ UNCHANGED printed

SendRequest == /\ At("request")
               /\ IF job = NoJob THEN write(Sock, Request, TRUE) /\ UNCHANGED pc
                  ELSE WriteRound /\ IF job' = NoJob THEN Then("reading") ELSE UNCHANGED pc
               /\ UNCHANGED printed

\* Mutant: one read is taken for the whole page.
finished_once == fdw[Sock].read_count > 0

\* The loop ends at eof().
finished == fdw[Sock].eof

\* One round of the loop: what was read is printed.
ReadAndPrint ==
  /\ At("reading")
  /\ ~finished
  /\ read(Sock, MaxIn)
  /\ Then("reading")
  /\ printed' = printed + (file[Sock].in - file'[Sock].in)

LoopEnds == /\ At("reading")
            /\ finished
            /\ pc' = "return"
            /\ UNCHANGED <<fdVars, printed>>

\* The socket is destroyed when get_URL is left, either way.
Leave == /\ pc \in {"return", "unwind"}
         /\ Drop(Sock)
         /\ Return(IF pc = "return" THEN "SUCCESS" ELSE "FAILURE")
         /\ UNCHANGED <<server, printed>>

Client == Main \/ Resolve \/ Connect \/ SendRequest \/ ReadAndPrint \/ LoopEnds \/ Leave

----------------------------------------------------------------------------
(* The server (external) *)

ServerSends == PeerSends(Sock) /\ page < MaxPage /\ page' = page + 1 /\ UNCHANGED complete
ServerTakes == PeerTakes(Sock) /\ UNCHANGED server
ServerEnds == PeerEnds(Sock) /\ complete' = TRUE /\ UNCHANGED page
Breaks == PeerResets(Sock) /\ UNCHANGED server

Server == (ServerSends \/ ServerTakes \/ ServerEnds \/ Breaks) /\ UNCHANGED <<pc, printed, exit>>

Done == pc = "done" /\ UNCHANGED webVars

WebNext == Client \/ Server \/ Done

\* The request asks for "Connection: close": the server takes it and ends the
\* connection in the end.  There is no timeout: for one that does not, webget waits.
WebSpec == /\ WebInit /\ [][WebNext]_webVars
           /\ WF_webVars(Client)
           /\ WF_webVars(ServerTakes /\ UNCHANGED <<pc, printed, exit>>)
           /\ WF_webVars(ServerEnds /\ UNCHANGED <<pc, printed, exit>>)

----------------------------------------------------------------------------
(* Properties *)

\* EXIT_SUCCESS is only returned for a page that was handed to cout to its end: the
\* server ended the connection and nothing it had sent was lost in between, not
\* even when the connection broke off afterwards.  (What cout makes of it is not
\* looked at, here or in the code.)
SuccessIsWhole == exit = "SUCCESS" => complete /\ printed = page

\* The number of the socket is free again when main returns, whatever happened.
ClosedAtExit == pc = "done" => \A n \in Num : kernel[n] = None

\* webget comes to an end.
Terminates == <>(pc = "done")
=============================================================================
