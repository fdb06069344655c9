----------------------------- MODULE StreamPipe -----------------------------
(***************************************************************************)
(* A ByteStream between a writer and a reader, as byte_stream.hh describes *)
(* the two sides.  The two clients are external: the repository has none   *)
(* outside its tests.  The writer offers what write() has not accepted yet *)
(* again and again, as the test harness and its longer tests do, and ends  *)
(* the input after the last byte; the reader reads until eof().            *)
(***************************************************************************)
EXTENDS ByteStream

CONSTANTS Messages  \* what the writer may have to send

ASSUME MessageAssumption == Messages \subseteq Seq(Byte)

VARIABLES message,  \* what the writer has to send
          pending,  \* what write() has not accepted yet
          received, \* what read() has returned
          finished  \* the reader has seen eof()

pipeVars == <<vars, message, pending, received, finished>>

PipeInit == /\ Init
            /\ message \in Messages
            /\ pending = message
            /\ received = <<>>
            /\ finished = FALSE

\* Offer a prefix of what is pending, and keep what was not accepted.
Offer == /\ pending # <<>>
         /\ \E n \in 1 .. Len(pending) : Write(SubSeq(pending, 1, n))
         /\ pending' = SubSeq(pending, call'.count + 1, Len(pending))
         /\ UNCHANGED <<message, received, finished>>

\* Nothing is left to send: end the input.
Close == /\ pending = <<>>
         /\ ~input_ended
         /\ end_input
         /\ UNCHANGED <<message, pending, received, finished>>

\* The reader reads whenever it likes, also when there is nothing to read yet.
Fetch(len) == /\ Read(len)
              /\ received' = received \o call'.bytes
              /\ UNCHANGED <<message, pending, finished>>

\* The reader asks whether the stream has ended, and believes the answer.
Finish == /\ eof
          /\ finished' = TRUE
          /\ UNCHANGED <<vars, message, pending, received>>

Writer == Offer \/ Close

Reader == ~finished /\ \E len \in Lens : Fetch(len)

\* Both sides are done: nothing more is called.
Done == finished /\ UNCHANGED pipeVars

PipeNext == Writer \/ Reader \/ Finish \/ Done

\* Each side keeps calling: a client that gave up would owe no delivery.
PipeSpec == /\ PipeInit /\ [][PipeNext]_pipeVars
            /\ WF_pipeVars(Writer) /\ WF_pipeVars(Reader) /\ WF_pipeVars(Finish)

----------------------------------------------------------------------------
(* Properties *)

\* Between the calls of the two sides no byte is lost, repeated or reordered:
\* what was received, what is buffered and what is pending make the message.
Conservation == received \o contents \o pending = message

\* A reader that stops at eof() has the whole message.
FinishedHasAll == finished => received = message

\* The two sides never wait for each other for ever: the message arrives.
Delivered == <>(finished /\ received = message)
=============================================================================
