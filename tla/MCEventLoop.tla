---------------------------- MODULE MCEventLoop ----------------------------
(* Bounds for model checking EventLoop: a socket that is read and written  *)
(* and a pipe that is read.                                                *)
EXTENDS EventLoop

CONSTANTS sock, pipe, sockIn, sockOut, pipeIn

MCRuleFd  == [r \in Rule |-> IF r = pipeIn THEN pipe ELSE sock]
MCRuleDir == [r \in Rule |-> IF r = sockOut THEN "OUT" ELSE "IN"]
MCKinds   == [w \in Wrapper |-> IF w = pipe THEN {"pipe"} ELSE {"tcp"}]

\* The socket is local in one run: no resets, fewer states.
LocalKinds == [w \in Wrapper |-> IF w = pipe THEN {"pipe"} ELSE {"unix"}]

\* Callbacks serve what their rules watch, in the rule's direction;
OwnWay == [r \in Rule |-> {<<MCRuleFd[r], MCRuleDir[r]>>}]

\* the pipe's callback may also pass on to the socket what it has read;
PassOn == [OwnWay EXCEPT ![pipeIn] = @ \cup {<<sock, "OUT">>}]

\* and the socket's callbacks may read and write, whichever rule was called.
AnyWay == [r \in Rule |-> IF r = pipeIn THEN PassOn[r] ELSE {sock} \X {"IN", "OUT"}]

\* Only the rule that has a descriptor to itself closes it in its callback.
OwnOnly == [r \in Rule |-> IF r = pipeIn THEN {pipe} ELSE {}]

\* A callback may also close a descriptor that it shares with another rule.
Shared == [r \in Rule |-> {IF r = pipeIn THEN pipe ELSE sock}]

\* A callback on the socket adds a rule for the pipe, or no callback adds any.
SockAdds == [r \in Rule |-> IF r = sockIn THEN {pipeIn} ELSE {}]
NoneAdds == [r \in Rule |-> {}]
=============================================================================
