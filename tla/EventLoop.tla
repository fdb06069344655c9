----------------------------- MODULE EventLoop -----------------------------
(***************************************************************************)
(* libsponge/util/eventloop.{hh,cc}: a list of rules, each a handle on a   *)
(* file descriptor, a direction and three callbacks, and wait_next_event,  *)
(* which scans the list, calls poll(2) and dispatches what poll reported.  *)
(*                                                                         *)
(* One call of wait_next_event is many steps: one per rule scanned, one    *)
(* for poll, one per rule dispatched and one per callback, so that the     *)
(* peers of the files act in between and a callback changes what a later   *)
(* rule of the same pass finds.                                            *)
(*                                                                         *)
(* External: poll(2) and the peers.  interest() is what the application    *)
(* wants at that moment, a callback is any sequence of reads, writes,      *)
(* shutdowns, closes and add_rules on the descriptors it knows, its own    *)
(* rule's or others, and cancel() is counted.                              *)
(***************************************************************************)
EXTENDS Socket, SequencesExt

CONSTANTS Rule,      \* rules, each added at most once
          RuleFd,    \* the wrapper a rule watches
          RuleDir,   \* "IN" or "OUT"
          MayServe,  \* wrappers, with a direction, that a rule's callback may serve
          MayClose,  \* wrappers that it may close
          MayAdd,    \* rules that it may add
          MayShut,   \* rules whose callback may serve a socket by shutting it down
          Fickle,    \* rules whose interest() changes its mind
          Lazy,      \* rules whose callback may do nothing
          MaxServes, \* bound on the services of one callback
          MayFail    \* poll(2) may fail with another error than EINTR

ASSUME LoopAssumption == /\ RuleFd \in [Rule -> Wrapper]
                         /\ RuleDir \in [Rule -> {"IN", "OUT"}]
                         /\ MayServe \in [Rule -> SUBSET (Wrapper \X {"IN", "OUT"})]
                         /\ MayClose \in [Rule -> SUBSET Wrapper]
                         /\ MayAdd \in [Rule -> SUBSET Rule]
                         /\ {MayShut, Fickle, Lazy} \subseteq SUBSET Rule
                         /\ MaxServes \in Nat \ {0}
                         /\ MayFail \in BOOLEAN
                         /\ \E number \in [Wrapper -> Num] : IsInjective(number)

VARIABLES _rules,     \* EventLoop::_rules
          interest,   \* what interest() returns
          pc,         \* where wait_next_event is
          it, idx,    \* its iterator and its index into pollfds
          pollfds,    \* its vector of pollfd
          something_to_poll,
          count_before,
          result,     \* what the last call returned, or "throw"
          added,      \* rules that add_rule has been called for
          fresh,      \* those of them that were added in this call
          served,     \* how often the callback under way has served its rule's
                      \* descriptor in the rule's direction
          others,     \* and how often another descriptor, or the other direction
          spoiled,    \* what callbacks of this call have read, written or closed
          cancelled,  \* how often cancel() has been called, up to 2
          triggered,  \* this call has run a callback or a cancel()
          pollError   \* poll(2) failed in this call, not with EINTR

app      == <<interest, added, fresh>>
services == <<served, others>>
history  == <<cancelled, triggered, pollError, services>>
locals   == <<it, idx, pollfds, something_to_poll, count_before, spoiled>>
loopVars == <<fdVars, _rules, app, history, pc, locals, result>>

wrapper(r) == fdw[RuleFd[r]]

\* Mutant: only reads count as service.
service_count_in(r, fds) == fds[RuleFd[r]].read_count

\* Rule::service_count(), in a given state of the wrappers.
service_count(r, fds) ==
  IF RuleDir[r] = "IN" THEN fds[RuleFd[r]].read_count ELSE fds[RuleFd[r]].write_count

\* The wrappers are open on distinct numbers and the application has a handle
\* on each; there are no rules yet.
LoopInit ==
  /\ LET number == CHOOSE f \in [Wrapper -> Num] : IsInjective(f)
     IN  /\ fdw = [w \in Wrapper |-> [Unborn EXCEPT !.fd = number[w]]]
         /\ kernel = [n \in Num |-> IF n \in Range(number)
                                    THEN CHOOSE w \in Wrapper : number[w] = n
                                    ELSE None]
  /\ handles = [w \in Wrapper |-> 1]
  /\ file \in {g \in [Wrapper -> {NewFile(k, {"connected"}) : k \in UNION Range(Kinds)}] :
                \A w \in Wrapper : g[w].kind \in Kinds[w]}
  /\ job = NoJob
  /\ outcome = Ok
  /\ misused = FALSE
  /\ _rules = <<>>
  /\ interest = [r \in Rule |-> TRUE]
  /\ added = {} /\ fresh = {}
  /\ served = 0 /\ others = 0 /\ spoiled = {}
  /\ cancelled = [r \in Rule |-> 0]
  /\ triggered = FALSE
  /\ pollError = FALSE
  /\ pc = "idle"
  /\ it = 1 /\ idx = 1 /\ pollfds = <<>>
  /\ something_to_poll = FALSE
  /\ count_before = 0
  /\ result = "none"

----------------------------------------------------------------------------
(* The application, between two calls *)

\* The application still has a handle of its own, beside those of the rules.
rulesOn(w) == {r \in Range(_rules) : RuleFd[r] = w}
appHas(w) == handles[w] > Cardinality(rulesOn(w))

add_rule(r) ==
  /\ r \notin added
  /\ appHas(RuleFd[r]) /\ handles[RuleFd[r]] < MaxHandles
  /\ _rules' = Append(_rules, r)
  /\ handles' = [handles EXCEPT ![RuleFd[r]] = @ + 1]
  /\ added' = added \cup {r}
  /\ fresh' = IF pc = "idle" THEN {} ELSE fresh \cup {r}
  /\ UNCHANGED <<fdw, kernel, file, job, outcome, misused, interest, history, pc, locals, result>>

ChangeInterest(r) ==
  /\ pc = "idle"
  /\ r \in Fickle
  /\ interest' = [interest EXCEPT ![r] = ~@]
  /\ UNCHANGED <<fdVars, _rules, added, fresh, history, pc, locals, result>>

AppCloses(w) ==
  /\ pc = "idle"
  /\ appHas(w) /\ ~fdw[w].closed
  /\ close(w)
  /\ UNCHANGED <<_rules, app, history, pc, locals, result>>

AppDrops(w) ==
  /\ pc = "idle"
  /\ appHas(w)
  /\ Drop(w)
  /\ UNCHANGED <<_rules, app, history, pc, locals, result>>

----------------------------------------------------------------------------
(* wait_next_event *)

Return(r) == /\ result' = r
             /\ pc' = "idle"
             /\ it' = 1 /\ idx' = 1 /\ pollfds' = <<>>
             /\ something_to_poll' = FALSE
             /\ count_before' = 0
             /\ spoiled' = {}

Call == /\ pc = "idle"
        /\ pc' = "scan"
        /\ result' = "none"
        /\ triggered' = FALSE
        /\ pollError' = FALSE
        /\ fresh' = {}
        /\ UNCHANGED <<fdVars, _rules, interest, added, cancelled, services, locals>>

\* Mutant: a rule that is found defunct before polling is told, and stays.
cancelRule_kept(r) ==
  /\ cancelled' = [cancelled EXCEPT ![r] = min2(@ + 1, 2)]
  /\ triggered' = TRUE
  /\ IF pc = "scan"
     THEN UNCHANGED <<_rules, fdw, handles, kernel, file>>
     ELSE _rules' = RemoveAt(_rules, it) /\ destroy(RuleFd[r])
  /\ UNCHANGED <<job, outcome, misused, services>>

\* cancel() and erase(it): the rule's handle goes with the rule.
cancelRule(r) ==
  /\ cancelled' = [cancelled EXCEPT ![r] = min2(@ + 1, 2)]
  /\ triggered' = TRUE
  /\ _rules' = RemoveAt(_rules, it)
  /\ destroy(RuleFd[r])
  /\ UNCHANGED <<job, outcome, misused, services>>

\* Mutant: a closed descriptor is only noticed by its EOF flag.
defunct_eofOnly(r) == RuleDir[r] = "IN" /\ wrapper(r).eof

\* Nothing more to do for the rule: it is cancelled before polling.
defunct(r) == (RuleDir[r] = "IN" /\ wrapper(r).eof) \/ wrapper(r).closed

\* Mutant: every rule is polled for reading.
entry_in(r) == [fd      |-> wrapper(r).fd,
                events  |-> IF interest[r] THEN {"IN"} ELSE {},
                revents |-> {}]

entry(r) == [fd      |-> wrapper(r).fd,
             events  |-> IF interest[r] THEN {RuleDir[r]} ELSE {},
             revents |-> {}]

\* Mutant: rules without interest get no placeholder.
pushed_noPlaceholder(r) ==
  IF interest[r] THEN Append(pollfds, entry(r)) ELSE pollfds

\* Every rule gets a pollfd: dispatch walks both in step.
pushed(r) == Append(pollfds, entry(r))

Scan ==
  /\ pc = "scan"
  /\ it <= Len(_rules)
  /\ LET r == _rules[it]
     IN  \/ /\ defunct(r)
            /\ cancelRule(r)
            /\ UNCHANGED <<locals, pollError>>
         \/ /\ ~defunct(r)
            /\ pollfds' = pushed(r)
            /\ something_to_poll' = (something_to_poll \/ interest[r])
            /\ it' = it + 1
            /\ UNCHANGED <<fdVars, _rules, history, idx, count_before, spoiled>>
  /\ UNCHANGED <<app, pc, result>>

ScanEnds ==
  /\ pc = "scan"
  /\ it > Len(_rules)
  /\ IF something_to_poll
     THEN pc' = "poll" /\ UNCHANGED <<locals, result>>
     ELSE Return("Exit")
  /\ UNCHANGED <<fdVars, _rules, app, history>>

\* poll(2) on one pollfd.  A pipe reports its end as POLLHUP and no POLLIN, a
\* socket as POLLIN, and as POLLHUP too when both directions are shut down; an
\* error that waits is POLLERR, a number nobody has open POLLNVAL.
polled(p) ==
  LET f == kernel[p.fd]
      isPipe == f # None /\ file[f].kind = "pipe"
      down == file[f].is \cap {"ended", "rd"} # {} /\ (isPipe \/ is(f, "wr"))
  IN  IF f = None THEN {"NVAL"}
      ELSE {e \in p.events : \/ e = "IN" /\ (file[f].in > 0 \/ (readable(f) /\ ~isPipe))
                             \/ e = "OUT" /\ writable(f)}
           \cup {e \in {"HUP"} : down}
           \cup {e \in {"ERR"} : is(f, "reset")}

anyReady == \E k \in DOMAIN pollfds : polled(pollfds[k]) # {}

Dispatching == /\ pc' = "dispatch"
               /\ it' = 1 /\ idx' = 1
               /\ UNCHANGED <<something_to_poll, count_before, spoiled, result>>

PollReports ==
  /\ pc = "poll"
  /\ anyReady
  /\ pollfds' = [k \in DOMAIN pollfds |-> [pollfds[k] EXCEPT !.revents = polled(pollfds[k])]]
  /\ Dispatching
  /\ UNCHANGED <<fdVars, _rules, app, history>>

\* The timeout expires, or a signal is caught.
PollGivesUp ==
  /\ pc = "poll"
  /\ ~anyReady
  /\ \E r \in {"Timeout", "Exit"} : Return(r)
  /\ UNCHANGED <<fdVars, _rules, app, history>>

\* Any other error is caught too, and the walk goes on over empty revents.
PollFails ==
  /\ pc = "poll"
  /\ MayFail
  /\ pollError' = TRUE
  /\ Dispatching
  /\ UNCHANGED <<fdVars, _rules, app, cancelled, triggered, services, pollfds>>

poll_ready(p) == p.revents \cap p.events # {}

\* Mutant: a hangup is left to the callback.
hungUp_never(p) == FALSE

\* A hangup and nothing else, on a descriptor that was asked about.
hungUp(p) == "HUP" \in p.revents /\ p.events # {} /\ ~poll_ready(p)

\* Mutant: after an erase the iterator is advanced as well.
afterErase_skip == it' = it + 1

\* erase(it) has returned the next rule; the index goes on.
afterErase == UNCHANGED it

\* What pollfds[idx] may be: past the end of the vector, where the rules are that
\* callbacks have added meanwhile, anything (its fd is not looked at).
pollfdAt(i) ==
  IF i <= Len(pollfds) THEN {pollfds[i]}
  ELSE [fd : {0}, events : SUBSET {"IN", "OUT"},
        revents : SUBSET {"IN", "OUT", "HUP", "ERR", "NVAL"}]

Dispatch ==
  /\ pc = "dispatch"
  /\ it <= Len(_rules)
  /\ \E p \in pollfdAt(idx) :
     LET r == _rules[it]
     IN  \/ /\ {"ERR", "NVAL"} \cap p.revents # {}
            /\ Return("throw")
            /\ UNCHANGED <<fdVars, _rules, history>>
         \/ /\ {"ERR", "NVAL"} \cap p.revents = {}
            /\ hungUp(p)
            /\ cancelRule(r)
            /\ afterErase
            /\ idx' = idx + 1
            /\ UNCHANGED <<pollfds, something_to_poll, count_before, spoiled, pollError, pc, result>>
         \/ /\ {"ERR", "NVAL"} \cap p.revents = {}
            /\ ~hungUp(p)
            /\ poll_ready(p)
            /\ pc' = "callback"
            /\ count_before' = service_count(r, fdw)
            /\ triggered' = TRUE
            /\ UNCHANGED <<fdVars, _rules, it, idx, pollfds, something_to_poll, spoiled,
                           cancelled, pollError, services, result>>
         \/ /\ {"ERR", "NVAL"} \cap p.revents = {}
            /\ ~hungUp(p)
            /\ ~poll_ready(p)
            /\ it' = it + 1 /\ idx' = idx + 1
            /\ UNCHANGED <<fdVars, _rules, pollfds, something_to_poll, count_before, spoiled,
                           history, pc, result>>
  /\ UNCHANGED app

DispatchEnds ==
  /\ pc = "dispatch"
  /\ it > Len(_rules)
  /\ Return("Success")
  /\ UNCHANGED <<fdVars, _rules, app, history>>

\* What a callback may do: serve a descriptor in a direction, by a read, a write or
\* a shutdown, or fail to; close one, add a rule, lose interest, or nothing at all.
reads(w, f) == \E n \in readResults(f, MaxIn) : gotRead(w, f, MaxIn, n)

writes(w, f) == /\ writeResults(f, 1) # {}
                /\ fdw' = [fdw EXCEPT ![w].write_count = Inc(@)]
                /\ file' = [file EXCEPT ![f].room = @ - IF datagrams(f) THEN 0 ELSE 1]
                /\ UNCHANGED outcome

moves(w, f, d) == IF d = "IN" THEN reads(w, f) ELSE writes(w, f)

shuts(w, f, d) == /\ file[f].kind # "pipe"
                  /\ is(f, "connected") /\ file[f].is \cap {"listening", "reset"} = {}
                  /\ shutDown(w, f, {IF d = "IN" THEN "rd" ELSE "wr"})

fails(f, d) == IF d = "IN" THEN cannotRead(f) ELSE cannotWrite(f)

\* What service_count() of the rule is about.
own(r, w, d) == w = RuleFd[r] /\ d = RuleDir[r]

inCallback == UNCHANGED <<job, misused, cancelled, triggered, pollError>>

CallbackServes ==
  /\ pc \in {"callback", "called"}
  /\ served + others < MaxServes
  /\ \E s \in MayServe[_rules[it]] :
       LET r == _rules[it]
           w == s[1]
           d == s[2]
           f == fileOf(w)
       IN  /\ handles[w] > 0
           /\ \/ /\ f # None
                 /\ \/ moves(w, f, d) /\ spoiled' = spoiled \cup {s}
                    \/ r \in MayShut /\ shuts(w, f, d) /\ UNCHANGED spoiled
                 /\ IF own(r, w, d) THEN served' = served + 1 /\ UNCHANGED others
                                    ELSE others' = others + 1 /\ UNCHANGED served
                 /\ pc' = "called"
                 /\ UNCHANGED <<it, idx, pollfds, something_to_poll, count_before, result>>
              \/ /\ IF f = None THEN TRUE ELSE fails(f, d)
                 /\ file' = [g \in Wrapper |-> [file[g] EXCEPT !.is = IF g = f THEN @ \ {"reset"} ELSE @]]
                 /\ Return("throw")
                 /\ served' = 0 /\ others' = 0
                 /\ UNCHANGED <<fdw, outcome>>
  /\ inCallback
  /\ UNCHANGED <<handles, kernel, _rules, app>>

CallbackCloses ==
  /\ pc \in {"callback", "called"}
  /\ \E w \in MayClose[_rules[it]] : /\ handles[w] > 0 /\ ~fdw[w].closed
                                     /\ closeWrapper(w)
                                     /\ spoiled' = spoiled \cup ({w} \X {"IN", "OUT"})
  /\ pc' = "called"
  /\ inCallback
  /\ UNCHANGED <<handles, services, _rules, app, it, idx, pollfds, something_to_poll,
                 count_before, result>>

CallbackAdds ==
  /\ pc = "called"
  /\ \E r \in MayAdd[_rules[it]] : add_rule(r)

CallbackIdles ==
  /\ pc = "callback"
  /\ LET r == _rules[it]
     IN  \/ r \in Fickle /\ interest' = [interest EXCEPT ![r] = FALSE]
         \/ r \in Lazy /\ UNCHANGED interest
  /\ pc' = "called"
  /\ UNCHANGED <<fdVars, _rules, added, fresh, history, locals, result>>

\* The callback has returned: the check for a busy wait, and the next rule.
CallbackReturns ==
  /\ pc = "called"
  /\ LET r == _rules[it]
     IN  IF service_count(r, fdw) = count_before /\ interest[r]
         THEN Return("busy")
         ELSE /\ pc' = "dispatch"
              /\ it' = it + 1 /\ idx' = idx + 1
              /\ count_before' = 0
              /\ UNCHANGED <<pollfds, something_to_poll, spoiled, result>>
  /\ served' = 0 /\ others' = 0
  /\ UNCHANGED <<fdVars, _rules, app, cancelled, triggered, pollError>>

----------------------------------------------------------------------------

Step == \/ Scan \/ ScanEnds
        \/ PollReports \/ PollGivesUp \/ PollFails
        \/ Dispatch \/ DispatchEnds
        \/ CallbackServes \/ CallbackCloses \/ CallbackAdds \/ CallbackIdles \/ CallbackReturns

Application == \/ \E r \in Rule : (pc = "idle" /\ add_rule(r)) \/ ChangeInterest(r)
               \/ \E w \in Wrapper : AppCloses(w) \/ AppDrops(w)

Peers == /\ \E w \in Wrapper : Peer(w)
         /\ UNCHANGED <<_rules, app, history, pc, locals, result>>

LoopNext == Call \/ Step \/ Application \/ Peers

\* The application calls again and again, and a call that has begun goes on:
\* poll(2) has a finite timeout and a callback returns.
LoopSpec == /\ LoopInit /\ [][LoopNext]_loopVars
            /\ WF_loopVars(Call) /\ WF_loopVars(Step)

----------------------------------------------------------------------------
(* Properties *)

inList(r) == r \in Range(_rules)

LoopTypeOK ==
  /\ FDTypeOK
  /\ _rules \in Seq(Rule)
  /\ interest \in [Rule -> BOOLEAN]
  /\ added \subseteq Rule /\ fresh \subseteq added
  /\ {served, others} \subseteq 0 .. MaxServes
  /\ spoiled \subseteq Wrapper \X {"IN", "OUT"}
  /\ cancelled \in [Rule -> 0 .. 2]
  /\ triggered \in BOOLEAN /\ pollError \in BOOLEAN
  /\ pc \in {"idle", "scan", "poll", "dispatch", "callback", "called"}
  /\ it \in 1 .. Len(_rules) + 1
  /\ idx \in Nat
  /\ pollfds \in Seq([fd : Num, events : SUBSET {"IN", "OUT"},
                      revents : SUBSET {"IN", "OUT", "HUP", "ERR", "NVAL"}])
  /\ something_to_poll \in BOOLEAN
  /\ count_before \in 0 .. UINT_MAX
  /\ result \in {"none", "Success", "Timeout", "Exit", "throw", "busy"}

\* While the results are walked, the rest of pollfds belongs to the rest of the
\* list, rule by rule, although rules are erased and added under way: no rule is
\* judged by another rule's revents, and the index only runs past the vector for
\* rules that a callback of this very call has added.
Aligned ==
  pc \in {"dispatch", "callback", "called"} =>
    \A k \in it .. Len(_rules) :
      LET i == idx + k - it
      IN  IF i <= Len(pollfds)
          THEN /\ pollfds[i].fd = wrapper(_rules[k]).fd
               /\ pollfds[i].events \subseteq {RuleDir[_rules[k]]}
          ELSE _rules[k] \in fresh

\* A rule leaves the list with exactly one call of cancel(), and a rule in the
\* list has had none.
CancelOnce == \A r \in added : cancelled[r] = IF inList(r) THEN 0 ELSE 1

\* The descriptor of the rule whose turn it is can be served without waiting.
readyNow ==
  LET f == fileOf(RuleFd[_rules[it]])
  IN  f # None /\ IF RuleDir[_rules[it]] = "IN" THEN readable(f) ELSE writable(f)

\* Readiness is taken once for all rules and used one rule at a time.  When the
\* callback of a rule that was polled is entered, its descriptor is open and can be
\* served without waiting, unless a callback of the same call has read, written or
\* closed that very descriptor in the rule's own direction.  Nothing else undoes what
\* poll(2) reported: not what the peers do meanwhile, not a cancelled rule, not a
\* service in the other direction, nor a shutdown.
StaleOnlyByCallbacks ==
  pc = "callback" /\ _rules[it] \notin fresh
    => <<RuleFd[_rules[it]], RuleDir[_rules[it]]>> \in spoiled \/ readyNow

\* "callback is called when `fd` is ready", for every rule that was polled.
ReadyWhenCalled == pc = "callback" /\ _rules[it] \notin fresh => readyNow

\* What the check for a busy wait really checks.  A callback is blamed exactly when
\* it stays interested and has not served the rule's descriptor in the rule's own
\* direction, a shutdown being a service too, or has done so a multiple of 2^32 times.
\* The comment asks for less, to "read from or write to Rule::fd": a callback that
\* only writes to the descriptor it was called to read from has done that, and is
\* blamed.
BlamedForIdling ==
  [][pc = "called" /\ pc' \in {"idle", "dispatch"} /\ result' # "throw"
       => (result' = "busy" <=> interest[_rules[it]] /\ served % (UINT_MAX + 1) = 0)]_loopVars

\* "Success: At least one Rule was triggered."
SuccessMeansTriggered == result = "Success" => triggered

\* "If an error occurs during polling, this function throws a std::runtime_error."
PollErrorThrows == result = "Success" => ~pollError

\* Every call of wait_next_event returns or throws.
CallReturns == pc # "idle" ~> pc = "idle"

\* A rule on a descriptor that has been closed is cancelled sooner or later.
ClosedIsCancelled ==
  \A r \in Rule : (inList(r) /\ wrapper(r).closed) ~> ~inList(r)

\* A rule that reads and stays interested is cancelled after its peer has ended,
\* unless the calls go on throwing.
EndIsCancelled ==
  \A r \in Rule :
    RuleDir[r] = "IN" /\ <>[]interest[r] /\ <>[](result \notin {"throw", "busy"})
      => ((inList(r) /\ is(RuleFd[r], "ended")) ~> ~inList(r))
=============================================================================
