------------------------------- MODULE Runner -------------------------------
(***************************************************************************)
(* The lifecycle runner of one host, advancing one run (runner.py).        *)
(*                                                                         *)
(* Threads call submit, retry, decide and cancel, and the host's start     *)
(* runs once per boot.  A call that moves the run claims it first, reads   *)
(* the Track once, and advances on what it read and wrote.  A cancel of a  *)
(* run being advanced is left with the holder of the claim and tears the   *)
(* live worker down at once.  The host may crash between any two steps;    *)
(* what survives is the Track.                                             *)
(*                                                                         *)
(* A step of this model is a stretch of code between two points where      *)
(* another thread, a crash or a failing Track write can matter: a lock     *)
(* taken or let go, an event appended, the executor or the worker called.  *)
(***************************************************************************)
EXTENDS RunTrack, TLC

CONSTANTS
  Threads,            \* the threads of the host that call the runner
  Nobody,             \* no thread
  GateOf,             \* each step's Gate policy: never, error, warn, always
  Severities,         \* the worst severities an answer's problems may have
  Usages,             \* the tokens one interaction may report
  Budgeted,           \* whether a token limit is configured ...
  TokenLimit,         \* ... and the limit
  Deadline,           \* whether a duration limit is configured
  RevisionsLimited,   \* whether max_revisions is configured ...
  MaxRevisions,       \* ... and the limit
  MaxCalls,           \* bound: calls made in one behaviour
  MaxBoots,           \* bound: how often the host starts
  MaxTrackFailures    \* bound: how many Track writes fail

ASSUME NobodyAssumption == Nobody \notin Threads
ASSUME PolicyAssumption ==
  /\ GateOf \in [Steps -> {"never", "error", "warn", "always"}]
  /\ Severities \subseteq {"none", "warn", "error"}
  /\ Usages \subseteq Nat
ASSUME LimitsAssumption ==
  /\ Budgeted \in BOOLEAN /\ Deadline \in BOOLEAN /\ RevisionsLimited \in BOOLEAN
  /\ TokenLimit \in Nat /\ MaxRevisions \in Nat
  /\ MaxCalls \in Nat /\ MaxBoots \in Nat /\ MaxTrackFailures \in Nat

VARIABLES
  trk,        \* the run's Track, durable
  claim,      \* the thread whose _Advancing is in runner._advancing, or Nobody
  pc,         \* where each thread is in its call
  call,       \* each thread's call: its kind and, for decide, its arguments
  waitOn,     \* the claim a thread waits on; Nobody once that claim is finished
  snap,       \* each thread's _Pass.history: the Track as read, and its own writes
  adv,        \* each thread's _Advancing: accepting, cancelled
  pass,       \* each thread's driver locals: the budget tally, and how to end
  att,        \* each thread's Attempt
  workers,    \* the instances alive at the executor
  late,       \* the run's deadline has passed
  host        \* the host: up, its boots, start() still to run, bounds used

vars == <<trk, claim, pc, call, waitOn, snap, adv, pass, att, workers, late, host>>

--------------------------------------------------------------------------
(***************************************************************************)
(* State.                                                                  *)
(***************************************************************************)
Kinds     == {"submit", "retry", "decide", "cancel", "start"}
Decisions == {"approve", "send_back", "reject"}

NoCall    == [kind |-> "start", outcome |-> "reject", named |-> NoKey]
NewAdvancing == [accepting |-> FALSE, cancelled |-> FALSE]
NewPass   == [tally |-> 0, reached |-> FALSE, over |-> FALSE, end |-> "none"]

NewAttempt(k) ==
  [key |-> k, worker |-> FALSE, cog |-> "none", started |-> FALSE, answer |-> "none",
   severity |-> "none", known |-> FALSE, amount |-> 0, answered |-> FALSE,
   outcome |-> "broken", released |-> FALSE, cancelTeardown |-> "none",
   teardownError |-> FALSE]

\* The worker's own machine (states/worker.py), as the runner dispatches to it:
\* tear_down is named by its reason, an event that is not accepted is REFUSED.
TEARDOWN_REASONS ==
  [READY       |-> {"cancel", "orphan_reaped"},
   INTERACTING |-> {"cancel", "deadline", "orphan_reaped"},
   IDLE        |-> {"one_shot", "idle_timeout", "orphan_reaped"}]

Dispatch(state, event) ==
  CASE state = "MATERIALIZED" /\ event = "ready" -> "READY"
    [] state \in {"READY", "IDLE"} /\ event = "invoke" -> "INTERACTING"
    [] state = "INTERACTING" /\ event = "envelope_returned" -> "IDLE"
    [] state \in DOMAIN TEARDOWN_REASONS /\ event \in TEARDOWN_REASONS[state] -> "TEARING_DOWN"
    [] state = "TEARING_DOWN" /\ event = "torn_down" -> "TORN_DOWN"
    [] state \in {"MATERIALIZED", "READY", "INTERACTING", "IDLE", "TEARING_DOWN"} /\ event = "fail"
         -> "WORKER_FAILED"
    [] OTHER -> "REFUSED"

CogWorkers == {"none", "MATERIALIZED", "READY", "INTERACTING", "IDLE",
               "TEARING_DOWN", "TORN_DOWN", "WORKER_FAILED", "REFUSED"}

Advancings == [accepting : BOOLEAN, cancelled : BOOLEAN]
Ends       == {"none", "cancel", "fail", "escalate", "budget", "usage", "complete"}
Passes     == [tally : Nat, reached : BOOLEAN, over : BOOLEAN, end : Ends]

Attempts ==
  [key : Keys \cup {NoKey}, worker : BOOLEAN, cog : CogWorkers, started : BOOLEAN,
   answer : {"none", "ok", "error", "not_json", "raised"},
   severity : {"none", "warn", "error"}, known : BOOLEAN, amount : Nat,
   answered : BOOLEAN, outcome : {"broken", "ok", "error", "escaped"},
   released : BOOLEAN, cancelTeardown : {"none", "busy", "ok", "failed"},
   teardownError : BOOLEAN]

\* Where a thread is.  A thread at one of Holding has the run's claim; at one
\* of Driving it advances the run on what it read and wrote.
Driving == {"open", "pickup", "loop", "attempt", "materialize", "worker_up",
            "invoke", "interact", "read_envelope", "teardown", "td_wait",
            "td_exec", "stopped", "after", "keep", "keep_approved", "finish",
            "finish_second"}
Holding == Driving \cup {"read", "enter", "release"}
Labels  == Holding \cup {"idle", "acquire", "wait", "status",
                         "cancel_teardown", "let_go"}

Hosts == [up : BOOLEAN, boots : Nat, starting : BOOLEAN, calls : Nat, failures : Nat]

TypeOK ==
  /\ trk \in Tracks
  /\ claim \in Threads \cup {Nobody}
  /\ pc \in [Threads -> Labels]
  /\ call \in [Threads -> [kind : Kinds, outcome : Decisions, named : Keys \cup {NoKey}]]
  /\ waitOn \in [Threads -> Threads \cup {Nobody}]
  /\ snap \in [Threads -> Tracks]
  /\ adv \in [Threads -> Advancings]
  /\ pass \in [Threads -> Passes]
  /\ att \in [Threads -> Attempts]
  /\ workers \in SUBSET Keys
  /\ late \in BOOLEAN
  /\ host \in Hosts

Init ==
  /\ trk = EmptyTrack
  /\ claim = Nobody
  /\ pc = [t \in Threads |-> "idle"]
  /\ call = [t \in Threads |-> NoCall]
  /\ waitOn = [t \in Threads |-> Nobody]
  /\ snap = [t \in Threads |-> EmptyTrack]
  /\ adv = [t \in Threads |-> NewAdvancing]
  /\ pass = [t \in Threads |-> NewPass]
  /\ att = [t \in Threads |-> NewAttempt(NoKey)]
  /\ workers = {}
  /\ late = FALSE
  /\ host = [up |-> TRUE, boots |-> 1, starting |-> TRUE, calls |-> 0, failures |-> 0]

--------------------------------------------------------------------------
(***************************************************************************)
(* Helpers.                                                                *)
(***************************************************************************)
At(t, label)   == pc[t] = label
Goto(t, label) == pc' = [pc EXCEPT ![t] = label]

\* The one write path: the event goes to the Track and into the snapshot.
Append(t, Event(_)) ==
  /\ trk' = Event(trk)
  /\ snap' = [snap EXCEPT ![t] = Event(snap[t])]

\* Mutant: the limits are exclusive.
ExceededPastLimit(tally) == (Deadline /\ late) \/ (Budgeted /\ tally > TokenLimit)

\* BudgetTracker.check, with its inclusive limits, on a tally of tokens.
Exceeded(tally) == (Deadline /\ late) \/ (Budgeted /\ tally >= TokenLimit)

\* Mutant: a Gate that signs off every result lets a clean one pass.
EscalatesProblemsOnly(policy, severity) ==
  \/ policy \in {"always", "warn"} /\ severity # "none"
  \/ policy = "error" /\ severity = "error"

\* Gate.evaluate: whether a step's Gate escalates an ok answer.
Escalates(policy, severity) ==
  \/ policy = "always"
  \/ policy = "error" /\ severity = "error"
  \/ policy = "warn" /\ severity # "none"

\* The first step of the Op not yet completed, in the Op's order.
IsNext(T, s) == s \notin T.done /\ \A r \in Steps : r < s => r \in T.done
AllDone(T)   == T.done = Steps

--------------------------------------------------------------------------
(***************************************************************************)
(* Calls, and the claim.                                                   *)
(***************************************************************************)
BeginCall(t, c) ==
  /\ host.up /\ At(t, "idle") /\ host.calls < MaxCalls
  /\ host' = [host EXCEPT !.calls = @ + 1]
  /\ call' = [call EXCEPT ![t] = c]
  /\ Goto(t, "acquire")
  /\ UNCHANGED <<trk, claim, waitOn, snap, adv, pass, att, workers, late>>

\* A caller of decide names an escalation it has seen.
Calls ==
  {[kind |-> k, outcome |-> "reject", named |-> NoKey] : k \in {"submit", "retry", "cancel"}}
  \cup [kind : {"decide"}, outcome : Decisions, named : trk.raised]

Begin(t) == \E c \in Calls : BeginCall(t, c)

\* What a host does when it boots.
StartHost(t) ==
  /\ host.up /\ At(t, "idle") /\ host.starting
  /\ host' = [host EXCEPT !.starting = FALSE]
  /\ call' = [call EXCEPT ![t] = NoCall]
  /\ Goto(t, "acquire")
  /\ UNCHANGED <<trk, claim, waitOn, snap, adv, pass, att, workers, late>>

\* Mutant: the claim does not refuse a run another call holds.
AcquireAnyway(t) ==
  /\ At(t, "acquire")
  /\ claim' = t
  /\ adv' = [adv EXCEPT ![t] = NewAdvancing]
  /\ pass' = [pass EXCEPT ![t] = NewPass]
  /\ att' = [att EXCEPT ![t] = NewAttempt(NoKey)]
  /\ Goto(t, "read")
  /\ UNCHANGED <<trk, call, waitOn, snap, workers, late, host>>

\* _acquire, when nobody holds the run.
Acquire(t) ==
  /\ At(t, "acquire") /\ claim = Nobody
  /\ claim' = t
  /\ adv' = [adv EXCEPT ![t] = NewAdvancing]
  /\ pass' = [pass EXCEPT ![t] = NewPass]
  /\ att' = [att EXCEPT ![t] = NewAttempt(NoKey)]
  /\ Goto(t, "read")
  /\ UNCHANGED <<trk, call, waitOn, snap, workers, late, host>>

\* RunBusy: submit and cancel wait on the holder's _Advancing, retry and decide
\* are refused, and start passes the run over.
Busy(t) ==
  /\ At(t, "acquire") /\ claim # Nobody
  /\ IF call[t].kind \in {"submit", "cancel"}
     THEN waitOn' = [waitOn EXCEPT ![t] = claim] /\ Goto(t, "wait")
     ELSE UNCHANGED waitOn /\ Goto(t, "idle")
  /\ UNCHANGED <<trk, claim, call, snap, adv, pass, att, workers, late, host>>

\* The wait ends because the claim is finished: a cancel looks again, a
\* submission reads the status.
WaitFinished(t) ==
  /\ At(t, "wait") /\ waitOn[t] = Nobody
  /\ Goto(t, IF call[t].kind = "cancel" THEN "acquire" ELSE "status")
  /\ UNCHANGED <<trk, claim, call, waitOn, snap, adv, pass, att, workers, late, host>>

\* A submission waits only until the holder is advancing the run.
WaitAccepting(t) ==
  /\ At(t, "wait") /\ call[t].kind = "submit"
  /\ waitOn[t] # Nobody /\ adv[waitOn[t]].accepting
  /\ waitOn' = [waitOn EXCEPT ![t] = Nobody]
  /\ Goto(t, "status")
  /\ UNCHANGED <<trk, claim, call, snap, adv, pass, att, workers, late, host>>

\* _submitted_elsewhere: answer with the status, or try again on an empty Track.
Status(t) ==
  /\ At(t, "status")
  /\ Goto(t, IF trk.state = "NONE" THEN "acquire" ELSE "idle")
  /\ UNCHANGED <<trk, claim, call, waitOn, snap, adv, pass, att, workers, late, host>>

\* cancel() leaves its request with the holder, and claims the live worker.
AcceptCancel(t) ==
  /\ At(t, "wait") /\ call[t].kind = "cancel"
  /\ LET h == waitOn[t]
         takes == att[h].worker /\ ~att[h].released
     IN /\ h # Nobody /\ adv[h].accepting
        /\ adv' = [adv EXCEPT ![h].cancelled = TRUE]
        /\ IF takes
           THEN /\ att' = [att EXCEPT ![h] =
                                [@ EXCEPT !.released = TRUE, !.cancelTeardown = "busy"]]
                /\ Goto(t, "cancel_teardown")
                /\ UNCHANGED waitOn
           ELSE /\ UNCHANGED att
                /\ Goto(t, "idle")
                /\ waitOn' = [waitOn EXCEPT ![t] = Nobody]
  /\ UNCHANGED <<trk, claim, call, snap, pass, workers, late, host>>

\* cancel() tears the claimed worker down; the executor may fail to.
CancelTeardown(t) ==
  /\ At(t, "cancel_teardown")
  /\ LET h == waitOn[t] IN
       \/ /\ workers' = workers \ {att[h].key}
          /\ att' = [att EXCEPT ![h].cancelTeardown = "ok"]
       \/ /\ att' = [att EXCEPT ![h].cancelTeardown = "failed"]
          /\ UNCHANGED workers
  /\ waitOn' = [waitOn EXCEPT ![t] = Nobody]
  /\ Goto(t, "idle")
  /\ UNCHANGED <<trk, claim, call, snap, adv, pass, late, host>>

\* _release, in its two critical sections: the claim goes, then its waiters wake.
Release(t) ==
  /\ At(t, "release")
  /\ claim' = Nobody
  /\ Goto(t, "let_go")
  /\ UNCHANGED <<trk, call, waitOn, snap, adv, pass, att, workers, late, host>>

\* Mutant: the release does not wake the calls waiting on the claim.
LetGoSilently(t) ==
  /\ At(t, "let_go")
  /\ adv' = [adv EXCEPT ![t] = NewAdvancing]
  /\ snap' = [snap EXCEPT ![t] = EmptyTrack]
  /\ pass' = [pass EXCEPT ![t] = NewPass]
  /\ att' = [att EXCEPT ![t] = NewAttempt(NoKey)]
  /\ Goto(t, "idle")
  /\ UNCHANGED <<trk, claim, call, waitOn, workers, late, host>>

LetGo(t) ==
  /\ At(t, "let_go")
  /\ adv' = [adv EXCEPT ![t] = NewAdvancing]
  /\ waitOn' = [w \in Threads |-> IF waitOn[w] = t THEN Nobody ELSE waitOn[w]]
  /\ snap' = [snap EXCEPT ![t] = EmptyTrack]
  /\ pass' = [pass EXCEPT ![t] = NewPass]
  /\ att' = [att EXCEPT ![t] = NewAttempt(NoKey)]
  /\ Goto(t, "idle")
  /\ UNCHANGED <<trk, claim, call, workers, late, host>>

--------------------------------------------------------------------------
(***************************************************************************)
(* A call that holds the claim: read the Track, check, write what it asks. *)
(***************************************************************************)
Read(t) ==
  /\ At(t, "read")
  /\ snap' = [snap EXCEPT ![t] = trk]
  /\ Goto(t, "enter")
  /\ UNCHANGED <<trk, claim, call, waitOn, adv, pass, att, workers, late, host>>

Enters(t, kind) == At(t, "enter") /\ call[t].kind = kind

Entered == UNCHANGED <<claim, call, waitOn, adv, pass, att, workers, late, host>>

\* submit: a new run is recorded, one only submitted is started, any other is
\* answered with its status.  The API process may have submitted the run since
\* it was read; the store then refuses a second submission.
EnterSubmit(t) ==
  /\ Enters(t, "submit")
  /\ \/ /\ snap[t].state = "NONE" /\ trk.state = "NONE"
        /\ Append(t, OpSubmitted)
        /\ Goto(t, "open")
     \/ /\ snap[t].state = "NONE" /\ trk.state # "NONE"
        /\ Goto(t, "release") /\ UNCHANGED <<trk, snap>>
     \/ /\ snap[t].state = "SUBMITTED"
        /\ Goto(t, "open") /\ UNCHANGED <<trk, snap>>
     \/ /\ snap[t].state \notin {"NONE", "SUBMITTED"}
        /\ Goto(t, "release") /\ UNCHANGED <<trk, snap>>
  /\ Entered

\* Mutant: every ended run but an overspent one is retried.
RetriableWhenEnded(T) == T.state \in Ended \ {"BUDGET_EXCEEDED"}

\* retry: only of an ended run the machine retries, and not of one that
\* exhausted its budget.
Retriable(T) == T.state \in Ended \ {"BUDGET_EXCEEDED"} /\ Accepts(T.state, "retry")

EnterRetry(t) ==
  /\ Enters(t, "retry")
  /\ IF Retriable(snap[t])
     THEN Append(t, RetryRequested) /\ Goto(t, "open")
     ELSE Goto(t, "release") /\ UNCHANGED <<trk, snap>>
  /\ Entered

\* Mutant: a decision does not have to name the open escalation.
DecidableByAnyName(T, named) == T.state = "WAITING_AT_GATE"

\* decide: only of a run waiting at a Gate, naming the escalation that is open.
Decidable(T, named) == T.state = "WAITING_AT_GATE" /\ T.open = named

\* Mutant: the revision limit is off by one.
PastRevisionsByOne(T, k) == RevisionsLimited /\ T.esc[k[1]] > MaxRevisions + 1

PastRevisions(T, k) == RevisionsLimited /\ T.esc[k[1]] > MaxRevisions

EnterDecide(t) ==
  /\ Enters(t, "decide")
  /\ LET k == call[t].named
         outcome == call[t].outcome
     IN \/ /\ ~Decidable(snap[t], k)
           /\ Goto(t, "release") /\ UNCHANGED <<trk, snap>>
        \/ /\ Decidable(snap[t], k) /\ outcome = "approve"
           /\ Append(t, LAMBDA T : Approved(T, k))
           /\ Goto(t, "open")
        \/ /\ Decidable(snap[t], k) /\ outcome = "reject"
           /\ Append(t, LAMBDA T : Rejected(T, k))
           /\ Goto(t, "release")
        \/ /\ Decidable(snap[t], k) /\ outcome = "send_back" /\ ~PastRevisions(snap[t], k)
           /\ Append(t, LAMBDA T : SentBack(T, k))
           /\ Goto(t, "open")
        \/ /\ Decidable(snap[t], k) /\ outcome = "send_back" /\ PastRevisions(snap[t], k)
           /\ Append(t, LAMBDA T : RevisionsExhausted(T, k))
           /\ Goto(t, "release")
  /\ Entered

\* cancel of a run nothing is advancing: at once, unless the run has ended or
\* was never submitted.
EnterCancel(t) ==
  /\ Enters(t, "cancel")
  /\ IF Accepts(snap[t].state, "cancel")
     THEN Append(t, RunCancelled)
     ELSE UNCHANGED <<trk, snap>>
  /\ Goto(t, "release")
  /\ Entered

\* start: a run a stopped host left running or waiting is interrupted.
EnterStart(t) ==
  /\ Enters(t, "start")
  /\ IF snap[t].state \in {"RUNNING", "WAITING_AT_GATE"}
     THEN Append(t, RunInterrupted)
     ELSE UNCHANGED <<trk, snap>>
  /\ Goto(t, "release")
  /\ Entered

--------------------------------------------------------------------------
(***************************************************************************)
(* The driver, _advance.                                                   *)
(***************************************************************************)
\* From here a cancel is taken.
Open(t) ==
  /\ At(t, "open")
  /\ adv' = [adv EXCEPT ![t].accepting = TRUE]
  /\ Goto(t, "pickup")
  /\ UNCHANGED <<trk, claim, call, waitOn, snap, pass, att, workers, late, host>>

\* Pick the run up, and rebuild the budget from the Track: usage a limit needs
\* and the Track does not have fails the run.
PickUp(t) ==
  /\ At(t, "pickup")
  /\ IF snap[t].state = "SUBMITTED"
     THEN Append(t, RunPickedUp)
     ELSE UNCHANGED <<trk, snap>>
  /\ LET unaccounted == Budgeted /\ snap[t].unknown IN
       /\ pass' = [pass EXCEPT ![t] =
                     [@ EXCEPT !.tally = snap[t].spent,
                               !.end = IF unaccounted THEN "usage" ELSE "none"]]
       /\ Goto(t, IF unaccounted THEN "finish" ELSE "loop")
  /\ UNCHANGED <<claim, call, waitOn, adv, att, workers, late, host>>

\* The driver decides how the run ends, and goes to write it.
End(t, how) ==
  /\ pass' = [pass EXCEPT ![t].end = how]
  /\ Goto(t, "finish")

InLoop == UNCHANGED <<claim, call, waitOn, adv, workers, late, host>>

LoopCancelled(t) ==
  /\ At(t, "loop") /\ ~AllDone(snap[t]) /\ adv[t].cancelled
  /\ End(t, "cancel")
  /\ UNCHANGED <<trk, snap, att>> /\ InLoop

\* An approved escalation completes its step; the step does not run again.
LoopApproved(t) ==
  /\ At(t, "loop") /\ ~adv[t].cancelled
  /\ \E s \in Steps : IsNext(snap[t], s) /\ snap[t].approved[s] # NoKey
  /\ pass' = [pass EXCEPT ![t].reached = TRUE]
  /\ Goto(t, "keep_approved")
  /\ UNCHANGED <<trk, snap, att>> /\ InLoop

LoopBudget(t) ==
  /\ At(t, "loop") /\ ~adv[t].cancelled
  /\ \E s \in Steps : IsNext(snap[t], s) /\ snap[t].approved[s] = NoKey
  /\ Exceeded(pass[t].tally)
  /\ End(t, "budget")
  /\ UNCHANGED <<trk, snap, att>> /\ InLoop

\* resolve: the attempt is numbered by escalations and retries, never by starts.
Resolves(t) ==
  /\ ~AllDone(snap[t]) /\ ~adv[t].cancelled /\ ~Exceeded(pass[t].tally)
  /\ \A s \in Steps : IsNext(snap[t], s) => snap[t].approved[s] = NoKey

Resolve(t) ==
  /\ At(t, "loop") /\ Resolves(t)
  /\ \E s \in Steps :
       /\ IsNext(snap[t], s)
       /\ att' = [att EXCEPT ![t] = NewAttempt(<<s, Number(snap[t], s)>>)]
  /\ pass' = [pass EXCEPT ![t].reached = TRUE]
  /\ Goto(t, "attempt")
  /\ UNCHANGED <<trk, snap>> /\ InLoop

\* The end of the run is a budget boundary too, when this call reached a step.
LoopEnd(t) ==
  /\ At(t, "loop") /\ AllDone(snap[t])
  /\ End(t, IF pass[t].reached /\ Exceeded(pass[t].tally) THEN "budget" ELSE "complete")
  /\ UNCHANGED <<trk, snap, att>> /\ InLoop

--------------------------------------------------------------------------
(***************************************************************************)
(* One attempt, _run_attempt and its step functions.                       *)
(***************************************************************************)
InAttempt == UNCHANGED <<claim, call, waitOn, adv, pass, late, host>>

\* No worker is brought up for a cancelled run.
BeginAttempt(t) ==
  /\ At(t, "attempt")
  /\ Goto(t, IF adv[t].cancelled THEN "after" ELSE "materialize")
  /\ UNCHANGED <<trk, snap, att, workers>> /\ InAttempt

\* The executor brings the worker up, or fails and leaves nothing behind.
Materialize(t) ==
  /\ At(t, "materialize")
  /\ \/ /\ workers' = workers \cup {att[t].key}
        /\ att' = [att EXCEPT ![t].worker = TRUE]
        /\ Goto(t, "worker_up")
     \/ /\ Goto(t, "after")
        /\ UNCHANGED <<att, workers>>
  /\ UNCHANGED <<trk, snap>> /\ InAttempt

\* Record the worker, and the hash of its run token.
WorkerUp(t) ==
  /\ At(t, "worker_up")
  /\ Append(t, LAMBDA T : WorkerStarted(T, att[t].key))
  /\ att' = [att EXCEPT ![t] = [@ EXCEPT !.started = TRUE, !.cog = Dispatch("MATERIALIZED", "ready")]]
  /\ Goto(t, "invoke")
  /\ UNCHANGED workers /\ InAttempt

\* No worker of a cancelled run is asked to act.
Invoke(t) ==
  /\ At(t, "invoke")
  /\ IF adv[t].cancelled
     THEN Goto(t, "teardown") /\ UNCHANGED att
     ELSE Goto(t, "interact") /\ att' = [att EXCEPT ![t].cog = Dispatch(@, "invoke")]
  /\ UNCHANGED <<trk, snap, workers>> /\ InAttempt

\* The worker answers: an envelope (ok or not, its payload JSON or not, its
\* usage reported or not), or the call raises, as it must once the worker is gone.
Answer(t, kind, severity, known, amount) ==
  /\ At(t, "interact")
  /\ att' = [att EXCEPT ![t] = [@ EXCEPT !.answer = kind, !.severity = severity,
                                         !.known = known, !.amount = amount]]
  /\ Goto(t, "read_envelope")
  /\ UNCHANGED <<trk, snap, workers>> /\ InAttempt

Reports == [known : {TRUE}, amount : Usages] \cup [known : {FALSE}, amount : {0}]

Interact(t) ==
  \/ Answer(t, "raised", "none", FALSE, 0)
  \/ /\ att[t].key \in workers
     /\ \E u \in Reports :
          \/ \E severity \in Severities : Answer(t, "ok", severity, u.known, u.amount)
          \/ Answer(t, "error", "none", u.known, u.amount)
          \/ Answer(t, "not_json", "none", u.known, u.amount)

\* read_envelope and the failure handlers of _run_attempt: the usage is
\* recorded, as unknown when the worker did not answer or a limit needs a number
\* it did not report, and the attempt's outcome follows.
Outcome(a) ==
  IF a.answer \in {"ok", "error"} /\ (a.known \/ ~Budgeted) THEN a.answer ELSE "broken"

ReadEnvelope(t) ==
  /\ At(t, "read_envelope")
  /\ Append(t, LAMBDA T : InteractionUsage(T, att[t].known, att[t].amount))
  /\ att' = [att EXCEPT ![t] = [@ EXCEPT !.answered = att[t].answer \in {"ok", "error"},
                                         !.outcome = Outcome(att[t])]]
  /\ Goto(t, "teardown")
  /\ UNCHANGED workers /\ InAttempt

\* Mutant: a worker is taken to have answered, whether or not it was ever asked.
OneShotAnyway(a) ==
  IF a.cog = "none" THEN "none"
  ELSE Dispatch(Dispatch(a.cog, "envelope_returned"), "one_shot")

\* A worker that answered is a one-shot; one that did not, or that a cancel
\* took, has failed.
MovedForTeardown(a) ==
  IF a.cog = "none" THEN "none"
  ELSE IF a.answered /\ ~a.released
  THEN Dispatch(Dispatch(a.cog, "envelope_returned"), "one_shot")
  ELSE Dispatch(a.cog, "fail")

\* teardown: whoever sets released tears the worker down, the driver or a cancel.
ClaimTeardown(t) ==
  /\ At(t, "teardown")
  /\ Goto(t, IF att[t].released THEN "td_wait" ELSE "td_exec")
  /\ att' = [att EXCEPT ![t] = [@ EXCEPT !.released = TRUE, !.cog = MovedForTeardown(att[t])]]
  /\ UNCHANGED <<trk, snap, workers>> /\ InAttempt

\* Mutant: a worker the cancel could not tear down is taken for gone.
TeardownWaitOnly(t) ==
  /\ At(t, "td_wait") /\ att[t].cancelTeardown # "busy"
  /\ Goto(t, "stopped")
  /\ UNCHANGED <<trk, snap, att, workers>> /\ InAttempt

\* Wait for the cancel's teardown; one that failed is tried again.
TeardownWait(t) ==
  /\ At(t, "td_wait") /\ att[t].cancelTeardown # "busy"
  /\ Goto(t, IF att[t].cancelTeardown = "failed" THEN "td_exec" ELSE "stopped")
  /\ UNCHANGED <<trk, snap, att, workers>> /\ InAttempt

\* The driver tears down, itself, a worker that answered.
TearingDown(a) == a.answered /\ a.cancelTeardown = "none"

MovedByFailure(a) == IF TearingDown(a) THEN Dispatch(a.cog, "fail") ELSE a.cog

Teardown(t) ==
  /\ At(t, "td_exec")
  /\ \/ workers' = workers \ {att[t].key} /\ UNCHANGED att
     \/ /\ att' = [att EXCEPT ![t] = [@ EXCEPT !.teardownError = TRUE, !.cog = MovedByFailure(att[t])]]
        /\ UNCHANGED workers
  /\ Goto(t, "stopped")
  /\ UNCHANGED <<trk, snap>> /\ InAttempt

\* A worker whose start was recorded has its stop recorded once it is gone.
Stopped(t) ==
  /\ At(t, "stopped")
  /\ IF att[t].started /\ ~att[t].teardownError
     THEN Append(t, LAMBDA T : WorkerStopped(T, att[t].key))
     ELSE UNCHANGED <<trk, snap>>
  /\ Goto(t, "after")
  /\ UNCHANGED <<att, workers>> /\ InAttempt

--------------------------------------------------------------------------
(***************************************************************************)
(* After the attempt: consume the budget, evaluate the Gate, keep or end.  *)
(***************************************************************************)
NoResult(a) == a.teardownError \/ a.outcome # "ok"

Consumed(t) == pass[t].tally + (IF att[t].known THEN att[t].amount ELSE 0)

AfterNoResult(t) ==
  /\ At(t, "after") /\ att[t].outcome # "escaped"
  /\ adv[t].cancelled \/ NoResult(att[t])
  /\ End(t, IF adv[t].cancelled THEN "cancel" ELSE "fail")
  /\ UNCHANGED <<trk, snap, att>> /\ InLoop

AfterResult(t) ==
  /\ At(t, "after") /\ ~adv[t].cancelled /\ ~NoResult(att[t])
  /\ LET escalates == Escalates(GateOf[att[t].key[1]], att[t].severity) IN
       /\ pass' = [pass EXCEPT ![t] =
                     [@ EXCEPT !.tally = Consumed(t), !.over = Exceeded(Consumed(t)),
                               !.end = IF escalates THEN "escalate" ELSE "none"]]
       /\ Goto(t, IF escalates THEN "finish" ELSE "keep")
  /\ UNCHANGED <<trk, snap, att>> /\ InLoop

\* An exception raised by a failure handler leaves _advance after the teardown.
AfterEscaped(t) ==
  /\ At(t, "after") /\ att[t].outcome = "escaped"
  /\ Goto(t, "release")
  /\ UNCHANGED <<trk, snap, att, pass>> /\ InLoop

\* _keep: the result is written unless a cancel was taken first.
KeepUnlessCancelled(t, Event(_)) ==
  IF adv[t].cancelled
  THEN End(t, "cancel") /\ UNCHANGED <<trk, snap>>
  ELSE /\ Append(t, Event)
       /\ IF pass[t].over THEN End(t, "budget") ELSE Goto(t, "loop") /\ UNCHANGED pass

Keep(t) ==
  /\ At(t, "keep")
  /\ KeepUnlessCancelled(t, LAMBDA T : StepCompleted(T, att[t].key, NoKey))
  /\ UNCHANGED att /\ InLoop

KeepApproved(t) ==
  /\ At(t, "keep_approved")
  /\ \E s \in Steps :
       LET k == snap[t].approved[s] IN
         /\ IsNext(snap[t], s)
         /\ KeepUnlessCancelled(t, LAMBDA T : StepCompleted(T, k, k))
  /\ UNCHANGED att /\ InLoop

\* Mutant: the claim still takes a cancel after the run's end is written.
FinishesAccepting(t) ==
  /\ At(t, "finish")
  /\ UNCHANGED <<claim, call, waitOn, adv, pass, att, workers, late, host>>

\* _finish: the end is written, or cancelled if a cancel was taken first; no
\* cancel is taken after.
Finishes(t) ==
  /\ At(t, "finish")
  /\ adv' = [adv EXCEPT ![t].accepting = FALSE]
  /\ UNCHANGED <<claim, call, waitOn, pass, att, workers, late, host>>

\* Mutant: the end is written without looking for a cancel.
EndingAnyway(t, how) == Finishes(t) /\ pass[t].end = how

Ending(t, how) == Finishes(t) /\ ~adv[t].cancelled /\ pass[t].end = how

\* A worker that could not be torn down is recorded beside the end.
FinishCancelled(t) ==
  /\ Finishes(t) /\ adv[t].cancelled
  /\ IF att[t].teardownError
     THEN Append(t, LAMBDA T : StepFailed(T, att[t].key, TRUE)) /\ Goto(t, "finish_second")
     ELSE Append(t, RunCancelled) /\ Goto(t, "release")

FailStep(t) ==
  /\ Ending(t, "fail")
  /\ Append(t, LAMBDA T : StepFailed(T, att[t].key, att[t].teardownError))
  /\ Goto(t, "finish_second")

Escalate(t) ==
  /\ Ending(t, "escalate")
  /\ Append(t, LAMBDA T : GateEscalated(T, att[t].key)) /\ Goto(t, "release")

StopForBudget(t) ==
  /\ Ending(t, "budget")
  /\ Append(t, BudgetStopped) /\ Goto(t, "release")

FailUnaccounted(t) ==
  /\ Ending(t, "usage")
  /\ Append(t, RunFailed) /\ Goto(t, "release")

Complete(t) ==
  /\ Ending(t, "complete")
  /\ Append(t, RunCompleted) /\ Goto(t, "release")

\* The second record of an end that writes two.
FinishSecond(t) ==
  /\ At(t, "finish_second")
  /\ IF adv[t].cancelled THEN Append(t, RunCancelled) ELSE Append(t, RunFailed)
  /\ Goto(t, "release")
  /\ UNCHANGED <<claim, call, waitOn, adv, pass, att, workers, late, host>>

--------------------------------------------------------------------------
(***************************************************************************)
(* A Track write that raises, the other process, time, and the host.       *)
(***************************************************************************)
CanFail == host.failures < MaxTrackFailures

WriteFailed(t, label) ==
  /\ CanFail
  /\ host' = [host EXCEPT !.failures = @ + 1]
  /\ Goto(t, label)
  /\ UNCHANGED <<claim, call, waitOn, adv, pass, workers, late>>

\* While the worker is brought up or invoked: the attempt is broken.  Of a
\* worker coming up, its materialized or its worker_started was not written.
WorkerWriteFails(t) ==
  /\ \/ At(t, "worker_up") /\ \E cog \in {"none", "MATERIALIZED"} : att' = [att EXCEPT ![t].cog = cog]
     \/ At(t, "invoke") /\ ~adv[t].cancelled /\ UNCHANGED att
  /\ WriteFailed(t, "teardown")
  /\ UNCHANGED <<trk, snap>>

\* Both were, and the ready that follows was not.
ReadyWriteFails(t) ==
  /\ At(t, "worker_up")
  /\ Append(t, LAMBDA T : WorkerStarted(T, att[t].key))
  /\ att' = [att EXCEPT ![t] = [@ EXCEPT !.started = TRUE, !.cog = "MATERIALIZED"]]
  /\ WriteFailed(t, "teardown")

\* Recording an answer's usage: the handler records it unknown instead.
UsageWriteFails(t) ==
  /\ At(t, "read_envelope") /\ att[t].answer # "raised"
  /\ WriteFailed(t, "teardown")
  /\ Append(t, LAMBDA T : InteractionUsage(T, FALSE, 0))
  /\ att' = [att EXCEPT ![t].answered = att[t].answer \in {"ok", "error"}]

\* Recording it in the handler: the exception leaves the driver after teardown.
HandlerWriteFails(t) ==
  /\ At(t, "read_envelope") /\ att[t].answer = "raised"
  /\ WriteFailed(t, "teardown")
  /\ att' = [att EXCEPT ![t].outcome = "escaped"]
  /\ UNCHANGED <<trk, snap>>

\* Anywhere else the exception leaves the driver at once, and the claim with it.
\* The points that write: a pickup, a step_started, a teardown's records (only
\* for a worker that answered and the driver itself tears down), a worker_stopped,
\* a result, an end.
DriverWrites(t) ==
  \/ At(t, "pickup") /\ snap[t].state = "SUBMITTED"
  \/ At(t, "loop") /\ Resolves(t)
  \/ At(t, "td_exec") /\ TearingDown(att[t])
  \/ At(t, "stopped") /\ att[t].started /\ ~att[t].teardownError
  \/ pc[t] \in {"keep", "keep_approved"} /\ ~adv[t].cancelled
  \/ pc[t] \in {"finish", "finish_second"}

DriverWriteFails(t) ==
  /\ DriverWrites(t)
  /\ WriteFailed(t, "release")
  /\ UNCHANGED <<trk, snap, att>>

\* The API process submits a run without a claim: it only writes the Track.
ApiSubmit ==
  /\ trk.state = "NONE"
  /\ trk' = OpSubmitted(trk)
  /\ UNCHANGED <<claim, pc, call, waitOn, snap, adv, pass, att, workers, late, host>>

DeadlinePasses ==
  /\ Deadline /\ ~late /\ trk.state # "NONE"
  /\ late' = TRUE
  /\ UNCHANGED <<trk, claim, pc, call, waitOn, snap, adv, pass, att, workers, host>>

\* A crash loses every thread and every claim; local workers die with the host.
Crash ==
  /\ host.up /\ host.boots < MaxBoots
  /\ host' = [host EXCEPT !.up = FALSE, !.starting = FALSE]
  /\ claim' = Nobody
  /\ pc' = [t \in Threads |-> "idle"]
  /\ call' = [t \in Threads |-> NoCall]
  /\ waitOn' = [t \in Threads |-> Nobody]
  /\ snap' = [t \in Threads |-> EmptyTrack]
  /\ adv' = [t \in Threads |-> NewAdvancing]
  /\ pass' = [t \in Threads |-> NewPass]
  /\ att' = [t \in Threads |-> NewAttempt(NoKey)]
  /\ workers' = {}
  /\ UNCHANGED <<trk, late>>

Boot ==
  /\ ~host.up
  /\ host' = [host EXCEPT !.up = TRUE, !.boots = @ + 1, !.starting = TRUE]
  /\ UNCHANGED <<trk, claim, pc, call, waitOn, snap, adv, pass, att, workers, late>>

--------------------------------------------------------------------------
\* The steps a thread takes once its call has begun.
ClaimStep(t) ==
  \/ Acquire(t) \/ Busy(t) \/ WaitFinished(t) \/ WaitAccepting(t) \/ Status(t)
  \/ AcceptCancel(t) \/ CancelTeardown(t) \/ Release(t) \/ LetGo(t)

EnterStep(t) ==
  \/ Read(t) \/ EnterSubmit(t) \/ EnterRetry(t) \/ EnterDecide(t)
  \/ EnterCancel(t) \/ EnterStart(t)

DriverStep(t) ==
  \/ Open(t) \/ PickUp(t) \/ LoopCancelled(t) \/ LoopApproved(t) \/ LoopBudget(t)
  \/ Resolve(t) \/ LoopEnd(t)

AttemptStep(t) ==
  \/ BeginAttempt(t) \/ Materialize(t) \/ WorkerUp(t) \/ Invoke(t) \/ Interact(t)
  \/ ReadEnvelope(t) \/ ClaimTeardown(t) \/ TeardownWait(t) \/ Teardown(t) \/ Stopped(t)

EndStep(t) ==
  \/ AfterNoResult(t) \/ AfterResult(t) \/ AfterEscaped(t) \/ Keep(t) \/ KeepApproved(t)
  \/ FinishCancelled(t) \/ FailStep(t) \/ Escalate(t) \/ StopForBudget(t)
  \/ FailUnaccounted(t) \/ Complete(t) \/ FinishSecond(t)

FailedWrite(t) ==
  \/ WorkerWriteFails(t) \/ ReadyWriteFails(t) \/ UsageWriteFails(t)
  \/ HandlerWriteFails(t) \/ DriverWriteFails(t)

ThreadStep(t) ==
  ClaimStep(t) \/ EnterStep(t) \/ DriverStep(t) \/ AttemptStep(t) \/ EndStep(t)

\* Every call has returned, and no more are made.
AtRest ==
  /\ host.up /\ ~host.starting /\ host.calls = MaxCalls
  /\ \A t \in Threads : pc[t] = "idle"
  /\ UNCHANGED vars

Next ==
  \/ \E t \in Threads : Begin(t) \/ StartHost(t) \/ ThreadStep(t) \/ FailedWrite(t)
  \/ ApiSubmit \/ DeadlinePasses \/ Crash \/ Boot \/ AtRest

Spec == Init /\ [][Next]_vars

\* Threads run: a thread that can take a step of its call takes one.  The worker
\* answers because an interaction has a timeout; nothing makes callers call.
Fairness ==
  /\ \A t \in Threads : WF_vars(ThreadStep(t)) /\ WF_vars(StartHost(t))
  /\ WF_vars(Boot)

FairSpec == Spec /\ Fairness

--------------------------------------------------------------------------
(***************************************************************************)
(* Properties.                                                             *)
(***************************************************************************)

\* Run.replay accepts the run's Track at every moment: no call ever writes a run
\* event the run machine refuses where it lands, which would make every later
\* read of the run raise InvalidTransition (runner._claim, states/run.py).
TrackReadable == trk.state # "UNREADABLE"

\* A driver advances on the Track as it is: the history its _Pass read when the
\* call began, plus its own writes, is the whole Track, although it never reads
\* again, other calls arrive meanwhile, and the API writes without a claim.
SnapshotCurrent == \A t \in Threads : pc[t] \in Driving => snap[t] = trk

\* The status and the kept results a reader sees behave as RunLifecycle says.
Lifecycle == INSTANCE RunLifecycle WITH status <- trk.state, done <- trk.done
ImplementsLifecycle == Lifecycle!Spec

\* Once the run is not being advanced - ended, waiting, or nobody's - every
\* worker still alive is one whose failed teardown the Track records.
NoOrphanWorker ==
  trk.state # "RUNNING" \/ claim = Nobody => workers \subseteq trk.leaked

\* The driver asks the worker's machine (states/worker.py) for no move it
\* refuses, whenever a cancel takes the worker, a Track write fails or a teardown
\* does: a refusal in the teardown would leave the worker running, and the
\* runner's records of it out of the machine's order.
WorkerObeys == \A t \in Threads : att[t].cog # "REFUSED"

\* What the runner records of a run, and what it does to a worker, is what the
\* two machines declare (states/run.py, states/worker.py).
MachinesObeyed == TrackReadable /\ WorkerObeys

\* A worker is materialized and asked only under an instance and key that
\* no live worker has and that no recorded result was produced under: retries,
\* send backs and restarts never reuse the identity of a result already kept or
\* escalated (resolve's numbering).
FreshKey ==
  \A t \in Threads :
    /\ pc[t] \in {"materialize", "worker_up", "invoke", "interact"} =>
         att[t].key \notin trk.raised \cup trk.kept
    /\ pc[t] = "materialize" => att[t].key \notin workers

\* An approval is bound to the escalation its approver named: that result, and
\* no other, becomes the step's, however the run is interrupted and retried in
\* between; and no step completes from an escalation nobody approved.
ApprovalHonoured ==
  /\ \A e \in trk.blessed :
       IF e[1] \in trk.done THEN trk.from[e[1]] = e ELSE trk.approved[e[1]] = e
  /\ \A s \in Steps : trk.from[s] # NoKey => trk.from[s] \in trk.blessed

\* No restart, retry or decision lets a result past a Gate that signs off every
\* result: a completed step of such a Gate was completed by an approval.
GateNeverSkipped ==
  \A s \in trk.done : GateOf[s] = "always" => trk.from[s] \in trk.blessed

\* What a Gate asks for is honoured: approvals, and sign-offs of every result.
GatesHonoured == ApprovalHonoured /\ GateNeverSkipped

\* max_revisions bounds the send backs of a step over the whole life of the run,
\* interruptions and retries included.
RevisionLimit ==
  RevisionsLimited => \A s \in Steps : trk.sentBack[s] <= MaxRevisions

\* Attempts are counted right over the whole life of the run: send backs are
\* within their limit, and an attempt's number is new.
AttemptsCounted == RevisionLimit /\ FreshKey

\* With a token limit, no worker is asked to act once the usage on the Track has
\* reached the limit or cannot be added up, whichever call, before or after
\* a restart, recorded it: a run overshoots by at most one interaction.
BudgetGuard ==
  Budgeted => \A t \in Threads :
    pc[t] = "interact" => trk.spent < TokenLimit /\ ~trk.unknown

\* A run token verifies only while the run is RUNNING, and only one does.
TokenDiscipline ==
  trk.tokens # {} => /\ trk.state = "RUNNING"
                     /\ \A a, b \in trk.tokens : a = b

\* A run never completes over its budget: the comment at the end of _advance says
\* a run that overspent on its last step stops instead of completing.
CompletedWithinBudget ==
  Budgeted /\ trk.state = "COMPLETED" => trk.spent < TokenLimit

\* A recorded failure is retried as a new attempt, under a new key: no worker is
\* asked again under a key whose step_failed is on the Track.
FailureRetriedAnew ==
  \A t \in Threads : pc[t] = "interact" => att[t].key \notin trk.failed

\* Once a holder has taken a cancel, it keeps no further result and moves the
\* run nowhere but to CANCELLED (a pickup it was about to record excepted).
CancelWins ==
  [][\A t \in Threads :
       adv[t].cancelled /\ claim = t =>
         /\ trk'.done = trk.done
         /\ \/ trk'.state \in {trk.state, "CANCELLED"}
            \/ trk.state = "SUBMITTED" /\ trk'.state = "RUNNING"]_vars

\* Every call returns: no cancel, submission or driver waits for ever.
CallsReturn == \A t \in Threads : pc[t] # "idle" ~> pc[t] = "idle"

\* A cancel that was taken ends the run cancelled, unless the host stops first.
CancelHonoured ==
  \A t \in Threads : adv[t].cancelled ~> (trk.state = "CANCELLED" \/ ~host.up)

-----------------------------------------------------------------------------
(* Small instances: one step that escalates an error; two steps, the first
   signed off always; threads that are alike. *)
OneGate == <<"error">>
TwoGates == <<"always", "never">>
ThreadSymmetry == Permutations(Threads)
=============================================================================
