------------------------------ MODULE RunTrack ------------------------------
(***************************************************************************)
(* A run's Track as its readers fold it.                                   *)
(*                                                                         *)
(* The Track is an append-only sequence of events (track.py).  Nothing in  *)
(* the execution package keeps a run's status anywhere else: each call     *)
(* replays the events through the run machine (states/run.py) and, beside  *)
(* it, through the small folds the lifecycle runner defines (completed     *)
(* steps, retries, approvals, spending) and the run tokens' fold           *)
(* (run_tokens.py).  This module gives the value of all those folds as one *)
(* record, and the effect of each event on it.  A Track of the current     *)
(* schema is determined, for every reader, by that record.                 *)
(*                                                                         *)
(* An event the run machine does not accept where it lands makes the whole *)
(* Track unreadable for ever: Run.replay raises InvalidTransition on every *)
(* later read.  That is the state UNREADABLE.                              *)
(***************************************************************************)
EXTENDS Integers, FiniteSets

CONSTANTS NSteps     \* the number of steps of the run's Op

ASSUME NStepsAssumption == NSteps \in Nat \ {0}

Steps == 1 .. NSteps

(***************************************************************************)
(* An attempt is identified by its step and its number: that pair is the   *)
(* worker's instance and, scoped to the run, the idempotency key.  An      *)
(* escalation is identified by the attempt whose envelope escalated.       *)
(***************************************************************************)
Keys  == Steps \X Nat
NoKey == <<0, 0>>

--------------------------------------------------------------------------
(***************************************************************************)
(* The run machine: its states and the transitions its handlers declare.   *)
(***************************************************************************)
Ended == {"COMPLETED", "FAILED", "REJECTED", "CANCELLED",
          "BUDGET_EXCEEDED", "INTERRUPTED"}

RunStates == {"SUBMITTED", "RUNNING", "WAITING_AT_GATE"} \cup Ended

\* The @accepts declarations: (state, event, target).
Edges ==
  { <<"SUBMITTED", "pickup", "RUNNING">>,
    <<"SUBMITTED", "cancel", "CANCELLED">>,
    <<"RUNNING", "escalate", "WAITING_AT_GATE">>,
    <<"RUNNING", "complete", "COMPLETED">>,
    <<"RUNNING", "fail", "FAILED">>,
    <<"RUNNING", "exhaust_budget", "BUDGET_EXCEEDED">>,
    <<"RUNNING", "cancel", "CANCELLED">>,
    <<"RUNNING", "host_stopped", "INTERRUPTED">>,
    <<"WAITING_AT_GATE", "decide", "RUNNING">>,
    <<"WAITING_AT_GATE", "decide", "REJECTED">>,
    <<"WAITING_AT_GATE", "decide", "FAILED">>,
    <<"WAITING_AT_GATE", "cancel", "CANCELLED">>,
    <<"WAITING_AT_GATE", "host_stopped", "INTERRUPTED">>,
    <<"FAILED", "retry", "RUNNING">>,
    <<"BUDGET_EXCEEDED", "retry", "RUNNING">>,
    <<"INTERRUPTED", "retry", "RUNNING">> }

\* The states in which the machine accepts the event a record reports.
Accepts(state, event) == \E target \in RunStates : <<state, event, target>> \in Edges

--------------------------------------------------------------------------
(***************************************************************************)
(* The folds over one run's Track:                                         *)
(*   state     the run machine's state; NONE before the submission         *)
(*   open      the escalation the run waits on (Run.open_escalation)       *)
(*   esc       how often each step escalated (Run.escalations)             *)
(*   retries   retries that opened a new attempt (_retry_count)            *)
(*   done      the completed steps (_completed_steps)                      *)
(*   shown     per step, its latest escalation                             *)
(*   approved  per step, the approved escalation not yet completed         *)
(*   from      per step, the escalation its step_completed names           *)
(*   spent, unknown   the tokens recorded, and whether any usage is        *)
(*             missing (budget_tracker)                                    *)
(*   tokens    the instances whose run token verifies (run_tokens.verify)  *)
(*   raised    every escalation recorded                                   *)
(*   blessed   every escalation an approve decision names                  *)
(*   sentBack  per step, how many send back decisions are recorded         *)
(*   kept      the attempts whose result is a step_completed               *)
(*   failed    the attempts with a step_failed                             *)
(*   leaked    the attempts whose step_failed says the teardown failed     *)
(***************************************************************************)
EmptyTrack ==
  [state |-> "NONE", open |-> NoKey, esc |-> [s \in Steps |-> 0],
   retries |-> 0, done |-> {}, shown |-> [s \in Steps |-> NoKey],
   approved |-> [s \in Steps |-> NoKey], from |-> [s \in Steps |-> NoKey],
   spent |-> 0, unknown |-> FALSE, tokens |-> {}, raised |-> {},
   blessed |-> {}, sentBack |-> [s \in Steps |-> 0], kept |-> {},
   failed |-> {}, leaked |-> {}]

\* An attempt of its own, or none, for each step.
PerStep ==
  {f \in [Steps -> Keys \cup {NoKey}] : \A s \in Steps : f[s] # NoKey => f[s][1] = s}

Tracks ==
  [state : RunStates \cup {"NONE", "UNREADABLE"}, open : Keys \cup {NoKey},
   esc : [Steps -> Nat], retries : Nat, done : SUBSET Steps,
   shown : PerStep, approved : PerStep, from : PerStep,
   spent : Nat, unknown : BOOLEAN, tokens : SUBSET Keys, raised : SUBSET Keys,
   blessed : SUBSET Keys, sentBack : [Steps -> Nat], kept : SUBSET Keys,
   failed : SUBSET Keys, leaked : SUBSET Keys]

\* Mutants: the attempt counted from the wrong base, and without the escalations.
NumberFromMinusOne(T, s) == T.esc[s] + T.retries - 1
NumberWithoutEscalations(T, s) == T.retries

\* The number the next attempt of step s runs under.
Number(T, s) == T.esc[s] + T.retries

--------------------------------------------------------------------------
(***************************************************************************)
(* One event of each kind the runner writes, as an operator on the folds.  *)
(* Run events go through Move; facts about a step or a worker leave the    *)
(* run where it is.                                                        *)
(***************************************************************************)
Put(f, s, value) == [f EXCEPT ![s] = value]
Bump(f, s)       == [f EXCEPT ![s] = @ + 1]

Move(T, event, target) ==
  [T EXCEPT !.state = IF <<T.state, event, target>> \in Edges
                      THEN target ELSE "UNREADABLE"]

\* Run tokens expire with the run's end, or its host's: _ENDS_EVERY_WORKER.
NoTokens(T) == [T EXCEPT !.tokens = {}]

OpSubmitted(T) ==
  [T EXCEPT !.state = IF T.state = "NONE" THEN "SUBMITTED" ELSE "UNREADABLE"]

RunPickedUp(T) == Move(T, "pickup", "RUNNING")

GateEscalated(T, k) ==
  [Move(T, "escalate", "WAITING_AT_GATE") EXCEPT
     !.open = k, !.raised = @ \cup {k}, !.esc = Bump(@, k[1]),
     !.shown = Put(@, k[1], k), !.approved = Put(@, k[1], NoKey)]

\* A decision record names the escalation it answered.  _approved accepts the
\* latest escalation of the step as the approved result.
Approved(T, k) ==
  [Move(T, "decide", IF T.open = k THEN "RUNNING" ELSE "UNREADABLE") EXCEPT
     !.open = NoKey, !.blessed = @ \cup {k},
     !.approved = Put(@, k[1], T.shown[k[1]])]

SentBack(T, k) ==
  [Move(T, "decide", IF T.open = k THEN "RUNNING" ELSE "UNREADABLE") EXCEPT
     !.open = NoKey, !.approved = Put(@, k[1], NoKey),
     !.sentBack = Bump(@, k[1])]

Rejected(T, k) ==
  [Move(T, "decide", IF T.open = k THEN "REJECTED" ELSE "UNREADABLE") EXCEPT
     !.open = NoKey, !.approved = Put(@, k[1], NoKey)]

\* A send back past the revision limit: a failed record that closes the escalation.
RevisionsExhausted(T, k) ==
  NoTokens([Move(T, "decide", IF T.open = k THEN "FAILED" ELSE "UNREADABLE")
              EXCEPT !.open = NoKey])

\* Mutant: a stopped host does not end the tokens of its workers.
InterruptedKeepsTokens(T) == Move(T, "host_stopped", "INTERRUPTED")

RunCompleted(T)   == NoTokens(Move(T, "complete", "COMPLETED"))
RunFailed(T)      == NoTokens(Move(T, "fail", "FAILED"))
BudgetStopped(T)  == NoTokens(Move(T, "exhaust_budget", "BUDGET_EXCEEDED"))
RunInterrupted(T) == NoTokens(Move(T, "host_stopped", "INTERRUPTED"))
RunCancelled(T)   ==
  NoTokens([Move(T, "cancel", "CANCELLED") EXCEPT !.open = NoKey])

\* Only the retry of a recorded failure opens a new attempt; the retry of an
\* interrupted run, or of one stopped by its budget, continues the same one.
RetryRequested(T) ==
  [Move(T, "retry", "RUNNING") EXCEPT
     !.retries = IF T.state = "FAILED" THEN @ + 1 ELSE @]

InteractionUsage(T, known, amount) ==
  [T EXCEPT !.spent = IF known THEN @ + amount ELSE @,
            !.unknown = @ \/ ~known]

WorkerStarted(T, k) == [T EXCEPT !.tokens = @ \cup {k}]
WorkerStopped(T, k) == [T EXCEPT !.tokens = @ \ {k}]

StepCompleted(T, k, escalation) ==
  [T EXCEPT !.done = @ \cup {k[1]}, !.approved = Put(@, k[1], NoKey),
            !.from = Put(@, k[1], escalation), !.kept = @ \cup {k}]

StepFailed(T, k, teardownFailed) ==
  [T EXCEPT !.failed = @ \cup {k},
            !.leaked = IF teardownFailed THEN @ \cup {k} ELSE @]
=============================================================================
