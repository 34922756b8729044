----------------------------- MODULE Controller -----------------------------
(***************************************************************************)
(* The run controller and the API, two processes over one Track            *)
(* (controller.py, intents.py, routers/runs.py), for one run.              *)
(*                                                                         *)
(* The API only writes intents: a submission, a request to cancel, turns.  *)
(* The controller polls: a tick looks at the run's view, starts at most    *)
(* one thread of each kind on what it saw, and looks at the turns.  Its    *)
(* threads call the lifecycle runner, which is here what a caller sees of  *)
(* it: a claim, a worker that comes and goes, an end.                      *)
(***************************************************************************)
EXTENDS Naturals, Sequences

CONSTANTS
  MaxTurns,       \* bound: turns asked
  MaxBoots,       \* bound: controllers started
  MaxFailures     \* bound: Track writes of the controller's threads that fail

VARIABLES
  trk,        \* the Track: the run's state, a standing cancel request, the turns
  tick,       \* the tick: where it is, and the view it looked at
  ended,      \* the run is in the controller's _ended
  advancing,  \* the _advancing thread
  cancelling, \* the _cancelling thread
  turning,    \* the _turning thread: where it is, its turn and what became of it
  claim,      \* which thread holds the run's claim in the runner
  cancelled,  \* a cancel was left with the driver
  live,       \* the run's worker is invoked and not let go of
  host        \* the controller: up, started, boots, failed writes

controllerVars == <<trk, tick, ended, advancing, cancelling, turning, claim, cancelled, live, host>>

Ended == {"COMPLETED", "FAILED", "REJECTED", "CANCELLED", "BUDGET_EXCEEDED", "INTERRUPTED"}
States == {"NONE", "SUBMITTED", "RUNNING", "WAITING_AT_GATE"} \cup Ended

NoTick == [at |-> "idle", state |-> "NONE", cancel |-> FALSE]
NoTurn == [at |-> "none", turn |-> 0, outcome |-> "pending"]

ControllerTypeOK ==
  /\ trk \in [state : States, cancel : BOOLEAN, turns : Seq({"pending", "answered", "failed"})]
  /\ tick \in [at : {"idle", "act", "turns"}, state : States, cancel : BOOLEAN]
  /\ ended \in BOOLEAN /\ cancelled \in BOOLEAN /\ live \in BOOLEAN
  /\ advancing \in {"none", "call", "wait", "drive"}
  /\ cancelling \in {"none", "call", "write"}
  /\ turning \in [at : {"none", "read", "worker", "turn", "record"}, turn : Nat,
                  outcome : {"pending", "answered", "failed"}]
  /\ claim \in {"nobody", "advancing", "cancelling"}
  /\ host \in [up : BOOLEAN, started : BOOLEAN, boots : Nat, failures : Nat]

ControllerInit ==
  /\ trk = [state |-> "NONE", cancel |-> FALSE, turns |-> <<>>]
  /\ tick = NoTick /\ ended = FALSE
  /\ advancing = "none" /\ cancelling = "none" /\ turning = NoTurn
  /\ claim = "nobody" /\ cancelled = FALSE /\ live = FALSE
  /\ host = [up |-> TRUE, started |-> FALSE, boots |-> 1, failures |-> 0]

Serving == host.up /\ host.started
runner  == <<advancing, cancelling, claim, cancelled, live>>

\* What a turn's reader is told: one still waiting when its run ended has failed.
Shown(i) ==
  IF trk.turns[i] = "pending" /\ trk.state \in Ended THEN "failed" ELSE trk.turns[i]

Waiting == {i \in 1 .. Len(trk.turns) : Shown(i) = "pending"}

--------------------------------------------------------------------------
(***************************************************************************)
(* The API: each a conditional append, checked as it lands.                *)
(***************************************************************************)
Submit ==
  /\ trk.state = "NONE"
  /\ trk' = [trk EXCEPT !.state = "SUBMITTED"]
  /\ UNCHANGED <<tick, ended, turning, host>> /\ UNCHANGED runner

RequestCancel ==
  /\ trk.state \notin Ended \cup {"NONE"} /\ ~trk.cancel
  /\ trk' = [trk EXCEPT !.cancel = TRUE]
  /\ UNCHANGED <<tick, ended, turning, host>> /\ UNCHANGED runner

RequestTurn ==
  /\ trk.state \in {"SUBMITTED", "RUNNING"} /\ Len(trk.turns) < MaxTurns
  /\ trk' = [trk EXCEPT !.turns = Append(@, "pending")]
  /\ UNCHANGED <<tick, ended, turning, host>> /\ UNCHANGED runner

--------------------------------------------------------------------------
(***************************************************************************)
(* A tick: look at the run, act on what was seen, look at its turns.       *)
(***************************************************************************)
TickView ==
  /\ Serving /\ tick.at = "idle" /\ ~ended /\ trk.state # "NONE"
  /\ tick' = [at |-> "act", state |-> trk.state, cancel |-> trk.cancel]
  /\ UNCHANGED <<trk, ended, turning, host>> /\ UNCHANGED runner

\* The run has ended: it is never looked at again.
TickEnded ==
  /\ tick.at = "act" /\ tick.state \in Ended
  /\ ended' = TRUE
  /\ tick' = NoTick
  /\ UNCHANGED <<trk, turning, host>> /\ UNCHANGED runner

\* Mutant: a cancel is delivered only to a run that reads RUNNING.
TickActWhileRunning ==
  /\ tick.at = "act" /\ tick.state \notin Ended
  /\ tick' = [tick EXCEPT !.at = "turns"]
  /\ IF tick.cancel
     THEN /\ cancelling' = IF tick.state = "RUNNING" /\ cancelling = "none"
                           THEN "call" ELSE cancelling
          /\ UNCHANGED advancing
     ELSE /\ advancing' = IF tick.state = "SUBMITTED" /\ advancing = "none"
                          THEN "call" ELSE advancing
          /\ UNCHANGED cancelling
  /\ UNCHANGED <<trk, ended, turning, claim, cancelled, live, host>>

\* A cancel asked for is delivered, whatever the run is at; a run only submitted
\* is started.
TickAct ==
  /\ tick.at = "act" /\ tick.state \notin Ended
  /\ tick' = [tick EXCEPT !.at = "turns"]
  /\ IF tick.cancel
     THEN /\ cancelling' = IF cancelling = "none" THEN "call" ELSE cancelling
          /\ UNCHANGED advancing
     ELSE /\ advancing' = IF tick.state = "SUBMITTED" /\ advancing = "none"
                          THEN "call" ELSE advancing
          /\ UNCHANGED cancelling
  /\ UNCHANGED <<trk, ended, turning, claim, cancelled, live, host>>

TickTurns ==
  /\ tick.at = "turns"
  /\ turning' = IF Waiting # {} /\ turning.at = "none"
                THEN [NoTurn EXCEPT !.at = "read"] ELSE turning
  /\ tick' = NoTick
  /\ UNCHANGED <<trk, ended, host>> /\ UNCHANGED runner

--------------------------------------------------------------------------
(***************************************************************************)
(* The runner under the _advance thread: runner.submit.                    *)
(***************************************************************************)
Aside == UNCHANGED <<tick, ended, turning>>

\* A run only submitted is picked up; any other is answered with its status.
AdvanceClaim ==
  /\ advancing = "call" /\ claim = "nobody"
  /\ IF trk.state = "SUBMITTED"
     THEN /\ claim' = "advancing" /\ advancing' = "drive"
          /\ trk' = [trk EXCEPT !.state = "RUNNING"]
     ELSE UNCHANGED <<claim, trk>> /\ advancing' = "none"
  /\ UNCHANGED <<cancelling, cancelled, live, host>> /\ Aside

\* A cancel holds the run: wait for it, and answer with the status.
AdvanceWait ==
  /\ advancing = "call" /\ claim = "cancelling"
  /\ advancing' = "wait"
  /\ UNCHANGED <<trk, cancelling, claim, cancelled, live, host>> /\ Aside

AdvanceWaited ==
  /\ advancing = "wait" /\ claim = "nobody"
  /\ advancing' = "none"
  /\ UNCHANGED <<trk, cancelling, claim, cancelled, live, host>> /\ Aside

WorkerUp ==
  /\ advancing = "drive" /\ ~live /\ ~cancelled
  /\ live' = TRUE
  /\ UNCHANGED <<trk, advancing, cancelling, claim, cancelled, host>> /\ Aside

WorkerDown ==
  /\ advancing = "drive" /\ live
  /\ live' = FALSE
  /\ UNCHANGED <<trk, advancing, cancelling, claim, cancelled, host>> /\ Aside

LetGo == advancing' = "none" /\ claim' = "nobody" /\ cancelled' = FALSE

DriveEnd ==
  /\ advancing = "drive" /\ ~live
  /\ \E s \in IF cancelled THEN {"CANCELLED"}
              ELSE {"COMPLETED", "FAILED", "BUDGET_EXCEEDED", "WAITING_AT_GATE"} :
       trk' = [trk EXCEPT !.state = s]
  /\ LetGo
  /\ UNCHANGED <<cancelling, live, host>> /\ Aside

\* A Track write fails: the driver is gone and the run is left as it was.
DriveBreaks ==
  /\ advancing = "drive" /\ host.failures < MaxFailures
  /\ host' = [host EXCEPT !.failures = @ + 1]
  /\ live' = FALSE
  /\ LetGo
  /\ UNCHANGED <<trk, cancelling>> /\ Aside

--------------------------------------------------------------------------
(***************************************************************************)
(* The _cancel thread: runner.cancel.                                      *)
(***************************************************************************)
\* The driver takes the request, and the live worker is torn down now.
CancelLeft ==
  /\ cancelling = "call" /\ claim = "advancing"
  /\ cancelled' = TRUE /\ live' = FALSE /\ cancelling' = "none"
  /\ UNCHANGED <<trk, advancing, claim, host>> /\ Aside

\* Nothing advances the run: the cancel claims it.
CancelClaim ==
  /\ cancelling = "call" /\ claim = "nobody"
  /\ claim' = "cancelling" /\ cancelling' = "write"
  /\ UNCHANGED <<trk, advancing, cancelled, live, host>> /\ Aside

\* Mutant: the state's value is recorded where its name belongs.
CancelWriteValue ==
  /\ cancelling = "write"
  /\ trk' = IF trk.state \in Ended THEN trk ELSE [trk EXCEPT !.state = "cancelled"]
  /\ claim' = "nobody" /\ cancelling' = "none"
  /\ UNCHANGED <<advancing, cancelled, live, host>> /\ Aside

\* A run that ended on its own refuses the cancel.
CancelWrite ==
  /\ cancelling = "write"
  /\ trk' = IF trk.state \in Ended THEN trk ELSE [trk EXCEPT !.state = "CANCELLED"]
  /\ claim' = "nobody" /\ cancelling' = "none"
  /\ UNCHANGED <<advancing, cancelled, live, host>> /\ Aside

CancelBreaks ==
  /\ cancelling = "write" /\ host.failures < MaxFailures
  /\ host' = [host EXCEPT !.failures = @ + 1]
  /\ claim' = "nobody" /\ cancelling' = "none"
  /\ UNCHANGED <<trk, advancing, cancelled, live>> /\ Aside

--------------------------------------------------------------------------
(***************************************************************************)
(* The _deliver_turns thread.                                              *)
(***************************************************************************)
TurnAside == UNCHANGED <<tick, ended, host>> /\ UNCHANGED runner

\* Mutant: the latest waiting turn is delivered first.
LatestTurn == CHOOSE i \in Waiting : \A j \in Waiting : j <= i

\* The turn delivered next: the first one asked.
NextTurn == CHOOSE i \in Waiting : \A j \in Waiting : i <= j

TurnRead ==
  /\ turning.at = "read"
  /\ turning' = IF Waiting = {} THEN NoTurn
                ELSE [at |-> "worker", turn |-> NextTurn, outcome |-> "pending"]
  /\ UNCHANGED trk /\ TurnAside

\* With no worker to ask, a later pass delivers the turn.
TurnWorker ==
  /\ turning.at = "worker"
  /\ turning' = IF live THEN [turning EXCEPT !.at = "turn"] ELSE NoTurn
  /\ UNCHANGED trk /\ TurnAside

\* The worker answers: while it is up, or later, when a teardown that failed, or
\* never happened, left it running.
TurnAnswered ==
  /\ turning.at = "turn"
  /\ turning' = [turning EXCEPT !.at = "record", !.outcome = "answered"]
  /\ UNCHANGED trk /\ TurnAside

\* It refuses, takes no turns, or is gone.
TurnRaises ==
  /\ turning.at = "turn"
  /\ turning' = [turning EXCEPT !.at = "record", !.outcome = "failed"]
  /\ UNCHANGED trk /\ TurnAside

\* It holds no session yet, within its grace: a later pass tries again.
TurnTooEarly ==
  /\ turning.at = "turn"
  /\ turning' = NoTurn
  /\ UNCHANGED trk /\ TurnAside

\* The answer is appended whatever became of the run; then the next turn.
TurnRecord ==
  /\ turning.at = "record"
  /\ trk' = [trk EXCEPT !.turns[turning.turn] = turning.outcome]
  /\ turning' = [NoTurn EXCEPT !.at = "read"]
  /\ TurnAside

TurnBreaks ==
  /\ turning.at = "record" /\ host.failures < MaxFailures
  /\ host' = [host EXCEPT !.failures = @ + 1]
  /\ turning' = NoTurn
  /\ UNCHANGED <<trk, tick, ended>> /\ UNCHANGED runner

--------------------------------------------------------------------------
(***************************************************************************)
(* The controller process.                                                 *)
(***************************************************************************)
\* Mutant: a new controller leaves a run a stopped one was advancing.
StartForgetful ==
  /\ host.up /\ ~host.started
  /\ host' = [host EXCEPT !.started = TRUE]
  /\ trk' = IF trk.state = "WAITING_AT_GATE" THEN [trk EXCEPT !.state = "INTERRUPTED"] ELSE trk
  /\ UNCHANGED <<tick, ended, turning>> /\ UNCHANGED runner

\* What a controller does first: a run left unfinished is interrupted.
Start ==
  /\ host.up /\ ~host.started
  /\ host' = [host EXCEPT !.started = TRUE]
  /\ trk' = IF trk.state \in {"RUNNING", "WAITING_AT_GATE"}
            THEN [trk EXCEPT !.state = "INTERRUPTED"] ELSE trk
  /\ UNCHANGED <<tick, ended, turning>> /\ UNCHANGED runner

\* Threads are daemons: they stop with the process, and the workers with them.
Stop ==
  /\ host.up /\ host.boots < MaxBoots
  /\ host' = [host EXCEPT !.up = FALSE, !.started = FALSE]
  /\ tick' = NoTick /\ ended' = FALSE
  /\ advancing' = "none" /\ cancelling' = "none" /\ turning' = NoTurn
  /\ claim' = "nobody" /\ cancelled' = FALSE /\ live' = FALSE
  /\ UNCHANGED trk

Boot ==
  /\ ~host.up
  /\ host' = [host EXCEPT !.up = TRUE, !.boots = @ + 1]
  /\ UNCHANGED <<trk, tick, ended, turning>> /\ UNCHANGED runner

Tick    == TickView \/ TickEnded \/ TickAct \/ TickTurns
Advance == AdvanceClaim \/ AdvanceWait \/ AdvanceWaited
Drive   == WorkerUp \/ WorkerDown \/ DriveEnd
Cancel  == CancelLeft \/ CancelClaim \/ CancelWrite
Deliver == TurnRead \/ TurnWorker \/ TurnAnswered \/ TurnRaises \/ TurnTooEarly \/ TurnRecord

\* The run has ended and the controller has nothing left to do with it.
Settled ==
  /\ ended /\ turning.at = "none" /\ advancing = "none" /\ cancelling = "none"
  /\ UNCHANGED controllerVars

ControllerNext ==
  \/ Submit \/ RequestCancel \/ RequestTurn
  \/ Tick \/ Advance \/ Drive \/ DriveBreaks \/ Cancel \/ CancelBreaks
  \/ Deliver \/ TurnBreaks \/ Start \/ Stop \/ Boot \/ Settled

ControllerSpec == ControllerInit /\ [][ControllerNext]_controllerVars

\* The loop polls for ever and its threads run; a cancelled driver, whose worker
\* is gone, gets to its end, while nothing bounds how long another takes.
ControllerFairness ==
  /\ WF_controllerVars(Tick) /\ WF_controllerVars(Advance) /\ WF_controllerVars(Cancel) /\ WF_controllerVars(Deliver)
  /\ WF_controllerVars(Start) /\ WF_controllerVars(Boot)
  /\ WF_controllerVars(cancelled /\ DriveEnd)

FairControllerSpec == ControllerSpec /\ ControllerFairness

--------------------------------------------------------------------------
(***************************************************************************)
(* Properties.                                                             *)
(***************************************************************************)

\* A run that reads RUNNING is being advanced: whatever controllers stop and
\* start, none is left RUNNING with nobody driving it, unless a Track write of its
\* driver failed.
RunningIsDriven ==
  trk.state = "RUNNING" /\ host.started /\ host.failures = 0 => advancing = "drive"

\* Turns are answered in the order they were asked, each once: what the Track
\* records of a turn is never recorded again, and no turn overtakes another,
\* however often delivery stops and starts again.
TurnInOrder ==
  \A i \in 1 .. Len(trk.turns) : trk'.turns[i] # trk.turns[i] =>
    /\ trk.turns[i] = "pending"
    /\ \A j \in 1 .. i - 1 : trk.turns[j] # "pending"

TurnsInOrder == [][TurnInOrder]_controllerVars

\* A request to cancel that was recorded ends the run, although the controller
\* only finds it by polling, may stop, and its cancel may fail.
HasEnded == trk.state \in Ended

CancelDelivered == trk.cancel ~> HasEnded

\* A submitted run is picked up, or ends.
Unnoticed == trk.state = "SUBMITTED"

SubmissionNoticed == Unnoticed ~> ~Unnoticed

\* A turn still waiting when its run ended will never be answered: what a client
\* was told became of a turn does not change.
TurnFinal ==
  [][\A i \in 1 .. Len(trk.turns) : Shown(i) # "pending" => Shown(i)' = Shown(i)]_controllerVars
=============================================================================
