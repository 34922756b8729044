------------------------------ MODULE CliRuns ------------------------------
(***************************************************************************)
(* What the command line client does with a run (cli: acp.py and the run   *)
(* commands of main.py) against the hub's run endpoints (routers/runs.py): *)
(* `run connect` bridges an ACP client's prompts to turns of the run,      *)
(* `run watch`, `run say` and `run terminate` wait for it and exit.        *)
(*                                                                         *)
(* The bridge reads its client's messages in one thread and waits for each *)
(* prompt's turn in a thread of its own; a request to the hub may fail.    *)
(* The run and its turns move by themselves (the controller).              *)
(***************************************************************************)
EXTENDS Naturals, FiniteSets

CONSTANTS
  Requests,      \* JSON-RPC request ids of the client
  AcpSessions,   \* ACP session ids
  MaxPolls,      \* polls before the answer timeout: bound
  MaxCancels     \* bound

VARIABLES
  run,         \* the run's status
  turn,        \* per request: the state of its turn at the hub
  opened,      \* Bridge._sessions
  cancelledSessions, \* Bridge._cancelled
  prompt,      \* per request: [at, session, polls]
  reading,     \* the client's stdin has not ended
  exited,      \* serve has returned
  answers,     \* per request: its responses, as sent (history)
  since,       \* per request: a cancel of its session was read after it (history)
  cancels,
  command      \* a run command under way: [name, at, seen, exit, turn], the turn as the hub has it
runsVars == <<run, turn, opened, cancelledSessions, prompt, reading, exited, answers, since, cancels, command>>
bridgeVars == <<turn, opened, cancelledSessions, prompt, reading, exited, answers, since, cancels>>

\* FAILED stands for REJECTED and BUDGET_EXCEEDED too: the client tells them apart
\* from nothing but their names.
EndedRuns == {"COMPLETED", "FAILED", "CANCELLED", "INTERRUPTED"}
Statuses == {"SUBMITTED", "RUNNING", "WAITING_AT_GATE"} \cup EndedRuns

NoPrompt == [at |-> "unsent", session |-> "none", polls |-> 0]
NoCommand == [name |-> "none", at |-> "idle", seen |-> "none", exit |-> 0, turn |-> "none"]
CommandRecords ==
  [name : {"none", "watch", "terminate", "terminate_no_wait", "say"}, at : {"idle", "following", "saying", "exited"},
   seen : Statuses \cup {"none"}, exit : {0, 1, 3, 4, 6}, turn : {"none", "pending", "answer", "failure"}]

At(r, stage) == prompt' = [prompt EXCEPT ![r].at = stage]
Says(r, outcome) == answers' = [answers EXCEPT ![r] = @ \cup {outcome}]

---------------------------------------------------------------------------
(* Bridge.serve and _dispatch *)

Unread(r) == reading /\ prompt[r].at = "unsent"

\* initialize, and a method this agent does not offer
Simple(r) ==
  /\ Unread(r)
  /\ At(r, "answered") /\ Says(r, "result")
  /\ UNCHANGED <<run, turn, opened, cancelledSessions, reading, exited, since, cancels, command>>

\* session/new: refused for a run that has ended, or when the hub fails
NewSession(r) ==
  /\ Unread(r)
  /\ At(r, "answered")
  /\ \/ /\ run \notin EndedRuns
        /\ \E s \in AcpSessions \ opened : opened' = opened \cup {s}
        /\ Says(r, "session")
     \/ Says(r, "error") /\ UNCHANGED opened
  /\ UNCHANGED <<run, turn, cancelledSessions, reading, exited, since, cancels, command>>

KeepCancel(s) == cancelledSessions
\* A cancel left from an earlier prompt is cleared before reading on.
ClearCancel(s) == cancelledSessions \ {s}

Prompt(r, s) ==
  /\ Unread(r)
  /\ IF s \in opened
     THEN /\ cancelledSessions' = ClearCancel(s)
          /\ prompt' = [prompt EXCEPT ![r] = [at |-> "posting", session |-> s, polls |-> 0]]
          /\ UNCHANGED answers
     ELSE /\ At(r, "answered") /\ Says(r, "error")
          /\ UNCHANGED cancelledSessions
  /\ UNCHANGED <<run, turn, opened, reading, exited, since, cancels, command>>

CancelPrompt(s) ==
  /\ reading /\ cancels < MaxCancels
  /\ cancels' = cancels + 1
  /\ cancelledSessions' = cancelledSessions \cup {s}
  /\ since' = [r \in Requests |-> since[r] \/ (prompt[r].session = s /\ prompt[r].at # "answered")]
  /\ UNCHANGED <<run, turn, opened, prompt, reading, exited, answers, command>>

EndOfInput ==
  /\ reading
  /\ reading' = FALSE
  /\ UNCHANGED <<run, turn, opened, cancelledSessions, prompt, exited, answers, since, cancels, command>>

ExitAtOnce == TRUE
\* serve joins every prompt before it returns.
JoinPrompts == \A r \in Requests : prompt[r].at \in {"unsent", "answered"}

Exit ==
  /\ ~reading /\ ~exited /\ JoinPrompts
  /\ exited' = TRUE
  /\ UNCHANGED <<run, turn, opened, cancelledSessions, prompt, reading, answers, since, cancels, command>>

---------------------------------------------------------------------------
(* Bridge._prompt: a daemon thread, which ends with the process *)

\* ask_turn: recorded, or refused (an ended run, a failing hub); words are needed.
Post(r) ==
  /\ ~exited /\ prompt[r].at = "posting"
  /\ \/ /\ run \notin EndedRuns
        /\ turn' = [turn EXCEPT ![r] = "pending"] /\ At(r, "waiting") /\ UNCHANGED answers
     \/ At(r, "answered") /\ Says(r, "end_turn") /\ UNCHANGED turn
  /\ UNCHANGED <<run, opened, cancelledSessions, reading, exited, since, cancels, command>>

\* The loop: the cancel is looked at before each sleep.
LookAtCancel(r) ==
  /\ ~exited /\ prompt[r].at = "waiting"
  /\ IF prompt[r].session \in cancelledSessions
     THEN At(r, "answered") /\ Says(r, "cancelled")
     ELSE At(r, "asking") /\ UNCHANGED answers
  /\ UNCHANGED <<run, turn, opened, cancelledSessions, reading, exited, since, cancels, command>>

\* get_turn: its answer, its failure, a failing hub, or pending until the timeout
PollTurn(r) ==
  /\ ~exited /\ prompt[r].at = "asking"
  /\ \/ /\ turn[r] = "pending" /\ prompt[r].polls < MaxPolls
        /\ prompt' = [prompt EXCEPT ![r].at = "waiting", ![r].polls = @ + 1] /\ UNCHANGED answers
     \/ /\ turn[r] = "pending" /\ At(r, "answered") /\ answers' = [answers EXCEPT ![r] = @ \cup {"late", "end_turn"}]
     \/ /\ turn[r] # "pending" /\ At(r, "answered") /\ answers' = [answers EXCEPT ![r] = @ \cup {turn[r], "end_turn"}]
     \/ At(r, "answered") /\ Says(r, "end_turn")
  /\ UNCHANGED <<run, turn, opened, cancelledSessions, reading, exited, since, cancels, command>>

---------------------------------------------------------------------------
(* run watch, say and terminate *)

\* A run is looked at first; cancel_run refuses one that has ended.
StartCommand(name) ==
  /\ command.at = "idle"
  /\ \/ /\ name # "watch" => run \notin EndedRuns
        /\ command' = [NoCommand EXCEPT !.name = name, !.at = "following", !.seen = run]
     \/ command' = [NoCommand EXCEPT !.name = name, !.at = "exited", !.seen = run, !.exit = 1]
  /\ UNCHANGED <<run, bridgeVars>>

\* _follow asks until _settled, for terminate until the run has ended, and with
\* --no-wait not at all.
HasSettled(name, status) ==
  \/ status \in EndedRuns \/ name = "terminate_no_wait"
  \/ name = "watch" /\ status = "WAITING_AT_GATE"

Follow ==
  /\ command.at = "following" /\ ~HasSettled(command.name, command.seen)
  /\ \/ command' = [command EXCEPT !.seen = run]
     \/ command' = [command EXCEPT !.at = "exited", !.exit = 1]
  /\ UNCHANGED <<run, bridgeVars>>

\* RUN_EXIT
RunExit(status) ==
  CASE status = "COMPLETED" -> 0
    [] status = "INTERRUPTED" -> 3
    [] status = "WAITING_AT_GATE" -> 4
    [] status = "CANCELLED" -> 6
    [] OTHER -> 1

RunExitOf(name, status) == RunExit(status)
\* terminate: a run that ended by itself, completed too, is not what was asked for.
ExitCode(name, status) ==
  IF name = "watch" THEN RunExit(status)
  ELSE IF status \notin EndedRuns \/ status = "CANCELLED" THEN 0
  ELSE IF RunExit(status) = 0 THEN 1 ELSE RunExit(status)

Finish ==
  /\ command.at = "following" /\ HasSettled(command.name, command.seen)
  /\ command' = [command EXCEPT !.at = "exited", !.exit = ExitCode(command.name, command.seen)]
  /\ UNCHANGED <<run, bridgeVars>>

\* run_say: ask_turn refuses a run that has ended; the turn is asked for until it
\* is no longer pending or the time is up.
Say ==
  /\ command.at = "idle"
  /\ \/ /\ run \notin EndedRuns
        /\ command' = [NoCommand EXCEPT !.name = "say", !.at = "saying", !.turn = "pending"]
     \/ command' = [NoCommand EXCEPT !.name = "say", !.at = "exited", !.exit = 1]
  /\ UNCHANGED <<run, bridgeVars>>

\* An answer exits 0; a failure, no answer in time and a failing hub do not.
HearAnswer ==
  /\ command.at = "saying"
  /\ \E exit \in {1} \cup (IF command.turn = "answer" THEN {0} ELSE {}) :
       command' = [command EXCEPT !.at = "exited", !.exit = exit]
  /\ UNCHANGED <<run, bridgeVars>>

---------------------------------------------------------------------------
(* The hub's side *)

\* The run moves; one that has failed or was interrupted may be retried.
RunMoves ==
  /\ run' \in CASE run = "SUBMITTED" -> {"RUNNING", "CANCELLED"}
                [] run \in {"RUNNING", "WAITING_AT_GATE"} -> Statuses \ {"SUBMITTED", run}
                [] run \in {"FAILED", "INTERRUPTED"} -> {"RUNNING"}
                [] OTHER -> {}
  /\ UNCHANGED <<bridgeVars, command>>

TurnMoves(r) ==
  /\ turn[r] = "pending"
  /\ turn' \in {[turn EXCEPT ![r] = "answer"], [turn EXCEPT ![r] = "failure"]}
  /\ UNCHANGED <<run, opened, cancelledSessions, prompt, reading, exited, answers, since, cancels, command>>

\* The turn that was said, while it is waited for.
SaidTurnMoves ==
  /\ command.at = "saying" /\ command.turn = "pending"
  /\ \E outcome \in {"answer", "failure"} : command' = [command EXCEPT !.turn = outcome]
  /\ UNCHANGED <<run, bridgeVars>>

RunsInit ==
  /\ run = "SUBMITTED"
  /\ turn = [r \in Requests |-> "none"]
  /\ opened = {} /\ cancelledSessions = {}
  /\ prompt = [r \in Requests |-> NoPrompt]
  /\ reading = TRUE /\ exited = FALSE
  /\ answers = [r \in Requests |-> {}] /\ since = [r \in Requests |-> FALSE]
  /\ cancels = 0 /\ command = NoCommand

PromptStep(r) == Post(r) \/ LookAtCancel(r) \/ PollTurn(r)

RunsNext ==
  \/ \E r \in Requests :
       \/ Simple(r) \/ NewSession(r) \/ PromptStep(r) \/ TurnMoves(r)
       \/ \E s \in AcpSessions : Prompt(r, s)
  \/ \E s \in AcpSessions : CancelPrompt(s)
  \/ EndOfInput \/ Exit
  \/ \E name \in {"watch", "terminate", "terminate_no_wait"} : StartCommand(name)
  \/ Follow \/ Finish \/ Say \/ HearAnswer
  \/ RunMoves \/ SaidTurnMoves

\* A prompt's thread runs; nothing makes the run, the turns or the client move.
RunsSpec ==
  /\ RunsInit /\ [][RunsNext]_runsVars
  /\ \A r \in Requests : WF_runsVars(PromptStep(r))

---------------------------------------------------------------------------
(* Properties *)

\* The values the bridge's and the commands' variables take.
RunsTypeOK ==
  /\ run \in Statuses /\ reading \in BOOLEAN /\ exited \in BOOLEAN /\ cancels \in Nat
  /\ turn \in [Requests -> {"none", "pending", "answer", "failure"}]
  /\ opened \subseteq AcpSessions /\ cancelledSessions \subseteq AcpSessions
  /\ prompt \in [Requests -> [at : {"unsent", "posting", "waiting", "asking", "answered"},
                              session : AcpSessions \cup {"none"}, polls : Nat]]
  /\ answers \in [Requests -> SUBSET {"result", "session", "error", "end_turn", "cancelled", "late", "none", "answer", "failure"}]
  /\ since \in [Requests -> BOOLEAN]
  /\ command \in CommandRecords

Final == {"result", "session", "error", "end_turn", "cancelled"}

\* What exit 0 says of a command, of a run that is now in this status.
DidAsAsked(c, status) ==
  /\ c.name = "watch" => status = "COMPLETED"
  /\ c.name = "terminate" => status = "CANCELLED"
  /\ c.name = "terminate_no_wait" => c.seen \notin EndedRuns \/ status = "CANCELLED"
  /\ c.name = "say" => c.turn = "answer"

\* A request has one response (_dispatch, _prompt); a prompt is answered as
\* cancelled only if its session was cancelled after it was read; the bridge leaves
\* no prompt it has read without its response (serve); and a command that exits 0
\* did what it was asked: the run it watched completed, the run it terminated was
\* cancelled, what it said was answered; one that did not wait may leave a run
\* behind that is still going, and no other (RUN_EXIT, run_terminate, run_say).
ClientsAreTold ==
  /\ \A r \in Requests :
       /\ Cardinality(answers[r] \cap Final) <= 1
       /\ "cancelled" \in answers[r] => since[r]
       /\ exited /\ prompt[r].at # "unsent" => answers[r] \cap Final # {}
  /\ command.at = "exited" /\ command.exit = 0 => DidAsAsked(command, run)

Answered(r) == prompt[r].at = "answered"

\* A prompt that was read is answered, whatever the run, the hub and the client do.
PromptsAnswered ==
  \A r \in Requests : (prompt[r].at = "posting") ~> Answered(r)
=============================================================================
