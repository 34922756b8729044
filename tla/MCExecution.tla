---------------------------- MODULE MCExecution -----------------------------
(***************************************************************************)
(* Small instances of what surrounds the runner of a run: the Track's      *)
(* store, the controller, the local and the Kubernetes workers, the        *)
(* command line's bridge to a run, and the lock of the catalog's sweeps.   *)
(*                                                                         *)
(* The components are checked one at a time: a behaviour is a behaviour of *)
(* the component it focuses on, and nothing else moves.                    *)
(***************************************************************************)
EXTENDS TrackStore, Controller, SweepLock, LocalWorkers, KubernetesWorkers, CliRuns, TLC

CONSTANT Focus       \* the components of the run
VARIABLE focus

(* TrackStore: a lock of its own for each run. *)
OwnLocks == [r \in Runs |-> r]

(* SweepLock: two sweeps of one replica and one of another. *)
Homes == [s \in Sweeps |-> IF s = "s3" THEN "b" ELSE "a"]

-----------------------------------------------------------------------------
executionVars == <<focus, vars, controllerVars, sweepVars, localVars, kubernetesVars, runsVars>>

ExecutionInit ==
  /\ focus \in Focus
  /\ Init /\ ControllerInit /\ SweepInit /\ LocalInit /\ KubernetesInit /\ RunsInit

TrackStep(A) ==
  focus = "track" /\ A /\ UNCHANGED <<focus, controllerVars, sweepVars, localVars, kubernetesVars, runsVars>>
ControllerStep(A) ==
  focus = "controller" /\ A /\ UNCHANGED <<focus, vars, sweepVars, localVars, kubernetesVars, runsVars>>
SweepStep(A) ==
  focus = "sweeps" /\ A /\ UNCHANGED <<focus, vars, controllerVars, localVars, kubernetesVars, runsVars>>
LocalStep(A) ==
  focus = "local" /\ A /\ UNCHANGED <<focus, vars, controllerVars, sweepVars, kubernetesVars, runsVars>>
KubernetesStep(A) ==
  focus = "kubernetes" /\ A /\ UNCHANGED <<focus, vars, controllerVars, sweepVars, localVars, runsVars>>
BridgeStep(A) ==
  focus = "bridge" /\ A /\ UNCHANGED <<focus, vars, controllerVars, sweepVars, localVars, kubernetesVars>>

ExecutionNext ==
  \/ TrackStep(Next)
  \/ ControllerStep(ControllerNext)
  \/ SweepStep(SweepNext)
  \/ LocalStep(LocalNext)
  \/ KubernetesStep(KubernetesNext)
  \/ BridgeStep(RunsNext)

(* The fairness each component states of its own steps; strong fairness is asked
   for only of the writer and the sweep that EverythingEnds watches, which is
   less than TrackStore and SweepLock state. *)
Watched == CHOOSE w \in Writers : TRUE
ExecutionFairness ==
  /\ SF_executionVars(TrackStep(TxStep(Watched)))
  /\ \A w \in Writers : WF_executionVars(TrackStep(TxStep(w)))
  /\ WF_executionVars(ControllerStep(Tick)) /\ WF_executionVars(ControllerStep(Advance))
  /\ WF_executionVars(ControllerStep(Cancel)) /\ WF_executionVars(ControllerStep(Deliver))
  /\ WF_executionVars(ControllerStep(Start)) /\ WF_executionVars(ControllerStep(Boot))
  /\ WF_executionVars(ControllerStep(cancelled /\ DriveEnd))
  /\ \A w \in Workers :
       WF_executionVars(LocalStep(LauncherStep(w))) /\ WF_executionVars(LocalStep(DieWithLauncher(w)))
  /\ \A r \in Requests : WF_executionVars(BridgeStep(PromptStep(r)))
  /\ \A s \in Sweeps :
       /\ WF_executionVars(SweepStep(Thread(s)))
       /\ WF_executionVars(SweepStep(Resume(s) \/ Drained(s) \/ release(s)))
  /\ SF_executionVars(SweepStep(SweepDone("s1")))

ExecutionSpec == ExecutionInit /\ [][ExecutionNext]_executionVars /\ ExecutionFairness

-----------------------------------------------------------------------------
(* What is checked of the components, each of its own behaviours; besides
   CursorNeverSkips and ImplementsLog of TrackStore, RunningIsDriven and
   TurnsInOrder of Controller, and StatementsUnderLock of SweepLock. *)

(* What is somebody's own is used for nobody else: a worker answers at its own
   port and leaves no process (LocalWorkers), a pod stays behind its policy
   (KubernetesWorkers), and a request of an ACP client has one true answer, its
   own (CliRuns). *)
HeldByItsOwner == WorkersAreOwn /\ WorkersAreContained /\ ClientsAreTold

(* Nothing waits for ever: an append ends (TrackStore), a submission is noticed
   and a recorded request to cancel ends the run (Controller), no process
   outlives its controller or its teardown (LocalWorkers), a prompt is answered
   (CliRuns), and a sweep's lock is freed (SweepLock).  One of each is watched:
   writers, workers, prompts and a replica's sweeps are alike. *)
EverythingEnds ==
  /\ CancelDelivered
  /\ ( \/ focus = "track" /\ pc[Watched] # "idle"
       \/ focus = "controller" /\ Unnoticed
       \/ focus = "local" /\ Condemned("w1")
       \/ focus = "bridge" /\ prompt["r1"].at = "posting"
       \/ focus = "sweeps" /\ task["s1"] = "await" )
     ~>
     ( /\ focus = "track" => pc[Watched] = "idle"
       /\ focus = "controller" => ~Unnoticed
       /\ focus = "local" => Over("w1")
       /\ focus = "bridge" => Answered("r1")
       /\ focus = "sweeps" => Freed("s1") )
=============================================================================
