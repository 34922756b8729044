---------------------------- MODULE LocalWorkers ----------------------------
(***************************************************************************)
(* The local executor (locations/local.py), its package source             *)
(* (packages.py) and the launcher that stands between the controller and a *)
(* worker (launcher.py).                                                   *)
(*                                                                         *)
(* Each materialization is a thread of the controller, a launcher process  *)
(* and a worker process.  The controller may die, a launcher may be killed,*)
(* a worker may end or ignore SIGTERM at any time.  The worker's process   *)
(* group is one process here: what pixi starts for the Cog dies with it.   *)
(* The kernel (pipes, ports, PR_SET_PDEATHSIG on Linux) is external.       *)
(***************************************************************************)
EXTENDS Naturals, FiniteSets, Sequences, SequencesExt

CONSTANTS
  Workers,     \* materializations
  Ports,       \* loopback ports the kernel hands out
  MaxKilled,   \* launchers killed from outside: bound
  None

ASSUME LocalAssumption == None \notin Workers /\ None \notin Ports

VARIABLES
  up,         \* the controller is alive
  at,         \* per worker: where its materialize or teardown is
  port,       \* per worker: the port it was given
  ports,      \* _ports: per port, the worker whose launcher holds it
  starting,   \* the holder of _lock_start
  lifeline,   \* per worker: the launcher's stdin is open
  launcher,   \* per worker: its launcher process
  child,      \* per worker: its worker process
  answered,   \* per worker: who answered /healthz, its launcher being alive (history)
  killed      \* launchers killed so far
localVars == <<up, at, port, ports, starting, lifeline, launcher, child, answered, killed>>

Exited(w) == launcher[w] = "exited"
ServingOn(p) == {w \in Workers : child[w] = "serving" /\ port[w] = p}
GoesTo(w, stage) == at' = [at EXCEPT ![w] = stage]

---------------------------------------------------------------------------
(* packages.py: a package of that name under each root, in order *)

Contents == {"absent", "outside", "unlocked", "noServe", "sound"}

\* resolve: the first root that has a manifest is the answer, whatever it holds.
Resolve(dirs) ==
  LET found == SelectSeq(dirs, LAMBDA d : d # "absent")
  IN  IF found = <<>> THEN "notFound"
      ELSE CASE Head(found) = "sound" -> "package"
             [] Head(found) = "noServe" -> "notFound"
             [] OTHER -> "refused"

---------------------------------------------------------------------------
(* materialize *)

MaterializeLocal(w) ==
  /\ up /\ at[w] = "idle"
  /\ \E dirs \in [1..2 -> Contents] :
       GoesTo(w, IF Resolve(dirs) = "package" THEN "resolved" ELSE "refused")
  /\ UNCHANGED <<up, port, ports, starting, lifeline, launcher, child, answered, killed>>

WithoutStartLock(w) == up /\ at[w] = "resolved" /\ UNCHANGED starting
LockStart(w) == up /\ at[w] = "resolved" /\ starting = None /\ starting' = w

Enter(w) ==
  /\ LockStart(w)
  /\ GoesTo(w, "starting")
  /\ UNCHANGED <<up, port, ports, lifeline, launcher, child, answered, killed>>

NothingTaken(p) == {}
\* The launchers of _ports that have not exited and hold p.
Taken(p) == {w \in Workers : ports[p] = w /\ ~Exited(w)}

\* _port: one the kernel finds free and no living launcher was given.
Probe(w) ==
  /\ up /\ at[w] = "starting"
  /\ ports' = [p \in Ports |-> IF ports[p] # None /\ Exited(ports[p]) THEN None ELSE ports[p]]
  /\ \E p \in Ports :
       /\ ServingOn(p) = {} /\ Taken(p) = {}
       /\ port' = [port EXCEPT ![w] = p]
  /\ GoesTo(w, "probed")
  /\ UNCHANGED <<up, starting, lifeline, launcher, child, answered, killed>>

\* 64 probes without one, or the launcher cannot be run: _lock_start is let go.
StartFails(w) ==
  /\ up /\ at[w] \in {"starting", "probed"}
  /\ starting' = (IF starting = w THEN None ELSE starting)
  /\ GoesTo(w, "refused")
  /\ UNCHANGED <<up, port, ports, lifeline, launcher, child, answered, killed>>

\* _launch, the entry in _ports and the end of _lock_start
Launch(w) ==
  /\ up /\ at[w] = "probed"
  /\ launcher' = [launcher EXCEPT ![w] = "forking"]
  /\ lifeline' = [lifeline EXCEPT ![w] = TRUE]
  /\ ports' = [ports EXCEPT ![port[w]] = w]
  /\ starting' = (IF starting = w THEN None ELSE starting)
  /\ GoesTo(w, "launched")
  /\ UNCHANGED <<up, port, child, answered, killed>>

\* _hand_over: the launcher's line, with the process group or with an error
ReadLine(w) ==
  /\ up /\ at[w] = "launched"
  /\ \/ launcher[w] \in {"watching", "asked", "killing"} /\ GoesTo(w, "polling")
     \/ Exited(w) /\ at' \in {[at EXCEPT ![w] = "polling"], [at EXCEPT ![w] = "stopping"]}
  /\ UNCHANGED <<up, port, ports, starting, lifeline, launcher, child, answered, killed>>

\* _wait_ready: the launcher's poll, the request, the deadline
PollLauncher(w) ==
  /\ up /\ at[w] = "polling"
  /\ GoesTo(w, IF Exited(w) THEN "stopping" ELSE "asking")
  /\ UNCHANGED <<up, port, ports, starting, lifeline, launcher, child, answered, killed>>

Healthz(w) ==
  /\ up /\ at[w] = "asking"
  /\ \E u \in ServingOn(port[w]) :
       answered' = [answered EXCEPT ![w] = IF Exited(w) THEN @ ELSE u]
  /\ GoesTo(w, "ready")
  /\ UNCHANGED <<up, port, ports, starting, lifeline, launcher, child, killed>>

NotReady(w) ==
  /\ up /\ at[w] = "asking"
  /\ \/ GoesTo(w, "polling")
     \/ GoesTo(w, "stopping")
  /\ UNCHANGED <<up, port, ports, starting, lifeline, launcher, child, answered, killed>>

---------------------------------------------------------------------------
(* teardown, and a materialization that fails: _stop *)

TeardownLocal(w) ==
  /\ up /\ at[w] = "ready"
  /\ GoesTo(w, "stopping")
  /\ UNCHANGED <<up, port, ports, starting, lifeline, launcher, child, answered, killed>>

KeepStreams(w) == UNCHANGED lifeline
CloseStreams(w) == lifeline' = [lifeline EXCEPT ![w] = FALSE]

StopWorker(w) ==
  /\ up /\ at[w] = "stopping"
  /\ CloseStreams(w)
  /\ GoesTo(w, "waiting")
  /\ UNCHANGED <<up, port, ports, starting, launcher, child, answered, killed>>

\* launcher.wait returns, or times out and both are killed.
Stopped(w) ==
  /\ up /\ at[w] = "waiting" /\ Exited(w)
  /\ GoesTo(w, "stopped")
  /\ UNCHANGED <<up, port, ports, starting, lifeline, launcher, child, answered, killed>>

Dies(w) == IF child[w] \in {"starting", "serving"} THEN "gone" ELSE child[w]

StopTimesOut(w) ==
  /\ up /\ at[w] = "waiting" /\ ~Exited(w) /\ killed < MaxKilled
  /\ killed' = killed + 1
  /\ launcher' = [launcher EXCEPT ![w] = "exited"]
  /\ child' = [child EXCEPT ![w] = Dies(w)]
  /\ GoesTo(w, "stopped")
  /\ UNCHANGED <<up, port, ports, starting, lifeline, answered>>

---------------------------------------------------------------------------
(* launcher.py *)

\* Popen: the worker process, or OSError and the error line
Fork(w) ==
  /\ launcher[w] = "forking" /\ child[w] = "none"
  /\ \/ child' = [child EXCEPT ![w] = "forked"] /\ UNCHANGED launcher
     \/ launcher' = [launcher EXCEPT ![w] = "exited"] /\ UNCHANGED child
  /\ UNCHANGED <<up, at, port, ports, starting, lifeline, answered, killed>>

\* _die_with_launcher: the kernel is asked, and then the parent is looked at.
ArmUnseen(w) == child' = [child EXCEPT ![w] = "starting"]
Arm(w) == child' = [child EXCEPT ![w] = IF Exited(w) THEN "gone" ELSE "starting"]

DieWithLauncher(w) ==
  /\ child[w] = "forked"
  /\ Arm(w)
  /\ UNCHANGED <<up, at, port, ports, starting, lifeline, launcher, answered, killed>>

\* Popen returns: the pid line is written.
SayPid(w) ==
  /\ launcher[w] = "forking" /\ child[w] \in {"starting", "serving", "gone"}
  /\ launcher' = [launcher EXCEPT ![w] = "watching"]
  /\ UNCHANGED <<up, at, port, ports, starting, lifeline, child, answered, killed>>

ChildOnly(w) == child[w] = "gone"
\* The loop ends: the child is gone or the lifeline is at its end.
LifelineEnds(w) == child[w] = "gone" \/ ~lifeline[w]

\* _kill_group: SIGTERM to the group, the grace, SIGKILL
Ask(w) ==
  /\ launcher[w] = "watching" /\ LifelineEnds(w)
  /\ launcher' = [launcher EXCEPT ![w] = "asked"]
  /\ UNCHANGED <<up, at, port, ports, starting, lifeline, child, answered, killed>>

KillGroup(w) ==
  /\ launcher[w] = "asked" /\ child[w] # "gone"
  /\ launcher' = [launcher EXCEPT ![w] = "killing"]
  /\ child' = [child EXCEPT ![w] = "gone"]
  /\ UNCHANGED <<up, at, port, ports, starting, lifeline, answered, killed>>

LauncherExits(w) ==
  /\ launcher[w] \in {"asked", "killing"} /\ child[w] = "gone"
  /\ launcher' = [launcher EXCEPT ![w] = "exited"]
  /\ UNCHANGED <<up, at, port, ports, starting, lifeline, child, answered, killed>>

---------------------------------------------------------------------------
(* The worker and the faults *)

\* It binds its port, or finds it in use and ends.
Bind(w) ==
  /\ child[w] = "starting"
  /\ child' = [child EXCEPT ![w] = IF ServingOn(port[w]) = {} THEN "serving" ELSE "gone"]
  /\ UNCHANGED <<up, at, port, ports, starting, lifeline, launcher, answered, killed>>

ChildEnds(w) ==
  /\ child[w] \in {"starting", "serving"}
  /\ child' = [child EXCEPT ![w] = "gone"]
  /\ UNCHANGED <<up, at, port, ports, starting, lifeline, launcher, answered, killed>>

\* The launcher is killed: the kernel kills a worker that asked for it.
LauncherKilled(w) ==
  /\ launcher[w] \notin {"none", "exited"} /\ killed < MaxKilled
  /\ killed' = killed + 1
  /\ launcher' = [launcher EXCEPT ![w] = "exited"]
  /\ child' = [child EXCEPT ![w] = Dies(w)]
  /\ UNCHANGED <<up, at, port, ports, starting, lifeline, answered>>

\* The controller dies: the kernel closes every lifeline.
ControllerDies ==
  /\ up
  /\ up' = FALSE
  /\ lifeline' = [w \in Workers |-> FALSE]
  /\ starting' = None
  /\ UNCHANGED <<at, port, ports, launcher, child, answered, killed>>

LocalInit ==
  /\ up = TRUE
  /\ at = [w \in Workers |-> "idle"]
  /\ port = [w \in Workers |-> None]
  /\ ports = [p \in Ports |-> None]
  /\ starting = None
  /\ lifeline = [w \in Workers |-> FALSE]
  /\ launcher = [w \in Workers |-> "none"]
  /\ child = [w \in Workers |-> "none"]
  /\ answered = [w \in Workers |-> None]
  /\ killed = 0

LauncherStep(w) == SayPid(w) \/ Ask(w) \/ KillGroup(w) \/ LauncherExits(w) \/ Fork(w)

LocalNext ==
  \/ \E w \in Workers :
       \/ MaterializeLocal(w) \/ Enter(w) \/ Probe(w) \/ StartFails(w) \/ Launch(w)
       \/ ReadLine(w) \/ PollLauncher(w) \/ Healthz(w) \/ NotReady(w)
       \/ TeardownLocal(w) \/ StopWorker(w) \/ Stopped(w) \/ StopTimesOut(w)
       \/ LauncherStep(w) \/ DieWithLauncher(w) \/ Bind(w) \/ ChildEnds(w) \/ LauncherKilled(w)
  \/ ControllerDies

\* The kernel runs every process: a launcher and a new worker process take their
\* next step.  Nothing makes the controller's threads, or the Cog, act.
LocalSpec ==
  /\ LocalInit /\ [][LocalNext]_localVars
  /\ \A w \in Workers : WF_localVars(LauncherStep(w)) /\ WF_localVars(DieWithLauncher(w))

---------------------------------------------------------------------------
(* Properties *)

\* The values the executor's variables take.
LocalTypeOK ==
  /\ up \in BOOLEAN /\ lifeline \in [Workers -> BOOLEAN] /\ killed \in Nat
  /\ at \in [Workers -> {"idle", "resolved", "refused", "starting", "probed", "launched", "polling", "asking",
                        "ready", "stopping", "waiting", "stopped"}]
  /\ port \in [Workers -> Ports \cup {None}] /\ ports \in [Ports -> Workers \cup {None}]
  /\ starting \in Workers \cup {None}
  /\ launcher \in [Workers -> {"none", "forking", "watching", "asked", "killing", "exited"}]
  /\ child \in [Workers -> {"none", "forked", "starting", "serving", "gone"}]
  /\ answered \in [Workers -> Workers \cup {None}]

Over(w) == launcher[w] \in {"none", "exited"} /\ child[w] \in {"none", "gone"}

\* A worker handed over is the one that answered: while a launcher lives, no other
\* worker of this controller is behind its port (_port, _ports, _lock_start); and
\* a teardown or a failed start that has returned leaves no process behind, but
\* for one that has not yet looked at its parent and will end itself (_stop).
WorkersAreOwn ==
  \A w \in Workers :
    /\ answered[w] \in {None, w}
    /\ at[w] = "stopped" => Exited(w) /\ child[w] \in {"none", "forked", "gone"}

\* A worker does not outlive its controller, nor its teardown, however either
\* ends and whichever process is killed first (launcher.py).
Condemned(w) == ~up \/ at[w] \in {"waiting", "stopped"}

NoneOutlives == \A w \in Workers : Condemned(w) ~> Over(w)
=============================================================================
