----------------------------- MODULE SweepLock ------------------------------
(***************************************************************************)
(* The lock of a cog catalog sweep (cogs/indexer.py, cogs/catalog.py).     *)
(* Replicas sweep the registries in turn: a sweep takes a session-level    *)
(* Postgres advisory lock on a connection of its own and runs every        *)
(* statement on that connection.  The statements run on threads, the sweep *)
(* is a coroutine: when it is cancelled it waits for the running thread up *)
(* to a deadline, and past it hands the lock to a daemon thread that frees *)
(* it once the abandoned ones are done.                                    *)
(***************************************************************************)
CONSTANTS
  Sweeps,      \* the sweeps of a behaviour, each run at most once
  Replicas,
  Home,        \* [Sweeps -> Replicas]: the process a sweep runs in
  NoSweep

ASSUME HomeAssumption == Home \in [Sweeps -> Replicas] /\ NoSweep \notin Sweeps

VARIABLES
  task,      \* [Sweeps -> where the coroutine is]
  worker,    \* [Sweeps -> the thread it started last]
  dropped,   \* [Sweeps -> whether that thread is in _abandoned]
  late,      \* [Sweeps -> the state of its late-release thread]
  holder,    \* the sweep whose session holds the advisory lock
  session,   \* [Sweeps -> its lock connection]
  lockConn,  \* [Replicas -> the store's _lock_conn]
  stopping   \* the replicas that are shutting down

sweepVars == <<task, worker, dropped, late, holder, session, lockConn, stopping>>

\* "await" waits for the thread, "work" for the registry; "release" is
\* the start of _release.
Tasks == {"new", "await", "work", "release", "drain", "ended"}
Jobs == {"none", "enter", "store", "exit"}
Threads == [job : Jobs, state : {"running", "done", "failed"}, conn : Sweeps \cup {NoSweep}]
Sessions == {"none", "open", "lost", "returned"}

NoThread == [job |-> "none", state |-> "done", conn |-> NoSweep]

SweepTypeOK ==
  /\ task \in [Sweeps -> Tasks]
  /\ worker \in [Sweeps -> Threads]
  /\ dropped \in [Sweeps -> BOOLEAN]
  /\ late \in [Sweeps -> {"none", "waiting", "done"}]
  /\ holder \in Sweeps \cup {NoSweep}
  /\ session \in [Sweeps -> Sessions]
  /\ lockConn \in [Replicas -> Sweeps \cup {NoSweep}]
  /\ stopping \subseteq Replicas

SweepInit ==
  /\ task = [w \in Sweeps |-> "new"]
  /\ worker = [w \in Sweeps |-> NoThread]
  /\ dropped = [w \in Sweeps |-> FALSE]
  /\ late = [w \in Sweeps |-> "none"]
  /\ holder = NoSweep
  /\ session = [w \in Sweeps |-> "none"]
  /\ lockConn = [r \in Replicas |-> NoSweep]
  /\ stopping = {}

Running(w) == worker[w].state = "running"

MoveTo(w, t) == task' = [task EXCEPT ![w] = t]

\* _on_thread: submit a job and wait for it.
OnThread(w, job, conn) ==
  /\ worker' = [worker EXCEPT ![w] = [job |-> job, state |-> "running", conn |-> conn]]
  /\ MoveTo(w, "await")

Finished(w, state) == worker' = [worker EXCEPT ![w].state = state]

---------------------------------------------------------------------------
(* sweep *)

\* One sweep task per process: run() starts the next when the last has ended,
\* and none after a cancellation.
StartSweep(w) ==
  /\ task[w] = "new" /\ Home[w] \notin stopping
  /\ \A v \in Sweeps : Home[v] = Home[w] => task[v] \in {"new", "ended"}
  /\ OnThread(w, "enter", NoSweep)
  /\ UNCHANGED <<dropped, late, holder, session, lockConn, stopping>>

\* lock.__enter__: a connection, pg_try_advisory_lock, and the connection
\* becomes the store's if the lock was free.
EnterLock(w) ==
  /\ worker[w].job = "enter" /\ Running(w)
  /\ session' = [session EXCEPT ![w] = "open"]
  /\ \/ /\ holder = NoSweep
        /\ holder' = w
        /\ lockConn' = [lockConn EXCEPT ![Home[w]] = w]
     \/ /\ holder # NoSweep
        /\ UNCHANGED <<holder, lockConn, stopping>>
  /\ Finished(w, "done")
  /\ UNCHANGED <<task, dropped, late, stopping>>

\* No connection could be had.
EnterFails(w) ==
  /\ worker[w].job = "enter" /\ Running(w)
  /\ session' = [session EXCEPT ![w] = "returned"]
  /\ Finished(w, "failed")
  /\ UNCHANGED <<task, dropped, late, holder, lockConn, stopping>>

\* The awaited thread is done: the sweep goes on under the lock, or is locked
\* out, or the statement failed; a release that is done ends it.
Resume(w) ==
  /\ task[w] = "await" /\ ~Running(w)
  /\ IF worker[w].job = "exit" \/ (worker[w].job = "enter" /\ worker[w].state = "failed")
     THEN MoveTo(w, "ended")
     ELSE IF worker[w].state = "done" /\ lockConn[Home[w]] = w THEN MoveTo(w, "work")
          ELSE MoveTo(w, "release")
  /\ UNCHANGED <<worker, dropped, late, holder, session, lockConn, stopping>>

\* A statement of the sweep: known, upsert, update_tags, mark_removed.  The
\* thread takes the store's lock connection, or one of its own.
CallStoreOnThread(w) ==
  /\ task[w] = "work"
  /\ OnThread(w, "store", lockConn[Home[w]])
  /\ UNCHANGED <<dropped, late, holder, session, lockConn, stopping>>

\* The statement commits, on a session that is alive, or raises.
StoreDone(w) ==
  /\ worker[w].job = "store" /\ Running(w)
  /\ \/ worker[w].conn # NoSweep /\ session[worker[w].conn] # "lost" /\ Finished(w, "done")
     \/ Finished(w, "failed")
  /\ UNCHANGED <<task, dropped, late, holder, session, lockConn, stopping>>

SweepDone(w) ==
  /\ task[w] = "work"
  /\ MoveTo(w, "release")
  /\ UNCHANGED <<worker, dropped, late, holder, session, lockConn, stopping>>

---------------------------------------------------------------------------
(* Cancellation, drain and release. *)

\* The lifespan ends and cancels the task where it awaits: a thread is drained
\* first.
CancelSweep(w) ==
  /\ Home[w] \notin stopping
  /\ stopping' = stopping \cup {Home[w]}
  /\ \/ task[w] = "await" /\ MoveTo(w, "drain")
     \/ task[w] = "work" /\ MoveTo(w, "release")
  /\ UNCHANGED <<worker, dropped, late, holder, session, lockConn>>

\* Whatever the thread was for, _release comes next; a drained release is
\* itself the end.
AfterDrain(w) == IF worker[w].job = "exit" THEN MoveTo(w, "ended") ELSE MoveTo(w, "release")

Drained(w) ==
  /\ task[w] = "drain" /\ ~Running(w)
  /\ AfterDrain(w)
  /\ UNCHANGED <<worker, dropped, late, holder, session, lockConn, stopping>>

\* The deadline passes with the thread still running.  An abandoned release
\* still frees the lock when it gets through: _hand_off(None, ...) only waits.
DrainExpired(w) ==
  /\ task[w] = "drain" /\ Running(w)
  /\ dropped' = [dropped EXCEPT ![w] = TRUE]
  /\ AfterDrain(w)
  /\ UNCHANGED <<worker, late, holder, session, lockConn, stopping>>

\* lock.__exit__: the store forgets the connection, the lock is freed and the
\* connection goes back to the pool; one that cannot be cleaned up is closed,
\* and the server frees the lock with the session.
ExitLock(w) ==
  /\ lockConn' = [r \in Replicas |-> IF lockConn[r] = w THEN NoSweep ELSE lockConn[r]]
  /\ holder' = IF holder = w THEN NoSweep ELSE holder
  /\ session' = [session EXCEPT ![w] = "returned"]

\* A release that does not look at _abandoned.
ReleaseRegardless(w) ==
  /\ task[w] = "release"
  /\ ExitLock(w)
  /\ MoveTo(w, "ended")
  /\ UNCHANGED <<worker, dropped, late, stopping>>

release(w) ==
  /\ task[w] = "release"
  /\ \/ /\ dropped[w]
        /\ late' = [late EXCEPT ![w] = "waiting"]
        /\ MoveTo(w, "ended")
        /\ UNCHANGED worker
     \/ /\ ~dropped[w]
        /\ OnThread(w, "exit", NoSweep)
        /\ UNCHANGED late
  /\ UNCHANGED <<dropped, holder, session, lockConn, stopping>>

ExitOnThread(w) ==
  /\ worker[w].job = "exit" /\ Running(w)
  /\ ExitLock(w)
  /\ Finished(w, "done")
  /\ UNCHANGED <<task, dropped, late, stopping>>

\* A daemon that waits for the threads and leaves the lock alone.
WaitOnly(w) ==
  /\ late[w] = "waiting" /\ ~Running(w)
  /\ late' = [late EXCEPT ![w] = "done"]
  /\ UNCHANGED <<task, worker, dropped, holder, session, lockConn, stopping>>

\* The daemon thread of _hand_off: the abandoned threads first, then the lock.
ReleaseLate(w) ==
  /\ late[w] = "waiting" /\ ~Running(w)
  /\ ExitLock(w)
  /\ late' = [late EXCEPT ![w] = "done"]
  /\ UNCHANGED <<task, worker, dropped, stopping>>

\* The server drops a session, and with it the lock.
SessionLost(w) ==
  /\ session[w] = "open"
  /\ session' = [session EXCEPT ![w] = "lost"]
  /\ holder' = IF holder = w THEN NoSweep ELSE holder
  /\ UNCHANGED <<task, worker, dropped, late, lockConn, stopping>>

\* The process ends, past its outer deadline or killed: its threads and
\* sessions go with it.
ProcessExit(r) ==
  LET here == {w \in Sweeps : Home[w] = r} IN
  /\ \E w \in here : task[w] # "new"
  /\ stopping' = stopping \cup {r}
  /\ task' = [w \in Sweeps |-> IF w \in here THEN "ended" ELSE task[w]]
  /\ worker' = [w \in Sweeps |-> IF w \in here THEN NoThread ELSE worker[w]]
  /\ late' = [w \in Sweeps |-> IF w \in here THEN "none" ELSE late[w]]
  /\ session' = [w \in Sweeps |-> IF w \in here THEN "returned" ELSE session[w]]
  /\ lockConn' = [lockConn EXCEPT ![r] = NoSweep]
  /\ holder' = IF holder \in here THEN NoSweep ELSE holder
  /\ UNCHANGED dropped

---------------------------------------------------------------------------
Thread(w) == EnterLock(w) \/ EnterFails(w) \/ StoreDone(w) \/ ExitOnThread(w) \/ ReleaseLate(w)

Coroutine(w) ==
  \/ StartSweep(w)
  \/ Resume(w)
  \/ CallStoreOnThread(w)
  \/ SweepDone(w)
  \/ CancelSweep(w)
  \/ Drained(w)
  \/ DrainExpired(w)
  \/ release(w)

SweepNext ==
  \/ \E w \in Sweeps : Thread(w) \/ Coroutine(w) \/ SessionLost(w)
  \/ \E r \in Replicas : ProcessExit(r)

\* Statements end (SWEEP_STATEMENT_TIMEOUT_SECONDS), threads and the event
\* loop run on, and a sweep does not call the store for ever.
SweepFairness ==
  \A w \in Sweeps :
    /\ WF_sweepVars(Thread(w))
    /\ WF_sweepVars(Resume(w) \/ Drained(w) \/ release(w))
    /\ SF_sweepVars(SweepDone(w))

SweepSpec == SweepInit /\ [][SweepNext]_sweepVars /\ SweepFairness

---------------------------------------------------------------------------
\* A statement of a sweep that can still commit runs under that sweep's own
\* lock: no two replicas write the catalog at one time, also when a sweep is
\* cancelled, its thread outlives the drain deadline and its lock is freed late
\* (_release, _hand_off, _sweep_connection).
StatementsUnderLock ==
  \A w \in Sweeps :
    worker[w].job = "store" /\ Running(w) =>
      worker[w].conn = w /\ (holder = w \/ session[w] = "lost")

\* The lock never outlives the sweep: whether it completed, failed, was locked
\* out or was cancelled in any phase, its connection is given back in the end, and
\* the store does not keep the connection of a sweep that is over.
Freed(w) == holder # w /\ session[w] \in {"returned", "lost"}

LockIsFreed == \A w \in Sweeps : task[w] = "await" ~> Freed(w)
=============================================================================
