-------------------------------- MODULE Tasks -------------------------------
(***************************************************************************)
(* An owner's scheduled tasks (tasks/store.py, routers/tasks.py): the      *)
(* tasks, their runs and the notifications are one document per owner,     *)
(* read and rewritten whole.  Devices of the owner, on any replica, change *)
(* it concurrently; a change takes the document's row lock from its read   *)
(* to its write.                                                           *)
(***************************************************************************)
EXTENDS Integers, Sequences, FiniteSets, SequencesExt

CONSTANTS
  TaskIds, RunIds, OccurrenceKeys,   \* chosen by the devices
  Devices,                           \* the requests in flight
  Times,                             \* created_at values a device may send
  MaxRetained,                       \* MAX_RETAINED_RUNS_PER_TASK
  MaxRevision                        \* bound on the patches of a task

Absent == [rev |-> 0, schedule |-> 0]
NoDevice == "no device"

VARIABLES
  doc,        \* nexus_task_state.payload
  rowLock,    \* the request that holds the row FOR UPDATE
  change,     \* [Devices -> the operation and the document it read]
  expired,    \* the runs whose expires_at has passed
  patched,    \* [TaskIds -> patches accepted since it was created] (history)
  answered    \* the runs returned for an occurrence that is still stored (history)

taskVars == <<doc, rowLock, change, expired, patched, answered>>

Idle == [op |-> "none"]
Occurrences == TaskIds \X OccurrenceKeys

TasksInit ==
  /\ doc = [tasks |-> [t \in TaskIds |-> Absent], runs |-> <<>>, notes |-> {}]
  /\ rowLock = NoDevice
  /\ change = [d \in Devices |-> Idle]
  /\ expired = {}
  /\ patched = [t \in TaskIds |-> 0]
  /\ answered = [o \in Occurrences |-> {}]

---------------------------------------------------------------------------
(* The operations of InMemoryTaskStore on a document *)

Has(s, t) == s.tasks[t] # Absent
RunWith(s, id) == SelectSeq(s.runs, LAMBDA run : run.id = id)
ForOccurrence(s, t, o) == SelectSeq(s.runs, LAMBDA run : run.task = t /\ run.occ = o)

CreateTask(s, t) ==
  IF Has(s, t) THEN s ELSE [s EXCEPT !.tasks[t] = [rev |-> 1, schedule |-> 1]]

Accepts(s, t, rev) == Has(s, t) /\ s.tasks[t].rev = rev

\* A patch names the revision it was made against.
UpdateTask(s, t, rev, reschedules) ==
  IF ~Accepts(s, t, rev) THEN s
  ELSE [s EXCEPT !.tasks[t] = [rev |-> @.rev + 1, schedule |-> @.schedule + (IF reschedules THEN 1 ELSE 0)]]

DeleteTask(s, t, history) ==
  IF ~Has(s, t) THEN s
  ELSE [tasks |-> [s.tasks EXCEPT ![t] = Absent],
        runs  |-> IF history THEN SelectSeq(s.runs, LAMBDA run : run.task # t) ELSE s.runs,
        notes |-> IF history THEN {n \in s.notes : n.task # t} ELSE s.notes]

\* The task's newest runs by created_at; of equals, the first stored stay.
Newer(s, i, j) == s.runs[i].at > s.runs[j].at \/ (s.runs[i].at = s.runs[j].at /\ i < j)
Retained(s, t) ==
  LET Ours == {i \in DOMAIN s.runs : s.runs[i].task = t}
      kept == {i \in DOMAIN s.runs : i \in Ours => Cardinality({j \in Ours : Newer(s, j, i)}) < MaxRetained}
  IN [s EXCEPT !.runs = SelectSeq(s.runs, LAMBDA run : \E i \in kept : s.runs[i] = run)]

\* An occurrence that has a run answers with it.
ForgetfulCreateRun(s, t, id, o, at) ==
  IF ~Has(s, t) \/ RunWith(s, id) # <<>> THEN s
  ELSE Retained([s EXCEPT !.runs = Append(@, [id |-> id, task |-> t, occ |-> o, at |-> at, status |-> "scheduled"])], t)
CreateRun(s, t, id, o, at) ==
  IF ~Has(s, t) \/ ForOccurrence(s, t, o) # <<>> \/ RunWith(s, id) # <<>> THEN s
  ELSE Retained([s EXCEPT !.runs = Append(@, [id |-> id, task |-> t, occ |-> o, at |-> at, status |-> "scheduled"])], t)

Announced == {"running", "succeeded", "failed", "needs_reauthorization"}

\* A change of status is announced; a repeated patch is not.
UpdateRun(s, id, status) ==
  IF RunWith(s, id) = <<>> THEN s
  ELSE LET run == RunWith(s, id)[1] IN
       [s EXCEPT !.runs = [i \in DOMAIN @ |-> IF @[i].id = id THEN [@[i] EXCEPT !.status = status] ELSE @[i]],
                 !.notes = IF status # run.status /\ status \in Announced
                           THEN @ \cup {[task |-> run.task, run |-> id, kind |-> status]} ELSE @]

\* Listing drops what has expired, with its notifications.
PruneExpiredRuns(s) ==
  LET gone == {run.id : run \in {r \in ToSet(s.runs) : r.id \in expired}} IN
  [s EXCEPT !.runs = SelectSeq(@, LAMBDA run : run.id \notin gone),
            !.notes = {n \in @ : n.run \notin gone}]

Statuses == {"running", "succeeded"}

Operations ==
       [op : {"create_task"}, task : TaskIds]
  \cup [op : {"update_task"}, task : TaskIds, rev : 1..(MaxRevision - 1), reschedules : BOOLEAN]
  \cup [op : {"delete_task"}, task : TaskIds, history : BOOLEAN]
  \cup [op : {"create_run"}, task : TaskIds, id : RunIds, occ : OccurrenceKeys, at : Times]
  \cup [op : {"update_run"}, id : RunIds, status : Statuses]
  \cup [op : {"list_runs"}]

Apply(s, c) ==
  CASE c.op = "create_task" -> CreateTask(s, c.task)
    [] c.op = "update_task" -> UpdateTask(s, c.task, c.rev, c.reschedules)
    [] c.op = "delete_task" -> DeleteTask(s, c.task, c.history)
    [] c.op = "create_run"  -> CreateRun(s, c.task, c.id, c.occ, c.at)
    [] c.op = "update_run"  -> UpdateRun(s, c.id, c.status)
    [] c.op = "list_runs"   -> PruneExpiredRuns(s)

---------------------------------------------------------------------------
(* PostgresTaskStore._with_state *)

\* SELECT ... FOR UPDATE: the row is read under its lock.
LoadUnlocked(d, op) ==
  /\ change[d] = Idle
  /\ change' = [change EXCEPT ![d] = [op |-> "apply", call |-> op, read |-> doc]]
  /\ rowLock' = d
  /\ UNCHANGED <<doc, expired, patched, answered>>
LoadForUpdate(d, op) ==
  /\ change[d] = Idle /\ rowLock = NoDevice
  /\ change' = [change EXCEPT ![d] = [op |-> "apply", call |-> op, read |-> doc]]
  /\ rowLock' = d
  /\ UNCHANGED <<doc, expired, patched, answered>>

Stored(s, o) == {run.id : run \in {r \in ToSet(s.runs) : <<r.task, r.occ>> = o}}

\* The operation runs on the document that was read and the result replaces it.
WriteBack(d) ==
  LET c == change[d].call
      s == change[d].read
      after == Apply(s, c)
      answer == IF c.op = "create_run" /\ Has(s, c.task)
                THEN Stored(CreateRun(s, c.task, c.id, c.occ, c.at), <<c.task, c.occ>>) ELSE {}
  IN
  /\ change[d].op = "apply"
  /\ doc' = after
  /\ patched' = CASE c.op = "update_task" /\ Accepts(s, c.task, c.rev) -> [patched EXCEPT ![c.task] = @ + 1]
                  [] c.op = "create_task" /\ ~Has(s, c.task) -> [patched EXCEPT ![c.task] = 0]
                  [] OTHER -> patched
  /\ answered' = [o \in Occurrences |->
                    IF Stored(s, o) # {} /\ Stored(after, o) = {} THEN {}
                    ELSE IF c.op = "create_run" /\ o = <<c.task, c.occ>> THEN answered[o] \cup answer
                    ELSE answered[o]]
  /\ change' = [change EXCEPT ![d] = Idle]
  /\ rowLock' = NoDevice
  /\ expired' = expired \cap {run.id : run \in ToSet(after.runs)}

\* The transaction of a request that dies is rolled back.
Abort(d) ==
  /\ change[d].op = "apply"
  /\ change' = [change EXCEPT ![d] = Idle]
  /\ rowLock' = NoDevice
  /\ UNCHANGED <<doc, expired, patched, answered>>

RunExpires ==
  /\ \E run \in ToSet(doc.runs) : run.id \notin expired /\ expired' = expired \cup {run.id}
  /\ UNCHANGED <<doc, rowLock, change, patched, answered>>

TasksNext ==
  \/ \E d \in Devices : WriteBack(d) \/ Abort(d) \/ \E op \in Operations : LoadForUpdate(d, op)
  \/ RunExpires

TasksSpec == TasksInit /\ [][TasksNext]_taskVars

---------------------------------------------------------------------------
(* Properties *)

\* The document's lock (PostgresTaskStore): no accepted patch is lost to a
\* concurrent rewrite of the whole document, so a task's revision counts
\* the patches it accepted, whatever else was written meanwhile.
NoLostPatch == \A t \in TaskIds : Has(doc, t) => doc.tasks[t].rev = 1 + patched[t]

\* A device that retries an occurrence is not given a second run (create_run):
\* while a run of the occurrence is stored every answer names that one, and
\* only expiry, retention or deletion makes room for another.
OccurrenceRunsOnce ==
  \A o \in Occurrences : Cardinality(Stored(doc, o)) <= 1 /\ Cardinality(answered[o]) <= 1
=============================================================================
