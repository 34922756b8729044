------------------------------ MODULE CogIndex ------------------------------
(***************************************************************************)
(* The cog catalog and the sweeps that keep it (cogs/indexer.py,           *)
(* cogs/catalog.py).  A sweep lists the repositories of a registry, then   *)
(* the artifacts of each, compares them with the rows it knows, reads the  *)
(* ones it has not read (a bounded number, old failures among them), and   *)
(* marks what the listing no longer has as removed.  The registry changes  *)
(* meanwhile, listings and reads fail, a sweep is cancelled between any    *)
(* two steps, and single artifacts are indexed or removed beside it.       *)
(* Sweeps of different replicas exclude each other (SweepLock).            *)
(***************************************************************************)
EXTENDS Naturals, Sequences, SequencesExt

CONSTANTS
  Repositories,
  Others,       \* the repositories whose artifacts are not Cogs
  Digests,      \* an artifact is a (repository, digest) pair
  TagSets,      \* the tags an artifact may carry
  MaxFetches,   \* max_new_fetches_per_sweep
  RetryEvery,   \* RETRY_SLOT_EVERY
  MaxChanges,   \* bound on the changes of the registry
  MaxFaults,    \* bound on failures, cancellations and single requests
  MaxUnseen     \* bound on the new artifacts one busy sweep meets

VARIABLES
  registry,   \* [Artifacts -> its tags, or Absent]
  catalog,    \* [Artifacts -> a row of collab_cog_artifacts, or NoRow]
  sweep,      \* the sweep in progress
  single,     \* reindex requests between their read and their write
  phase,      \* _phase
  retryOrder, \* _retry_order
  changes, faults,
  wasAbsent,  \* history: artifacts missing at some time since the sweep began
  load,       \* "catalog" or "busy": what the behaviour is about
  tried       \* the failed artifacts the last busy sweep read again

cogVars == <<registry, catalog, sweep, single, phase, retryOrder, changes, faults, wasAbsent>>
scheduleVars == <<cogVars, load, tried>>

Artifacts == Repositories \X Digests
RepositoryOf(a) == a[1]
KindOf(a) == IF RepositoryOf(a) \in Others THEN "non_cog" ELSE "indexed"

Absent == {"no such artifact"}
NoRow == [status |-> "none", tags |-> Absent, removed |-> FALSE]
Statuses == {"indexed", "non_cog", "failed"}
Resting == [pc |-> "rest"]

Ordered(S) == SetToSeq(S)

---------------------------------------------------------------------------
(* The order of the reads of one sweep. *)

\* Starting every sweep at slot 0.
ScheduleFromZero(first, unseen, retries, room) ==
  [slot |-> 0, unseen |-> unseen, retries |-> retries, room |-> room]

ScheduleFrom(first, unseen, retries, room) ==
  [slot |-> first, unseen |-> unseen, retries |-> retries, room |-> room]

RECURSIVE Slots(_)
Slots(q) ==
  IF q.room = 0 \/ (q.unseen = <<>> /\ q.retries = <<>>) THEN <<>>
  ELSE IF (q.slot % RetryEvery = RetryEvery - 1 /\ q.retries # <<>>) \/ q.unseen = <<>>
       THEN <<Head(q.retries)>> \o
            Slots([q EXCEPT !.slot = @ + 1, !.room = @ - 1, !.retries = Tail(@)])
       ELSE <<Head(q.unseen)>> \o
            Slots([q EXCEPT !.slot = @ + 1, !.room = @ - 1, !.unseen = Tail(@)])

\* _schedule: every RetryEvery-th slot is a retry's, counted across sweeps, and
\* each kind takes the other's slots when it alone has work.
Schedule(unseen, retries) == Slots(ScheduleFrom(phase, unseen, retries, MaxFetches))

\* _retry_candidates: the failures remembered from earlier sweeps in their
\* order, then the new ones.
RetryCandidates(failed) ==
  LET remembered == SelectSeq(retryOrder, LAMBDA a : a \in failed)
  IN  remembered \o Ordered(failed \ ToSet(remembered))

\* _note_retry_attempt: an attempted failure goes to the end.
NoteRetryAttempt(order, a) ==
  IF a \in ToSet(order) THEN Append(SelectSeq(order, LAMBDA b : b # a), a) ELSE order

NextPhase == (phase + 1) % RetryEvery

---------------------------------------------------------------------------
(* The registry, from outside. *)

Push(a, tags) ==
  /\ changes < MaxChanges
  /\ registry[a] # tags
  /\ registry' = [registry EXCEPT ![a] = tags]
  /\ changes' = changes + 1
  /\ UNCHANGED <<catalog, sweep, single, phase, retryOrder, faults, wasAbsent>>

Delete(a) ==
  /\ changes < MaxChanges
  /\ registry[a] # Absent
  /\ registry' = [registry EXCEPT ![a] = Absent]
  /\ wasAbsent' = wasAbsent \cup {a}
  /\ changes' = changes + 1
  /\ UNCHANGED <<catalog, sweep, single, phase, retryOrder, faults>>

---------------------------------------------------------------------------
(* The catalog's statements (cogs/catalog.py). *)

upsert(a, status, tags) ==
  catalog' = [catalog EXCEPT ![a] = [status |-> status, tags |-> tags, removed |-> FALSE]]

\* Nothing happens to a row that is not there.
update_tags(a, tags) ==
  catalog' = IF catalog[a] = NoRow THEN catalog
             ELSE [catalog EXCEPT ![a].tags = tags, ![a].removed = FALSE]

\* Every row in the present listing as well: the repositories that could not
\* be listed count as empty.
MarkAllMissing(present, excluding) ==
  catalog' = [a \in Artifacts |->
    IF catalog[a] # NoRow /\ a \notin DOMAIN present
    THEN [catalog[a] EXCEPT !.removed = TRUE] ELSE catalog[a]]

mark_removed(present, excluding) ==
  catalog' = [a \in Artifacts |->
    IF catalog[a] # NoRow /\ RepositoryOf(a) \notin excluding /\ a \notin DOMAIN present
    THEN [catalog[a] EXCEPT !.removed = TRUE] ELSE catalog[a]]

---------------------------------------------------------------------------
(* A sweep. *)

Rest == sweep' = Resting

\* list_repositories.
BeginSweep ==
  /\ sweep = Resting
  /\ sweep' = [pc |-> "list", left |-> Repositories, present |-> <<>>, failed |-> {}]
  /\ wasAbsent' = {a \in Artifacts : registry[a] = Absent}
  /\ UNCHANGED <<registry, catalog, single, phase, retryOrder, changes, faults>>

Listed(r) == {a \in Artifacts : RepositoryOf(a) = r /\ registry[a] # Absent}

\* list_artifacts of one repository; one that is gone (OCINotFound) is empty.
ListRepository(r) ==
  LET listing == [a \in Listed(r) |-> registry[a]] IN
  /\ sweep.pc = "list" /\ r \in sweep.left
  /\ sweep' = [sweep EXCEPT !.left = @ \ {r},
                            !.present = [a \in DOMAIN @ \cup DOMAIN listing |->
                              IF a \in DOMAIN listing THEN listing[a] ELSE @[a]]]
  /\ UNCHANGED <<registry, catalog, single, phase, retryOrder, changes, faults, wasAbsent>>

\* The listing fails, or is over max_artifacts_per_repository.
ListingFails(r) ==
  /\ sweep.pc = "list" /\ r \in sweep.left
  /\ faults < MaxFaults
  /\ sweep' = [sweep EXCEPT !.left = @ \ {r}, !.failed = @ \cup {r}]
  /\ faults' = faults + 1
  /\ UNCHANGED <<registry, catalog, single, phase, retryOrder, changes, wasAbsent>>

\* The store's known rows; one that has failed is to be read again.
ReadKnown ==
  LET seen == DOMAIN sweep.present
      unseen == {a \in seen : catalog[a] = NoRow}
      failed == {a \in seen : catalog[a].status = "failed"} IN
  /\ sweep.pc = "list" /\ sweep.left = {}
  /\ sweep' = [pc |-> "reconcile", present |-> sweep.present, failed |-> sweep.failed,
               known |-> [a \in seen \ (unseen \cup failed) |-> catalog[a]],
               unseen |-> unseen, retries |-> failed, fetch |-> <<>>, got |-> "nothing"]
  /\ UNCHANGED <<registry, catalog, single, phase, retryOrder, changes, faults, wasAbsent>>

\* The rows that need no read are done: the sweep's reads are chosen.
PlanFetches ==
  LET retries == RetryCandidates(sweep.retries) IN
  /\ sweep.pc = "reconcile" /\ DOMAIN sweep.known = {}
  /\ sweep' = [sweep EXCEPT !.pc = "fetch", !.unseen = {}, !.fetch = Schedule(Ordered(sweep.unseen), retries)]
  /\ retryOrder' = retries
  /\ phase' = NextPhase
  /\ UNCHANGED <<registry, catalog, single, changes, faults, wasAbsent>>

\* A reconcile that compares the tags and not the removal.
SameTags(row, tags) == row.tags = tags

\* _reconcile skips a row whose tags are the listed ones and is not removed.
UpToDate(row, tags) == row.tags = tags /\ ~row.removed

Reconcile(a) ==
  LET tags == sweep.present[a] IN
  /\ sweep.pc = "reconcile" /\ a \in DOMAIN sweep.known
  /\ IF UpToDate(sweep.known[a], tags) THEN UNCHANGED catalog ELSE update_tags(a, tags)
  /\ sweep' = [sweep EXCEPT !.known = [b \in DOMAIN @ \ {a} |-> @[b]]]
  /\ UNCHANGED <<registry, single, phase, retryOrder, changes, faults, wasAbsent>>

\* What _read_artifact makes of an artifact: a read that fails is a row too.
ReadOutcomes(a) ==
  IF registry[a] = Absent THEN {"failed"} ELSE {KindOf(a)}

FetchNext(outcome, fault) ==
  LET a == Head(sweep.fetch) IN
  /\ sweep.pc = "fetch" /\ sweep.fetch # <<>> /\ sweep.got = "nothing"
  /\ faults + fault <= MaxFaults
  /\ outcome \in IF fault = 1 THEN {"failed"} ELSE ReadOutcomes(a)
  /\ sweep' = [sweep EXCEPT !.got = outcome]
  /\ retryOrder' = IF a \in sweep.retries THEN NoteRetryAttempt(retryOrder, a) ELSE retryOrder
  /\ faults' = faults + fault
  /\ UNCHANGED <<registry, catalog, single, phase, changes, wasAbsent>>

\* _store_row, with the tags of the listing.
StoreFetched ==
  LET a == Head(sweep.fetch) IN
  /\ sweep.pc = "fetch" /\ sweep.got # "nothing"
  /\ upsert(a, sweep.got, sweep.present[a])
  /\ sweep' = [sweep EXCEPT !.fetch = Tail(@), !.got = "nothing"]
  /\ UNCHANGED <<registry, single, phase, retryOrder, changes, faults, wasAbsent>>

MarkRemoved ==
  /\ sweep.pc = "fetch" /\ sweep.fetch = <<>>
  /\ mark_removed(sweep.present, sweep.failed)
  /\ Rest
  /\ UNCHANGED <<registry, single, phase, retryOrder, changes, faults, wasAbsent>>

\* Cancelled, the database refuses a statement, or list_repositories fails.
SweepFails ==
  /\ sweep # Resting
  /\ faults < MaxFaults
  /\ faults' = faults + 1
  /\ Rest
  /\ UNCHANGED <<registry, catalog, single, phase, retryOrder, changes, wasAbsent>>

---------------------------------------------------------------------------
(* reindex and mark_removed of one artifact, beside the sweeps: on a       *)
(* connection of their own, without the sweep's lock.                      *)

ReindexRead(a, tags, outcome) ==
  /\ faults < MaxFaults /\ single = {}
  /\ tags = registry[a] /\ tags # Absent
  /\ outcome \in {"failed", KindOf(a)}
  /\ single' = {[artifact |-> a, tags |-> tags, outcome |-> outcome]}
  /\ faults' = faults + 1
  /\ UNCHANGED <<registry, catalog, sweep, phase, retryOrder, changes, wasAbsent>>

ReindexStore(one) ==
  /\ one \in single
  /\ upsert(one.artifact, one.outcome, one.tags)
  /\ single' = {}
  /\ UNCHANGED <<registry, sweep, phase, retryOrder, changes, faults, wasAbsent>>

\* Asked for an artifact whether or not it is still (or again) there.
mark_removed_one(a) ==
  /\ faults < MaxFaults
  /\ catalog[a] # NoRow /\ ~catalog[a].removed
  /\ catalog' = [catalog EXCEPT ![a].removed = TRUE]
  /\ faults' = faults + 1
  /\ UNCHANGED <<registry, sweep, single, phase, retryOrder, changes, wasAbsent>>

---------------------------------------------------------------------------
CogInit ==
  /\ registry = [a \in Artifacts |-> Absent]
  /\ catalog = [a \in Artifacts |-> NoRow]
  /\ sweep = Resting
  /\ single = {}
  /\ phase = 0 /\ retryOrder = <<>>
  /\ changes = 0 /\ faults = 0
  /\ wasAbsent = Artifacts

SweepStep ==
  \/ BeginSweep
  \/ \E r \in Repositories : ListRepository(r)
  \/ ReadKnown
  \/ \E a \in Artifacts : Reconcile(a)
  \/ PlanFetches
  \/ \E outcome \in Statuses : FetchNext(outcome, 0)
  \/ StoreFetched
  \/ MarkRemoved

CogNext ==
  \/ SweepStep
  \/ \E a \in Artifacts, tags \in TagSets : Push(a, tags)
  \/ \E a \in Artifacts : Delete(a)
  \/ \E r \in Repositories : ListingFails(r)
  \/ FetchNext("failed", 1)
  \/ SweepFails
  \/ \E a \in Artifacts, tags \in TagSets, outcome \in Statuses : ReindexRead(a, tags, outcome)
  \/ \E one \in single : ReindexStore(one)
  \/ \E a \in Artifacts : mark_removed_one(a)

---------------------------------------------------------------------------
(* The reads of many sweeps over a registry that never stops growing: in every
   sweep there are artifacts nobody has read, and the ones that have failed
   before fail again.  A behaviour is either of this kind ("busy") or compares
   the catalog with a registry that changes ("catalog"). *)

Newcomer(i) == <<"new", i>>

\* _sweep_source's schedule, with every artifact of the registry a failure.
BusySweep(n) ==
  LET retries == RetryCandidates(Artifacts)
      fetch == Schedule([i \in 1..n |-> Newcomer(i)], retries)
      again == SelectSeq(fetch, LAMBDA x : x \in Artifacts) IN
  /\ load = "busy"
  /\ tried' = ToSet(again)
  /\ retryOrder' = FoldLeft(NoteRetryAttempt, retries, again)
  /\ phase' = NextPhase
  /\ UNCHANGED <<registry, catalog, sweep, single, changes, faults, wasAbsent, load>>

ScheduleInit == CogInit /\ load \in {"catalog", "busy"} /\ tried = {}

ScheduleNext ==
  \/ load = "catalog" /\ CogNext /\ UNCHANGED <<load, tried>>
  \/ \E n \in 0..MaxUnseen : BusySweep(n)

\* run() sweeps for ever, and a request in progress ends.
ScheduleSpec ==
  /\ ScheduleInit /\ [][ScheduleNext]_scheduleVars
  /\ WF_scheduleVars(load = "catalog" /\ SweepStep /\ UNCHANGED <<load, tried>>)
  /\ WF_scheduleVars(/\ load = "catalog"
                     /\ \E one \in single : ReindexStore(one)
                     /\ UNCHANGED <<load, tried>>)
  /\ WF_scheduleVars(\E n \in 0..MaxUnseen : BusySweep(n))

---------------------------------------------------------------------------
\* A sweep marks as removed only what was missing from the registry at some
\* time since it began: a listing that failed, or went over its bound, takes
\* no row of its repository down (excluding=failed_repositories).
MarkedWasMissing ==
  [][\A a \in Artifacts :
       MarkRemoved /\ ~catalog[a].removed /\ catalog'[a].removed => a \in wasAbsent]_cogVars

Agrees(a) ==
  IF registry[a] = Absent THEN catalog[a] = NoRow \/ catalog[a].removed
  ELSE catalog[a] = [status |-> KindOf(a), tags |-> registry[a], removed |-> FALSE]

\* Once the registry stays as it is and no more steps fail, the catalog comes
\* to agree with it and stays so: failed reads are tried again within the
\* budget, rows a stale listing took down come back, late writes of a single
\* request are put right.
CatalogConverges == <>[](\A a \in Artifacts : Agrees(a))

\* The comparison with the registry, where the registry is modelled.
CatalogAgrees == load = "catalog" => CatalogConverges

\* Nothing is taken down that is there, and everything is put right in the end.
CatalogKept == MarkedWasMissing /\ CatalogAgrees

\* No failed artifact is starved by newcomers: each one is read again and
\* again, also with a budget smaller than RETRY_SLOT_EVERY, since the slots
\* are counted across sweeps and an attempted failure goes to the end.
RetriesNotStarved == load = "busy" => \A a \in Artifacts : []<>(a \in tried)
=============================================================================
