------------------------------ MODULE Startup -------------------------------
(***************************************************************************)
(* Replicas starting against one database: core.py make_app, the builders  *)
(* of config.py and the versioned collab_ schema runner of                 *)
(* frames/collab_schema.py.                                                *)
(*                                                                         *)
(* A rollout mixes builds: an older one whose migrations are a prefix of   *)
(* the newer's, and one whose released text was edited.  A migration runs  *)
(* in one transaction under an advisory lock, reading the version table    *)
(* inside it; a replica that fails to start is started again.              *)
(***************************************************************************)
EXTENDS Integers, Sequences

CONSTANTS
  Replicas,
  Releases,      \* what a replica can be rolled out as
  Legacy,        \* what a build without checksums may have applied already
  NoChecksum,    \* the NULL of a row recorded before checksums
  NoReplica

\* A deployment is a record: its build's migrations (texts), and the settings that
\* decide whether make_app raises (auto, url, membership, orgMemory, index, pool,
\* tasksPostgres, grants).
ASSUME StartupAssumption ==
  /\ NoReplica \notin Replicas
  /\ Legacy \subseteq Seq(STRING)
  /\ \A d \in Releases : d.texts \in Seq(STRING) /\ \A v \in DOMAIN d.texts : d.texts[v] # NoChecksum

VARIABLES
  ledger,     \* collab_schema_migrations: the checksum of every version
  ran,        \* the migration texts that were committed, in order
  old,        \* the versions recorded before checksums (history)
  schemaLock, \* whose transaction holds COLLAB_SCHEMA_LOCK_KEY
  reachable,  \* whether Postgres answers
  realmGroups, \* whether the realm has the groups the deployments grant
  pod         \* [Replicas -> where its start is]

startupVars == <<ledger, ran, old, schemaLock, reachable, realmGroups, pod>>

Down == [at |-> "down"]
At(r, at) == pod[r].at = at
D(r) == pod[r].d

StartupInit ==
  /\ \E texts \in Legacy :
       /\ ran = texts
       /\ ledger = [v \in DOMAIN texts |-> NoChecksum]
       /\ old = DOMAIN texts
  /\ schemaLock = NoReplica /\ reachable = TRUE /\ realmGroups = TRUE
  /\ pod = [r \in Replicas |-> Down]

Move(r, at) == pod' = [pod EXCEPT ![r].at = at]
Fail(r, why) == pod' = [pod EXCEPT ![r] = [at |-> "failed", why |-> why]]

---------------------------------------------------------------------------
(* make_app: what the builders of config.py refuse *)

HasOrgStore(d) == d.orgMemory \/ d.url

\* build_task_store: durable tasks need a database.
TaskStoreBuilds(d) == d.tasksPostgres => d.url

\* build_cog_indexing: the indexer writes the catalog, and its sweep keeps a
\* connection of the pool to itself.
CogIndexingBuilds(d) == d.index => d.url /\ d.pool >= 2

\* build_service_access_granter: every granted group is resolved at start.
GranterBuilds(d) == d.grants => realmGroups

RollOut(r, d) ==
  /\ pod[r].at \in {"down", "failed", "serving"}
  /\ pod' = [pod EXCEPT ![r] = [at |-> "building", d |-> d]]
  /\ UNCHANGED <<ledger, ran, old, schemaLock, reachable, realmGroups>>

\* The stores are built and the migration comes next, if the deployment
\* migrates at all.
Build(r) ==
  /\ At(r, "building")
  /\ IF ~(GranterBuilds(D(r)) /\ TaskStoreBuilds(D(r))) THEN Fail(r, "settings")
     ELSE Move(r, IF D(r).url /\ D(r).auto THEN "migrating" ELSE "assembling")
  /\ UNCHANGED <<ledger, ran, old, schemaLock, reachable, realmGroups>>

---------------------------------------------------------------------------
(* run_collab_schema_migrations *)

ChecksumHolds(recorded, text) == recorded \in {NoChecksum, text}

\* The rows this build knows, backfilled where no checksum was recorded.
Backfilled(rows, texts) ==
  [v \in DOMAIN rows |-> IF v \in DOMAIN texts THEN texts[v] ELSE rows[v]]

Edited(r) == \E v \in DOMAIN ledger \cap DOMAIN D(r).texts : ~ChecksumHolds(ledger[v], D(r).texts[v])

\* What the transaction has read and is about to record.
Transaction(r) == [at |-> "applying", d |-> D(r), base |-> Len(ledger), rows |-> <<>>]

\* The advisory lock, the version table read inside it, and the checksums.
BeginWithoutLock(r) ==
  /\ At(r, "migrating") /\ reachable
  /\ IF Edited(r) THEN Fail(r, "checksum") ELSE pod' = [pod EXCEPT ![r] = Transaction(r)]
  /\ UNCHANGED <<ledger, ran, old, schemaLock, reachable, realmGroups>>
BeginMigration(r) ==
  /\ At(r, "migrating") /\ reachable /\ schemaLock = NoReplica
  /\ IF Edited(r) THEN Fail(r, "checksum") /\ UNCHANGED schemaLock
     ELSE schemaLock' = r /\ pod' = [pod EXCEPT ![r] = Transaction(r)]
  /\ UNCHANGED <<ledger, ran, old, reachable, realmGroups>>

Outstanding(r) == pod[r].base + Len(pod[r].rows) < Len(D(r).texts)

\* One version: its statements and its row.
ApplyNext(r) ==
  /\ At(r, "applying") /\ Outstanding(r)
  /\ pod' = [pod EXCEPT ![r].rows = Append(@, D(r).texts[pod[r].base + Len(@) + 1])]
  /\ UNCHANGED <<ledger, ran, old, schemaLock, reachable, realmGroups>>

\* A version that somebody else recorded since is a duplicate key.
CommitMigration(r) ==
  /\ At(r, "applying") /\ ~Outstanding(r)
  /\ schemaLock' = IF schemaLock = r THEN NoReplica ELSE schemaLock
  /\ IF pod[r].rows # <<>> /\ Len(ledger) # pod[r].base
     THEN Fail(r, "duplicate") /\ UNCHANGED <<ledger, ran>>
     ELSE /\ ledger' = Backfilled(ledger, D(r).texts) \o pod[r].rows
          /\ ran' = ran \o pod[r].rows
          /\ pod' = [pod EXCEPT ![r] = [at |-> "assembling", d |-> D(r)]]
  /\ UNCHANGED <<old, reachable, realmGroups>>

\* The database goes away, or the pod dies: the transaction rolls back.
DieStarting(r) ==
  /\ pod[r].at \in {"migrating", "applying", "assembling"}
  /\ Fail(r, "gone")
  /\ schemaLock' = IF schemaLock = r THEN NoReplica ELSE schemaLock
  /\ UNCHANGED <<ledger, ran, old, reachable, realmGroups>>

---------------------------------------------------------------------------
(* The rest of make_app, and serving *)

\* check_collab_schema_version: behind is refused, ahead is an ordinary rolling
\* update, unreachable asserts nothing.
NeverBehind(d) == FALSE
Behind(d) == Len(ledger) < Len(d.texts)

Preflight(d) == d.membership /\ d.url /\ reachable

Serve(r) ==
  /\ At(r, "assembling")
  /\ IF \/ ~CogIndexingBuilds(D(r))
        \/ D(r).membership /\ ~HasOrgStore(D(r))
     THEN Fail(r, "settings")
     ELSE IF Preflight(D(r)) /\ Behind(D(r)) THEN Fail(r, "behind")
     ELSE pod' = [pod EXCEPT ![r] = [at |-> "serving", d |-> D(r), checked |-> Preflight(D(r)), sawDatabase |-> reachable]]
  /\ UNCHANGED <<ledger, ran, old, schemaLock, reachable, realmGroups>>

\* An operator applies the next version of a released build by hand and records
\* it, with or without its checksum.
ApplyOutOfBand ==
  /\ schemaLock = NoReplica /\ reachable
  /\ \E d \in Releases, checksum \in BOOLEAN :
       LET v == Len(ledger) + 1 IN
       /\ v \in DOMAIN d.texts
       /\ ran' = Append(ran, d.texts[v])
       /\ ledger' = Append(ledger, IF checksum THEN d.texts[v] ELSE NoChecksum)
       /\ old' = IF checksum THEN old ELSE old \cup {v}
  /\ UNCHANGED <<schemaLock, reachable, realmGroups, pod>>

PostgresGoesAway ==
  /\ reachable /\ reachable' = FALSE /\ schemaLock' = NoReplica
  /\ pod' = [r \in Replicas |-> IF At(r, "applying") THEN [at |-> "failed", why |-> "gone"] ELSE pod[r]]
  /\ UNCHANGED <<ledger, ran, old, realmGroups>>

PostgresReturns ==
  /\ ~reachable /\ reachable' = TRUE
  /\ UNCHANGED <<ledger, ran, old, schemaLock, realmGroups, pod>>

RealmChanges ==
  /\ realmGroups' = ~realmGroups
  /\ UNCHANGED <<ledger, ran, old, schemaLock, reachable, pod>>

StartupNext ==
  \/ \E r \in Replicas :
       \/ Build(r) \/ BeginMigration(r) \/ ApplyNext(r) \/ CommitMigration(r)
       \/ DieStarting(r) \/ Serve(r)
       \/ \E d \in Releases : RollOut(r, d)
  \/ ApplyOutOfBand \/ PostgresGoesAway \/ PostgresReturns \/ RealmChanges

StartupSpec == StartupInit /\ [][StartupNext]_startupVars

---------------------------------------------------------------------------
(* Properties *)

Recorded == STRING \cup {NoChecksum}

\* The shapes of a start.
Pods ==
  [at : {"down"}] \cup [at : {"failed"}, why : {"settings", "checksum", "duplicate", "gone", "behind"}]
  \cup [at : {"building", "migrating", "assembling"}, d : Releases]
  \cup [at : {"applying"}, d : Releases, base : Nat, rows : Seq(STRING)]
  \cup [at : {"serving"}, d : Releases, checked : BOOLEAN, sawDatabase : BOOLEAN]

\* The values the start's variables take.
StartupTypeOK ==
  /\ ledger \in Seq(Recorded) /\ ran \in Seq(STRING) /\ old \subseteq DOMAIN ledger
  /\ schemaLock \in Replicas \cup {NoReplica}
  /\ reachable \in BOOLEAN /\ realmGroups \in BOOLEAN
  /\ pod \in [Replicas -> Pods]

ServingPod(r) == At(r, "serving")

\* The lock referees the replicas (run_collab_schema_migrations): no start fails
\* because another was migrating, every version runs once and in order, and
\* the text that ran is the text that is recorded.
MigratedOnce ==
  /\ \A r \in Replicas : At(r, "failed") => pod[r].why # "duplicate"
  /\ Len(ran) = Len(ledger)
  /\ \A v \in DOMAIN ledger \ old : ledger[v] = ran[v]

\* What a serving replica was told stays true while others are rolled out,
\* rolled back and crash: the schema is not older than its build when the
\* preflight looked, and a migrating build's text is the recorded one.
ServingFitsSchema ==
  \A r \in Replicas : ServingPod(r) =>
    /\ pod[r].checked => ~(Len(ledger) < Len(D(r).texts))
    /\ D(r).auto /\ D(r).url =>
         \A v \in DOMAIN D(r).texts : ledger[v] = D(r).texts[v]

ReadsCollabTables(d) == d.url

\* collab_schema.py, check_collab_schema_version: the check exists so that a
\* replica whose stores read the collab_ tables does not start cleanly
\* against a schema behind its build.
ReadersAreChecked ==
  \A r \in Replicas :
    ServingPod(r) /\ pod[r].sawDatabase /\ ReadsCollabTables(D(r)) => Len(ledger) >= Len(D(r).texts)
=============================================================================
