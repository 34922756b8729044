-------------------------- MODULE IdentityMigration -------------------------
(***************************************************************************)
(* From legacy principals to OIDC subjects: the read-only inventory        *)
(* (identity_inventory: scan, directory, analysis) produces a report, a    *)
(* person reviews it, and the rewrite (identity_rewrite: plan, writers,    *)
(* cli, with --apply) rewrites Postgres in one transaction and the frame   *)
(* sidecars one at a time, keeping a manifest.  Either may be left out,    *)
(* and so may a sidecar that is a link or lies outside the store: the run  *)
(* says what was not rewritten and goes on.                                *)
(*                                                                         *)
(* The service is stopped meanwhile.  A run may be refused, fail at any    *)
(* write, lose the answer to its COMMIT or be killed; it is run again with *)
(* the same report or a fresh one, while the directory changes.            *)
(***************************************************************************)
EXTENDS Integers, FiniteSets, FiniteSetsExt, Functions

CONSTANTS
  Names,         \* every string that may be a principal, a subject or a name
  CaseFold,      \* [Names -> Names], str.casefold
  PaddedNames,   \* those with surrounding white space
  Directories,   \* the sets of accounts [sub, email, username, newer] there may be
  Stores,        \* the stored records there may be at first
  Gaps,          \* the sets of sources an inventory may not have scanned
  NoOne,         \* the absent email or username
  MaxRuns, MaxDirectories   \* bounds

\* A store has sidecars [owners, note] (note: a string under a key that names
\* nobody), the owners of a group, the log's rows [actor, detail] (history and
\* usage events), and four tables keyed by principal:
\* active[n] = frames selected, usage[n] = [first, last] seen,
\* tasks[n] = [at, inside], devices[n] = [at].
VARIABLES
  directory,   \* the realm's accounts
  store,       \* what is committed
  report,      \* the inventory's last report
  run,         \* the rewrite: where it is, its plan, its transaction
  manifest,    \* the changes the run records, each with its state
  origin,      \* the store before the first run (history)
  merged       \* every pair some report mapped (history)

migrationVars == <<directory, store, report, run, manifest, origin, merged>>

NoReport == [principals |-> {}]
Idle(r) == [at |-> "idle", count |-> r.count, dirs |-> r.dirs]
Keys(table) == DOMAIN table

---------------------------------------------------------------------------
(* The inventory *)

Tables(s) == DOMAIN s \ {"frames"}
Sources(s) == DOMAIN s.frames \cup Tables(s)

\* What each carrier holds, where it was scanned: a sidecar that cannot be read
\* or parsed is skipped, so is a table that does not exist.
ReadableSidecars(s, seen) == DOMAIN s.frames \cap seen
SidecarPrincipals(s, seen) == UNION {s.frames[f].owners : f \in ReadableSidecars(s, seen)}
ScanGroups(s, seen) == IF "group" \in seen THEN s.group ELSE {}
ScanHistory(s, seen) == IF "history" \in seen THEN {h.actor : h \in s.history} \cup {h.detail : h \in s.history} ELSE {}
ScanActiveFrames(s, seen) == IF "active" \in seen THEN Keys(s.active) ELSE {}
ScanUsage(s, seen) == IF "usage" \in seen THEN Keys(s.usage) ELSE {}
ScanTaskState(s, seen) == IF "tasks" \in seen THEN Keys(s.tasks) ELSE {}
ScanTaskPayloads(s, seen) == {s.tasks[n].inside : n \in ScanTaskState(s, seen)}
ScanTaskDevices(s, seen) == IF "devices" \in seen THEN Keys(s.devices) ELSE {}

\* By key; a string found elsewhere counts only if it is a principal already.
ScanPostgres(s, seen) ==
  ScanGroups(s, seen) \cup ScanHistory(s, seen) \cup ScanActiveFrames(s, seen) \cup ScanUsage(s, seen)
    \cup ScanTaskState(s, seen) \cup ScanTaskPayloads(s, seen) \cup ScanTaskDevices(s, seen)
Scanned(s, seen) == (SidecarPrincipals(s, seen) \cup ScanPostgres(s, seen)) \ {NoOne}

\* The records someone must own, by their owners.
OwnedRecords(s, seen) ==
  {s.frames[f].owners : f \in ReadableSidecars(s, seen)} \cup {{n} : n \in ScanTaskState(s, seen)}
    \cup (IF "group" \in seen THEN {s.group} ELSE {})
OwnedBy(s, seen) == UNION OwnedRecords(s, seen)

\* DirectoryIndex.resolve: exactly by subject, folded by email and username.
BySub(p) == {u \in directory : u.sub = p}
ByName(p) == {u \in directory : \/ u.email # NoOne /\ CaseFold[u.email] = CaseFold[p]
                                \/ u.username # NoOne /\ CaseFold[u.username] = CaseFold[p]}
Candidates(p) == BySub(p) \cup ByName(p)

Status(p) ==
  IF Candidates(p) = {} THEN "unmapped"
  ELSE IF Cardinality({u.sub : u \in Candidates(p)}) > 1 THEN "ambiguous"
  ELSE IF BySub(p) # {} THEN "already_sub" ELSE "matched"

\* _flag_reassignments: an account newer than the record that names it.
Suspected(owned, p) == p \in owned /\ Status(p) \in {"already_sub", "matched"} /\ \E u \in Candidates(p) : u.newer
Mapped(owned, p) == Status(p) \in {"already_sub", "matched"} /\ ~Suspected(owned, p)

\* _check_owners: a record none of whose owners maps.
BlockingOrphans(s, seen) ==
  LET owned == OwnedBy(s, seen) IN
  {owners \in OwnedRecords(s, seen) : \A p \in owners : ~Mapped(owned, p)}

\* Reported, never trimmed: the service compares exactly.
Padded(p) == p \in PaddedNames

Analyze(s, seen) ==
  [principals |-> {[principal |-> p, status |-> Status(p),
                    sub |-> IF Status(p) \in {"already_sub", "matched"} THEN (CHOOSE u \in Candidates(p) : TRUE).sub ELSE NoOne,
                    suspected |-> Suspected(OwnedBy(s, seen), p), padded |-> Padded(p)] : p \in Scanned(s, seen)},
   blocking |-> BlockingOrphans(s, seen) # {},
   gaps |-> Sources(s) \ seen]

---------------------------------------------------------------------------
(* build_plan *)

AcknowledgeableClasses == {"ambiguous", "reassignment_suspected", "padded", "blocking_orphan"}

Found(r) ==
  {c \in AcknowledgeableClasses :
     \/ c = "padded" /\ \E e \in r.principals : e.padded
     \/ c = "ambiguous" /\ \E e \in r.principals : ~e.padded /\ e.status = "ambiguous"
     \/ c = "reassignment_suspected" /\ \E e \in r.principals : ~e.padded /\ e.status # "ambiguous" /\ e.suspected
     \/ c = "blocking_orphan" /\ r.blocking}

\* Dangerous classes are never rewritten, acknowledged or not.
Rewritten(r) == {e \in r.principals : ~e.padded /\ ~e.suspected /\ e.status = "matched"}
Mapping(r) == [p \in {e.principal : e \in Rewritten(r)} |-> (CHOOSE e \in Rewritten(r) : e.principal = p).sub]

---------------------------------------------------------------------------
(* The writers *)

Map(m, n) == IF n \in DOMAIN m THEN m[n] ELSE n
MapAll(m, names) == {Map(m, n) : n \in names}
Moving(m, table) == Keys(table) \cap DOMAIN m

RewriteGroupsOnly(m, s) == [s EXCEPT !.group = MapAll(m, @)]

\* rewrite_text_columns: the log's actors.
RewriteTextColumns(m, s) == [s EXCEPT !.history = {[h EXCEPT !.actor = Map(m, @)] : h \in @}]

\* rewrite_json_columns: the documents, by the keys the rows still have.
RewriteJsonColumns(m, s) ==
  [s EXCEPT !.group = MapAll(m, @),
            !.history = {[h EXCEPT !.detail = Map(m, @)] : h \in @},
            !.tasks = [n \in Keys(s.tasks) |-> [s.tasks[n] EXCEPT !.inside = Map(m, @)]]]

\* One legacy row onto the subject's: moved, or combined with what is there.
Onto(table, p, sub, Combine(_, _)) ==
  [n \in (Keys(table) \ {p}) \cup {sub} |->
     IF n # sub THEN table[n] ELSE IF sub \in Keys(table) THEN Combine(table[p], table[sub]) ELSE table[p]]

Union(legacy, subject) == subject \cup legacy
Overwrite(legacy, subject) == legacy
Widen(legacy, subject) == [first |-> Min({legacy.first, subject.first}), last |-> Max({legacy.last, subject.last})]
NewerOf(legacy, subject) == IF legacy.at > subject.at THEN legacy ELSE subject

MergeTable(m, table, Combine(_, _)) ==
  FoldSet(LAMBDA p, t : Onto(t, p, m[p], Combine), table, Moving(m, table))

MergeTasks(m, table) == MergeTable(m, table, NewerOf)
MergeDevices(m, table) == MergeTable(m, table, NewerOf)

MergeOverwriting(m, s) ==
  [s EXCEPT !.active = MergeTable(m, @, Overwrite), !.usage = MergeTable(m, @, Widen),
            !.tasks = MergeTasks(m, @), !.devices = MergeDevices(m, @)]

MergeTables(m, s) ==
  [s EXCEPT !.active = MergeTable(m, @, Union), !.usage = MergeTable(m, @, Widen),
            !.tasks = MergeTasks(m, @), !.devices = MergeDevices(m, @)]

\* What the manifest calls a change: where, and from whom to whom.
GroupChanges(m, s) == {<<"group", p>> : p \in s.group \cap DOMAIN m}
LogChanges(m, s) == {<<"history", p>> : p \in ScanHistory(s, {"history"}) \cap DOMAIN m}
PayloadChanges(m, s) == {<<"payload", n>> : n \in {k \in Keys(s.tasks) : s.tasks[k].inside \in DOMAIN m}}
RowChanges(m, s) == UNION {{<<table, p>> : p \in Moving(m, s[table])} : table \in {"active", "usage", "tasks", "devices"}}
SidecarChanges(m, s, f) == {<<f, p>> : p \in s.frames[f].owners \cap DOMAIN m}

With(changes, state) == [c \in DOMAIN manifest \cup changes |-> IF c \in changes THEN state ELSE manifest[c]]
Promoted(from, to) == [c \in DOMAIN manifest |-> IF manifest[c] = from THEN to ELSE manifest[c]]
PromotePending == Promoted("pending", "committed")
TakenForCommitted == Promoted("pending", "committed")
FailPending == Promoted("pending", "failed")

---------------------------------------------------------------------------
(* The runs *)

MigrationInit ==
  /\ directory \in Directories /\ store \in Stores /\ origin = store
  /\ report = NoReport /\ run = [at |-> "idle", count |-> 0, dirs |-> 0]
  /\ manifest = <<>> /\ merged = {}

At(where) == run.at = where
MoveTo(where) == run' = [run EXCEPT !.at = where]

DirectoryChanges ==
  /\ At("idle") /\ run.dirs < MaxDirectories
  /\ \E d \in Directories : d # directory /\ directory' = d
  /\ run' = [run EXCEPT !.dirs = @ + 1]
  /\ UNCHANGED <<store, report, manifest, origin, merged>>

\* main, run_scan: a source may be skipped, missing or unreadable; the report
\* says so and is written all the same.
\* run_scan: the sources configured and reached.
RunScan(gaps) == Sources(store) \ gaps

TakeInventory(gaps) ==
  /\ At("idle")
  /\ report' = Analyze(store, RunScan(gaps))
  /\ UNCHANGED <<directory, store, run, manifest, origin, merged>>

\* What a run may leave out: Postgres, by --skip-postgres or for want of a URL;
\* the sidecars, by --frames-backend=none, for want of a bucket or because their
\* root is no directory.
LeftOut == {{}, {"postgres"}, {"frame.sidecar"}}

\* main: the report is reviewed and its findings acknowledged, or it is refused
\* (exit 1); the manifest's destination is reserved before anything is written.
StartRun(acknowledged, out) ==
  /\ At("idle") /\ report # NoReport /\ run.count < MaxRuns
  /\ LET m == Mapping(report) IN
     IF Found(report) \subseteq acknowledged
     THEN /\ run' = [at |-> IF "postgres" \in out THEN "sidecars" ELSE "documents",
                     count |-> run.count + 1, dirs |-> run.dirs, map |-> m, start |-> store, txn |-> store,
                     left |-> IF "frame.sidecar" \in out THEN {} ELSE DOMAIN store.frames,
                     skipped |-> (IF "postgres" \in out THEN Tables(store) ELSE {})
                                   \cup (IF "frame.sidecar" \in out THEN DOMAIN store.frames ELSE {}),
                     status |-> 0]
          /\ merged' = merged \cup {<<p, m[p]>> : p \in DOMAIN m}
     ELSE UNCHANGED <<run, merged>>
  /\ manifest' = <<>>
  /\ UNCHANGED <<directory, store, report, origin>>

\* The statements of the transaction, each staged when it has run.
RewriteDocuments ==
  /\ At("documents")
  /\ run' = [run EXCEPT !.at = "rows", !.txn = RewriteJsonColumns(run.map, RewriteTextColumns(run.map, @))]
  /\ manifest' = With(LogChanges(run.map, run.txn) \cup GroupChanges(run.map, run.txn) \cup PayloadChanges(run.map, run.txn), "pending")
  /\ UNCHANGED <<directory, store, report, origin, merged>>

MergeRows ==
  /\ At("rows")
  /\ run' = [run EXCEPT !.at = "commit", !.txn = MergeTables(run.map, @)]
  /\ manifest' = With(RowChanges(run.map, run.txn), "pending")
  /\ UNCHANGED <<directory, store, report, origin, merged>>

\* COMMIT: pending becomes committed once it has returned.
CommitTransaction ==
  /\ At("commit")
  /\ store' = [run.txn EXCEPT !.frames = store.frames]
  /\ manifest' = PromotePending
  /\ MoveTo("sidecars")
  /\ UNCHANGED <<directory, report, origin, merged>>

StatementFails ==
  /\ At("documents") \/ At("rows") \/ At("commit")
  /\ manifest' = FailPending
  /\ run' = [run EXCEPT !.at = "finish", !.status = 2]
  /\ UNCHANGED <<directory, store, report, origin, merged>>

\* The answer to COMMIT is lost: it happened, the run takes it for a failure.
CommitAnswerLost ==
  /\ At("commit")
  /\ store' = [run.txn EXCEPT !.frames = store.frames]
  /\ manifest' = FailPending
  /\ run' = [run EXCEPT !.at = "finish", !.status = 2]
  /\ UNCHANGED <<directory, report, origin, merged>>

\* rewrite_s3_sidecars, rewrite_local_sidecars: a put, or an atomic replacement,
\* is its own commit; a match under another key is reported and left alone.
ReplaceAtomically(f) == store' = [store EXCEPT !.frames[f].owners = MapAll(run.map, @)]

RewriteSidecar(f) ==
  /\ At("sidecars") /\ f \in run.left
  /\ ReplaceAtomically(f)
  /\ manifest' = With(SidecarChanges(run.map, store, f), "committed")
  /\ run' = [run EXCEPT !.left = @ \ {f}]
  /\ UNCHANGED <<directory, report, origin, merged>>

\* rewrite_local_sidecars: a link, anything but a regular file and what resolves
\* outside the root are refused with a note, and the next one is taken.
SkipSidecar(f) ==
  /\ At("sidecars") /\ f \in run.left
  /\ run' = [run EXCEPT !.left = @ \ {f}, !.skipped = @ \cup {f}]
  /\ UNCHANGED <<directory, store, report, manifest, origin, merged>>

\* A sidecar that cannot be read, parsed or written ends the run.
SidecarFails(f) ==
  /\ At("sidecars") /\ f \in run.left
  /\ manifest' = With(SidecarChanges(run.map, store, f), "failed")
  /\ run' = [run EXCEPT !.at = "finish", !.status = 2]
  /\ UNCHANGED <<directory, store, report, origin, merged>>

\* UnexpectedPath: a mapped name under a key the inventory knows nothing of, in a
\* sidecar that was read.
Unexpected == \E f \in DOMAIN store.frames \ run.skipped : store.frames[f].note \in DOMAIN run.map

Finish ==
  /\ At("finish") \/ (At("sidecars") /\ run.left = {})
  /\ run' = [run EXCEPT !.at = "finished",
                        !.status = IF run.status = 0 /\ At("sidecars") /\ Unexpected THEN 1 ELSE @]
  /\ UNCHANGED <<directory, store, report, manifest, origin, merged>>

Dismiss ==
  /\ At("finished")
  /\ run' = Idle(run)
  /\ manifest' = <<>>
  /\ UNCHANGED <<directory, store, report, origin, merged>>

\* Killed: the transaction rolls back, the manifest on disk is the empty one.
Kill ==
  /\ run.at \in {"documents", "rows", "commit", "sidecars", "finish"}
  /\ run' = Idle(run)
  /\ manifest' = <<>>
  /\ UNCHANGED <<directory, store, report, origin, merged>>

MigrationNext ==
  \/ DirectoryChanges \/ (\E gaps \in Gaps : TakeInventory(gaps))
  \/ \E acknowledged \in {{}, AcknowledgeableClasses}, out \in LeftOut : StartRun(acknowledged, out)
  \/ RewriteDocuments \/ MergeRows \/ CommitTransaction \/ StatementFails \/ CommitAnswerLost
  \/ \E f \in DOMAIN store.frames : RewriteSidecar(f) \/ SkipSidecar(f) \/ SidecarFails(f)
  \/ Finish \/ Dismiss \/ Kill

MigrationSpec == MigrationInit /\ [][MigrationNext]_migrationVars

---------------------------------------------------------------------------
(* Properties *)

\* Whoever a stored name may stand for, by some report.
Became(n) == {n} \cup {pair[2] : pair \in {q \in merged : q[1] = n}}
SameAs(n) == {k \in Names : Became(k) \cap Became(n) # {}}

\* However often the rewrite failed, was killed and was run again, nothing a
\* person had is lost (writers.py, the merges): every selected frame is still
\* selected under a name of theirs, their newest tasks and devices are kept, the
\* time they were seen is covered, and a record has an owner for each it had.
NothingLost ==
  /\ \A n \in Keys(origin.active) :
       origin.active[n] \subseteq UNION {store.active[k] : k \in SameAs(n) \cap Keys(store.active)}
  /\ \A n \in Keys(origin.tasks) :
       \E k \in SameAs(n) \cap Keys(store.tasks) : store.tasks[k].at >= origin.tasks[n].at
  /\ \A n \in Keys(origin.devices) :
       \E k \in SameAs(n) \cap Keys(store.devices) : store.devices[k].at >= origin.devices[n].at
  /\ \A n \in Keys(origin.usage) : \E k \in SameAs(n) \cap Keys(store.usage) :
       store.usage[k].first <= origin.usage[n].first /\ store.usage[k].last >= origin.usage[n].last
  /\ \A n \in origin.group : Became(n) \cap store.group # {}

\* A run that reports success (cli.py, exit 0) has migrated everything it mapped
\* but in what it was told to leave out or says it did not rewrite: no mapped
\* principal is left elsewhere, no task row was moved away from the identity
\* inside its document, and the same plan would find nothing to do there.  What
\* was not rewritten is as the run found it.
SuccessIsComplete ==
  /\ At("finished") /\ run.status = 0 =>
       /\ Scanned(store, Sources(store) \ run.skipped) \cap DOMAIN run.map = {}
       /\ Range(run.map) \cap DOMAIN run.map = {}
  /\ At("finished") =>
       /\ \A t \in run.skipped \cap Tables(store) : store[t] = run.start[t]
       /\ \A f \in run.skipped \cap DOMAIN store.frames : store.frames[f] = run.start.frames[f]

\* The manifest of a run that ended by itself (Manifest): what it calls
\* committed is in the store, and what it calls failed alone may or may not be.
Done(c) ==
  CASE c[1] = "group"   -> c[2] \notin store.group
    [] c[1] = "history" -> c[2] \notin ScanHistory(store, {"history"})
    [] c[1] = "payload" -> TRUE
    [] c[1] \in DOMAIN store.frames -> c[2] \notin store.frames[c[1]].owners
    [] OTHER -> c[2] \notin Keys(store[c[1]])
ManifestTruthful ==
  At("finished") =>
    /\ \A c \in DOMAIN manifest : manifest[c] # "pending"
    /\ \A c \in DOMAIN manifest : manifest[c] = "committed" => Done(c)
    /\ store # run.start => \E c \in DOMAIN manifest : manifest[c] \in {"committed", "failed"}

\* plan.py, build_plan's note on a report that is not a complete scan: carriers
\* that were not scanned are not rewritten.
UnscannedStaysAlone ==
  At("finished") =>
    /\ \A t \in report.gaps \cap Tables(store) : store[t] = run.start[t]
    /\ \A f \in report.gaps \cap DOMAIN store.frames : store.frames[f] = run.start.frames[f]

\* cli.py: exit 1 means that nothing was written.
ExitOneWroteNothing == At("finished") /\ run.status = 1 => store = run.start
=============================================================================
