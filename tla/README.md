# A TLA+ verification of Collab Hub

Collab Hub is a hub where an organization keeps shared context (*Frames*), signs people in and
invites them, catalogues packaged agents (*Cogs*), connects to outside services, and runs *Ops*:
sequences of steps, each performed by a Cog, with *Gates* where a person signs results off. This
directory specifies those parts, checks them with TLC on small instances, and proves central
properties with TLAPS for every size.

Paths are relative to the repository. `E/` stands for `execution/src/collab_hub_execution/`, `A/`
for `api/src/collab_hub_api/`, `C/` for `cli/src/collab_hub_cli/`. `PROJECT.json` maps every
definition to the lines it models, lists the hazards with the properties that cover them, the
runs, the mutants and the theorems.

## 1. Inventory

### How the parts work together

A request reaches the API through two middlewares and the checks its route declares
(`RequestGate`); its caller is whoever the bearer token or the web session names (`Principals`,
`JwksClient`, `SignIn`) and belongs to an organization by membership. Membership begins with an
invitation (`Invitations`, `AcceptancePage`), which also owes its holder groups at the identity
provider (`KeycloakClient`) and perhaps an account (`Provisioning`). Operators are made and
unmade by sign-in and by hand (`Administration`). Every such change shares a transaction with its
audit row (`AuditGuard`).

Frames live in an object store, groups, tasks and logs in PostgreSQL (`Frames`, `GroupViews`,
`Tasks`, `Activity`, `BestEffort`). Replicas of several builds start over one schema (`Startup`).
The catalog of Cogs is kept by sweeps over registries (`CogIndex`, `SweepLock`, `RegistryListing`,
`OciClient`, `CogCard`, `CatalogReads`). Connectors read outside services for a caller
(`ConnectorCalls`, `CalendarSearch`, `ProviderWalk`, `ProjectBoard`).

A client submits an Op; the API appends `op_submitted` to the run's *Track*, an append-only log
(`TrackStore`). A controller, a separate process, polls the Track (`Controller`) and hands the run
to its lifecycle runner (`Runner`), which starts a worker per step attempt through an executor
(`LocalWorkers`, `KubernetesWorkers`) and appends what happened. Cancels and turns go the same
way. Nothing keeps a run's status except the Track: every reader replays it (`RunViews`). The
command line follows runs and bridges ACP clients to them (`CliRuns`, `CliSession`).

| Component (source) | State | Operations | Interacts through |
|---|---|---|---|
| Run machine, lifecycle runner, run tokens (`E/states/run.py`, `runner.py`, `lifecycle.py`, `gates.py`, `run_tokens.py`) | claims, each driver's pass and attempt; the rest is a fold of the Track | `submit`, `retry`, `decide`, `cancel`, `start`, `verify` | Track, executor; threads share the claims |
| Track stores (`E/track.py`) | the log, its sequence, locks | `append`, `append_if`, `replay`, `stream` | every process |
| Intents, views, controller, run API (`E/intents.py`, `controller.py`, `A/routers/runs.py`) | the cache of views; three tables of threads | intents and reads; `tick` and its threads | Track (polling), runner |
| Executors (`E/locations/`, `E/kubernetes.py`) | processes, ports, pipes; cluster objects | materialize, interact, teardown | called by the runner |
| Invitations (`A/frames/invitations.py`, `service_access_state.py`, `A/routers/invitations.py`, `invite.py`, `A/web/acceptance.py`) | invitations, organizations, members, owed grants, a tab's storage | issue, revoke, name, accept, grant, reconcile | database, identity provider, mail |
| Account provisioning (`A/frames/provisioning.py`) | a row per folded address | claim, advance, read | database |
| Roles, model access, connector switch (`A/frames/platform_role_sync.py`, `platform_role_admin.py`, `model_access.py`, `connector_store.py`) | role rows, switches | reconcile, grant, revoke, switch | database, identity provider |
| Keycloak clients (`A/frames/keycloak_service_access.py`, `user_directory.py`, `group_membership.py`) | a cached token and group id | list, look up, grant | threads share the object |
| Identity, keys, sessions, gate (`A/frames/auth.py`, `identity.py`, `A/web/`, `A/core.py`) | the key cache, cookies, memberships | resolve, refresh, log in and out, admit | every request |
| Frames, active sets, groups (`A/frames/store.py`, `groups.py`, `active_store.py`, `A/routers/frames.py`, `frame_groups.py`) | two objects per frame, rows | every write route; audiences | object store and database, not atomically |
| Tasks (`A/tasks/store.py`, `A/routers/tasks.py`) | one document per owner | tasks, runs, notifications | row lock |
| History, usage, best-effort writes (`A/frames/history.py`, `usage.py`, `best_effort.py`, `db.py`) | rows, a bounded queue, seen windows | record, page, report | background threads |
| Migrations and start (`A/frames/collab_schema.py`, `A/core.py`, `config.py`) | a ledger of versions | migrate, check, serve | advisory lock |
| Audit (`A/frames/audit.py`) | audit rows | guarded transactions | database |
| Cog catalog (`A/cogs/`) | rows, a retry schedule, a lock | sweep, index one, remove one, read | registries, database |
| Connectors (`A/connectors/`, `A/routers/connectors.py`) | permits | bounded reads, walks, searches, counts | outside services |
| Identity inventory and rewrite (`A/identity_inventory/`, `identity_rewrite/`) | a report, a manifest | scan, analyse, plan, apply | database, object store |
| Command line (`C/`) | a session file, the bridge's prompts | log in and out, renew, watch, say, connect | hub, realm |

### What is hard

* **Threads and requests over shared state.** A driver advances on one snapshot of the Track while
  cancels, decisions and submissions arrive; requests check an object they have read and change it
  later; commands rewrite one session file; threads share a token, a key set, a queue, a view.
* **Two stores without a transaction between them.** A frame's body and metadata; a role and the
  realm's group; the rewrite's database and its sidecars; an acceptance and the grants it owes.
* **Crashes.** A host may stop between any two writes, a worker, a launcher or a controller at any
  moment; what the next start makes of the rest decides whether anything was lost or done twice.
* **Partial and ambiguous failure.** Appends, teardowns, calls to a cluster, a realm or a registry
  fail before or after they took effect.
* **Caches, cursors and polling.** Signing keys, tokens, views, outcomes kept by a tab; keyset and
  offset pages over collections that change; cancels and submissions noticed only by polling.
* **Time.** Lifetimes, grace periods, forced refreshes and replicas whose clocks differ.

### What makes each component correct

The properties of section 3 answer this one by one. In short: a reader of a run sees a legal
lifecycle and every accepted cancel, turn and decision has its effect once; nobody's worker, lock,
port, key, session or token is used for another; what was accepted is neither lost nor applied
twice nor told otherwise; what a person may see or do never exceeds what was granted; the audit log
agrees with the database; listings, pages and counts are exact of what stood still; and nothing
waits for ever.

## 2. Modules

The models vary from 40 to 900 lines; each module's head says what it models, what is external and what
one step stands for.

| Module | Models |
|---|---|
| `RunTrack`, `RunLifecycle`, `Runner` | the Track as its readers fold it; what a reader may see of a run; the runner with threads, claims, attempts, the worker's machine, teardown, crashes and failing writes |
| `TrackLog`, `TrackStore` | abstract: per run a log that grows at its end, with conditional appends; transactions, advisory locks, the sequence, cursor readers |
| `RunViews` | the cache of one run, its lock and its readers |
| `Controller` | the API's writes, the tick, its three kinds of thread, restarts; the runner reduced to what `RunLifecycle` says |
| `LocalWorkers`, `KubernetesWorkers` | ports, the start lock, launcher and lifeline, processes; policy, deployment and service applied and deleted one by one, pods that end in the background |
| `CliRuns`, `CliSession` | the ACP bridge and the commands that watch, terminate or talk to a run; the session file under overlapping commands |
| `Invitations`, `AcceptancePage` | requests as slots moving from transaction to transaction; the page extends it with tabs that remember outcomes |
| `Provisioning` | claims on folded addresses and phases of accounts |
| `Administration`, `KeycloakClient`, `AuditGuard` | operators and switches; the clients of the realm; the guarded transaction |
| `Principals`, `JwksClient`, `SignIn`, `RequestGate` | whom a request speaks for; the shared key set; cookies and flows; what stands before a handler, and admission |
| `Startup` | replicas of several builds over one ledger |
| `Frames`, `GroupViews` | every write route of frames, suggestions, active sets and groups, one object or database call per step; a group's audience |
| `Tasks`, `Activity`, `BestEffort` | one document under a row lock; rows that become visible out of order, walks and reports; the bounded queue and the watchdog |
| `IdentityMigration` | scan, analysis, plan, transaction, sidecars and manifest |
| `CogIndex`, `SweepLock`, `RegistryListing`, `CatalogReads` | sweeps and the retry schedule; the lock and its abandoned threads; listings; two stores that answer the same questions |
| `OciClient`, `CogCard` | tokens, challenges and redirects; front matter, bundles and profiles as pure functions |
| `ConnectorCalls`, `CalendarSearch`, `ProviderWalk`, `ProjectBoard` | switches, permits and deadlines; a resumable search; passed-on pages; counts beside a list |
| `MCExecution`, `MCAccounts`, `MCHub` | instances for TLC (`Runner`, `Invitations` and `CogIndex` are checked as they are) |
| `RunnerProofs` | theorems about `Runner`: types, claims and refinement; Gates, budgets, tokens, workers and cancels |
| `ExecutionProofs` | theorems about `TrackStore`, `Controller`, `SweepLock`, `LocalWorkers`, `KubernetesWorkers`, `CliRuns` and `RunViews` |
| `InvitationsProofs`, `AccountsProofs` | theorems about `Invitations` and `AcceptancePage`; about `Principals`, `Provisioning`, `Administration`, `AuditGuard`, `RequestGate`, `JwksClient`, `Startup`, `SignIn`, `CliSession` and `KeycloakClient` |
| `HubProofs` | theorems about `GroupViews` and `BestEffort` |

Operators whose comment begins with *Mutant*, and operators that nothing uses and that stand right
before the definition they vary, are deliberately wrong variants of it: a dropped guard, a missing
reset, a swapped order. No specification uses them; they are there so that each property, and
each conjunct of a property that speaks of several components, can be seen to depend on the line
it changes.

### Conventions

* A request, thread or command is a *slot* with a place in the code. One action is the code
  between two points where another actor, a crash or a failure can matter: a database transaction,
  one object or HTTP call, a lock taken or let go. A whole transaction is one step where the code
  takes its row lock first, and several where it reads first and writes later.
* Services outside the repository (PostgreSQL, object store, Keycloak, registries, providers,
  cluster, kernel) are modelled from how the code uses them and marked external in `PROJECT.json`.
* Data is reduced to what the code tells apart. A folded address is a key; a token is what it
  claims and who signed it; a digest names its content; a line of front matter is its class.
* Time is an age or a small clock. Where the code compares differences of a monotonic clock
  the model keeps ages only.
* History variables, which no guard reads, are marked as such where they are declared.

### Choices worth knowing

* `Runner`: one run per instance, since runs are independent. A crash kills local workers, as
  `locations/launcher.py` ends them when their pipe closes. A refused `retry` or `decide` changes
  nothing. The tally of a budget counts tokens; cost is bounded by the same code. The duration
  limit is a flag that may be raised at any time after the submission.
* `TrackStore`: which lock a run takes is the constant `LockOf`, because the hash of two run names
  may collide; the SQLite and in-memory stores are the instance with one lock. A refused duplicate
  submission still consumes a number, as `nextval` does.
* `RunViews`: objects live in a heap, since a thread may still work on one that `forget` dropped.
* `Controller`: one controller at a time, which the file lock taken in `main` ensures.
* `LocalWorkers`: a worker's process group is one process.
* `KubernetesWorkers`: an accepted delete removes the resource; the pods of a Deployment may go on
  for as long as the cluster takes (`ending`), and be reached through a Service of the name. A
  stopped host tells nobody: what it left is `orphaned` until the same name is made or removed again.
  What was reported is kept per resource (`told`): a line of the log, or a teardown's error.
* `CliSession`: a browser session may come without a refresh token, and any answer of the realm may
  be lost after the realm has acted. What a login's `_end` returns is discarded where the hub did not
  accept the session, so a failure there tells nobody.
* `RequestGate`: whether a route was given as a public page is apart from whether its path is public,
  since `_refuse_unless_safely_public` looks at the former only.
* `KeycloakClient`: a group is configured by its id (`GivenId`), used as it stands, or by its path.
* `CogIndex`: the schedule of a sweep's fetches is made after its bookkeeping (`PlanFetches`), so a
  sweep that fails before it moves neither the phase nor the rotation. A repository's listing is one
  step; that a listing read in pages can miss an artifact is `RegistryListing!CompletePicture` below.
* `ProviderWalk`: the walk that authorizes a Slack channel has a budget of `AuthPages` pages (25 in the
  code), pages may be empty, and a spent budget or a repeated cursor refuses with a cursor in hand.
* `CalendarSearch`: an all-day event is a date. The provider orders it in its calendar's zone, the key
  in the search's; `Shift` is the difference, per calendar.
* `Invitations`: the pages' and the admin panel's routes go through the same service functions as
  the JSON API, so they are actions of their own where their guards differ and share the rest.
  `single` says whether the deployment names one organization; it may be redeployed otherwise.
* `Frames`: an instance is a set of *workloads*, the routes that meet on the same objects, so that
  pairs of routes are explored exhaustively without all routes at once.
* `IdentityMigration`: the hub is stopped during a rewrite, as its documentation demands. A run may
  leave out the database (`--skip-postgres`, no URL) or the sidecars (`--frames-backend=none`, no
  bucket, no directory) and skips single sidecars it refuses to follow; all of that is reported as
  NOT REWRITTEN and still exits 0. A dry run writes nothing and is left out; a backend that is
  neither local nor S3 is refused by the hub itself (`A/config.py:1216`).
* `Principals`: a deployment is a record of settings, and every combination that `make_app`
  accepts is a behaviour.

## 3. What TLC checks

Components that share nothing are checked one at a time in one run: `MCExecution`, `MCAccounts` and
`MCHub` have a variable `focus` that is chosen initially and never changes. A behaviour is a
behaviour of the component it focuses on; the others' variables are parked. The components of
`MCExecution` and `MCAccounts`, which have theorems, keep variables of their own there, so that a run
checks the very formula a theorem states, which holds trivially of a parked component; those of
`MCHub` share variables, and their properties are conjunctions of `focus = ... => M!Property`. Nothing is lost by it: what two
components exchange is modelled in each as the environment it meets, and components that do
interact step by step are composed (`AcceptancePage` with `Invitations`, `Controller` with the
runner's abstract behaviour, `Runner` with `RunTrack`).

| Run | Instance | Shows |
|---|---|---|
| `runner_lifecycle` | 2 threads, 2 steps, a Gate, 3 calls, 2 boots, one failing write | `SnapshotCurrent`, `MachinesObeyed`, `CancelWins`; the runner implements `RunLifecycle` |
| `runner_gates` | 1 thread, 2 steps, the first signed off, 5 calls, 2 boots, 1 revision, token limit 3 with usages 1 and 2, a deadline | `GatesHonoured`, `AttemptsCounted`, `BudgetGuard` |
| `runner_cancel` | 3 threads, 3 calls, 2 boots | `NoOrphanWorker`, `TokenDiscipline` |
| `runner_liveness` | 2 threads, 3 calls, fair | `CallsReturn`, `CancelHonoured` |
| `budget_at_the_end` | 1 thread, 1 step, 2 boots | expected to fail: see *Disagreements* |
| `execution` | the Track store with 2 runs and 2 writers; the controller with 2 turns, 2 boots, a failed write; 2 local workers on 2 ports; an isolated Kubernetes worker made twice; 2 prompts of one session and one command; 3 sweeps on 2 replicas | `CursorNeverSkips`, `RunningIsDriven`, `StatementsUnderLock`, `HeldByItsOwner`, the store implements `TrackLog`, `TurnsInOrder`, `EverythingEnds` |
| `invitations` | 2 people, 2 invitations, 2 requests at a time, one organization, one group owed | `AuditAgrees`, `AcceptedRightly`, `NothingForgotten`, `PageIssuedLiveUnique`, `TerminalIsFinal` |
| `accounts` | 2 operators and their panels; 2 nested actions; 2 callers and 2 addresses of one key; 2 threads on one realm client and 2 groups of one name; 3 people at 2 issuers under every setting | `RolesAreSound`, `AuditedTogether`, `AddressesAreSafe`, `RealmCallsRight`, `OnePersonEach` |
| `web` | a rotating key; 2 browsers over 2 replicas 2 units apart; every route kind and setting; 2 replicas of 6 builds; 2 commands against 2 hubs | `KeysAreCurrent`, `SessionsAreOwn`, `ServedAsDeclared`, `MembershipStays` |
| `hub` | 2 requests over pairs of routes and 2 frames, or 3 writes of one; groups of 2 tenants; a task, 2 runs, 2 devices; 3 rows; a queue and a connection of one; stores with names in two spellings; 2 threads over a view; the page with a tab, an unverified and a shouting address; retried transactions | `FramesAreSound`, `RecordsAreKept`, `AcceptanceIsTrue`, `NothingGoesBack` |
| `cogs_connectors` | calls by tag and digest; 3 artifacts on pages of one; every front matter of up to 3 lines; 2 sources and 3 digests; 3 requests for one permit; 6 events; lists of up to 5; 2 cards; a walk over a changing realm | `CallsAreSafe`, `ListingsAreExact` |
| `sweeps` | 2 repositories, listings and reads that fail, new artifacts arriving in every sweep | `CatalogKept`, `RetriesNotStarved`; no deadlock |

What the properties of many components say:

* `MachinesObeyed`: the run's machine accepts every event appended to a Track, so any reader can
  replay it, and a worker is driven only through the transitions of its own machine.
* `RunningIsDriven`: a run that reads `RUNNING` has its driver, unless a write of that driver failed.
* `StatementsUnderLock`: a sweep's statement that can still commit runs under that sweep's lock.
* `HeldByItsOwner`: a worker answers at its own port and none outlives its teardown. A Deployment is
  without its network policy only where its own removal was reported to have failed; while a worker is
  handed over, every pod of its name is behind the policy, also one still ending, until its teardown
  begins or was reported to have failed; what is left behind was reported, or left by a host that
  stopped; and a call runs at most once. (After a teardown a pod may go on ending when its policy is
  gone already: the deletes are accepted one after the other and nobody waits for the pod,
  `E/kubernetes.py:390`.) An ACP request has one true answer, and a command that exits 0 did what was
  asked; `terminate --no-wait` asks for no more than the request, so it may leave a run that is going.
* `EverythingEnds`: appends end, submissions are noticed, a recorded request to cancel ends its run,
  processes die with what they belong to, prompts are answered, a sweep's lock is freed.
* `AcceptedRightly`, `AuditAgrees`, `NothingForgotten`, `PageIssuedLiveUnique`, `TerminalIsFinal`:
  whoever holds a membership through an invitation was its addressee, with a verified address, and
  nobody else used it; the audit log tells the same story as the rows; access owed by an
  acceptance stays owed until the realm has it; the pages leave at most one live invitation to an
  address; accepted and revoked invitations stay so.
* `RolesAreSound`: there is always an operator, and the log tells who is one.
* `RealmCallsRight`: a refused token is not sent twice; the group granted is the configured one, by
  its id or by its path, and not its namesake.
* `AuditedTogether`: a change is durable only together with its audit row, whatever the body does.
* `AddressesAreSafe`, `OnePersonEach`: see section 4.
* `AcceptanceIsTrue`: what the page remembers is true and final for the person who asked, and behind
  it whoever was accepted was invited and the audit log agrees.
* `KeysAreCurrent`: a key is accepted only while the endpoint can have confirmed it, and a new one
  is refused no longer than a set read just before it was published can stay cached.
* `SessionsAreOwn`: whoever acts in a browser is whom it shows, from a flow it began, in time; a
  session is sent to no hub but its own, a login never ends the session it has just signed in, and,
  as long as commands do not overlap and access tokens outlive a login, an open realm session is held
  or a person was told of it, but for four strays: the sign-in brought no refresh token, its answer or
  a renewal's was lost, or the realm did not end a session the hub had not accepted, which login says
  nothing of. (With tokens that expire during a login the renewal's refusal deletes
  the file, which still holds the session before: see `KeptOnceAccepted` below.)
* `ServedAsDeclared`, `MembershipStays`: no handler runs without the checks its route declares, but a
  state-changing route that is registered at a public path in another way than as a public page, which
  no check at the start looks at (`A/web/authz.py:265`); no replica serves over a schema it found behind or edited, and an admission never moves or revives
  a membership.
* `FramesAreSound`: metadata has its body; readers do not outlive the opening of a frame; a frame a
  user cannot read is pruned; groups are never empty; and whoever does not own a group sees it only if
  all members are there and published and those of the group's tenant are readable to that person.
  (In the workloads with active sets a frame is narrowed by withdrawing it, by its owners and by its
  deletion; the routes that change its readers are explored without an active set, so the pruning
  that follows them is not exercised.)
* `RecordsAreKept`: no accepted patch of a task is lost, no occurrence runs twice; the rewrite
  loses nothing, a run that exits 0 has migrated everything its plan maps except what was left out or
  reported as NOT REWRITTEN, which it has not touched, and its manifest is true; queued writes are
  counted exactly and a cancel hits its own statement; walks and reports are exact; a kept view is
  a prefix of the Track.
* `NothingGoesBack`: no suggestion disappears or is reopened; no reader of a run is shown an
  older run.
* `CallsAreSafe`: a retry has a fresh credential; what is returned is what was named; a bad Cog is
  refused, never silently half read; reads stay within their deadline, permits and host.
* `ListingsAreExact`: listings, catalog pages, searches, walks and counts are exact of what stood
  still, two stores answer alike, and the realm's people are all listed unless somebody left. The
  walk that authorizes a Slack channel has compared everything before the cursor it stops at, whether
  it found the channel, spent its pages or read to the end. Of the calendars' events the property
  speaks only where the calendar is in the zone of the search: see `NoZoneStranded`.
* `CatalogKept`, `RetriesNotStarved`: nothing present is marked removed, the catalog catches up
  with a registry that rests, and a failed artifact is retried however many new ones arrive.

**Bounds.** Two actors make every pairwise race; three are used where two cancels race a driver,
where a third request must wait for the permit of two, and where two sweeps of one replica meet one
of another. Two steps make "the next" and "the last" differ. Five calls allow submit, decide,
retry, decide, retry around two crashes. A limit of 3 with usages 1 and 2 reaches below, at and
past the limit. Pages of one item over three make every page boundary fall between two changes. Two
spellings of a name and two people of one subject are what folding and issuers can confuse. Ages
run one past the longest interval compared with them. Every action of every specification fires in
some run. Symmetry is used among slots that are alike, and only with safety properties.

**Deadlock** is checked in the `runner_*` runs and in `sweeps`. The other instances come to rest
when their bounded requests, calls or clocks are used up, so they do not check it; that nobody
waits for ever there is what `EverythingEnds` and the liveness properties say.

**Fairness.** A thread that can take a step takes one; an interaction ends because the executor
bounds it (`--interaction-timeout`, 60 s by default; with 0 the operator gave that up). Nothing
makes clients call. A booted host runs `start`, and a stopped controller is started again. Strong
fairness is asked where a queue grants in order: for the watched writer's transaction
(PostgreSQL's lock queue) and for the sweep whose statement has ended. The controller's loop polls
for ever; a driver is only assumed to reach its end once it was cancelled, when its worker is gone:
a Cog may hold a session for hours. A launcher's steps and the kernel's delivery of a parent's
death are fair. A prompt's thread polls its turn until it has an answer or the run ended.

### Disagreements with the repository's own words

The run `budget_at_the_end` is expected to fail, and its counterexample is the finding: "one that
overspent on its last step stops here instead of completing over its budget" (`E/runner.py:805`),
but the check is skipped in a call that reached no step, so a crash after the last result and a
retry complete the run over its budget.

The others below are stated in their modules beside the property that does hold, and TLC refutes
each of them when it is checked on the instance of its component. Three need another instance than
the runs': `RejectionWindow` a `Lifespan` of 3, `ReadersAreChecked` a build with neither automatic
migration nor membership, `KeptOnceAccepted` access tokens that are short-lived.

| Definition | The repository says | The code does |
|---|---|---|
| `Runner!FailureRetriedAnew` | "Retry runs a recorded failure as a new attempt under a new key." (`docs/cog-execution/states.md:121`) | a crash between `step_failed` and `failed` makes the retry reuse the failed key |
| `Runner!NoOrphanWorker`, with a failing write | "then tear the worker down whatever happened" (`E/runner.py:815`) | a Track write that raises before the executor is asked skips the teardown (`:960`) |
| `RunViews!SafeToShare` | "Safe to share between threads." (`E/intents.py:202`) | `events()` tests a field and reads it again without the lock (`:249`) |
| `Controller!TurnFinal` | "A turn still waiting when its run ended will never be answered." (`E/intents.py:321`) | an answer is appended whatever became of the run (`E/controller.py:152`) |
| `AcceptancePage!ErrorMeansUnused` | "Your invitation has not been used." (`A/web/acceptance.py:521`) | the page says so also when the response to an acceptance that committed was lost |
| `Administration!LogTellsAccess` | a gap remains in one direction only, a change without its record (`A/frames/model_access.py:14`) | two panels' calls to the realm and their commits may interleave, so the last row tells the opposite of what stands |
| `Frames!DeletedLeavesGroups` | a deleted frame is pruned from every group it belonged to, or "a stale id would linger forever" (`A/routers/frames.py:261`) | a group that adds the frame after the lookup keeps its id |
| `GroupViews!NeverMoreVisible` | "A group is never more visible than its narrowest member" (`A/frames/groups.py:179`) | visibilities are compared without their tenants: a group that holds another tenant's frame, narrowed since, is still shown within its own tenant |
| `JwksClient!RejectionWindow` | the worst case is the forced interval plus one fetch (`A/frames/auth.py:413`, `docs/frames-operations.md:84`) | the window starts at the first token that asks, whenever that is: a request beside the one whose forced fetch is out finds the allowance spent and is refused from the cached set |
| `SignIn!WorstCaseAge` | claim age plus one clock skew is "the true worst-case age" (`A/web/session.py:113`) | minting replica ahead and deciding replica behind: two skews |
| `Startup!ReadersAreChecked` | the schema check runs when something reads the tables (`A/frames/collab_schema.py:935`) | it runs only under membership resolution; other stores read the tables too (`A/core.py:289`) |
| `IdentityMigration!ExitOneWroteNothing` | exit 1: "Nothing was written." (`A/identity_rewrite/cli.py:11`) | a run that applied everything and found unexpected paths also exits 1 (`:256`) |
| `IdentityMigration!UnscannedStaysAlone` | "Carriers that were not scanned are not rewritten." (`A/identity_rewrite/plan.py:245`) | the writers rewrite every carrier for the principals the report maps |
| `RegistryListing!CompletePicture` | an enumeration that returns is complete (`A/cogs/indexer.py:32`) | a listing by page number misses an artifact when one before it is deleted meanwhile (`A/cogs/adapters/harbor.py:202`) |
| `ProviderWalk!ChannelsAllListed` | sending `next_cursor` back walks the channels (`docs/slack-connector.md:62`) | what a page brought past the limit is cut off, and the cursor is past it (`A/connectors/slack_client.py:269`) |
| `KeycloakClient!ErrorsAreItsOwn` | grants raise `ServiceAccessError` when something goes wrong (`A/frames/account_provisioning.py:186`) | `_access_token` reads the shared attribute three times; a thread whose 401 clears it in between makes the other fail with an `AttributeError` that no caller expects |
| `CliSession!KeptOnceAccepted` | "Keep the session only once the hub accepts it" (`C/main.py:261`) | with short-lived access tokens the first call renews the new session, which saves it, or deletes the old one, before the hub has answered (`C/hub.py:101`) |
| `CalendarSearch!NoZoneStranded` | draining the instant at the limit keeps an event from being stranded "below the emitted cursor, losing it silently" (`A/connectors/calendar_client.py:282`) | an all-day event of a calendar in another zone is ordered by the provider at that zone's midnight and keyed at the search's (`:694`), so the cursor can pass it unread |

Where the hub does not accept a browser session, it "is ended rather than left open at the realm with
nothing holding it" (`C/main.py:261`); `_end`'s failure is discarded there (`:268`), and the session
left open is one of the strays `CliSession!SessionsAreAccounted` names.

## 4. What is proved

The proofs hold for every number of threads, steps, runs, connections, readers, callers, addresses,
people, issuers, requests, invitations, organizations, groups, operators, turns, sweeps, replicas,
workers, ports, prompts, keys, browsers, builds and commands, and every Gate policy, route, setting,
limit, interval and clock drift. They assume only what the modules' `ASSUME`s say, and
TLC evaluates those in every run that extends the module:

* `RunTrack`, `Runner`: there is at least one step (`NStepsAssumption`); `Nobody` is not a thread;
  policies, severities, usages and limits have their types.
* `TrackStore`: there is a run and every run has a lock; `Nobody` is not a writer; the bound on
  numbers is a natural.
* `SweepLock`: every sweep runs on a replica, and `NoSweep` is none of them.
* `Invitations`: whether an address must be verified is a Boolean, and the bounds are naturals.
* `Provisioning`: every address folds to a key, and no account is called `NoAccount`.
* `Principals`: every person has an issuer and a subject, and one issuer gives no two people one
  subject; deployments are records of settings; strings are not empty.
* `LocalWorkers`: `None` is neither a worker nor a port.
* `RequestGate`: there is somebody to log in.
* `JwksClient`: intervals are naturals, and a key either rotates or does not.
* `Startup`: `NoReplica` is none of the replicas, and migrations are sequences of texts, none of them
  the mark of a row without a checksum.
* `SignIn`: lifetimes are naturals, every server's clock drifts by an integer, and one drifts least
  and one most; `Anyone` is nobody in particular.
* `BestEffort`, `RunViews`: bounds are naturals, threads are finitely many, and the values that stand
  for "none" are none of the others; these are hypotheses of the theorems (`BestEffortAssumption`, `ViewsAssumption`), and TLC
  evaluates them in the run `hub`.
* `Controller`, `Administration`, `AuditGuard`, `KubernetesWorkers`, `CliRuns`, `CliSession`,
  `GroupViews` and `KeycloakClient` assume nothing but the types of their constants.

The bounds that keep TLC's state spaces finite are arbitrary naturals in the proofs. Every proof
has the same shape: an inductive invariant, a lemma per action or per group of actions that touch
the same state, and a temporal step by `PTL`. Each invariant was first checked by TLC on the
instances of section 3.

### The runner

* **`RunnerProofs!TypeCorrect`**: `Spec => []TypeOK`. `TypeOK` is not inductive: the events of
  an attempt index per-step functions with the attempt's step. `TypeInv` adds `KeyInv`: a
  thread inside an attempt has a key whose step is one of the Op's.
* **`SnapshotsCurrent`**, **`MachinesAreObeyed`**: `SyncInv` says that a thread at a holding place
  has the claim, that a driver's snapshot is the Track, that a driver past its pickup finds the run
  `RUNNING`, and that an attempt's step is the next one. The claim makes it inductive: only the
  holder writes, and the API's only unclaimed write is a submission, which cannot land once anything
  was read. Each thread step is reduced to one of a few shapes (on its way out, within an
  attempt, a recorded end) with a lemma each. The Track is readable because every event is appended
  where the machine accepts it; the worker's machine is obeyed because each place of an attempt
  leaves one state its worker can be in.
* **`RunnerImplementsLifecycle`**: the same case analysis shows that each step's effect on the
  Track is a move `Follows` lists, and each such move is a step of `RunLifecycle` or a stutter.
* **`GatesAreHonoured`**, **`BudgetGuarded`**, **`TokensDisciplined`**,
  **`NumbersNeverReused`** rest on `DataInv`. Its first half, `TrackSound`, is of the Track alone:
  an open escalation is the result shown of a step not done or approved yet, an approval completes
  its step with the result it named, raised results stay below the step's next number and kept ones
  are of steps done, and at most one token is live. Its second half says what a driver's place
  adds: at `keep` the step's Gate does not sign off everything (`GateAt`), where an attempt has no
  worker the run has no token (`TokenAt`), and between the check of the budget and the call the
  recorded usage is below the limit (`BudgetAt`). The Track alone would not do, since the decision
  to keep or to call is made some steps before it is recorded. `NumbersNeverReused` holds whatever
  Track writes fail: a step is sent back at most `max_revisions` times, and no worker is brought up
  or asked under the number of a recorded result.
* **`AttemptsAreCounted`**, **`NoWorkerOrphaned`** need two more invariants: `TakenInv` (a
  worker is taken from its attempt once, by its driver or by one cancel, and the driver waits for
  the cancel that took it) and `WorkerInv` (every live worker is that of the attempt under way or
  one whose failed teardown the Track records, and the next attempt of its step will have another
  number). Both theorems have the hypothesis `MaxTrackFailures = 0`: a Track write that
  raises between the answer and the teardown skips the teardown (`E/runner.py:960`), and the
  worker it leaves behind refutes both. That is the disagreement listed in section 3 and not a
  convenience of the proof.
* **`CancelsWin`**: once a holder has taken a cancel it keeps no further result and moves the run
  nowhere but to `CANCELLED`. `CancelInv` says that a cancel is taken only from a holder past its
  opening, on a Track that has a submission, so that no flag outlives its call and no writer but
  the holder meets one; each of the holder's writes then looks at the flag before it appends.

### What surrounds the runner (`ExecutionProofs`)

* **`CursorsNeverSkip`**, **`StoreImplementsLog`**: `StoreInv` says that a transaction past its
  lock holds it, that a checked condition still holds, that a drawn number is above all committed
  numbers of its run, and that a cursor is at or below some row. Two transactions past their locks
  are thus on different runs, so a commit disturbs no other transaction's check or number, and
  lands above every cursor of its run.
* **`RunningRunsAreDriven`**, **`TurnsAnsweredInOrder`**: `ControllerInv` says that a driver or a
  cancel has the claim and that nothing runs before a controller has started (`DriverClaims`), that
  the turn in hand is the first that waits and its one thread the only one that answers (`InHand`),
  and that a turn about to be recorded has its outcome (`Decided`). The first pending turn of a
  sequence is found by the well-foundedness of `<`, not by induction.
* **`SweepsWriteUnderLock`**: a statement that can still commit runs on its own sweep's connection,
  and that connection holds the lock. `SweepInv` says that a replica has one sweep under way
  (`OneAtATime`), that a sweep whose thread outlives it is the last before its replica stops
  (`Outlived`), that a sweep at work has the store's connection (`AtWork`), and that this
  connection holds the lock until the server drops it (`Kept`). `Outlived` is what the code's
  refusal to hand a dropped thread's lock to anybody amounts to; without it the lock of an
  abandoned statement could be given to the next sweep.
* **`LocalWorkersAreOwn`**: while a launcher lives, its entry in `_ports` is its own (`PortsHeld`),
  so that two living launchers have two ports; a probed port stays free until it is entered since
  the start lock is held in between (`StartLocked`, `ProbedFree`); and no process that could serve
  is left once its launcher has exited (`ProcessesEnd`). The lemmas are by what a step touches: a
  worker's place, its processes, or both.
* **`PodsAreContained`**: `ExecutorTrue` says that the policy is there from the second application
  on and for as long as the worker is handed over, that what is no longer on the list of a removal is
  deleted or was reported (`DeletedSoFar`), and that a call under way is the first. The policy is made
  first and deleted last, so a Deployment is without it only where its own delete failed, and a pod
  that is still ending is behind it again before the next worker of the name is handed over.
* **`ClientsAreToldOnce`**: a prompt has no response until it is answered and exactly one from then
  on (`OneResponse`); whoever was read before a cancel knows of it, which is what clearing the
  session's flag at the next prompt preserves (`CancelsSeen`); and a run seen completed or cancelled
  is so for good (`SeenIsFinal`), so what an exit code says of the run seen is true of the run.
* **`ResourcesHeldByTheirOwner`** puts the three together as the invariant the run checks.
* **`ViewsArePrefixes`**, **`ReadsAreCurrent`**: what is kept of a run is its Track up to the last
  event read, and no thread is told a view or turns from before its call began. `ViewsInv` says of
  every object, dropped ones included, that it is whole (`Whole`), except the one whose list the
  lock's holder has emptied and is filling again: that one still has the view and the turns of
  before (`Reading`), and a thread past its refresh may read these without the lock. A call's object
  was read up to where the call began, and an object is never read less far (`ReadInv`). The
  hypothesis `ViewsAssumption` (the bounds are numbers, `None` is no list of events) is evaluated
  by the `hub` run. Of `events()` the same is not true (`SafeToShare`, section 3). They are the parts
  of `RecordsAreKept` and `NothingGoesBack` about `RunViews`.

### Invitations (`InvitationsProofs`)

**`AuditIsExact`**, **`AcceptedOnlyRightly`**, **`NoGrantForgotten`**, **`PagesIssueOnce`** and
**`FinalStaysFinal`** hold for any number of people, invitations, organizations, groups and
requests in flight, however these interleave, are retried or cut off. The invariant is
`DbInv /\ ReqInv`. `DbInv` is of the database: types, the declared organization exists, an accepted
row has an accepter, a grant settled as granted is at the provider, and the four properties
themselves. `ReqInv` is why the next write keeps them: what a request read before its transaction
still holds of the row it writes (`ReqOk`), and two pages about to insert are about two addresses,
since each holds its address's advisory lock (`OnePage`). The other requests' `ReqOk` is carried by
one lemma: every step but one is `Steady` (no row disappears, changes its address or becomes a live
row of a page), and that one, `Insert`, is treated by itself with the lock. That a free number
for a row or an organization exists follows from the well-foundedness of `<`; that the log has one
row more for one change and the same for every other target is a lemma about bags.

**`PagesTellTheTruth`** is about any number of tabs in front of that service, opened, reloaded, signed
in as somebody else, submitted twice and cut off. `ReqOk` says of a request that an answer already
given is true of its row (`TrueOf`), also when the page only hears of it later; `Final` says that an
invitation that is spent, by whomever, stays so. `TabInv` says the rest: the request a tab waits
for is about the tab's invitation and by the person it asked for, no two tabs wait for one (`OneEach`),
and a tab that has settled nothing still holds the token of the last link opened. So an outcome is
true when it is stored and nothing that happens later can make the tab a liar. It is what `hub` checks of
the page under `AcceptanceIsTrue`.

### Accounts (`AccountsProofs`)

* **`AddressesSafe`**: what a caller was told of an address stays true, one invitation wins a
  folded address, and the account recorded for it never changes or disappears, however callers race,
  fail and retry without a lease. `ProvisioningInv` adds that a row past its claim has an account.
  Reading, a lost claim and a refused advance are one lemma (an answer is true when it is given,
  and rows only move forward); committing a claim and advancing a phase are a case each.
* **`PrincipalsArePeople`**: on every deployment pinned to the subject that started without the
  development master switch, a principal is one person's, and a person has one principal.
  `PrincipalsInv` says that only a deployment that passed its checks serves, that tokens say of a
  person what the issuer did, that an identity once found is the one its credential still gives,
  and that whatever was spoken carries the speaker's subject at the one trusted issuer. The start-up
  checks are what makes the bearer's and the session's issuer that one, and https what makes an
  accepted token a signed one.
* **`OperatorsRemain`**, **`ManualRowsUntouched`**: a hub that has an operator keeps one, the last
  audit row about a person tells whether they are one, and no sign-in touches a role given by hand.
  `AdminInv` says that the rows a revoking panel has locked are operators still (`PanelHolds`) and
  that one panel at a time has rows locked (`OneHolder`): a revocation that counted another
  operator cannot lose that one before it commits.
* **`ChangesAreAudited`**: no change is committed without its audit row. `AuditInv` says that an
  action under way has no outcome, that a recorded one has, and that a change committed behind the
  guard is seen: until a statement opens another transaction, the connection is in none, which
  is what the last check looks at.
* **`RoutesAreProtected`**, **`MembershipsStay`**: `RouteStands` says which routes an application
  that started can have (among them an unsafe one at a public path that is no public page), and `Passed` what a request has been through when it is where it is: each
  layer leaves its condition behind. No layer suffices alone. An admission is an insert that does
  nothing on a conflict, so it changes no membership that another request made meanwhile.
* **`SigningKeysAreCurrent`**: `JwksInv` bounds how old a publication or a withdrawal can be that a
  set does not show: the set of a fetch that is out misses no more than the fetch's age, the
  validated set no more than its own age and one fetch, the cached one of an endpoint that answers
  no more than its age and one fetch. The theorem's two bounds are these at their greatest, the
  stale bound and the lifespan. It holds for any intervals; that nothing shorter holds is the
  disagreement `RejectionWindow`.
* **`SchemaIsMigratedOnce`**: the ledger only grows and a checksum once recorded never changes
  (`LedgerGrows`), since whoever writes it has held the lock since it read it (`InTransaction`); so
  what a serving replica found of it stays true (`PodTrue`), whatever is rolled out afterwards.
* **`SignedInAsOneself`**: a transient cookie names a flow its browser began, and the code of a
  flow is exchanged once, so the flow of a session or of a form is spent and names the same person
  for good (`SpentBy`); a session's times are those of the replica that minted it
  (`SessionIsTimed`). The bound on ages is `Spread`, the greatest difference of two clocks.
* **`CliSessionsAreKept`**: `KeptInv` holds however commands overlap; `AloneInv` says, of commands
  that do not, where each place of a command has the sessions it may be responsible for
  (`StageHolds`), and that an open session whose refresh token is spent was told of or is a stray
  (`CutOff`).
* **`RealmCallsAreRight`**: a thread throws the shared token away when it is refused and then takes
  whatever is cached, which another thread may have put there meanwhile. That this is never the
  refused one needs `TokenInv`: a token is stored once, by the thread it was minted for, and until
  then nobody else has it, or was refused it (`StoredOnce`); what a retrying thread was refused is
  not cached and, the cache being its only source, does not come back (`NeverBack`).
* **`SessionsBelong`**, **`ServesAsDeclared`** put these together as the invariants the run checks.

### Hub (`HubProofs`)

* **`AudienceStaysNarrow`**: the least of a set of visibilities exists and is below each of them, so a
  group's projection is no broader than any of its members, for any people, tenants, frames and
  changes to them. It is the part of `FramesAreSound` about `GroupViews`.
* **`BestEffortIsExact`**: `CheckoutInv` says that a thread in a checkout is the borrower of its
  connection and that a watchdog lives no longer than the statement it watches; `CountInv` that the
  queue holds writes before the close and only requests to stop after it, and that `_pending` is the
  writes queued and those at work; `ClaimInv` that an open claim is carried by a queued write, a
  request, or a thread that has neither written the key nor told of its failure (`Carried`). A step
  that moves a write between the queue and a thread moves both sides of the count. It is the part of
  `RecordsAreKept` about `BestEffort`.

### Only model-checked

Liveness needs fairness and `ENABLED`, which are outside the prover's reach: `CallsReturn`,
`CancelHonoured`, `EverythingEnds`, `RetriesNotStarved`. So are RECURSIVE operators and induction over data:
`CatalogReads`, `CogCard`, `CalendarSearch` and `IdentityMigration` fold over sequences and sets,
and `CogIndex` declares a recursive operator (`CatalogKept`, and the parts of `ListingsAreExact`
and `CallsAreSafe` about them). `Tasks`, `OciClient`, `RegistryListing`, `Activity` and `Frames`
filter and sort sequences (`SelectSeq`, sorted pages), of which the library states nothing that the
provers could use, so `RecordsAreKept`, `NothingGoesBack` and `FramesAreSound` stay with TLC as well.
`ConnectorCalls` filters its queue in the same way. The parts of these properties about `RunViews`,
`BestEffort` and `GroupViews` are proved, as said above.

## 5. What is not modelled

* *Execution*: payload storage, record wording, and Tracks written before schema v1
  (`track.upgrade`); the step-attempt and install machines, which nothing that runs checks records
  against; Op definitions and the registry of backends (data); resolving and installing
  packages; manifests of Kubernetes objects. The session grace of a turn is a nondeterministic
  choice, so how long it lasts is not covered. A run that becomes unreadable is left out of
  `Controller`: `Runner` shows the runner makes none.
* *Hub*: the local-filesystem frame store and the codec of frames, listings by filter, marking
  notifications read and device heartbeats (they touch nothing else), the realm's endpoints of
  `account_provisioning.py`, which nothing calls between the steps of `Provisioning` yet, most
  settings of `config.py` (data), registry configuration and webhook bodies (pure checks).
* *Connectors*: rendering of results, Drive, and the Slack text conversion.
* *Presentation*: pages, mail templates, the admin UI, the MCP surface (a second entrance to the
  modelled handlers), metrics, logging and report text, which no part reads back.
* *Cryptography*: signatures, sealing and hashing are abstracted to who made what.

## 6. Plan

1. *Done:* the execution layer with its proofs; what surrounds the runner; invitations,
   accounts, identity and sessions; frames, groups, tasks and logs; the catalog and the connectors;
   the identity rewrite; the command line.
2. *Done:* proofs of the runner's invariants (Gates, attempts, budgets, tokens, workers, cancels),
   of the five properties of `Invitations`, and of `Administration`, `AuditGuard`, `Controller` and
   `SweepLock`.
3. *Done:* proofs for the executors and the bridge, the gate, signing keys, the start, browser
   sessions, the command line's, the clients of the realm, the acceptance page
   and the views of runs.
4. *Done:* proofs for `BestEffort` (the counter, the claims and the cancels) and for `GroupViews`.
5. `RunReplay`: the Track as a sequence, with `upgrade` and pickups recorded before v1, shown to
   agree with `RunTrack` on v1 Tracks.
