------------------------------- MODULE MCHub --------------------------------
(***************************************************************************)
(* Small instances of what the hub keeps and of what it reads elsewhere:   *)
(* frames, groups, activity, tasks, best-effort writes, the rewrite of     *)
(* identities and the views of runs; invitations and the page that accepts *)
(* them; listings of the realm; the registry client, listings, cards and   *)
(* catalog of the Cogs; and the connectors.                                *)
(*                                                                         *)
(* The components are checked one at a time: a behaviour is a behaviour of *)
(* the component it focuses on, whose variables are v1, v2, ..., and       *)
(* nothing else moves.                                                     *)
(***************************************************************************)
EXTENDS Naturals, Sequences, SequencesExt

CONSTANTS
  Focus,       \* the components of the run
  Actors,      \* two requests, devices, threads, ...: they are alike
  Trio,        \* three requests that are alike
  Nothing,     \* the value of a variable that is not in use, and Python's None
  RunUnreadable, InvalidTransition, TypeError   \* what a call of RunViews may raise

VARIABLES focus, v1, v2, v3, v4, v5, v6, v7, v8, v9, v10, v11

Alike == Permutations(Actors) \cup Permutations(Trio)

-----------------------------------------------------------------------------
(* Two requests on the routes that meet on the same objects; bob is of another
   organization. *)
On(frames, routes) == [routes |-> {"create"} \cup routes, frames |-> frames]
MCWorkloads ==
  {On({"f1"}, {"publish", "suggest", "delete"}), On({"f1"}, {"owners", "active"}), On({"f1"}, {"publish", "active", "delete"}),
   On({"f1", "f2"}, {"delete", "groups"}), On({"f1"}, {"groups", "group edits"})}
F == INSTANCE Frames WITH
  FUsers <- {"alice", "bob"}, Foreigners <- {"bob"}, FrameIds <- {"f1", "f2"}, Texts <- {"t1"},
  SuggestionIds <- {"s1"}, FSlots <- Actors, Workloads <- MCWorkloads, GroupIds <- {"g1"},
  MaxPuts <- 2, PutAttempts <- 2,
  meta <- v1, body <- v2, active <- v3, fslot <- v4, groups <- v5, ops <- v6, excused <- v7

(* The same with three writes of one frame. *)
LongWorkloads ==
  {On({"f1"}, {"update", "readers"}), On({"f1"}, {"publish", "suggest"}), On({"f1"}, {"publish", "active"})}
FL == INSTANCE Frames WITH
  FUsers <- {"alice", "bob"}, Foreigners <- {"bob"}, FrameIds <- {"f1"}, Texts <- {"t1"},
  SuggestionIds <- {"s1"}, FSlots <- Actors, Workloads <- LongWorkloads, GroupIds <- {"g1"},
  MaxPuts <- 3, PutAttempts <- 2,
  meta <- v1, body <- v2, active <- v3, fslot <- v4, groups <- v5, ops <- v6, excused <- v7

(* Two callers of one tenant and one of another. *)
MCTenant == [u \in {"u1", "u2", "u3"} |-> IF u = "u3" THEN "b" ELSE "a"]
G == INSTANCE GroupViews WITH
  Users <- {"u1", "u2", "u3"}, Tenant <- MCTenant, FrameIds <- {"f1", "f2"}, GroupIds <- {"g1"}, MaxOps <- 5,
  frames <- v1, items <- v2, history <- v3, read <- v4, ops <- v5

(* A task, two runs of two occurrences, one run retained; two devices. *)
T == INSTANCE Tasks WITH
  TaskIds <- {"t"}, RunIds <- {"r1", "r2"}, OccurrenceKeys <- {"o1", "o2"}, Devices <- Actors, Times <- {1, 2},
  MaxRetained <- 1, MaxRevision <- 2,
  doc <- v1, rowLock <- v2, change <- v3, expired <- v4, patched <- v5, answered <- v6

(* Three rows, two of them recorded at a time, at two moments. *)
A == INSTANCE Activity WITH
  RowIds <- {1, 2, 3}, Actors <- {"u1", "u2"}, Orgs <- {"o"}, Inserters <- Actors, Limits <- {1, 2}, LastMoment <- 1,
  moment <- v1, rows <- v2, inserter <- v3, readable <- v4, walk <- v5

(* Two people seen through one request thread, a queue and a connection of one. *)
W == INSTANCE BestEffort WITH
  SeenKeys <- {"k1", "k2"}, Requests <- {"r"}, Threads <- {"t"}, QueueSize <- 1, Conns <- {"c"}, Interval <- 3,
  window <- v1, failed <- v2, caller <- v3, works <- v4, pending <- v5, closed <- v6, thread <- v7, timer <- v8,
  borrower <- v9, claim <- v10, strays <- v11
ASSUME WriterAssumption == W!BestEffortAssumption

(* "a" and "A" are one name in two spellings, "s" and "t" are subjects.  One
   person; two whose names collide; a username that is another's subject; an
   account newer than the records.  The inventory read everything, all but a
   sidecar, or nothing of Postgres. *)
MCNames == {"a", "A", "b", " b", "s", "t"}
MCFold == [n \in MCNames |-> IF n = "A" THEN "a" ELSE n]
Account(sub, email, username, newer) == [sub |-> sub, email |-> email, username |-> username, newer |-> newer]
MCDirectories ==
  { {Account("s", "a", "b", FALSE)},
    {Account("s", "a", "no one", FALSE), Account("t", "b", "no one", FALSE)},
    {Account("s", "a", "no one", FALSE), Account("t", "no one", "a", FALSE)},
    {Account("s", "a", "no one", FALSE), Account("t", "b", "s", FALSE)},
    {Account("s", "a", "no one", TRUE), Account("t", "b", "no one", FALSE)} }
MCGaps == {{}, {"f1"}, {"group", "history", "active", "usage", "tasks", "devices"}}
Row(n, at) == [at |-> at, inside |-> n]
MCStores ==
  { [frames |-> [f \in {"f1", "f2"} |-> [owners |-> IF f = "f1" THEN {"a"} ELSE {"A", "b"}, note |-> "b"]],
     group |-> owners, history |-> {[actor |-> "a", detail |-> newest]},
     active |-> [n \in keys[1] |-> {n}],
     usage |-> [n \in keys[1] |-> [first |-> IF n = newest THEN 1 ELSE 2, last |-> IF n = newest THEN 4 ELSE 3]],
     tasks |-> [n \in keys[2] |-> Row(n, IF n = newest THEN 2 ELSE 1)],
     devices |-> [n \in keys[2] |-> [at |-> IF n = newest THEN 2 ELSE 1]]] :
    <<owners, newest, keys>> \in
      {<<{"s", "b"}, "a", <<{"a", "A", "s"}, {"a", "b"}>> >>, <<{" b"}, "s", <<{"b", "t"}, {"A", "s"}>> >>} }
M == INSTANCE IdentityMigration WITH
  Names <- MCNames, CaseFold <- MCFold, PaddedNames <- {" b"}, Directories <- MCDirectories, Stores <- MCStores,
  Gaps <- MCGaps, NoOne <- "no one", MaxRuns <- 2, MaxDirectories <- 1,
  directory <- v1, store <- v2, report <- v3, run <- v4, manifest <- v5, origin <- v6, merged <- v7

(* Two threads over a run that ends, moves again and may become unreadable. *)
V == INSTANCE RunViews WITH
  Viewers <- Actors, NoViewer <- "nobody", NoValue <- Nothing, Outcomes <- {"moving", "ended", "unreadable"},
  MaxEvents <- 3, MaxForgets <- 1, MaxReads <- 2,
  log <- v1, heap <- v2, table <- v3, viewLock <- v4, freshLength <- v5, place <- v6, call <- v7, kept <- v8,
  began <- v9, result <- v10, used <- v11
ASSUME RunViewsAssumption == V!ViewsAssumption

(* One invitation and one tab.  ann writes her address in upper case; bob has
   her mailbox on an account that never verified it. *)
AP == INSTANCE AcceptancePage WITH
  Users <- {"ann", "bob"}, NoUser <- "nobody", Founders <- {}, Shouting <- {"ann"}, Unverified <- {"bob"},
  Strangers <- {}, RequireVerified <- TRUE, NGroups <- 0, MaxInvitations <- 1, MaxOrgs <- 1, Attempts <- 1,
  Requests <- Actors, Tabs <- {1},
  invs <- v1, orgs <- v2, members <- v3, grants <- v4, idp <- v5, audit <- v6, links <- v7, single <- v8, req <- v9,
  tab <- v10

(* The same with cyd, who has another mailbox, and one request at a time. *)
I == INSTANCE Invitations WITH
  Users <- {"ann", "bob", "cyd"}, NoUser <- "nobody", Founders <- {}, Shouting <- {"ann"}, Unverified <- {"bob"},
  Strangers <- {"cyd"}, RequireVerified <- TRUE, NGroups <- 1, MaxInvitations <- 1, MaxOrgs <- 1, Attempts <- 2,
  Requests <- {"r"},
  invs <- v1, orgs <- v2, members <- v3, grants <- v4, idp <- v5, audit <- v6, links <- v7, single <- v8, req <- v9

-----------------------------------------------------------------------------
(* One thread at a time over pages of a changing realm of two, the group's id
   configured. *)
RealmGroups == {[path |-> "/x", name |-> "x", id |-> 1]}
KR == INSTANCE KeycloakClient WITH
  Threads <- {"thread"}, Retrying <- TRUE, Groups <- RealmGroups, Configured <- "/x", GivenId <- 1,
  RealmUsers <- {1, 2}, PageSize <- 1, Lifetime <- 1, MaxMinted <- 2, MaxTime <- 1, MaxRevocations <- 1, MaxChanges <- 2,
  token <- v1, minted <- v2, ends <- v3, revoked <- v4, now <- v5, groupId <- v6, people <- v7, changes <- v8,
  began <- v9, left <- v10, calls <- v11

(* Two calls for a tag: an index over an index and a manifest that carries a
   pixi.toml; one token is cached. *)
MCChildren ==
  [b \in {"index", "inner", "cog"} |->
     CASE b = "index" -> <<"inner", "cog">> [] b = "inner" -> <<"cog">> [] OTHER -> <<>>]
O == INSTANCE OciClient WITH
  Calls <- Actors, Repos <- {"r"}, Scopes <- {"r", "wide"}, Bodies <- {"index", "inner", "cog"}, Refs <- {"tag"},
  Children <- MCChildren, Carriers <- {"cog"}, Tag <- "tag", Basic <- 99, NoAuth <- 0, HasCredentials <- TRUE,
  MaxCachedTokens <- 1, MaxBlobRedirects <- 2, MaxIndexChildren <- 2, MaxTokens <- 2, MaxCalls <- 1,
  tokens <- v1, aliases <- v2, locks <- v3, holders <- v4, useBasic <- v5, expired <- v6, honoured <- v7,
  minted <- v8, calls <- v9

(* One call at a time, by tag or by digest. *)
OD == INSTANCE OciClient WITH
  Calls <- {"call"}, Repos <- {"r"}, Scopes <- {"r", "wide"}, Bodies <- {"index", "inner", "cog"},
  Refs <- {"tag", "index"}, Children <- MCChildren, Carriers <- {"cog"}, Tag <- "tag", Basic <- 99, NoAuth <- 0,
  HasCredentials <- TRUE, MaxCachedTokens <- 1, MaxBlobRedirects <- 2, MaxIndexChildren <- 2, MaxTokens <- 2,
  MaxCalls <- 2,
  tokens <- v1, aliases <- v2, locks <- v3, holders <- v4, useBasic <- v5, expired <- v6, honoured <- v7,
  minted <- v8, calls <- v9

(* Three artifacts under three tags, pages of one, a bound of two artifacts. *)
L == INSTANCE RegistryListing WITH
  Artifacts <- {"a1", "a2", "a3"}, Tags <- {1, 2, 3}, PageSize <- 1, MaxPages <- 2, MaxTagPages <- 3,
  MaxTagsPerRepository <- 2, MaxArtifacts <- 2, MaxChanges <- 1,
  shelf <- v1, tagged <- v2, walk <- v3, changes <- v4

(* Front matter of up to three lines, and artifacts with one or two layers. *)
Line(is, key, value, indent) == [is |-> is, key |-> key, value |-> value, indent |-> indent]
Plain(is) == Line(is, "", "empty", 0)
MCLines ==
  {Plain("fence"), Plain("blank"), Plain("comment"), Plain("junk"), Plain("text")}
    \cup {Line("key", k, v, 0) : k \in {"name", "metadata"}, v \in {"empty", "string", "bad"}}
    \cup {Line("item", "", v, d) : v \in {"string", "bad"}, d \in {1, 2}}
    \cup {Line("pair", k, "string", 1) : k \in {"a", "b"}}
MCDocuments ==
  {<<Plain("fence")>> \o s \o <<Plain("fence"), Plain("blank")>> : s \in SeqOf(MCLines, 3)}
    \cup SeqOf({Plain("fence"), Plain("blank"), Line("key", "name", "string", 0)}, 3)
Contents(titles) == [titles -> {"binary", "broken", "good"}]
MCArtifacts ==
  { [layers |-> layers, lock |-> lock, fetchFails |-> fails, docErrors |-> {}, prog |-> prog, storable |-> storable,
     front |-> [parsed |-> parsed, manifest |-> manifest, schema |-> schema],
     interfaces |-> {[task |-> "serve", endpoint |-> TRUE, audience |-> "unsaid"],
                     [task |-> "ask", endpoint |-> FALSE, audience |-> "usage"]},
     tasks |-> {"serve", "ask", "check", "other"}] :
    layers \in UNION {Contents(t) : t \in {{"pixi.toml"}, {"COG.md"}, {"COG.md", "cog.yaml"}, {"COG.md", "pixi.toml"}}},
    lock \in {{}, {"COG.md"}}, fails \in BOOLEAN, prog \in {"empty", "one"}, storable \in BOOLEAN,
    parsed \in BOOLEAN, manifest \in {"absent", "unusable", "cog.yaml", "pixi.toml", "notes.txt"},
    schema \in {"absent", "unusable", "unknown", "known"} }
C == INSTANCE CogCard WITH
  Documents <- MCDocuments, Artifacts <- MCArtifacts, LifecycleTasks <- {"serve", "check"},
  input <- v1, outcome <- v2

(* Two sources, two Cogs of three digests, pages of one and two. *)
MCCogOf == [d \in 1..3 |-> IF d = 3 THEN 2 ELSE 1]
MCProvides == [d \in 1..3 |-> IF d = 2 THEN {} ELSE {"x"}]
K == INSTANCE CatalogReads WITH
  Sources <- {1, 2}, Repositories <- {1}, Digests <- {1, 2, 3}, CogOf <- MCCogOf, Provides <- MCProvides,
  Capabilities <- {"x"}, Limits <- {1, 2}, MaxPushed <- 2, MaxWrites <- 2,
  rows <- v1, now <- v2, writes <- v3

(* Three requests, one of them at GitHub at a time. *)
R == INSTANCE ConnectorCalls WITH
  Requests <- Trio, Permits <- 1, Budget <- 2, MinReadBudget <- 1, MaxRedirects <- 1, MaxTime <- 3, MaxSwitches <- 1,
  disabled <- v1, readable <- v2, now <- v3, permits <- v4, queue <- v5, waiters <- v6, req <- v7, sent <- v8,
  switches <- v9

(* Three events of one instant in one calendar, one of no length among them;
   one that began before the window; and three that come and go.  The second
   calendar's days begin later than those of the search. *)
MCShift == <<0, -4>>
Event(cal, id, start, end, allday) == [cal |-> cal, id |-> id, start |-> start, end |-> end, allday |-> allday]
MCStanding ==
  { Event(1, 1, 4, 6, FALSE), Event(1, 2, 4, 4, FALSE), Event(1, 3, 4, 8, TRUE), Event(1, 4, 6, 8, FALSE),
    Event(2, 1, 0, 6, FALSE), Event(2, 2, 4, 4, FALSE), Event(2, 3, 7, 8, TRUE), Event(2, 4, 5, 6, FALSE) }
MCEvents == MCStanding \cup { Event(2, 5, 6, 7, FALSE), Event(1, 5, 4, 5, FALSE), Event(1, 6, 3, 4, FALSE) }
S == INSTANCE CalendarSearch WITH
  Calendars <- 2, AllEvents <- MCEvents, Standing <- MCStanding, Shift <- MCShift, Lower <- 2, Upper <- 8, Limit <- 2,
  MaxPages <- 2, MaxChanges <- 3,
  events <- v1, search <- v2, cursor <- v3, shown <- v4, changes <- v5

(* Lists of up to five items, the newest first. *)
MCLists ==
  {s \in SeqOf({"fits", "odd", "newer", "older"}, 5) :
     \A i \in 1..(Len(s) - 1) :
       /\ s[i] = "older" => s[i + 1] = "older"
       /\ s[i + 1] = "newer" => s[i] = "newer"}
P == INSTANCE ProviderWalk WITH
  Lists <- MCLists, Limits <- {1, 2, 3}, MaxSize <- 3, MaxPages <- 2, AuthPages <- 3, Cap <- 4,
  kind <- v1, lists <- v2, limit <- v3, request <- v4, shown <- v5

(* Two cards that may be edited once while they are listed and counted. *)
B == INSTANCE ProjectBoard WITH
  Items <- {1, 2}, Columns <- {"todo", "doing"}, PageSize <- 1, MaxItems <- 2, MaxEdits <- 1,
  board <- v1, columns <- v2, listing <- v3, counts <- v4, answer <- v5, edits <- v6

-----------------------------------------------------------------------------
FocusOn(name) == name \in Focus /\ focus = name
Unused10 == v10 = Nothing /\ v11 = Nothing
Unused8 == v8 = Nothing /\ v9 = Nothing /\ Unused10
Unused7 == v7 = Nothing /\ Unused8
Unused6 == v6 = Nothing /\ Unused7
Unused5 == v5 = Nothing /\ Unused6
Unused4 == v4 = Nothing /\ Unused5

HubInit ==
  \/ FocusOn("frames") /\ F!FramesInit /\ Unused8
  \/ FocusOn("frames longer") /\ FL!FramesInit /\ Unused8
  \/ FocusOn("groups") /\ G!GroupInit /\ Unused6
  \/ FocusOn("tasks") /\ T!TasksInit /\ Unused7
  \/ FocusOn("activity") /\ A!ActivityInit /\ Unused6
  \/ FocusOn("best effort") /\ W!BestEffortInit
  \/ FocusOn("migration") /\ M!MigrationInit /\ Unused8
  \/ FocusOn("run views") /\ V!ViewsInit
  \/ FocusOn("page") /\ AP!PageInit /\ v11 = Nothing
  \/ FocusOn("invitations") /\ I!Init /\ Unused10
  \/ FocusOn("realm") /\ KR!KeycloakInit
  \/ FocusOn("oci") /\ O!OciInit /\ Unused10
  \/ FocusOn("oci alone") /\ OD!OciInit /\ Unused10
  \/ FocusOn("listing") /\ L!ListingInit /\ Unused5
  \/ FocusOn("card") /\ C!CardInit /\ v3 = Nothing /\ Unused4
  \/ FocusOn("catalog") /\ K!CatalogInit /\ Unused4
  \/ FocusOn("calls") /\ R!CallInit /\ Unused10
  \/ FocusOn("calendar") /\ S!CalendarInit /\ Unused6
  \/ FocusOn("walk") /\ P!WalkInit /\ Unused6
  \/ FocusOn("board") /\ B!BoardInit /\ Unused7

from10 == <<focus, v10, v11>>
from8 == <<v8, v9, from10>>
from7 == <<v7, from8>>
from6 == <<v6, from7>>
from4 == <<v4, v5, from6>>

HubNext ==
  \/ focus = "frames" /\ F!FramesNext /\ UNCHANGED from8
  \/ focus = "frames longer" /\ FL!FramesNext /\ UNCHANGED from8
  \/ focus = "groups" /\ G!GroupNext /\ UNCHANGED from6
  \/ focus = "tasks" /\ T!TasksNext /\ UNCHANGED from7
  \/ focus = "activity" /\ A!ActivityNext /\ UNCHANGED from6
  \/ focus = "best effort" /\ W!BestEffortNext /\ UNCHANGED focus
  \/ focus = "migration" /\ M!MigrationNext /\ UNCHANGED from8
  \/ focus = "run views" /\ V!ViewsNext /\ UNCHANGED focus
  \/ focus = "page" /\ AP!PageNext /\ UNCHANGED <<v11, focus>>
  \/ focus = "invitations" /\ I!Next /\ UNCHANGED from10
  \/ focus = "realm" /\ KR!KeycloakNext /\ UNCHANGED focus
  \/ focus = "oci" /\ O!OciNext /\ UNCHANGED from10
  \/ focus = "oci alone" /\ OD!OciNext /\ UNCHANGED from10
  \/ focus = "listing" /\ L!ListingNext /\ UNCHANGED <<v5, from6>>
  \/ focus = "card" /\ C!CardNext /\ UNCHANGED <<v3, from4>>
  \/ focus = "catalog" /\ K!CatalogNext /\ UNCHANGED from4
  \/ focus = "calls" /\ R!CallNext /\ UNCHANGED from10
  \/ focus = "calendar" /\ S!CalendarNext /\ UNCHANGED from6
  \/ focus = "walk" /\ P!WalkNext /\ UNCHANGED from6
  \/ focus = "board" /\ B!BoardNext /\ UNCHANGED from7

hubVars == <<v1, v2, v3, from4>>
HubSpec == HubInit /\ [][HubNext]_hubVars

-----------------------------------------------------------------------------
(* What is checked of the components, each of its own behaviours. *)

(* A frame with metadata has its body, readers outlive no opening of a frame, a
   frame that stopped being readable leaves the active sets, no group is empty
   (Frames); a group is shown to nobody who may not read what is in it
   (GroupViews). *)
FramesAreSound ==
  /\ focus = "frames" => F!MetadataHasBody /\ F!ReadersStayPrivate /\ F!UnreadableIsPruned /\ F!GroupsNeverEmpty
  /\ focus = "frames longer" => FL!ReadersStayPrivate /\ FL!UnreadableIsPruned
  /\ focus = "groups" => G!AudienceIsNarrow

(* No accepted patch of a task is lost and no occurrence runs twice (Tasks); a
   rewrite of identities loses nothing, is complete when it says so and its
   manifest tells what was written (IdentityMigration); the writer's counter is
   exact, what was claimed is on its way and a cancel reaches its own statement
   (BestEffort); a walk over a log misses nothing and repeats nothing beside
   its writers, and reports add up (Activity); what is kept of a run is a prefix
   of its Track (RunViews). *)
RecordsAreKept ==
  /\ focus = "tasks" => T!NoLostPatch /\ T!OccurrenceRunsOnce
  /\ focus = "migration" => M!NothingLost /\ M!SuccessIsComplete /\ M!ManifestTruthful
  /\ focus = "best effort" => W!PendingIsExact /\ W!ClaimIsCovered /\ W!CancelHitsOwn
  /\ focus = "activity" => A!WalkExact /\ A!ReportsAddUp
  /\ focus = "run views" => V!KeptIsAPrefix

(* No suggestion disappears or is reopened by somebody else's update (Frames),
   and no thread is told a run as it was before it asked (RunViews). *)
NothingGoesBack ==
  [][ /\ focus = "frames" => F!SuggestionsKept
      /\ focus = "frames longer" => FL!SuggestionsKept
      /\ focus = "run views" => V!ReadIsCurrent ]_hubVars

(* The page remembers only what is true and final for the person who asked, and
   whoever accepted is the person invited (AcceptancePage, Invitations). *)
AcceptanceIsTrue ==
  /\ focus = "page" => AP!AcceptanceIsTrue
  /\ focus = "invitations" => I!AcceptedRightly /\ I!AuditAgrees

(* A call is not retried with the token that was refused, and what it returns
   is what its digest names (OciClient); a card fails closed and never without
   saying so (CogCard); reads wait and run within their bounds and a token
   stays with its provider (ConnectorCalls). *)
CallsAreSafe ==
  /\ focus = "oci" => O!RetryIsFresh /\ O!ContentIsNamed
  /\ focus = "oci alone" => OD!RetryIsFresh /\ OD!ContentIsNamed
  /\ focus = "card" => C!FailsClosed /\ C!NeverSilent
  /\ focus = "calls" => R!ReadsStayBounded /\ R!TokenStaysInScope

(* A listing, a page of the catalog, a search and a count is exact of what stood
   still, or says that it is not (KeycloakClient, RegistryListing, CatalogReads,
   CalendarSearch, ProviderWalk, ProjectBoard). *)
ListingsAreExact ==
  /\ focus = "realm" => KR!ListingComplete
  /\ focus = "listing" => L!ListingSound
  /\ focus = "catalog" => K!CatalogReadsAgree
  /\ focus = "calendar" => S!NothingStranded
  /\ focus = "walk" => P!NothingSkipped
  /\ focus = "board" => B!CountsAddUp

=============================================================================
