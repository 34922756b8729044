------------------------------ MODULE Activity ------------------------------
(***************************************************************************)
(* What people did and how it is read back: the history of a Frame or of a *)
(* Frame Group (frames/history.py and the routers' history endpoints),     *)
(* usage events (frames/usage.py) and the reports over both                *)
(* (routers/usage.py).                                                     *)
(*                                                                         *)
(* A row's created_at is the start of the transaction that inserts it, so  *)
(* rows become visible in another order than their times.  A reader pages  *)
(* backwards with a cursor while rows are being written.                   *)
(***************************************************************************)
EXTENDS Integers, Sequences, FiniteSets, SequencesExt, FiniteSetsExt

CONSTANTS
  RowIds,        \* uuids, ordered as their text is
  Actors, Orgs,
  Inserters,     \* requests that record something
  Limits,        \* page sizes a reader may ask for
  LastMoment     \* bound on the clock

VARIABLES
  moment,     \* the clock
  rows,       \* frames_server_history and frames_server_usage_events, committed
  inserter,   \* [Inserters -> the row of its open transaction]
  readable,   \* whether the reader may read the Frame
  walk        \* the reader's pages so far

activityVars == <<moment, rows, inserter, readable, walk>>

NoInsert == [id |-> -1]
\* A row of the Frame's history, or a usage event, of an organization.
RowKinds == {"created", "updated", "chat_created"}
History(table) == {row \in table : row.kind # "chat_created"}

\* held: the entries returned; known: what was committed at the first page.
NoWalk == [at |-> "none", next |-> <<>>, held |-> <<>>, known |-> {}]

ActivityInit ==
  /\ moment = 0 /\ rows = {} /\ readable = TRUE
  /\ inserter = [i \in Inserters |-> NoInsert]
  /\ walk = NoWalk

---------------------------------------------------------------------------
(* record and record_event: one INSERT in a transaction of its own *)

UsedIds == {row.id : row \in rows} \cup {inserter[i].id : i \in Inserters}

Record(i, id, actor, org, kind) ==
  /\ inserter[i] = NoInsert /\ id \notin UsedIds
  /\ inserter' = [inserter EXCEPT ![i] = [id |-> id, at |-> moment, actor |-> actor, org |-> org, kind |-> kind]]
  /\ UNCHANGED <<moment, rows, readable, walk>>

CommitRow(i) ==
  /\ inserter[i] # NoInsert
  /\ rows' = rows \cup {inserter[i]}
  /\ inserter' = [inserter EXCEPT ![i] = NoInsert]
  /\ UNCHANGED <<moment, readable, walk>>

---------------------------------------------------------------------------
(* The pages *)

\* (created_at, id), compared as Postgres compares rows.
Precedes(p, q) == p.at < q.at \/ (p.at = q.at /\ p.id < q.id)

EarlierMoment(row, cursor) == row.at < cursor.at
BeforeCursor(row, cursor) == Precedes(row, cursor)

\* ORDER BY created_at DESC, id DESC LIMIT limit
Query(limit, cursor) ==
  LET matches == {row \in History(rows) : cursor # <<>> => BeforeCursor(row, cursor[1])}
      ordered == SetToSortSeq(matches, LAMBDA p, q : Precedes(q, p))
  IN SubSeq(ordered, 1, Min({limit, Len(ordered)}))

\* The page asks for one row more than it returns: the cursor is the last
\* returned row, and absent exactly when nothing more came.
Page(limit, cursor) ==
  LET found == Query(limit + 1, cursor)
      entries == SubSeq(found, 1, Min({limit, Len(found)})) IN
  [entries |-> entries, next |-> IF Len(found) > limit THEN <<Last(entries)>> ELSE <<>>]

GetHistory(limit) ==
  LET page == Page(limit, walk.next)
      first == walk.at = "none" IN
  /\ walk.at \in {"none", "paging"} /\ readable
  /\ walk' = [at    |-> IF page.next = <<>> THEN "exhausted" ELSE "paging",
              next  |-> page.next,
              held  |-> walk.held \o page.entries,
              known |-> IF first THEN History(rows) ELSE walk.known]
  /\ UNCHANGED <<moment, rows, inserter, readable>>

\* require_readable_frame refuses the page and the reader gives up, or starts
\* over.
StartOver ==
  /\ walk.at # "none"
  /\ walk' = NoWalk
  /\ UNCHANGED <<moment, rows, inserter, readable>>

ReadabilityChanges ==
  /\ readable' = ~readable
  /\ UNCHANGED <<moment, rows, inserter, walk>>

MomentPasses ==
  /\ moment < LastMoment
  /\ moment' = moment + 1
  /\ UNCHANGED <<rows, inserter, readable, walk>>

---------------------------------------------------------------------------
(* The reports *)

UpToAndIncluding(at, since, until) == (since # <<>> => at >= since[1]) /\ (until # <<>> => at <= until[1])
Within(at, since, until) == (since # <<>> => at >= since[1]) /\ (until # <<>> => at < until[1])

\* count_events of both stores: an organization's rows of a window by kind and
\* actor.
CountEvents(org, kind, actor, since, until) ==
  Cardinality({row \in rows : row.org = org /\ row.kind = kind /\ row.actor = actor /\ Within(row.at, since, until)})

\* build_usage_report: the totals are the sums of the figures per person that
\* the filter leaves.
UsageReport(org, kind, users, since, until) ==
  MapThenSumSet(LAMBDA u : CountEvents(org, kind, u, since, until), users)

\* hub_summary: the window over every organization.
HubSummary(since, until) ==
  Cardinality({row \in rows : row.kind = "chat_created" /\ Within(row.at, since, until)})

ActivityNext ==
  \/ \E i \in Inserters :
       \/ CommitRow(i)
       \/ \E id \in RowIds, actor \in Actors, org \in Orgs, kind \in RowKinds : Record(i, id, actor, org, kind)
  \/ \E limit \in Limits : GetHistory(limit)
  \/ StartOver \/ ReadabilityChanges \/ MomentPasses

ActivitySpec == ActivityInit /\ [][ActivityNext]_activityVars

---------------------------------------------------------------------------
(* Properties *)

\* Paging while others write (routers/frames.py, get_frame_history): the pages
\* of a walk are strictly newest to oldest and repeat nothing, a walk that was
\* told there is no next page has returned all that was recorded when it began,
\* and one that was given a cursor will find something behind it.
WalkExact ==
  /\ \A m, n \in DOMAIN walk.held : m < n => Precedes(walk.held[n], walk.held[m])
  /\ walk.at = "exhausted" => walk.known \subseteq ToSet(walk.held)
  /\ walk.next # <<>> => Query(1, walk.next) # <<>>

\* Reports agree with each other whatever is recorded at a boundary: adjacent
\* windows add up, people add up to the organization, organizations to the hub.
ReportsAddUp ==
  LET Chats(users, since, until) ==
        MapThenSumSet(LAMBDA org : UsageReport(org, "chat_created", users, since, until), Orgs) IN
  \A m \in 0..LastMoment :
    /\ Chats(Actors, <<>>, <<m>>) + Chats(Actors, <<m>>, <<>>) = HubSummary(<<>>, <<>>)
    /\ MapThenSumSet(LAMBDA u : Chats({u}, <<m>>, <<>>), Actors) = HubSummary(<<m>>, <<>>)
=============================================================================
