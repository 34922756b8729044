---------------------------- MODULE CatalogReads ----------------------------
(***************************************************************************)
(* What the Cog catalog answers (cogs/catalog.py, routers/cogs.py): the    *)
(* current version of every Cog under a filter, page by page, a Cog with   *)
(* its versions, and the places a version can be had from.  Two stores     *)
(* answer the same questions: one in memory, one as PostgreSQL queries     *)
(* whose condition on the card is pushed into the inner query.             *)
(*                                                                         *)
(* A digest names its content, so the card is a function of it.            *)
(***************************************************************************)
EXTENDS Integers, Sequences, FiniteSets, SequencesExt

CONSTANTS
  Sources, Repositories, Digests,   \* numbers: they are compared
  CogOf,        \* [Digests -> Cog id]
  Provides,     \* [Digests -> set of capabilities], from the card
  Capabilities,
  Limits,       \* page sizes
  MaxPushed, MaxWrites   \* bounds

VARIABLES
  rows,    \* the artifacts stored, by [source, repository, digest]
  now,
  writes
catalogVars == <<rows, now, writes>>

Keys == [source : Sources, repository : Repositories, digest : Digests]
NoTime == 0     \* pushed_at is null
Stored == DOMAIN rows

---------------------------------------------------------------------------
(* Writes *)

\* upsert: pushed_at as given, indexed_at now, the artifact is back.
Upsert(k, status, pushed) ==
  /\ writes < MaxWrites
  /\ \E dt \in {0, 1} :
       /\ now' = now + dt
       /\ rows' = [x \in Stored \cup {k} |->
                     IF x = k THEN [status |-> status, pushed |-> pushed, indexed |-> now + dt, removed |-> FALSE]
                     ELSE rows[x]]
  /\ writes' = writes + 1

\* update_tags: a null pushed_at keeps the stored one.
UpdateTags(k, pushed) ==
  /\ writes < MaxWrites /\ k \in Stored
  /\ rows' = [rows EXCEPT ![k].pushed = IF pushed = NoTime THEN @ ELSE pushed, ![k].removed = FALSE]
  /\ writes' = writes + 1 /\ UNCHANGED now

\* mark_removed, mark_removed_one
MarkRemoved(k) ==
  /\ writes < MaxWrites /\ k \in Stored
  /\ rows' = [rows EXCEPT ![k].removed = TRUE]
  /\ writes' = writes + 1 /\ UNCHANGED now

CatalogInit == rows = [k \in {} |-> <<>>] /\ now = 1 /\ writes = 0

CatalogNext ==
  \E k \in Keys :
    \/ \E status \in {"indexed", "failed"}, pushed \in 0..MaxPushed : Upsert(k, status, pushed)
    \/ \E pushed \in 0..MaxPushed : UpdateTags(k, pushed)
    \/ MarkRemoved(k)

CatalogSpec == CatalogInit /\ [][CatalogNext]_catalogVars

---------------------------------------------------------------------------
(* Orders: lists of numbers, compared from the left *)

Below(s, t) == \E i \in DOMAIN s : s[i] < t[i] /\ \A j \in 1..(i - 1) : s[j] = t[j]
Flag(b) == IF b THEN 1 ELSE 0
First(S, Key(_)) == CHOOSE k \in S : \A j \in S \ {k} : Below(Key(k), Key(j))

\* _sort_key: newest push first, a null last, then the newest indexed.
SortKey(k) ==
  <<Flag(rows[k].pushed = NoTime), -rows[k].pushed, -rows[k].indexed, k.source, k.repository, k.digest>>

\* _location_key: what is still there first.
LocationKey(k) ==
  <<Flag(rows[k].removed), Flag(rows[k].pushed = NoTime), -rows[k].pushed, -rows[k].indexed, k.source, k.repository>>

InCogOrder(S) == SetToSortSeq(S, LAMBDA j, k : CogOf[j.digest] < CogOf[k.digest])

---------------------------------------------------------------------------
(* list_current *)

\* A filter: a source or 0, a capability or "".
Filters == [source : Sources \cup {0}, provides : Capabilities \cup {""}]
InSource(k, f) == f.source = 0 \/ k.source = f.source
Matches(k, f) == f.provides = "" \/ f.provides \in Provides[k.digest]
Indexed(k) == rows[k].status = "indexed"
Present(k) == ~rows[k].removed /\ Indexed(k)
NewestOf(S) == {First({k \in S : CogOf[k.digest] = c}, SortKey) : c \in {CogOf[k.digest] : k \in S}}

\* In memory: the newest of each Cog, then the filter.
InMemory(f) ==
  InCogOrder({k \in NewestOf({k \in Stored : Present(k) /\ InSource(k, f)}) : Matches(k, f)})

\* The condition of the inner query: the Cogs any version of which matches.
\* That version may be removed (one that could not be read has no card); the
\* outer condition decides.
RowMatches(k, f) == Matches(k, f)
CogMatches(k, f) ==
  f.provides = "" \/ \E j \in Stored : CogOf[j.digest] = CogOf[k.digest] /\ Indexed(j) /\ Matches(j, f)

\* PostgreSQL: DISTINCT ON (cog_id) over the inner query, then the outer one.
FromPostgres(f) ==
  InCogOrder({k \in NewestOf({k \in Stored : Present(k) /\ InSource(k, f) /\ CogMatches(k, f)}) : Matches(k, f)})

---------------------------------------------------------------------------
(* The routes *)

\* list_cogs: one more than the page is asked for.
Page(f, limit, offset) ==
  LET all  == FromPostgres(f)
      end  == IF offset + limit + 1 < Len(all) THEN offset + limit + 1 ELSE Len(all)
      got  == SubSeq(all, offset + 1, end)
  IN [items |-> SubSeq(got, 1, IF Len(got) < limit THEN Len(got) ELSE limit), more |-> Len(got) > limit]

\* list_versions, the removed included, and the current one among them.
Versions(cog) == SetToSortSeq({k \in Stored : CogOf[k.digest] = cog /\ Indexed(k)}, LAMBDA j, k : Below(SortKey(j), SortKey(k)))
CurrentOf(cog) == LET there == {i \in DOMAIN Versions(cog) : ~rows[Versions(cog)[i]].removed} IN
  IF there = {} THEN {} ELSE {Versions(cog)[CHOOSE i \in there : \A j \in there : i <= j]}

\* _version_locations: the preferred place first.
Locations(cog, digest) ==
  SetToSortSeq({k \in Stored : k.digest = digest /\ Indexed(k) /\ CogOf[digest] = cog},
               LAMBDA j, k : Below(LocationKey(j), LocationKey(k)))

\* list_repositories: the newest Cog of each repository.
OfRepositories == {First({k \in Stored : Present(k) /\ k.repository = r}, SortKey) :
                     r \in {k.repository : k \in {x \in Stored : Present(x)}}}

---------------------------------------------------------------------------
(* Properties *)

Concatenated(f, limit) ==
  LET n == Len(FromPostgres(f)) IN
  FlattenSeq([i \in 1..((n + limit - 1) \div limit) |-> Page(f, limit, (i - 1) * limit).items])

\* The two stores answer alike and the pages make up the list, its last one said
\* to be the last; a filter never brings up a version that is not its Cog's
\* current one; and what is listed can be had: its reference names a place where
\* it still is (list_current, current_query, get_cog, get_cog_reference).
CatalogReadsAgree ==
  \A f \in Filters :
    LET listed == FromPostgres(f) IN
    /\ listed = InMemory(f)
    /\ \A limit \in Limits :
         /\ Concatenated(f, limit) = listed
         /\ \A i \in 1..Len(listed) : Page(f, limit, i - 1).more = (i - 1 + limit < Len(listed))
    /\ \A k \in ToSet(listed) :
         /\ f.source = 0 => CurrentOf(CogOf[k.digest]) = {k}
         /\ LET at == Locations(CogOf[k.digest], k.digest) IN at # <<>> /\ ~rows[at[1]].removed
    /\ \A k \in OfRepositories : ~rows[k].removed
=============================================================================
