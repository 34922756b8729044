--------------------------- MODULE RegistryListing --------------------------
(***************************************************************************)
(* How a sweep learns what a repository holds (cogs/adapters): the harbor  *)
(* source walks the numbered pages of the registry's listing, the static   *)
(* source walks the tag list and resolves each tag.  The registry goes on  *)
(* changing between two requests; the sweep takes a listing that returns   *)
(* for the whole truth (indexer._enumerate).                               *)
(***************************************************************************)
EXTENDS Integers, Sequences, FiniteSets, SequencesExt

CONSTANTS
  Artifacts,             \* digests
  Tags,                  \* numbers, in the order of their names
  PageSize, MaxPages, MaxTagPages,
  MaxTagsPerRepository,
  MaxArtifacts,          \* the indexer's bound for a repository
  MaxChanges             \* bound

VARIABLES
  shelf,     \* the repository: its artifacts in the registry's order (external)
  tagged,    \* [Tags -> Artifacts \cup {Untagged}] (external)
  walk,      \* the listing under way
  changes    \* changes so far (bound)

listingVars == <<shelf, tagged, walk, changes>>

\* items: <<digest, tag>> pairs, or <<digest, Alone>>; queue: the
\* tags listed and not yet resolved.  stayed, kept, seen and shrank are history:
\* the artifacts and the tags nobody touched since the walk began, what was
\* true at some time of it, and whether an artifact was deleted.
Untagged == "untagged"
Alone == 0
NoWalk == [at |-> "idle", kind |-> "none", page |-> 0, last |-> 0, items |-> {}, queue |-> <<>>,
           stayed |-> {}, kept |-> {}, seen |-> {}, shrank |-> FALSE]

Present == {<<a, Alone>> : a \in ToSet(shelf)} \cup {<<tagged[t], t>> : t \in {u \in Tags : tagged[u] # Untagged}}

ListingInit ==
  /\ \E there \in SUBSET Artifacts : shelf = SetToSeq(there)
  /\ tagged \in [Tags -> ToSet(shelf) \cup {Untagged}]
  /\ walk = NoWalk /\ changes = 0

---------------------------------------------------------------------------
(* The registry changes *)

Noting(w, touched) ==
  IF w.at \notin {"paging", "resolving"} THEN w
  ELSE [w EXCEPT !.stayed = @ \cap ToSet(shelf'), !.kept = @ \ touched,
                 !.seen = @ \cup {<<a, Alone>> : a \in ToSet(shelf')}
                            \cup {<<tagged'[t], t>> : t \in {u \in Tags : tagged'[u] # Untagged}},
                 !.shrank = @ \/ ~(ToSet(shelf) \subseteq ToSet(shelf'))]

Push(a, front) ==
  /\ changes < MaxChanges /\ a \notin ToSet(shelf)
  /\ changes' = changes + 1
  /\ shelf' = IF front THEN <<a>> \o shelf ELSE Append(shelf, a)
  /\ UNCHANGED tagged
  /\ walk' = Noting(walk, {})

Delete(a) ==
  /\ changes < MaxChanges /\ a \in ToSet(shelf)
  /\ changes' = changes + 1
  /\ shelf' = SelectSeq(shelf, LAMBDA b : b # a)
  /\ tagged' = [t \in Tags |-> IF tagged[t] = a THEN Untagged ELSE tagged[t]]
  /\ walk' = Noting(walk, {t \in Tags : tagged[t] = a})

Retag(t, a) ==
  /\ changes < MaxChanges /\ a \in ToSet(shelf) \cup {Untagged} /\ tagged[t] # a
  /\ changes' = changes + 1
  /\ tagged' = [tagged EXCEPT ![t] = a]
  /\ UNCHANGED shelf
  /\ walk' = Noting(walk, {t})

---------------------------------------------------------------------------
(* The walk *)

ListArtifacts(kind) ==
  /\ walk.at = "idle"
  /\ walk' = [NoWalk EXCEPT !.at = "paging", !.kind = kind, !.page = 1, !.seen = Present,
                            !.stayed = ToSet(shelf), !.kept = {t \in Tags : tagged[t] # Untagged}]
  /\ UNCHANGED <<shelf, tagged, changes>>

PageOf(s, n) == SubSeq(s, (n - 1) * PageSize + 1, IF n * PageSize < Len(s) THEN n * PageSize ELSE Len(s))

\* _paged: the Link header says whether there is more; without one, a full page
\* does.
HasMore(batch, n, link) == IF link THEN Len(shelf) > n * PageSize ELSE Len(batch) >= PageSize

AfterPageTruncating(more, n, limit) == IF more /\ n < limit THEN "paging" ELSE "listed"

\* Past its limit a source raises rather than present what it has as complete.
AfterPage(more, n, limit) == IF ~more THEN "listed" ELSE IF n >= limit THEN "raised" ELSE "paging"

FetchPage(link) ==
  /\ walk.at = "paging" /\ walk.kind = "harbor"
  /\ LET batch == PageOf(shelf, walk.page)
         items == UNION {{<<a, Alone>>} \cup {<<a, t>> : t \in {u \in Tags : tagged[u] = a}} : a \in ToSet(batch)}
         more == HasMore(batch, walk.page, link)
     IN walk' = [walk EXCEPT !.items = @ \cup items, !.page = @ + 1,
                             !.at = AfterPage(more, walk.page, MaxPages)]
  /\ UNCHANGED <<shelf, tagged, changes>>

\* list_tags: pages of names; the registry continues after the last one.
TagsAfter(last) == SetToSortSeq({t \in Tags : tagged[t] # Untagged /\ t > last}, <)

FetchTags ==
  /\ walk.at = "paging" /\ walk.kind = "static"
  /\ LET batch == PageOf(TagsAfter(walk.last), 1)
         queue == walk.queue \o batch
         more == Len(TagsAfter(walk.last)) > PageSize
     IN walk' = [walk EXCEPT !.queue = queue, !.page = @ + 1, !.last = IF batch = <<>> THEN @ ELSE Last(batch),
                             !.at = IF AfterPage(more, walk.page, MaxTagPages) # "listed" THEN AfterPage(more, walk.page, MaxTagPages)
                                    ELSE IF Len(queue) > MaxTagsPerRepository THEN "raised" ELSE "resolving"]
  /\ UNCHANGED <<shelf, tagged, changes>>

\* get_manifest for a tag; one that is gone meanwhile (OCINotFound) is skipped.
ResolveTag ==
  /\ walk.at = "resolving"
  /\ walk' = IF walk.queue = <<>> THEN [walk EXCEPT !.at = "listed"]
             ELSE LET t == Head(walk.queue) IN
                  [walk EXCEPT !.queue = Tail(@),
                               !.items = @ \cup IF tagged[t] = Untagged THEN {} ELSE {<<tagged[t], t>>, <<tagged[t], Alone>>}]
  /\ UNCHANGED <<shelf, tagged, changes>>

ListingFails ==
  /\ walk.at \in {"paging", "resolving"}
  /\ walk' = [walk EXCEPT !.at = "raised"]
  /\ UNCHANGED <<shelf, tagged, changes>>

\* _enumerate: a listing over the sweep's own bound counts as failed.
Listed == {item[1] : item \in walk.items}
Enumerated ==
  /\ walk.at \in {"listed", "raised"}
  /\ walk' = IF walk.at = "raised" \/ Cardinality(Listed) > MaxArtifacts THEN NoWalk
             ELSE [walk EXCEPT !.at = "present", !.queue = <<>>, !.page = 0, !.last = 0]
  /\ UNCHANGED <<shelf, tagged, changes>>

SweepGoesOn ==
  /\ walk.at = "present"
  /\ walk' = NoWalk
  /\ UNCHANGED <<shelf, tagged, changes>>

ListingNext ==
  \/ \E a \in Artifacts : Delete(a) \/ \E front \in BOOLEAN : Push(a, front)
  \/ \E t \in Tags, a \in Artifacts \cup {Untagged} : Retag(t, a)
  \/ \E kind \in {"harbor", "static"} : ListArtifacts(kind)
  \/ \E link \in BOOLEAN : FetchPage(link)
  \/ FetchTags \/ ResolveTag \/ ListingFails \/ Enumerated \/ SweepGoesOn

ListingSpec == ListingInit /\ [][ListingNext]_listingVars

---------------------------------------------------------------------------
(* Properties *)

\* What a sweep takes for the repository's content (its removals rest on it):
\* everything in it was there at some time of the walk, every tag nobody moved
\* is there, and so is every artifact, if none was deleted during the walk.
ListingSound ==
  walk.at = "present" =>
    /\ walk.items \subseteq walk.seen
    /\ walk.kind = "static" => \A t \in walk.kept : \E item \in walk.items : item[2] = t
    /\ walk.kind = "harbor" /\ ~walk.shrank => walk.stayed \subseteq Listed

\* indexer.py: removal has a complete picture; the adapters never present a
\* truncated list as complete.
CompletePicture == walk.at = "present" /\ walk.kind = "harbor" => walk.stayed \subseteq Listed
=============================================================================
