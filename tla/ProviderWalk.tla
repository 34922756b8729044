---------------------------- MODULE ProviderWalk ----------------------------
(***************************************************************************)
(* The connectors that pass a provider's own pages on: Notion search, the  *)
(* Slack channel lists (public channels, then private ones), the walk with *)
(* which Slack reads are authorized, GitHub's numbered search pages and    *)
(* Gmail's.  A request reads one or more provider pages, keeps what fits   *)
(* and answers with the cursor the caller sends back.                      *)
(*                                                                         *)
(* The provider (external) has a list that does not change during a walk;  *)
(* Slack and Notion may put fewer items on a page than were asked for, and *)
(* Slack none.                                                             *)
(***************************************************************************)
EXTENDS Integers, Sequences, SequencesExt

CONSTANTS
  Lists,     \* the provider's lists: sequences of "newer", "fits", "odd", "older"
  Limits,    \* how many results a caller asks for
  MaxSize,   \* the provider's largest page
  MaxPages,  \* provider pages one request reads: _MAX_SEARCH_PAGES, MAX_LIST_PAGES
  AuthPages, \* MAX_CHANNEL_AUTHORIZATION_PAGES
  Cap        \* GITHUB_SEARCH_RESULT_CAP

VARIABLES
  kind,      \* which connector
  lists,     \* the lists walked, one after the other (two for Slack's channels)
  limit,     \* what the caller asks for
  request,   \* [at, list, pos, pages, results, page]: the request under way
  shown      \* the positions answered so far, in order (history)
walkVars == <<kind, lists, limit, request, shown>>

Least(m, n) == IF m < n THEN m ELSE n
Start == [at |-> "between", list |-> 1, pos |-> 0, pages |-> 0, results |-> <<>>, page |-> 1]
Current == lists[request.list]
Span(l, from, n) == [i \in 1..n |-> <<l, from + i>>]

\* What _search_hit and the window leave of an item; only Notion has either.
Kept(p) == kind # "notion" \/ lists[p[1]][p[2]] = "fits"

AlignedToLimit == Least(limit, MaxSize)

\* Notion's pages shrink to the remaining capacity; GitHub's and Gmail's have
\* the size asked for; Slack's are asked for in full every time.
PageSize ==
  IF kind = "notion" THEN Least(IF limit > Len(request.results) THEN limit - Len(request.results) ELSE 1, MaxSize)
  ELSE IF kind = "authorize" THEN MaxSize
  ELSE Least(limit, MaxSize)

MaxRead == CASE kind \in {"notion", "slack"} -> MaxPages [] OTHER -> 1
Room == IF kind = "authorize" THEN MaxSize ELSE limit

\* search, list_channels, list_dms, search_page: the caller's request.
Request ==
  /\ request.at = "between"
  /\ request' = [request EXCEPT !.at = "reading", !.pages = 0, !.results = <<>>]
  /\ UNCHANGED <<kind, lists, limit, shown>>

\* A provider page: how many items it has, all of them or fewer.
Sizes ==
  LET end  == IF kind = "github" THEN Least(Len(Current), Cap) ELSE Len(Current)
      left == end - request.pos IN
  IF left = 0 THEN {0}
  ELSE IF kind \in {"notion", "slack"} THEN 1..Least(left, PageSize)
  ELSE IF kind = "authorize" THEN 0..Least(left, PageSize)
  ELSE {Least(left, PageSize)}

ReadPage ==
  /\ request.at = "reading"
  /\ \E n \in Sizes :
       LET page == Span(request.list, request.pos, n)
           old  == kind = "notion" /\ \E i \in 1..n : Current[request.pos + i] = "older"
           hits == SelectSeq(page, Kept)
           all  == request.results \o hits
           more == request.pos + n < Len(Current)
           r    == [request EXCEPT !.pages = @ + 1, !.results = all, !.pos = @ + n]
       IN request' = [r EXCEPT !.at = IF old THEN "last"
                                      ELSE IF ~more THEN "drained"
                                      ELSE IF Len(all) >= Room \/ r.pages = MaxRead THEN "answer" ELSE "reading"]
  /\ UNCHANGED <<kind, lists, limit, shown>>

\* The answer: at most the limit, and the cursor after the last page read.
\* GitHub's next page is withheld beyond what its search can reach.
NextCursor ==
  CASE request.at = "answer" /\ kind = "github" ->
         Len(request.results) >= PageSize /\ request.page * PageSize < Least(Len(Current), Cap)
    [] request.at = "answer"  -> TRUE
    [] request.at = "drained" -> kind \in {"slack", "authorize"} /\ request.list < Len(lists)
    [] OTHER -> FALSE

\* _require_channel stops at the page that has the channel, and refuses with a
\* cursor in hand when the cursor came before or its pages are spent.
Ends ==
  CASE ~NextCursor -> {"complete"}
    [] kind = "authorize" -> {IF request.page = AuthPages THEN "refused" ELSE "between"}
                               \cup (IF request.page > 1 THEN {"refused"} ELSE {})
    [] OTHER -> {"between"}

Answer ==
  /\ request.at \in {"answer", "last", "drained"}
  /\ shown' = shown \o SubSeq(request.results, 1, Least(Room, Len(request.results)))
  /\ \E end \in Ends \cup (IF kind = "authorize" /\ request.results # <<>> THEN {"allowed"} ELSE {}) :
       request' = [request EXCEPT !.at = end, !.page = @ + 1,
                                  !.list = IF request.at = "drained" /\ NextCursor THEN @ + 1 ELSE @,
                                  !.pos = IF request.at = "drained" /\ NextCursor THEN 0 ELSE @]
  /\ UNCHANGED <<kind, lists, limit>>

\* A provider that answers with an error ends the walk loudly.
UpstreamError ==
  /\ request.at = "reading"
  /\ request' = [request EXCEPT !.at = "failed"]
  /\ UNCHANGED <<kind, lists, limit, shown>>

WalkInit ==
  /\ kind \in {"notion", "slack", "authorize", "github", "gmail"}
  /\ LET plain == {s \in Lists : \A i \in DOMAIN s : s[i] = "fits"} IN
     lists \in CASE kind = "notion" -> {<<s>> : s \in Lists}
                 [] kind \in {"slack", "authorize"} -> plain \X plain
                 [] OTHER -> {<<s>> : s \in plain}
  /\ limit \in Limits /\ request = Start /\ shown = <<>>

WalkNext == Request \/ ReadPage \/ Answer \/ UpstreamError
WalkSpec == WalkInit /\ [][WalkNext]_walkVars

---------------------------------------------------------------------------
(* Properties *)

\* Everything the walk is about that lies before the cursor.
Reachable(l, i) ==
  /\ kind = "github" => i <= Cap
  /\ kind = "notion" => \A j \in 1..i : lists[l][j] # "older"
Passed ==
  LET All(l, n) == SelectSeq(Span(l, 0, n), LAMBDA p : Kept(p) /\ Reachable(p[1], p[2])) IN
  (IF request.list = 1 THEN <<>> ELSE All(1, Len(lists[1]))) \o All(request.list, request.pos)
Exact == request.at \in {"between", "complete", "allowed", "refused"} => shown = Passed

\* A cursor never jumps over a result (notion_client.py, search: stopping in
\* the middle of a page would drop the rest of it): what was answered is
\* exactly what lies before the cursor, once and in order, and a walk that ends
\* without a cursor has answered all there is.  The walk that authorizes a Slack
\* read (slack_client.py, _require_channel) has compared all that lies before the
\* cursor it gives up at, however empty the pages were.
NothingSkipped ==
  kind # "slack" =>
    /\ Exact
    /\ request.at = "complete" => request.list = Len(lists) /\
         \A i \in DOMAIN Current : Kept(<<request.list, i>>) /\ Reachable(request.list, i) =>
             <<request.list, i>> \in ToSet(shown)

\* docs/slack-connector.md: channels are listed by sending next_cursor back
\* until it is empty.
ChannelsAllListed == kind = "slack" => Exact
=============================================================================
