---------------------------- MODULE ProjectBoard ----------------------------
(***************************************************************************)
(* Reading a GitHub project board with its counts                          *)
(* (github_client.py, read_project_with_counts): the items are read page   *)
(* by page while two count queries run beside them, the second of which    *)
(* asks for the columns the first one named.  The board is edited          *)
(* meanwhile, and each query may fail.                                     *)
(***************************************************************************)
EXTENDS Integers, FiniteSets, FiniteSetsExt

CONSTANTS
  Items,      \* 1..n, in the order of the board
  Columns,    \* the values of the Status field
  PageSize,   \* _PROJECT_PAGE_SIZE
  MaxItems,   \* max_items, at most _MAX_PROJECT_ITEMS
  MaxEdits    \* bound

VARIABLES
  board,    \* [item -> [column, type]], the items that are on it
  columns,  \* the columns there are
  listing,  \* the item pages: where they are and what they have
  counts,   \* the count queries
  answer,
  edits     \* edits since the request began
boardVars == <<board, columns, listing, counts, answer, edits>>

None == "none"
Types == {"issue", "pull_request", "draft", "redacted"}
Card(S) == Cardinality(S)
On(b, c) == Card({i \in DOMAIN b : b[i].column = c})
Of(b, t) == Card({i \in DOMAIN b : b[i].type = t})

NoAnswer == [kind |-> "none"]

Edit ==
  /\ answer = NoAnswer /\ edits < MaxEdits
  /\ \/ \E i \in DOMAIN board : board' = [j \in DOMAIN board \ {i} |-> board[j]] /\ UNCHANGED columns
     \/ \E i \in Items, c \in columns \cup {None}, t \in Types :
          /\ board' = [j \in DOMAIN board \cup {i} |-> IF j = i THEN [column |-> c, type |-> t] ELSE board[j]]
          /\ UNCHANGED columns
     \/ \E c \in Columns \ columns : columns' = columns \cup {c} /\ UNCHANGED board
  /\ edits' = edits + 1
  /\ UNCHANGED <<listing, counts, answer>>

---------------------------------------------------------------------------
(* read_project: pages after a cursor until the cap, the project's total of *)
(* the last one.                                                            *)

After(cursor) == {i \in DOMAIN board : i > cursor}
OnPage(cursor) == {i \in After(cursor) : Card({j \in After(cursor) : j < i}) < PageSize}

ReadPage ==
  /\ listing.at = "reading"
  /\ LET page == OnPage(listing.cursor)
         all  == listing.items \cup {[id |-> i, column |-> board[i].column, type |-> board[i].type] : i \in page}
         more == page # After(listing.cursor)
         done == Card(all) >= MaxItems \/ ~more
     IN listing' = [at |-> IF done THEN "read" ELSE "reading",
                    cursor |-> IF page = {} THEN listing.cursor ELSE Max(page),
                    items |-> all, total |-> Card(DOMAIN board)]
  /\ UNCHANGED <<board, columns, counts, answer, edits>>

\* A failure of the listing is the caller's; the counts are cancelled.
ListingFails ==
  /\ listing.at = "reading"
  /\ listing' = [listing EXCEPT !.at = "failed"]
  /\ counts' = [at |-> "cancelled"]
  /\ answer' = [kind |-> "error"]
  /\ UNCHANGED <<board, columns, edits>>

---------------------------------------------------------------------------
(* _authoritative_counts *)

QueryTotals ==
  /\ counts.at = "totals"
  /\ LET drafts == Of(board, "draft")
         issue  == (Of(board, "issue") + drafts) - drafts
         prs    == Of(board, "pull_request")
         total  == Card(DOMAIN board)
     IN counts' = [at |-> "columns", options |-> columns, total |-> total, no_status |-> On(board, None),
                   types |-> [t \in Types |-> CASE t = "issue" -> issue [] t = "draft" -> drafts
                                                [] t = "pull_request" -> prs
                                                [] OTHER -> total - (issue + prs + drafts)]]
  /\ UNCHANGED <<board, columns, listing, answer, edits>>

StampRegardless(total, none, columnsSum, types) == TRUE

\* The self-check before the counts are called authoritative.
Reconciles(total, none, columnsSum, types) ==
  columnsSum + none = total /\ types["issue"] >= 0 /\ types["redacted"] >= 0

\* _status_column_counts, with the columns the first query named.
QueryColumns ==
  /\ counts.at = "columns"
  /\ LET per == [c \in counts.options |-> On(board, c)]
         sum == MapThenSumSet(LAMBDA c : per[c], counts.options)
     IN counts' = IF Reconciles(counts.total, counts.no_status, sum, counts.types)
                  THEN [at |-> "counted", total |-> counts.total, no_status |-> counts.no_status,
                        columns |-> per, types |-> counts.types]
                  ELSE [at |-> "failed"]
  /\ UNCHANGED <<board, columns, listing, answer, edits>>

CountsFail ==
  /\ counts.at \in {"totals", "columns"}
  /\ counts' = [at |-> "failed"]
  /\ UNCHANGED <<board, columns, listing, answer, edits>>

---------------------------------------------------------------------------
(* The answer: counts never break the read *)

Capped(items) == {i \in items : Card({j \in items : j.id < i.id}) < MaxItems}

\* _sampled_counts: what was listed, authoritative only when that is all.
Sampled(items, total) ==
  LET seen == [i \in {x.id : x \in items} |-> CHOOSE x \in items : x.id = i] IN
  [kind |-> "board", items |-> items, authoritative |-> Card(items) = total, total |-> total,
   no_status |-> On(seen, None), columns |-> [c \in {x.column : x \in items} \ {None} |-> On(seen, c)],
   types |-> [t \in Types |-> Of(seen, t)]]

Respond ==
  /\ answer = NoAnswer /\ listing.at = "read" /\ counts.at \in {"counted", "failed"}
  /\ answer' = IF counts.at = "failed" THEN Sampled(Capped(listing.items), listing.total)
               ELSE [kind |-> "board", items |-> Capped(listing.items), authoritative |-> TRUE,
                     total |-> counts.total, no_status |-> counts.no_status,
                     columns |-> counts.columns, types |-> counts.types]
  /\ UNCHANGED <<board, columns, listing, counts, edits>>

BoardInit ==
  /\ columns \in {c \in SUBSET Columns : c # {}}
  /\ \E on \in SUBSET Items : board \in [on -> [column : columns \cup {None}, type : Types]]
  /\ listing = [at |-> "reading", cursor |-> 0, items |-> {}, total |-> 0]
  /\ counts = [at |-> "totals"] /\ answer = NoAnswer /\ edits = 0

BoardNext == Edit \/ ReadPage \/ ListingFails \/ QueryTotals \/ QueryColumns \/ CountsFail \/ Respond
BoardSpec == BoardInit /\ [][BoardNext]_boardVars

---------------------------------------------------------------------------
(* Properties *)

Sum(f) == MapThenSumSet(LAMBDA x : f[x], DOMAIN f)

\* Counts called authoritative add up, by column and by type, whatever was
\* edited between the queries; and when nothing was, they are the board's
\* (_authoritative_counts, _sampled_counts).
CountsAddUp ==
  answer.kind = "board" /\ answer.authoritative =>
    /\ Sum(answer.columns) + answer.no_status = answer.total
    /\ Sum(answer.types) = answer.total /\ \A t \in Types : answer.types[t] >= 0
    /\ edits = 0 => /\ answer.total = Card(DOMAIN board)
                    /\ \A c \in DOMAIN answer.columns : answer.columns[c] = On(board, c)
                    /\ \A t \in Types : answer.types[t] = Of(board, t)
=============================================================================
