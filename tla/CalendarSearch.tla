--------------------------- MODULE CalendarSearch ---------------------------
(***************************************************************************)
(* The calendar connector's search (connectors/calendar_client.py): one    *)
(* ordered list over several calendars, cut into pages by a cursor that is *)
(* the key of the last event shown.  Nothing is kept between two requests. *)
(*                                                                         *)
(* The provider (external) answers a query page by page in the order of    *)
(* the events' starts; events of one instant come in any order, another    *)
(* one for each query, and may be split over two of its pages.  A date is  *)
(* midnight in the calendar's zone to the provider, in the search's zone   *)
(* to the search.  Events come and go between the requests.                *)
(***************************************************************************)
EXTENDS Integers, Sequences, FiniteSets, SequencesExt

CONSTANTS
  Calendars,    \* the selected calendars 1..n, in their order
  AllEvents,    \* the events there may be: [cal, id, start, end, allday]
  Standing,     \* those that are there and stay
  Shift,        \* [calendars -> how much later midnight is in the search's zone]
  Lower, Upper, \* the window
  Limit,        \* events on a page, here and at the provider
  MaxPages,     \* _MAX_PROVIDER_PAGES_PER_CALENDAR
  MaxChanges    \* bound

VARIABLES
  events,    \* what the calendars hold
  search,    \* the request under way: the calendar it is at, what it has
  cursor,    \* the cursor the last page came with
  shown,     \* the events shown so far, in order (history)
  changes    \* how often an event came or went
calendarVars == <<events, search, cursor, shown, changes>>

NoCursor == <<>>
Waiting == [at |-> "between"]

\* _event_sort_key: a date becomes an instant in the zone of the search.
Instant(e) == IF e.allday THEN e.start + Shift[e.cal] ELSE e.start
Key(e) == <<Instant(e), IF e.allday THEN 0 ELSE 1, e.cal, e.id>>
Before(k, l) ==
  \E i \in DOMAIN k : k[i] < l[i] /\ \A j \in 1..(i - 1) : k[j] = l[j]
SortByKey(set) == SetToSortSeq(set, LAMBDA d, e : Before(Key(d), Key(e)))
FirstOf(n, s) == SubSeq(s, 1, IF Len(s) < n THEN Len(s) ELSE n)

---------------------------------------------------------------------------
(* The provider *)

\* timeMin excludes an event by its end, timeMax by its start.
Matching(cal, from) == {e \in events : e.cal = cal /\ e.end > from /\ e.start < Upper}
InOrder(s) == \A i \in 1..(Len(s) - 1) : s[i].start <= s[i + 1].start
Answers(cal, from) == {s \in SetToSeqs(Matching(cal, from)) : InOrder(s)}

---------------------------------------------------------------------------
(* search *)

FromTheInstant == IF cursor = NoCursor THEN Lower ELSE cursor[1]

\* provider_lower: a microsecond before the cursor's instant.
ProviderLower ==
  IF cursor = NoCursor \/ cursor[1] - 1 < Lower THEN Lower ELSE cursor[1] - 1

\* _calendar_candidates begins with one calendar.
At(cal, candidates, more) ==
  [at |-> "calendar", cal |-> cal, left |-> <<>>, asked |-> FALSE, pages |-> 0,
   results |-> {}, latest |-> -1, candidates |-> candidates, more |-> more]

Search ==
  /\ search.at = "between"
  /\ search' = At(1, {}, FALSE)
  /\ UNCHANGED <<events, cursor, shown, changes>>

\* Stopping as soon as there are enough.
EnoughToShow(r, exhausted) == exhausted \/ Cardinality(r.results) >= Limit

\* The instant at the limit is drained: a strictly later start has been seen.
Drained(r, exhausted) ==
  \/ exhausted
  \/ /\ Cardinality(r.results) >= Limit
     /\ Instant(SortByKey(r.results)[Limit]) < r.latest

\* One page of the provider's answer: its events above the cursor are kept.
FetchPage ==
  /\ search.at = "calendar" /\ search.pages < MaxPages
  /\ \E answer \in IF search.asked THEN {search.left} ELSE Answers(search.cal, ProviderLower) :
       LET page == FirstOf(Limit, answer)
           rest == SubSeq(answer, Len(page) + 1, Len(answer))
           new  == {e \in ToSet(page) : cursor = NoCursor \/ Before(cursor, Key(e))}
           r    == [search EXCEPT !.asked = TRUE, !.left = rest, !.pages = @ + 1, !.results = @ \cup new,
                                  !.latest = Max({@} \cup {Instant(e) : e \in ToSet(page)})]
           mine == FirstOf(Limit, SortByKey(r.results))
           more == rest # <<>> \/ Cardinality(r.results) > Limit
       IN search' = IF ~Drained(r, rest = <<>>) THEN r
                    ELSE IF search.cal < Calendars THEN At(search.cal + 1, r.candidates \cup ToSet(mine), r.more \/ more)
                    ELSE [at |-> "merge", candidates |-> r.candidates \cup ToSet(mine), more |-> r.more \/ more]
  /\ UNCHANGED <<events, cursor, shown, changes>>

\* More pages than are followed: the search is refused, the walk is over.
TooManyPages ==
  /\ search.at = "calendar" /\ search.pages = MaxPages
  /\ search' = [at |-> "refused"]
  /\ UNCHANGED <<events, cursor, shown, changes>>

\* The global page, and the cursor when there is more.
Show ==
  /\ search.at = "merge"
  /\ LET page == FirstOf(Limit, SortByKey(search.candidates))
         next == page # <<>> /\ (Cardinality(search.candidates) > Limit \/ search.more)
     IN /\ shown' = shown \o page
        /\ cursor' = IF next THEN Key(Last(page)) ELSE NoCursor
        /\ search' = IF next THEN Waiting ELSE [at |-> "complete"]
  /\ UNCHANGED <<events, changes>>

EventChanges ==
  /\ changes < MaxChanges
  /\ \E e \in AllEvents \ Standing : events' = IF e \in events THEN events \ {e} ELSE events \cup {e}
  /\ changes' = changes + 1
  /\ UNCHANGED <<search, cursor, shown>>

CalendarInit ==
  /\ events \in {Standing \cup more : more \in SUBSET (AllEvents \ Standing)}
  /\ search = Waiting /\ cursor = NoCursor /\ shown = <<>> /\ changes = 0

CalendarNext == Search \/ FetchPage \/ TooManyPages \/ Show \/ EventChanges
CalendarSpec == CalendarInit /\ [][CalendarNext]_calendarVars

---------------------------------------------------------------------------
(* Properties *)

\* What was there throughout and is above the window's edge has been shown once
\* the cursor is past it, or the walk is over.
ShownInPassing(e) ==
  /\ e.end > Lower /\ e.start < Upper
  /\ search.at = "complete" \/ (cursor # NoCursor /\ ~Before(cursor, Key(e)))
  => e \in ToSet(shown)

\* Nothing is stranded below a cursor (_calendar_candidates): the pages of one
\* walk are in strictly ascending order of key, so nothing is shown twice; and
\* what stood throughout in a calendar of the search's own zone is shown before
\* the cursor passes it, and before the walk ends, whatever the zones of the
\* calendars it is merged with.
NothingStranded ==
  /\ \A i \in 1..(Len(shown) - 1) : Before(Key(shown[i]), Key(shown[i + 1]))
  /\ \A e \in Standing : Shift[e.cal] = 0 => ShownInPassing(e)

\* _calendar_candidates: truncating in the provider's order "can strand" an event
\* below the cursor, which draining the instant at the limit prevents.
NoZoneStranded == \A e \in Standing : ShownInPassing(e)
=============================================================================
