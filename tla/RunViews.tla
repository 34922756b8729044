------------------------------ MODULE RunViews ------------------------------
(***************************************************************************)
(* The run views a process keeps current (intents.RunViews): what its      *)
(* threads are told of one run, while the run's Track grows in another     *)
(* process.                                                                *)
(*                                                                         *)
(* What is kept of a run is an object the threads share: a refresh, under  *)
(* the lock, reads the events the Track gained and rebuilds the view; a    *)
(* run that has ended keeps its view and turns and lets its events go.  A  *)
(* thread goes on with the object after it let the lock go, and forget     *)
(* may have dropped that object from the table meanwhile.                  *)
(*                                                                         *)
(* Events are numbered, and a view or a run's turns are represented by     *)
(* the events they were folded from.                                       *)
(***************************************************************************)
EXTENDS Naturals, Sequences

CONSTANTS
  Viewers, NoViewer,
  NoValue,          \* Python's None
  RunUnreadable, InvalidTransition, TypeError,   \* what a call may raise
  Outcomes,         \* what an event may leave the run in
  MaxEvents,        \* bound: events of the run
  MaxForgets,       \* bound: how often the run is forgotten
  MaxReads          \* bound: calls made

VARIABLES
  log,           \* the Track: how each event left the run
  heap,          \* the _Kept objects made so far
  table,         \* the object in RunViews._kept, or 0
  viewLock,      \* who holds RunViews._lock
  freshLength,   \* the number of events its holder read whole
  place, call,   \* where each thread is, and in which call
  kept,          \* the object each thread's call works on
  began,         \* the length of the Track when each thread's call began
  result,        \* what each thread's last call returned
  used           \* bounds used: calls and forgets

viewVars == <<log, heap, table, viewLock, freshLength, place, call, kept, began, result, used>>

\* Object 0 is _NEVER_SUBMITTED, which is in no table.
Objects  == 0 .. MaxForgets + 1
First(n) == [i \in 1 .. n |-> i]
NewKept  == [events |-> <<>>, last |-> 0, built |-> 0, view |-> NoValue, turns |-> NoValue,
             unreadable |-> FALSE]

\* The bounds are numbers, nobody is no viewer, and None is no list of events.
ViewsAssumption ==
  /\ MaxEvents \in Nat /\ MaxForgets \in Nat
  /\ NoViewer \notin Viewers
  /\ \A n \in 0 .. MaxEvents : NoValue # First(n)

ViewsInit ==
  /\ log = <<>>
  /\ heap = [o \in Objects |-> NewKept]
  /\ table = 0 /\ viewLock = NoViewer /\ freshLength = 0
  /\ place = [t \in Viewers |-> "idle"]
  /\ call = [t \in Viewers |-> "view"]
  /\ kept = [t \in Viewers |-> 0]
  /\ began = [t \in Viewers |-> 0]
  /\ result = [t \in Viewers |-> <<>>]
  /\ used = [calls |-> 0, forgets |-> 0]

ViewerGoes(t, label) == place' = [place EXCEPT ![t] = label]

Return(t, value) ==
  /\ result' = [result EXCEPT ![t] = value]
  /\ kept' = [kept EXCEPT ![t] = 0]
  /\ ViewerGoes(t, "idle")

--------------------------------------------------------------------------
\* Another process appends: a Track that cannot be replayed never can be again.
Grow ==
  /\ Len(log) < MaxEvents
  /\ \E s \in Outcomes :
       /\ log = <<>> => s # "ended"
       /\ log # <<>> /\ log[Len(log)] = "unreadable" => s = "unreadable"
       /\ log' = Append(log, s)
  /\ UNCHANGED <<heap, table, viewLock, freshLength, place, call, kept, began, result, used>>

Call(t, c) ==
  /\ place[t] = "idle" /\ used.calls < MaxReads
  /\ used' = [used EXCEPT !.calls = @ + 1]
  /\ call' = [call EXCEPT ![t] = c]
  /\ began' = [began EXCEPT ![t] = Len(log)]
  /\ ViewerGoes(t, "refresh")
  /\ UNCHANGED <<log, heap, table, viewLock, freshLength, kept, result>>

\* How the run is after the events read.
State(events) == log[events[Len(events)]]

\* Mutant: an ended run's events are let go before its turns are kept.
BuiltWithoutTurns(k) ==
  IF k.built = k.last THEN k
  ELSE LET s == State(k.events) IN
       [k EXCEPT !.built = k.last,
                 !.view = IF s = "unreadable" THEN NoValue ELSE k.events,
                 !.unreadable = s = "unreadable",
                 !.turns = NoValue,
                 !.events = IF s = "ended" THEN NoValue ELSE k.events]

\* The view rebuilt when the run has new events; an ended run keeps its turns.
Built(k) ==
  IF k.built = k.last THEN k
  ELSE LET s == State(k.events) IN
       [k EXCEPT !.built = k.last,
                 !.view = IF s = "unreadable" THEN NoValue ELSE k.events,
                 !.unreadable = s = "unreadable",
                 !.turns = IF s = "ended" THEN k.events ELSE NoValue,
                 !.events = IF s = "ended" THEN NoValue ELSE k.events]

Extended(k, found) ==
  IF found = <<>> THEN k
  ELSE [k EXCEPT !.events = @ \o found, !.last = found[Len(found)]]

EventsAfter(n) == SubSeq(First(Len(log)), n + 1, Len(log))

Continue(t, o) ==
  /\ kept' = [kept EXCEPT ![t] = o]
  /\ ViewerGoes(t, call[t])

\* _refresh of an id not in the table: a run with events gets an object.
RefreshNew(t) ==
  /\ place[t] = "refresh" /\ viewLock = NoViewer /\ table = 0
  /\ IF log = <<>>
     THEN Continue(t, 0) /\ UNCHANGED <<heap, table>>
     ELSE LET o == used.forgets + 1 IN
          /\ heap' = [heap EXCEPT ![o] = Built(Extended(NewKept, EventsAfter(0)))]
          /\ table' = o
          /\ Continue(t, o)
  /\ UNCHANGED <<log, viewLock, freshLength, call, began, result, used>>

\* _refresh of a kept run: the events after the last one read.  What another
\* thread may see of the list as it is extended, it may see before or after too.
RefreshKept(t) ==
  /\ place[t] = "refresh" /\ viewLock = NoViewer /\ table # 0
  /\ LET k == heap[table]
         found == EventsAfter(k.last)
     IN /\ k.events # NoValue \/ found = <<>>
        /\ heap' = [heap EXCEPT ![table] = Built(Extended(k, found))]
  /\ Continue(t, table)
  /\ UNCHANGED <<log, table, viewLock, freshLength, call, began, result, used>>

\* An ended run moved again: its Track is read a second time, whole.
MovedAgain(t) ==
  /\ place[t] = "refresh" /\ viewLock = NoViewer /\ table # 0
  /\ heap[table].events = NoValue /\ EventsAfter(heap[table].last) # <<>>
  /\ viewLock' = t
  /\ ViewerGoes(t, "whole")
  /\ UNCHANGED <<log, heap, table, freshLength, call, kept, began, result, used>>

ReadWhole(t) ==
  /\ place[t] = "whole"
  /\ heap' = [heap EXCEPT ![table].events = <<>>]
  /\ freshLength' = Len(log)
  /\ ViewerGoes(t, "extend")
  /\ UNCHANGED <<log, table, viewLock, call, kept, began, result, used>>

\* The empty list is extended event by event, where a thread without the lock
\* may look at it.
Extend(t) ==
  /\ place[t] = "extend" /\ Len(heap[table].events) < freshLength
  /\ heap' = [heap EXCEPT ![table].events = Append(@, Len(@) + 1)]
  /\ UNCHANGED <<log, table, viewLock, freshLength, place, call, kept, began, result, used>>

\* Mutant: the place read up to stays where it was before the run moved.
RefreshWholeKeepsLast(t) ==
  /\ place[t] = "extend" /\ Len(heap[table].events) >= freshLength
  /\ heap' = [heap EXCEPT ![table] = Built(@)]
  /\ viewLock' = NoViewer /\ freshLength' = 0
  /\ Continue(t, table)
  /\ UNCHANGED <<log, table, call, began, result, used>>

RefreshWhole(t) ==
  /\ place[t] = "extend" /\ Len(heap[table].events) >= freshLength
  /\ heap' = [heap EXCEPT ![table] = Built([@ EXCEPT !.last = freshLength])]
  /\ viewLock' = NoViewer /\ freshLength' = 0
  /\ Continue(t, table)
  /\ UNCHANGED <<log, table, call, began, result, used>>

--------------------------------------------------------------------------
(***************************************************************************)
(* The rest of each call, on the object the refresh returned.              *)
(***************************************************************************)
ViewerAside == UNCHANGED <<log, table, viewLock, freshLength, call, began, used>>

\* view: unreadable is tested, and then the view is read, without the lock.
View(t) ==
  /\ place[t] = "view"
  /\ IF heap[kept[t]].unreadable
     THEN Return(t, RunUnreadable)
     ELSE ViewerGoes(t, "view_read") /\ UNCHANGED <<kept, result>>
  /\ UNCHANGED heap /\ ViewerAside

ViewRead(t) ==
  /\ place[t] = "view_read"
  /\ Return(t, heap[kept[t]].view)
  /\ UNCHANGED heap /\ ViewerAside

\* events: the events are tested for None, and then copied, without the lock.
Events(t) ==
  /\ place[t] = "events"
  /\ IF heap[kept[t]].events = NoValue
     THEN Return(t, First(Len(log)))
     ELSE ViewerGoes(t, "events_copy") /\ UNCHANGED <<kept, result>>
  /\ UNCHANGED heap /\ ViewerAside

EventsCopy(t) ==
  /\ place[t] = "events_copy"
  /\ LET found == heap[kept[t]].events IN
       Return(t, IF found = NoValue THEN TypeError ELSE found)
  /\ UNCHANGED heap /\ ViewerAside

\* turns: folded on first use, under the lock.
Turns(t) ==
  /\ place[t] = "turns" /\ viewLock = NoViewer
  /\ LET k == heap[kept[t]]
         folded == IF k.turns # NoValue THEN k.turns
                   ELSE IF k.events = NoValue THEN <<>> ELSE k.events
     IN /\ heap' = [heap EXCEPT ![kept[t]].turns = folded]
        /\ Return(t, folded)
  /\ ViewerAside

\* The fold replays the run, and may raise where the run's Track cannot be.
TurnsRaise(t) ==
  /\ place[t] = "turns" /\ viewLock = NoViewer
  /\ heap[kept[t]].unreadable /\ heap[kept[t]].turns = NoValue
  /\ Return(t, InvalidTransition)
  /\ UNCHANGED heap /\ ViewerAside

Forget ==
  /\ viewLock = NoViewer /\ table # 0 /\ used.forgets < MaxForgets
  /\ table' = 0
  /\ used' = [used EXCEPT !.forgets = @ + 1]
  /\ UNCHANGED <<log, heap, viewLock, freshLength, place, call, kept, began, result>>

\* Nothing left to do within the bounds.
Done ==
  /\ used.calls = MaxReads /\ Len(log) = MaxEvents
  /\ \A t \in Viewers : place[t] = "idle"
  /\ UNCHANGED viewVars

ViewsNext ==
  \/ \E t \in Viewers :
       \/ \E c \in {"view", "events", "turns"} : Call(t, c)
       \/ RefreshNew(t) \/ RefreshKept(t)
       \/ MovedAgain(t) \/ ReadWhole(t) \/ Extend(t) \/ RefreshWhole(t)
       \/ View(t) \/ ViewRead(t) \/ Events(t) \/ EventsCopy(t) \/ Turns(t) \/ TurnsRaise(t)
  \/ Grow \/ Forget \/ Done

ViewsSpec == ViewsInit /\ [][ViewsNext]_viewVars

--------------------------------------------------------------------------
(***************************************************************************)
(* Properties.                                                             *)
(***************************************************************************)

\* Whenever the lock is free, what is kept of a run is its Track up to the last
\* event read, with no event missing or read twice, however often it ended, was
\* let go and moved again; and only a run that has ended has let its events go
\* (RunViews._refresh).
KeptIsAPrefix ==
  viewLock = NoViewer => \A o \in Objects : LET k == heap[o] IN
    /\ k.last <= Len(log)
    /\ k.events = NoValue => k.last # 0 /\ log[k.last] = "ended" /\ k.turns # NoValue
    /\ \A part \in {k.events, k.turns} : part # NoValue => part = First(k.last)
    /\ k.last # 0 => IF k.unreadable THEN k.view = NoValue ELSE k.view = First(k.last)

\* A view or a run's turns are told from the Track as it was when the call began,
\* or later: no thread is shown an older run, whoever refreshed or forgot it
\* meanwhile (RunViews.view, RunViews.turns).  None is answered only of a run with
\* no events, or one that has become unreadable.
ReadIsCurrent ==
  \A t \in Viewers :
    /\ place[t] # "idle" /\ place'[t] = "idle" /\ call[t] # "events"
    /\ result'[t] \notin {RunUnreadable, InvalidTransition}
    => IF result'[t] = NoValue
       THEN began[t] = 0 \/ \E i \in 1 .. Len(log) : log[i] = "unreadable"
       ELSE \E n \in began[t] .. Len(log) : result'[t] = First(n)

ReadsCurrent == [][ReadIsCurrent]_viewVars

\* RunViews is safe to share between threads: a call for a run's events neither
\* raises nor misses an event because another thread refreshed the run between
\* two of its reads (RunViews.events).
SafeToShare ==
  [][\A t \in Viewers :
       place[t] # "idle" /\ place'[t] = "idle" /\ call[t] = "events" =>
         \E n \in began[t] .. Len(log) : result'[t] = First(n)]_viewVars
=============================================================================
