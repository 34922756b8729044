----------------------------- MODULE TrackStore -----------------------------
(***************************************************************************)
(* The Track's store on PostgreSQL (track.PostgresTrackStore), shared by   *)
(* the API's replicas and the controller.                                  *)
(*                                                                         *)
(* An append is a transaction: it takes the run's advisory lock, checks    *)
(* its condition if it has one, inserts, which draws a number from one     *)
(* sequence for all runs, and commits, which makes the row visible and     *)
(* lets the lock go.  A transaction may be lost at any point, with the     *)
(* number it drew.  Readers poll a run with a cursor: they ask for the     *)
(* rows above the highest number they have seen.                           *)
(*                                                                         *)
(* Which lock a run takes is a parameter: the hash of a run's name may     *)
(* collide with another's.  The SQLite and in-memory stores are the case   *)
(* of one lock for all runs, waited for at most five seconds or for ever.  *)
(***************************************************************************)
EXTENDS Naturals, FiniteSets

CONSTANTS
  Runs, Locks, LockOf,   \* the runs, and the lock each run's appends take
  Writers, Readers,      \* connections that append, and readers with a cursor
  Nobody,                \* no writer
  MaxSequence            \* bound: numbers drawn

ASSUME LockAssumption == Runs # {} /\ LockOf \in [Runs -> Locks]
ASSUME NobodyAssumption == Nobody \notin Writers
ASSUME BoundAssumption == MaxSequence \in Nat

VARIABLES
  rows,       \* per run, the committed rows
  next,       \* the sequence's next value
  lock,       \* who holds each advisory lock
  pc,         \* where each writer's transaction is
  tx,         \* each writer's append: its run, its kind and the number drawn
  cursor,     \* per reader and run, the highest number seen
  seen        \* per reader and run, the numbers it was given

vars == <<rows, next, lock, pc, tx, cursor, seen>>

Track == INSTANCE TrackLog WITH log <- rows

Kinds == Track!Kinds
Holds(entries, kind) == Track!Holds(entries, kind)
StillWanted(entries) == Track!StillWanted(entries)

NoTx == [run |-> CHOOSE r \in Runs : TRUE, kind |-> "submitted", seq |-> 0]

TypeOK ==
  /\ rows \in [Runs -> SUBSET Track!Entries]
  /\ next \in Nat \ {0}
  /\ lock \in [Locks -> Writers \cup {Nobody}]
  /\ pc \in [Writers -> {"idle", "lock", "check", "insert", "commit"}]
  /\ tx \in [Writers -> [run : Runs, kind : Kinds, seq : Nat]]
  /\ cursor \in [Readers -> [Runs -> Nat]]
  /\ seen \in [Readers -> [Runs -> SUBSET Nat]]

Init ==
  /\ rows = [r \in Runs |-> {}]
  /\ next = 1
  /\ lock = [l \in Locks |-> Nobody]
  /\ pc = [w \in Writers |-> "idle"]
  /\ tx = [w \in Writers |-> NoTx]
  /\ cursor = [rd \in Readers |-> [r \in Runs |-> 0]]
  /\ seen = [rd \in Readers |-> [r \in Runs |-> {}]]

--------------------------------------------------------------------------
(***************************************************************************)
(* An append.                                                              *)
(***************************************************************************)
Goto(w, label)  == pc' = [pc EXCEPT ![w] = label]
ReadersAside    == UNCHANGED <<cursor, seen>>
LockFor(w)      == LockOf[tx[w].run]
Active          == {w \in Writers : pc[w] # "idle"}

\* append, or append_if for a request.
Begin(w, r, k) ==
  /\ pc[w] = "idle" /\ next + Cardinality(Active) <= MaxSequence
  /\ tx' = [tx EXCEPT ![w] = [run |-> r, kind |-> k, seq |-> 0]]
  /\ Goto(w, "lock")
  /\ UNCHANGED <<rows, next, lock>> /\ ReadersAside

\* Mutant: append_if appends without checking its condition.
AfterLockUnchecked(w) == "insert"

AfterLock(w) == IF tx[w].kind = "request" THEN "check" ELSE "insert"

\* Mutant: an append does not wait for the run's lock.
LockAnyway(w) ==
  /\ pc[w] = "lock"
  /\ lock' = [lock EXCEPT ![LockFor(w)] = w]
  /\ Goto(w, AfterLock(w))
  /\ UNCHANGED <<rows, next, tx>> /\ ReadersAside

\* pg_advisory_xact_lock, before anything is read or drawn.
Lock(w) ==
  /\ pc[w] = "lock" /\ lock[LockFor(w)] = Nobody
  /\ lock' = [lock EXCEPT ![LockFor(w)] = w]
  /\ Goto(w, AfterLock(w))
  /\ UNCHANGED <<rows, next, tx>> /\ ReadersAside

\* The transaction ends without a row: refused, or lost.
RolledBack(w) ==
  /\ lock' = [lock EXCEPT ![LockFor(w)] = Nobody]
  /\ tx' = [tx EXCEPT ![w] = NoTx]
  /\ Goto(w, "idle")
  /\ UNCHANGED rows /\ ReadersAside

\* Mutant: a refused condition returns without ending the transaction.
RefusedKeepsLock(w) ==
  /\ pc[w] = "check"
  /\ ~StillWanted(rows[tx[w].run])
  /\ tx' = [tx EXCEPT ![w] = NoTx]
  /\ Goto(w, "idle")
  /\ UNCHANGED <<rows, next, lock>> /\ ReadersAside

\* append_if on the rows committed so far, read under the lock.
Refused(w) ==
  /\ pc[w] = "check"
  /\ ~StillWanted(rows[tx[w].run])
  /\ RolledBack(w) /\ UNCHANGED next

Wanted(w) ==
  /\ pc[w] = "check"
  /\ StillWanted(rows[tx[w].run])
  /\ Goto(w, "insert")
  /\ UNCHANGED <<rows, next, tx, lock>> /\ ReadersAside

\* The partial unique index refuses a second submission of a run, once the number
\* of its row was drawn.
SubmittedTwice(w) == tx[w].kind = "submitted" /\ Holds(rows[tx[w].run], "submitted")

Duplicate(w) ==
  /\ pc[w] = "insert" /\ SubmittedTwice(w)
  /\ next' = next + 1
  /\ RolledBack(w)

\* Mutant: the row is inserted without a number of its own.
InsertUnnumbered(w) ==
  /\ pc[w] = "insert" /\ ~SubmittedTwice(w)
  /\ Goto(w, "commit")
  /\ UNCHANGED <<rows, next, tx, lock>> /\ ReadersAside

\* The insert draws the next number; the row is not visible yet.
Insert(w) ==
  /\ pc[w] = "insert" /\ ~SubmittedTwice(w)
  /\ tx' = [tx EXCEPT ![w].seq = next]
  /\ next' = next + 1
  /\ Goto(w, "commit")
  /\ UNCHANGED <<rows, lock>> /\ ReadersAside

Commit(w) ==
  /\ pc[w] = "commit"
  /\ rows' = [rows EXCEPT ![tx[w].run] = @ \cup {[seq |-> tx[w].seq, kind |-> tx[w].kind]}]
  /\ lock' = [lock EXCEPT ![LockFor(w)] = Nobody]
  /\ tx' = [tx EXCEPT ![w] = NoTx]
  /\ Goto(w, "idle")
  /\ UNCHANGED next /\ ReadersAside

\* The connection is lost, before the commit: the number drawn is a gap.
Lose(w) == pc[w] \in {"check", "insert", "commit"} /\ RolledBack(w) /\ UNCHANGED next

\* Waiting for the lock, the connection is lost or the wait times out.
GiveUp(w) ==
  /\ pc[w] = "lock"
  /\ tx' = [tx EXCEPT ![w] = NoTx]
  /\ Goto(w, "idle")
  /\ UNCHANGED <<rows, next, lock>> /\ ReadersAside

--------------------------------------------------------------------------
(***************************************************************************)
(* A reader: replay after its cursor, and move the cursor to the last row. *)
(***************************************************************************)
Fresh(rd, r) == {e.seq : e \in {x \in rows[r] : x.seq > cursor[rd][r]}}

Poll(rd, r) ==
  /\ seen' = [seen EXCEPT ![rd][r] = @ \cup Fresh(rd, r)]
  /\ IF Fresh(rd, r) = {}
     THEN UNCHANGED cursor
     ELSE \E top \in Fresh(rd, r) :
            /\ \A n \in Fresh(rd, r) : n <= top
            /\ cursor' = [cursor EXCEPT ![rd][r] = top]
  /\ UNCHANGED <<rows, next, lock, pc, tx>>

TxStep(w) ==
  Lock(w) \/ Refused(w) \/ Wanted(w) \/ Duplicate(w) \/ Insert(w) \/ Commit(w)

Next ==
  \/ \E w \in Writers : \/ \E r \in Runs, k \in Kinds : Begin(w, r, k)
                        \/ TxStep(w) \/ Lose(w) \/ GiveUp(w)
  \/ \E rd \in Readers, r \in Runs : Poll(rd, r)

Spec == Init /\ [][Next]_vars

\* The database runs a transaction to its end, and grants a lock in the order it
\* was asked for: a transaction that keeps finding its lock free gets it.
Fairness == \A w \in Writers : SF_vars(TxStep(w))

FairSpec == Spec /\ Fairness

--------------------------------------------------------------------------
(***************************************************************************)
(* Properties.                                                             *)
(***************************************************************************)

\* A cursor over one run's events never skips one: every committed row of a run
\* at or below a reader's cursor was given to that reader, although numbers are
\* drawn before rows become visible and transactions end in any order.
CursorNeverSkips ==
  \A rd \in Readers, r \in Runs : \A e \in rows[r] :
    e.seq <= cursor[rd][r] => e.seq \in seen[rd][r]

\* The store is the log TrackLog promises: rows land at the end of their run's
\* log, a run is submitted once, and a conditional append lands only where its
\* condition holds.
ImplementsLog == Track!Spec

\* Every append ends: no transaction waits for ever on a lock.
AppendsEnd == \A w \in Writers : pc[w] # "idle" ~> pc[w] = "idle"
=============================================================================
