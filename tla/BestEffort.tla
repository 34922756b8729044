----------------------------- MODULE BestEffort -----------------------------
(***************************************************************************)
(* The seen-user accounting (frames/usage.py), the bounded background      *)
(* writer it hands its writes to (frames/best_effort.py) and the watchdog  *)
(* that cancels a stalled one (frames/db.py).                              *)
(*                                                                         *)
(* Authenticated requests claim a caller's window and queue one upsert per *)
(* window; daemon threads take the writes off the queue and run them on a  *)
(* pooled connection, which other requests borrow too.                     *)
(***************************************************************************)
EXTENDS Integers, Sequences, FiniteSets, FiniteSetsExt, SequencesExt

CONSTANTS
  SeenKeys,     \* the (org, workspace, user, email) tuples
  Requests,     \* the request threads that authenticate a caller
  Threads,      \* the writer's worker threads
  QueueSize,    \* BEST_EFFORT_QUEUE_SIZE
  Conns,        \* the connections of the pool
  Interval      \* SEEN_WRITE_INTERVAL_SECONDS, in units of the first backoff

Stop == "stop"
NoKey == "no key"
NoConn == "no connection"
Free == "free"
OtherBorrower == "another request"

\* A pool of threads, and names that are not taken for something else.
BestEffortAssumption ==
  /\ IsFiniteSet(Threads) /\ Threads \cap {Free, OtherBorrower} = {}
  /\ SeenKeys \cap {Stop, NoKey} = {}
  /\ QueueSize \in Nat

VARIABLES
  window,      \* [SeenKeys -> what is left of _seen_next_write]
  failed,      \* [SeenKeys -> consecutive failures]
  caller,      \* [Requests -> record_user_seen's progress]
  works,       \* the queue
  pending,     \* _pending
  closed,      \* _closed
  thread,      \* [Threads -> a worker's progress]
  timer,       \* [Threads -> the watchdog of its checkout]
  borrower,    \* [Conns -> who has the connection]
  claim,       \* [SeenKeys -> what became of the last claim] (history)
  strays       \* cancels that reached somebody else's statement (history)

seenVars == <<window, failed, claim>>
writerVars == <<works, pending, closed>>
poolVars == <<thread, timer, borrower, strays>>
bestEffortVars == <<seenVars, writerVars, poolVars, caller>>

IdleCaller == [at |-> "idle", key |-> NoKey]
Worker(at, key, conn, ok) == [at |-> at, key |-> key, conn |-> conn, ok |-> ok]

BestEffortInit ==
  /\ window = [k \in SeenKeys |-> 0]
  /\ failed = [k \in SeenKeys |-> 0]
  /\ caller = [r \in Requests |-> IdleCaller]
  /\ works = <<>> /\ pending = 0 /\ closed = FALSE
  /\ thread = [t \in Threads |-> Worker("unstarted", NoKey, NoConn, TRUE)]
  /\ timer = [t \in Threads |-> "none"]
  /\ borrower = [c \in Conns |-> Free]
  /\ claim = [k \in SeenKeys |-> "none"] /\ strays = {}

---------------------------------------------------------------------------
(* record_user_seen *)

SeenRetryDelay(failures) == Min({2 ^ (failures - 1), Interval})

\* Failures are counted up to the first whose delay is the whole interval.
Counted(failures) == IF SeenRetryDelay(failures) = Interval
                     THEN Min({f \in 1..failures : SeenRetryDelay(f) = Interval})
                     ELSE failures

RecordSeenFailure(k) ==
  /\ failed' = [failed EXCEPT ![k] = Counted(@ + 1)]
  /\ window' = [window EXCEPT ![k] = SeenRetryDelay(failed[k] + 1)]
  /\ claim' = [claim EXCEPT ![k] = "backoff"]

\* The window is claimed under _seen_lock.
RecordUserSeen(r, k) ==
  /\ caller[r] = IdleCaller /\ window[k] = 0
  /\ window' = [window EXCEPT ![k] = Interval]
  /\ caller' = [caller EXCEPT ![r] = [at |-> "claimed", key |-> k]]
  /\ claim' = [claim EXCEPT ![k] = "open"]
  /\ UNCHANGED <<failed, writerVars, poolVars>>

Started(threads) == [t \in Threads |-> IF threads[t].at = "unstarted"
                                       THEN [threads[t] EXCEPT !.at = "get"] ELSE threads[t]]

\* BestEffortWriter.submit, under the writer's lock.
Submit(r) ==
  /\ caller[r].at = "claimed"
  /\ IF closed \/ Len(works) >= QueueSize
     THEN /\ caller' = [caller EXCEPT ![r].at = "refused"]
          /\ UNCHANGED <<works, pending>>
     ELSE /\ caller' = [caller EXCEPT ![r] = IdleCaller]
          /\ works' = Append(works, caller[r].key)
          /\ pending' = pending + 1
  /\ thread' = IF closed THEN thread ELSE Started(thread)
  /\ UNCHANGED <<seenVars, closed, timer, borrower, strays>>

ForgetTheRefused(r) ==
  /\ caller[r].at = "refused"
  /\ caller' = [caller EXCEPT ![r] = IdleCaller]
  /\ UNCHANGED <<seenVars, writerVars, poolVars>>
Refused(r) ==
  /\ caller[r].at = "refused"
  /\ RecordSeenFailure(caller[r].key)
  /\ caller' = [caller EXCEPT ![r] = IdleCaller]
  /\ UNCHANGED <<writerVars, poolVars>>

---------------------------------------------------------------------------
(* A worker thread: _run, _write_user_seen, best_effort_connection *)

Move(t, at) == thread' = [thread EXCEPT ![t].at = at]

GetWork(t) ==
  /\ thread[t].at = "get" /\ works # <<>>
  /\ works' = Tail(works)
  /\ thread' = [thread EXCEPT ![t] = IF Head(works) = Stop THEN Worker("ended", NoKey, NoConn, TRUE)
                                     ELSE Worker("checkout", Head(works), NoConn, FALSE)]
  /\ UNCHANGED <<seenVars, pending, closed, caller, timer, borrower, strays>>

Checkout(t, c) ==
  /\ thread[t].at = "checkout" /\ borrower[c] = Free
  /\ borrower' = [borrower EXCEPT ![c] = t]
  /\ thread' = [thread EXCEPT ![t].at = "execute", ![t].conn = c]
  /\ timer' = [timer EXCEPT ![t] = "armed"]
  /\ UNCHANGED <<seenVars, writerVars, caller, strays>>

\* The pool has no connection within BEST_EFFORT_TIMEOUT_SECONDS.
PoolTimeout(t) ==
  /\ thread[t].at = "checkout" /\ Free \notin Range(borrower)
  /\ Move(t, "settle")
  /\ UNCHANGED <<seenVars, writerVars, caller, timer, borrower, strays>>

\* The statement answers, or fails: a timeout of the server, a lost connection.
Execute(t) ==
  /\ thread[t].at = "execute"
  /\ \E ok \in BOOLEAN : thread' = [thread EXCEPT ![t].at = "disarm", ![t].ok = ok]
  /\ UNCHANGED <<seenVars, writerVars, caller, timer, borrower, strays>>

\* The callback takes the watchdog's lock and finds it not disarmed.
Fire(t) ==
  /\ timer[t] = "armed"
  /\ timer' = [timer EXCEPT ![t] = "firing"]
  /\ UNCHANGED <<seenVars, writerVars, caller, thread, borrower, strays>>

\* The cancel reaches the statement that runs on the connection by then.
Cancel(t) ==
  LET victim == borrower[thread[t].conn] IN
  /\ timer[t] = "firing"
  /\ timer' = [timer EXCEPT ![t] = "fired"]
  /\ IF victim = t /\ thread[t].at = "execute"
     THEN thread' = [thread EXCEPT ![t].at = "disarm", ![t].ok = FALSE]
     ELSE UNCHANGED thread
  /\ strays' = IF victim \in {t, Free} THEN strays ELSE strays \cup {<<t, victim>>}
  /\ UNCHANGED <<seenVars, writerVars, caller, borrower>>

\* disarm waits out a callback that holds the watchdog's lock.
DisarmWithoutTheLock(t) ==
  /\ thread[t].at = "disarm"
  /\ timer' = [timer EXCEPT ![t] = IF @ = "armed" THEN "none" ELSE @]
  /\ Move(t, "commit")
  /\ UNCHANGED <<seenVars, writerVars, caller, borrower, strays>>
Disarm(t) ==
  /\ thread[t].at = "disarm" /\ timer[t] # "firing"
  /\ timer' = [timer EXCEPT ![t] = "none"]
  /\ Move(t, "commit")
  /\ UNCHANGED <<seenVars, writerVars, caller, borrower, strays>>

\* The transaction ends with the checkout, after the watchdog: it commits what
\* the statement did, unless the commit fails.
Commit(t) ==
  /\ thread[t].at = "commit"
  /\ borrower' = [borrower EXCEPT ![thread[t].conn] = Free]
  /\ \E ok \in {FALSE, thread[t].ok} :
       /\ thread' = [thread EXCEPT ![t].at = "settle", ![t].ok = ok]
       /\ claim' = IF ok THEN [claim EXCEPT ![thread[t].key] = "landed"] ELSE claim
  /\ UNCHANGED <<window, failed, writerVars, caller, timer, strays>>

SettleSeen(t) ==
  /\ thread[t].at = "settle"
  /\ IF thread[t].ok
     THEN failed' = [failed EXCEPT ![thread[t].key] = 0] /\ UNCHANGED <<window, claim>>
     ELSE RecordSeenFailure(thread[t].key)
  /\ Move(t, "finish")
  /\ UNCHANGED <<writerVars, caller, timer, borrower, strays>>

FinishWork(t) ==
  /\ thread[t].at = "finish"
  /\ pending' = pending - 1
  /\ thread' = [thread EXCEPT ![t] = Worker("get", NoKey, NoConn, TRUE)]
  /\ UNCHANGED <<seenVars, works, closed, caller, timer, borrower, strays>>

---------------------------------------------------------------------------
(* The rest of the process *)

StartedThreads == {t \in Threads : thread[t].at # "unstarted"}

\* close: what is queued is abandoned and every thread is told to stop.
CloseForgettingPending ==
  /\ ~closed /\ closed' = TRUE
  /\ works' = [i \in 1..Cardinality(StartedThreads) |-> Stop]
  /\ UNCHANGED <<seenVars, pending, caller, poolVars>>
CloseWriter ==
  /\ ~closed /\ closed' = TRUE
  /\ pending' = pending - Len(works)
  /\ works' = [i \in 1..Cardinality(StartedThreads) |-> Stop]
  /\ UNCHANGED <<seenVars, caller, poolVars>>

\* Any other use of the pool.
Borrow(c) ==
  /\ borrower[c] = Free
  /\ borrower' = [borrower EXCEPT ![c] = OtherBorrower]
  /\ UNCHANGED <<seenVars, writerVars, caller, thread, timer, strays>>

GiveBack(c) ==
  /\ borrower[c] = OtherBorrower
  /\ borrower' = [borrower EXCEPT ![c] = Free]
  /\ UNCHANGED <<seenVars, writerVars, caller, thread, timer, strays>>

SecondPasses ==
  /\ \E k \in SeenKeys : window[k] > 0
  /\ window' = [k \in SeenKeys |-> Max({window[k] - 1, 0})]
  /\ UNCHANGED <<failed, claim, writerVars, caller, poolVars>>

BestEffortNext ==
  \/ \E r \in Requests : Submit(r) \/ Refused(r) \/ \E k \in SeenKeys : RecordUserSeen(r, k)
  \/ \E t \in Threads :
       \/ GetWork(t) \/ PoolTimeout(t) \/ Execute(t) \/ Fire(t) \/ Cancel(t)
       \/ Disarm(t) \/ Commit(t) \/ SettleSeen(t) \/ FinishWork(t)
       \/ \E c \in Conns : Checkout(t, c)
  \/ \E c \in Conns : Borrow(c) \/ GiveBack(c)
  \/ CloseWriter \/ SecondPasses

BestEffortSpec == BestEffortInit /\ [][BestEffortNext]_bestEffortVars

---------------------------------------------------------------------------
(* Properties *)

AtWork == {t \in Threads : thread[t].at \notin {"unstarted", "get", "ended"}}
Queued == {i \in DOMAIN works : works[i] # Stop}

\* What wait_idle and close wait for (best_effort.py): _pending is exactly the
\* work that is queued or in a thread's hands, whatever was abandoned, so an
\* idle writer has settled every write it accepted.
PendingIsExact == pending = Cardinality(Queued) + Cardinality(AtWork)

OnItsWay(k) ==
  \/ \E i \in Queued : works[i] = k
  \/ \E t \in AtWork : thread[t].key = k
  \/ \E r \in Requests : caller[r].key = k

\* A claimed window never hides a caller nobody is writing (usage.py,
\* record_user_seen): while it lasts, its write has landed, is on its way, or
\* was dropped or failed and put the caller on a backoff instead; only the
\* writer's close abandons one.
ClaimIsCovered ==
  \A k \in SeenKeys : claim[k] = "open" /\ window[k] > 0 /\ ~closed => OnItsWay(k)

\* A watchdog cancels its own statement or nothing (db.py, _CancelWatchdog):
\* a cancel already in flight never reaches the connection's next borrower.
CancelHitsOwn == strays = {}
=============================================================================
