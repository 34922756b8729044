----------------------------- MODULE HubProofs -----------------------------
(***************************************************************************)
(* Theorems about parts of the hub: the audience of a Frame Group, for any *)
(* people, tenants, frames and groups (GroupViews), and the background     *)
(* writer, for any callers, requests, queue and connections and any pool   *)
(* of threads (BestEffort).                                                *)
(***************************************************************************)
EXTENDS GroupViews, BestEffort, FiniteSetTheorems, TLAPS

---------------------------------------------------------------------------
(* GroupViews.  That a group's projection is no broader than any of its      *)
(* members needs that visibilities are levels, so that the least of them is  *)
(* at most each.                                                             *)

FrameShape ==
  [state : {"frame"}, tenant : {Tenant[u] : u \in Users}, owners : SUBSET Users,
   published : BOOLEAN, visibility : Visibilities]
GroupShape ==
  [state : {"group"}, tenant : {Tenant[u] : u \in Users}, owners : SUBSET Users,
   visibility : Visibilities, members : SUBSET FrameIds]

GroupInv ==
  /\ frames \in [FrameIds -> FrameShape \cup {Absent, Damaged}]
  /\ items \in [GroupIds -> GroupShape \cup {Absent}]
  /\ read = FALSE

(* Least picks a level of the set that is below every other. *)
LEMMA LeastIsLeast ==
  ASSUME NEW S \in SUBSET Visibilities, S # {}
  PROVE  Least(S) \in S /\ \A x \in S : Least(S) <= x
<1>1. \E x \in S : \A y \in S : x <= y
  <2>1. CASE Private \in S
    BY <2>1 DEF Visibilities, Private, Internal, Public
  <2>2. CASE Private \notin S /\ Internal \in S
    BY <2>2 DEF Visibilities, Private, Internal, Public
  <2>3. CASE Private \notin S /\ Internal \notin S
    <3>1. S = {Public}
      BY <2>3 DEF Visibilities
    <3>2. QED  BY <3>1 DEF Public
  <2>4. QED  BY <2>1, <2>2, <2>3
<1>2. QED  BY <1>1 DEF Least

(* A group is projected no broader than it says itself and than any member that
   can be decoded (effective_group_visibility). *)
LEMMA EffectiveIsNarrow ==
  ASSUME GroupInv, NEW g \in GroupIds, Exists(g)
  PROVE  /\ Effective(g) \in Visibilities
         /\ \A f \in items[g].members : Live(f) => Effective(g) <= frames[f].visibility
<1> DEFINE levels == {items[g].visibility}
                       \cup {frames[f].visibility : f \in {m \in items[g].members : Live(m)}}
<1>1. items[g] \in GroupShape
  BY DEF GroupInv, Exists, Absent
<1>2. \A f \in items[g].members : Live(f) => frames[f] \in FrameShape
  BY <1>1 DEF GroupInv, GroupShape, Live, Absent, Damaged
<1>3. levels \in SUBSET Visibilities /\ levels # {}
  BY <1>1, <1>2 DEF GroupShape, FrameShape
<1> HIDE DEF levels
<1>4. Least(levels) \in levels /\ \A x \in levels : Least(levels) <= x
  BY <1>3, LeastIsLeast
<1>5. Effective(g) = Least(levels)
  BY DEF Effective, levels
<1>6. \A f \in items[g].members : Live(f) => frames[f].visibility \in levels
  BY DEF levels
<1>7. QED  BY <1>3, <1>4, <1>5, <1>6

(* Whoever is not an owner sees a group by its projection, and a projection is
   no broader than its members. *)
LEMMA NarrowInTheInvariant == GroupInv => AudienceIsNarrow
<1> SUFFICES ASSUME GroupInv PROVE AudienceIsNarrow
  OBVIOUS
<1>1. ASSUME NEW g \in GroupIds, NEW u \in Users, Seen(g, u), NEW f \in items[g].members
      PROVE  Live(f) /\ frames[f].published /\ (frames[f].tenant = items[g].tenant => can_read(f, u))
  <2>1. Exists(g) /\ AllPublished(g) /\ Live(f) /\ frames[f].published
    BY <1>1 DEF Seen, can_read_group, AllPublished, Published
  <2>2. Effective(g) \in Visibilities /\ Effective(g) <= frames[f].visibility
    BY <2>1, EffectiveIsNarrow
  <2>3. frames[f].visibility \in Visibilities
    <3>1. items[g] \in GroupShape
      BY <2>1 DEF GroupInv, Exists, Absent
    <3>2. frames[f] \in FrameShape
      BY <2>1, <3>1 DEF GroupInv, GroupShape, Live, Absent, Damaged
    <3>3. QED  BY <3>2 DEF FrameShape
  <2>4. CASE Effective(g) = Public
    <3>1. frames[f].visibility = Public
      BY <2>2, <2>3, <2>4 DEF Visibilities, Private, Internal, Public
    <3>2. QED  BY <2>1, <3>1 DEF can_read
  <2>5. CASE Effective(g) = Internal /\ items[g].tenant = Tenant[u]
    <3>1. frames[f].visibility \in {Internal, Public}
      BY <2>2, <2>3, <2>5 DEF Visibilities, Private, Internal, Public
    <3>2. QED  BY <2>1, <2>5, <3>1 DEF can_read
  <2>6. QED  BY <1>1, <2>4, <2>5 DEF Seen, can_read_group
<1>2. ~read
  BY DEF GroupInv
<1>3. QED  BY <1>1, <1>2 DEF AudienceIsNarrow

(* The projection of a group is derived on every read, so nothing that happens to
   its members or owners can leave it broader than they are (compute_derived);
   no history is served without its group. *)
THEOREM AudienceStaysNarrow == GroupSpec => []AudienceIsNarrow
<1>1. GroupInit => GroupInv
  BY DEF GroupInit, GroupInv
<1>2. GroupInv /\ [GroupNext]_groupVars => GroupInv'
  <2> SUFFICES ASSUME GroupInv, [GroupNext]_groupVars PROVE GroupInv'
    OBVIOUS
  <2>1. ASSUME NEW f \in FrameIds, NEW u \in Users, CreateFrame(f, u) PROVE GroupInv'
    BY <2>1 DEF GroupInv, CreateFrame, FrameShape, Visibilities
  <2>2. ASSUME NEW f \in FrameIds, NEW u \in Users, NEW published \in BOOLEAN, NEW visibility \in Visibilities,
               ChangeFrame(f, u, published, visibility)
        PROVE GroupInv'
    <3>1. frames[f] \in FrameShape
      BY <2>2 DEF GroupInv, ChangeFrame, Live, Absent, Damaged
    <3>2. QED  BY <2>2, <3>1 DEF GroupInv, ChangeFrame, FrameShape
  <2>3. ASSUME NEW f \in FrameIds, LoseFrame(f) PROVE GroupInv'
    BY <2>3 DEF GroupInv, LoseFrame
  <2>4. ASSUME NEW g \in GroupIds, NEW u \in Users, NEW visibility \in Visibilities, NEW members \in SUBSET FrameIds,
               create_group(g, u, visibility, members)
        PROVE GroupInv'
    BY <2>4 DEF GroupInv, create_group, GroupShape
  <2>5. ASSUME NEW g \in GroupIds, NEW u \in Users, Manageable(g, u) PROVE items[g] \in GroupShape
    BY <2>5 DEF GroupInv, Manageable, Readable, Exists, Absent
  <2>6. ASSUME NEW g \in GroupIds, NEW u \in Users, NEW visibility \in Visibilities, update_group(g, u, visibility)
        PROVE GroupInv'
    BY <2>5, <2>6 DEF GroupInv, update_group, GroupShape
  <2>7. ASSUME NEW g \in GroupIds, NEW u \in Users, NEW owners \in SUBSET Users, set_owners(g, u, owners)
        PROVE GroupInv'
    BY <2>5, <2>7 DEF GroupInv, set_owners, GroupShape
  <2>8. ASSUME NEW g \in GroupIds, NEW u \in Users, NEW f \in FrameIds, add_frame(g, u, f) \/ remove_frame(g, u, f)
        PROVE GroupInv'
    BY <2>5, <2>8 DEF GroupInv, add_frame, remove_frame, GroupShape
  <2>9. ASSUME NEW g \in GroupIds, NEW u \in Users, delete_group(g, u) PROVE GroupInv'
    BY <2>9 DEF GroupInv, delete_group
  <2>10. ASSUME NEW g \in GroupIds, NEW u \in Users, get_group_history(g, u) PROVE GroupInv'
    BY <2>10 DEF GroupInv, get_group_history, MayReadHistory
  <2>11. CASE UNCHANGED groupVars
    BY <2>11 DEF GroupInv, groupVars
  <2>12. QED  BY <2>1, <2>2, <2>3, <2>4, <2>6, <2>7, <2>8, <2>9, <2>10, <2>11 DEF GroupNext
<1>3. QED  BY <1>1, <1>2, NarrowInTheInvariant, PTL DEF GroupSpec

---------------------------------------------------------------------------
(* BestEffort                                                               *)

Places == {"unstarted", "get", "ended", "checkout", "execute", "disarm", "commit", "settle", "finish"}

WorkerShape == [at : Places, key : SeenKeys \cup {NoKey}, conn : Conns \cup {NoConn}, ok : BOOLEAN]

CallersInv ==
  /\ caller \in [Requests -> [at : {"idle", "claimed", "refused"}, key : SeenKeys \cup {NoKey}]]
  /\ \A r \in Requests : caller[r].at # "idle" => caller[r].key \in SeenKeys

ThreadsInv ==
  /\ thread \in [Threads -> WorkerShape]
  /\ \A t \in AtWork : thread[t].key \in SeenKeys
  /\ \A t \in Threads : thread[t].at = "checkout" => ~thread[t].ok

WriterTypeInv ==
  /\ CallersInv /\ ThreadsInv
  /\ works \in Seq(SeenKeys \cup {Stop})
  /\ pending \in Int /\ closed \in BOOLEAN
  /\ timer \in [Threads -> {"none", "armed", "firing", "fired"}]
  /\ borrower \in [Conns -> Threads \cup {Free, OtherBorrower}]
  /\ claim \in [SeenKeys -> {"none", "open", "backoff", "landed"}]

(* A thread in a checkout is the borrower of its connection, and a watchdog lives
   no longer than the statement it watches. *)
CheckoutInv ==
  /\ \A t \in Threads : thread[t].at \in {"execute", "disarm", "commit"} =>
       thread[t].conn \in Conns /\ borrower[thread[t].conn] = t
  /\ \A t \in Threads : timer[t] # "none" => thread[t].at \in {"execute", "disarm"}
  /\ strays = {}

(* Before the close the queue holds writes, after it only requests to stop. *)
CountInv ==
  /\ \A i \in 1 .. Len(works) : works[i] = Stop <=> closed
  /\ pending = (IF closed THEN 0 ELSE Len(works)) + Cardinality(AtWork)

(* A thread that has neither written the key nor told of its failure. *)
Undecided(t) ==
  \/ thread[t].at \in {"checkout", "execute", "disarm", "commit"}
  \/ thread[t].at = "settle" /\ ~thread[t].ok

(* Somebody has the claim in hand who will land it or turn it into a backoff. *)
Carried(k) ==
  \/ \E i \in 1 .. Len(works) : works[i] = k
  \/ \E t \in Threads : thread[t].key = k /\ Undecided(t)
  \/ \E r \in Requests : caller[r].at # "idle" /\ caller[r].key = k

ClaimInv == \A k \in SeenKeys : claim[k] = "open" /\ ~closed => Carried(k)

(* A thread that goes on changes its place and what it knows of its write. *)
LEMMA ThreadGoes ==
  ASSUME thread \in [Threads -> WorkerShape], NEW t \in Threads, NEW at \in Places, NEW ok \in BOOLEAN,
         thread' = [thread EXCEPT ![t].at = at, ![t].ok = ok]
  PROVE  /\ thread' \in [Threads -> WorkerShape]
         /\ thread'[t].at = at /\ thread'[t].key = thread[t].key /\ thread'[t].conn = thread[t].conn
         /\ thread'[t].ok = ok
         /\ \A u \in Threads \ {t} : thread'[u] = thread[u]
  BY DEF WorkerShape
LEMMA ThreadMoves ==
  ASSUME thread \in [Threads -> WorkerShape], NEW t \in Threads, NEW at \in Places, Move(t, at)
  PROVE  /\ thread' \in [Threads -> WorkerShape]
         /\ thread'[t].at = at /\ thread'[t].key = thread[t].key /\ thread'[t].conn = thread[t].conn
         /\ thread'[t].ok = thread[t].ok
         /\ \A u \in Threads \ {t} : thread'[u] = thread[u]
  BY DEF WorkerShape, Move
LEMMA ThreadChecksOut ==
  ASSUME thread \in [Threads -> WorkerShape], NEW t \in Threads, NEW c \in Conns,
         thread' = [thread EXCEPT ![t].at = "execute", ![t].conn = c]
  PROVE  /\ thread' \in [Threads -> WorkerShape]
         /\ thread'[t].at = "execute" /\ thread'[t].key = thread[t].key /\ thread'[t].conn = c
         /\ thread'[t].ok = thread[t].ok
         /\ \A u \in Threads \ {t} : thread'[u] = thread[u]
  BY DEF WorkerShape, Places
LEMMA ThreadTurns ==
  ASSUME thread \in [Threads -> WorkerShape], NEW t \in Threads, NEW at \in Places,
         NEW key \in SeenKeys \cup {NoKey}, NEW ok \in BOOLEAN,
         thread' = [thread EXCEPT ![t] = Worker(at, key, NoConn, ok)]
  PROVE  /\ thread' \in [Threads -> WorkerShape]
         /\ thread'[t].at = at /\ thread'[t].key = key /\ thread'[t].ok = ok
         /\ \A u \in Threads \ {t} : thread'[u] = thread[u]
  BY DEF WorkerShape, Worker

(* Starting the pool leaves a thread that works alone. *)
LEMMA StartingIsQuiet ==
  ASSUME thread \in [Threads -> WorkerShape], thread' = (IF closed THEN thread ELSE Started(thread))
  PROVE  /\ thread' \in [Threads -> WorkerShape]
         /\ \A t \in Threads : \/ thread'[t] = thread[t]
                               \/ thread[t].at = "unstarted" /\ thread'[t].at = "get"
<1>1. CASE closed
  BY <1>1
<1>2. CASE ~closed
  <2>1. \A t \in Threads : thread[t].at = "unstarted" =>
          /\ [thread[t] EXCEPT !.at = "get"] \in WorkerShape
          /\ [thread[t] EXCEPT !.at = "get"].at = "get"
    BY DEF WorkerShape, Places
  <2>2. QED  BY <1>2, <2>1 DEF Started
<1>3. QED  BY <1>1, <1>2

LEMMA WriterTypeStep ==
  ASSUME BestEffortAssumption, WriterTypeInv, CheckoutInv, [BestEffortNext]_bestEffortVars
  PROVE  WriterTypeInv'
<1> USE DEF WriterTypeInv
<1>0. ASSUME UNCHANGED thread PROVE ThreadsInv'
  BY <1>0 DEF ThreadsInv, AtWork
<1>1. ASSUME NEW r \in Requests, NEW k \in SeenKeys, RecordUserSeen(r, k) PROVE WriterTypeInv'
  BY <1>0, <1>1 DEF RecordUserSeen, writerVars, poolVars, CallersInv
<1>2. ASSUME NEW r \in Requests, Submit(r) PROVE WriterTypeInv'
  <2>1. ThreadsInv'
    BY <1>2, StartingIsQuiet DEF Submit, ThreadsInv, AtWork
  <2>2. CASE closed \/ Len(works) >= QueueSize
    <3>1. CallersInv'
      BY <1>2, <2>2 DEF Submit, CallersInv
    <3>2. QED  BY <1>2, <2>1, <2>2, <3>1 DEF Submit, seenVars
  <2>3. CASE ~(closed \/ Len(works) >= QueueSize)
    <3>1. CallersInv'
      <4>1. caller' = [caller EXCEPT ![r] = IdleCaller]
        BY <1>2, <2>3 DEF Submit
      <4>2. QED  BY <4>1 DEF CallersInv, IdleCaller
    <3>2. caller[r].key \in SeenKeys
      BY <1>2 DEF Submit, CallersInv
    <3>3. works' = Append(works, caller[r].key) /\ pending' = pending + 1
      BY <1>2, <2>3 DEF Submit
    <3>4. works' \in Seq(SeenKeys \cup {Stop}) /\ pending' \in Int
      BY <3>2, <3>3
    <3>5. UNCHANGED <<claim, closed, timer, borrower>>
      BY <1>2 DEF Submit, seenVars
    <3>6. QED  BY <2>1, <3>1, <3>4, <3>5
  <2>4. QED  BY <2>2, <2>3
<1>3. ASSUME NEW r \in Requests, Refused(r) PROVE WriterTypeInv'
  BY <1>0, <1>3 DEF Refused, RecordSeenFailure, writerVars, poolVars, IdleCaller, CallersInv
<1>4. ASSUME NEW t \in Threads, GetWork(t) PROVE WriterTypeInv'
  <2>1. Head(works) \in SeenKeys \cup {Stop} /\ Tail(works) \in Seq(SeenKeys \cup {Stop})
    BY <1>4 DEF GetWork
  <2>2. ThreadsInv'
    <3>1. CASE Head(works) = Stop
      BY <1>4, <3>1, ThreadTurns DEF GetWork, ThreadsInv, AtWork, Places
    <3>2. CASE Head(works) # Stop
      <4>1. thread' = [thread EXCEPT ![t] = Worker("checkout", Head(works), NoConn, FALSE)]
        BY <1>4, <3>2 DEF GetWork
      <4>2. Head(works) \in SeenKeys /\ "checkout" \in Places /\ thread \in [Threads -> WorkerShape]
        BY <2>1, <3>2 DEF Places, ThreadsInv
      <4>3. thread' \in [Threads -> WorkerShape] /\ thread'[t].key = Head(works) /\ ~thread'[t].ok
            /\ \A u \in Threads \ {t} : thread'[u] = thread[u]
        BY <4>1, <4>2, ThreadTurns
      <4>4. QED  BY <4>2, <4>3 DEF ThreadsInv, AtWork
    <3>3. QED  BY <3>1, <3>2
  <2>3. QED  BY <1>4, <2>1, <2>2 DEF GetWork, seenVars, CallersInv
<1>5. ASSUME NEW t \in Threads, PoolTimeout(t) PROVE WriterTypeInv'
  <2>1. ThreadsInv'
    BY <1>5, ThreadMoves DEF PoolTimeout, ThreadsInv, AtWork, Places
  <2>2. QED  BY <1>5, <2>1 DEF PoolTimeout, seenVars, writerVars, CallersInv
<1>6. ASSUME NEW t \in Threads, Execute(t) PROVE WriterTypeInv'
  <2>1. ThreadsInv'
    <3>1. PICK ok \in BOOLEAN : thread' = [thread EXCEPT ![t].at = "disarm", ![t].ok = ok]
      BY <1>6 DEF Execute
    <3>2. thread' \in [Threads -> WorkerShape] /\ thread'[t].key = thread[t].key /\ thread'[t].at = "disarm"
          /\ \A u \in Threads \ {t} : thread'[u] = thread[u]
      BY <3>1, ThreadGoes DEF ThreadsInv, Places
    <3>3. thread[t].at = "execute"
      BY <1>6 DEF Execute
    <3>4. QED  BY <3>2, <3>3 DEF ThreadsInv, AtWork
  <2>2. QED  BY <1>6, <2>1 DEF Execute, seenVars, writerVars, CallersInv
<1>7. ASSUME NEW t \in Threads, Fire(t) PROVE WriterTypeInv'
  BY <1>0, <1>7 DEF Fire, seenVars, writerVars, CallersInv
<1>8. ASSUME NEW t \in Threads, Cancel(t) PROVE WriterTypeInv'
  <2>1. ThreadsInv'
    <3>1. CASE borrower[thread[t].conn] = t /\ thread[t].at = "execute"
      <4>1. thread' = [thread EXCEPT ![t].at = "disarm", ![t].ok = FALSE]
        BY <1>8, <3>1 DEF Cancel
      <4>2. thread' \in [Threads -> WorkerShape] /\ thread'[t].key = thread[t].key /\ thread'[t].at = "disarm"
            /\ \A u \in Threads \ {t} : thread'[u] = thread[u]
        BY <4>1, ThreadGoes DEF ThreadsInv, Places
      <4>3. QED  BY <3>1, <4>2 DEF ThreadsInv, AtWork
    <3>2. CASE ~(borrower[thread[t].conn] = t /\ thread[t].at = "execute")
      BY <1>0, <1>8, <3>2 DEF Cancel
    <3>3. QED  BY <3>1, <3>2
  <2>2. QED  BY <1>8, <2>1 DEF Cancel, seenVars, writerVars, CallersInv
<1>9. ASSUME NEW t \in Threads, Disarm(t) PROVE WriterTypeInv'
  <2>1. ThreadsInv'
    BY <1>9, ThreadMoves DEF Disarm, ThreadsInv, AtWork, Places
  <2>2. QED  BY <1>9, <2>1 DEF Disarm, seenVars, writerVars, CallersInv
<1>10. ASSUME NEW t \in Threads, Commit(t) PROVE WriterTypeInv'
  <2>1. PICK ok \in {FALSE, thread[t].ok} :
          /\ thread' = [thread EXCEPT ![t].at = "settle", ![t].ok = ok]
          /\ claim' = IF ok THEN [claim EXCEPT ![thread[t].key] = "landed"] ELSE claim
    BY <1>10 DEF Commit
  <2>2. ok \in BOOLEAN
    BY DEF ThreadsInv, WorkerShape
  <2>3. ThreadsInv'
    <3>1. thread[t].at = "commit"
      BY <1>10 DEF Commit
    <3>2. thread' \in [Threads -> WorkerShape] /\ thread'[t].key = thread[t].key /\ thread'[t].at = "settle"
          /\ \A u \in Threads \ {t} : thread'[u] = thread[u]
      BY <2>1, <2>2, ThreadGoes DEF ThreadsInv, Places
    <3>3. QED  BY <3>1, <3>2 DEF ThreadsInv, AtWork
  <2>4. claim' \in [SeenKeys -> {"none", "open", "backoff", "landed"}]
    BY <2>1
  <2>5. QED  BY <1>10, <2>3, <2>4 DEF Commit, writerVars, CallersInv
<1>11. ASSUME NEW t \in Threads, SettleSeen(t) PROVE WriterTypeInv'
  <2>1. ThreadsInv'
    BY <1>11, ThreadMoves DEF SettleSeen, ThreadsInv, AtWork, Places
  <2>2. claim' \in [SeenKeys -> {"none", "open", "backoff", "landed"}]
    BY <1>11 DEF SettleSeen, RecordSeenFailure
  <2>3. QED  BY <1>11, <2>1, <2>2 DEF SettleSeen, writerVars, CallersInv
<1>12. ASSUME NEW t \in Threads, FinishWork(t) PROVE WriterTypeInv'
  <2>1. ThreadsInv'
    BY <1>12, ThreadTurns DEF FinishWork, ThreadsInv, AtWork, Places
  <2>2. QED  BY <1>12, <2>1 DEF FinishWork, seenVars, CallersInv
<1>13. ASSUME NEW t \in Threads, NEW c \in Conns, Checkout(t, c) PROVE WriterTypeInv'
  <2>1. ThreadsInv'
    BY <1>13, ThreadChecksOut DEF Checkout, ThreadsInv, AtWork
  <2>2. QED  BY <1>13, <2>1 DEF Checkout, seenVars, writerVars, CallersInv
<1>14. ASSUME NEW c \in Conns, Borrow(c) \/ GiveBack(c) PROVE WriterTypeInv'
  BY <1>0, <1>14 DEF Borrow, GiveBack, seenVars, writerVars, CallersInv
<1>15. CASE CloseWriter
  <2>1. IsFiniteSet(StartedThreads)
    BY FS_Subset DEF StartedThreads, BestEffortAssumption
  <2>2. Cardinality(StartedThreads) \in Nat
    BY <2>1, FS_CardinalityType
  <2>3. works' \in Seq(SeenKeys \cup {Stop})
    BY <1>15, <2>2 DEF CloseWriter
  <2>4. QED  BY <1>0, <1>15, <2>3 DEF CloseWriter, seenVars, poolVars, CallersInv
<1>16. CASE SecondPasses
  BY <1>0, <1>16 DEF SecondPasses, writerVars, poolVars, CallersInv
<1>17. CASE UNCHANGED bestEffortVars
  BY <1>0, <1>17 DEF bestEffortVars, seenVars, writerVars, poolVars, CallersInv
<1>18. QED
  BY <1>1, <1>2, <1>3, <1>4, <1>5, <1>6, <1>7, <1>8, <1>9, <1>10, <1>11, <1>12, <1>13, <1>14, <1>15, <1>16, <1>17
     DEF BestEffortNext

(* Disarming waits for a cancel in flight, so a connection is given back without
   one (_CancelWatchdog). *)
LEMMA CheckoutStep ==
  ASSUME BestEffortAssumption, WriterTypeInv, CheckoutInv, [BestEffortNext]_bestEffortVars
  PROVE  CheckoutInv'
<1> USE DEF CheckoutInv
<1>0. /\ thread \in [Threads -> WorkerShape]
      /\ timer \in [Threads -> {"none", "armed", "firing", "fired"}]
      /\ borrower \in [Conns -> Threads \cup {Free, OtherBorrower}]
  BY DEF WriterTypeInv, ThreadsInv
<1>1. ASSUME NEW r \in Requests, NEW k \in SeenKeys, RecordUserSeen(r, k) PROVE CheckoutInv'
  BY <1>1 DEF RecordUserSeen, poolVars
<1>2. ASSUME NEW r \in Requests, Submit(r) PROVE CheckoutInv'
  BY <1>0, <1>2, StartingIsQuiet DEF Submit
<1>3. ASSUME NEW r \in Requests, Refused(r) PROVE CheckoutInv'
  BY <1>3 DEF Refused, poolVars
<1>4. ASSUME NEW t \in Threads, GetWork(t) \/ FinishWork(t) PROVE CheckoutInv'
  <2>1. thread[t].at \in {"get", "finish"} /\ thread'[t].at \in {"get", "ended", "checkout"}
    BY <1>0, <1>4 DEF GetWork, FinishWork, Worker
  <2>2. \A u \in Threads \ {t} : thread'[u] = thread[u]
    BY <1>0, <1>4 DEF GetWork, FinishWork
  <2>3. UNCHANGED <<timer, borrower, strays>>
    BY <1>4 DEF GetWork, FinishWork
  <2>4. QED  BY <2>1, <2>2, <2>3
<1>5. ASSUME NEW t \in Threads, PoolTimeout(t) \/ SettleSeen(t) PROVE CheckoutInv'
  <2>1. thread[t].at \in {"checkout", "settle"} /\ thread'[t].at \in {"settle", "finish"}
        /\ \A u \in Threads \ {t} : thread'[u] = thread[u]
    BY <1>0, <1>5, ThreadMoves DEF PoolTimeout, SettleSeen, Places
  <2>2. UNCHANGED <<timer, borrower, strays>>
    BY <1>5 DEF PoolTimeout, SettleSeen
  <2>3. QED  BY <2>1, <2>2
<1>6. ASSUME NEW t \in Threads, Execute(t) PROVE CheckoutInv'
  <2>1. thread'[t].at = "disarm" /\ thread'[t].conn = thread[t].conn
        /\ \A u \in Threads \ {t} : thread'[u] = thread[u]
    BY <1>0, <1>6, ThreadGoes DEF Execute, Places
  <2>2. thread[t].at = "execute" /\ UNCHANGED <<timer, borrower, strays>>
    BY <1>6 DEF Execute
  <2>3. QED  BY <2>1, <2>2
<1>7. ASSUME NEW t \in Threads, Fire(t) PROVE CheckoutInv'
  BY <1>0, <1>7 DEF Fire
<1>8. ASSUME NEW t \in Threads, Cancel(t) PROVE CheckoutInv'
  <2>1. borrower[thread[t].conn] = t /\ thread[t].at \in {"execute", "disarm"}
    BY <1>8 DEF Cancel
  <2>2. UNCHANGED <<strays, borrower>> /\ \A u \in Threads \ {t} : timer'[u] = timer[u]
    BY <1>0, <1>8, <2>1 DEF Cancel
  <2>3. thread'[t].at = "disarm" /\ thread'[t].conn = thread[t].conn
        /\ \A u \in Threads \ {t} : thread'[u] = thread[u]
    <3>1. CASE thread[t].at = "execute"
      <4>1. thread' = [thread EXCEPT ![t].at = "disarm", ![t].ok = FALSE]
        BY <1>8, <2>1, <3>1 DEF Cancel
      <4>2. QED  BY <1>0, <4>1, ThreadGoes DEF Places
    <3>2. CASE thread[t].at = "disarm"
      BY <1>8, <3>2 DEF Cancel
    <3>3. QED  BY <2>1, <3>1, <3>2
  <2>4. QED  BY <2>1, <2>2, <2>3
<1>9. ASSUME NEW t \in Threads, Disarm(t) PROVE CheckoutInv'
  <2>1. thread'[t].at = "commit" /\ thread'[t].conn = thread[t].conn
        /\ \A u \in Threads \ {t} : thread'[u] = thread[u]
    BY <1>0, <1>9, ThreadMoves DEF Disarm, Places
  <2>2. QED  BY <1>0, <1>9, <2>1 DEF Disarm
<1>10. ASSUME NEW t \in Threads, Commit(t) PROVE CheckoutInv'
  <2>1. PICK ok \in {FALSE, thread[t].ok} : thread' = [thread EXCEPT ![t].at = "settle", ![t].ok = ok]
    BY <1>10 DEF Commit
  <2>2. ok \in BOOLEAN
    BY <1>0 DEF WorkerShape
  <2>3. thread'[t].at = "settle" /\ \A u \in Threads \ {t} : thread'[u] = thread[u]
    BY <1>0, <2>1, <2>2, ThreadGoes DEF Places
  <2>4. QED  BY <1>0, <1>10, <2>3 DEF Commit
<1>11. ASSUME NEW t \in Threads, NEW c \in Conns, Checkout(t, c) PROVE CheckoutInv'
  <2>1. thread'[t].at = "execute" /\ thread'[t].conn = c /\ \A u \in Threads \ {t} : thread'[u] = thread[u]
    BY <1>0, <1>11, ThreadChecksOut DEF Checkout
  <2>2. QED  BY <1>0, <1>11, <2>1 DEF Checkout, BestEffortAssumption
<1>12. ASSUME NEW c \in Conns, Borrow(c) \/ GiveBack(c) PROVE CheckoutInv'
  BY <1>0, <1>12 DEF Borrow, GiveBack, BestEffortAssumption
<1>13. CASE CloseWriter \/ SecondPasses
  BY <1>13 DEF CloseWriter, SecondPasses, poolVars
<1>14. CASE UNCHANGED bestEffortVars
  BY <1>14 DEF bestEffortVars, poolVars
<1>15. QED
  BY <1>1, <1>2, <1>3, <1>4, <1>5, <1>6, <1>7, <1>8, <1>9, <1>10, <1>11, <1>12, <1>13, <1>14 DEF BestEffortNext

(* The counter: a write is counted once, in the queue or in a thread's hands. *)
LEMMA CountStep ==
  ASSUME BestEffortAssumption, WriterTypeInv, CheckoutInv, CountInv, [BestEffortNext]_bestEffortVars
  PROVE  CountInv'
<1> DEFINE N == Cardinality(AtWork)
<1>0. /\ thread \in [Threads -> WorkerShape] /\ works \in Seq(SeenKeys \cup {Stop}) /\ pending \in Int
      /\ closed \in BOOLEAN /\ IsFiniteSet(AtWork) /\ N \in Nat
  <2>1. AtWork \in SUBSET Threads
    BY DEF AtWork
  <2>2. IsFiniteSet(AtWork)
    BY <2>1, FS_Subset DEF BestEffortAssumption
  <2>3. QED  BY <2>2, FS_CardinalityType DEF WriterTypeInv, ThreadsInv
<1>1. ASSUME AtWork' = AtWork, UNCHANGED <<works, pending, closed>> PROVE CountInv'
  BY <1>1 DEF CountInv
<1>2. ASSUME UNCHANGED thread PROVE AtWork' = AtWork
  BY <1>2 DEF AtWork
<1>3. ASSUME NEW r \in Requests, Submit(r) PROVE CountInv'
  <2>1. AtWork' = AtWork
    BY <1>0, <1>3, StartingIsQuiet DEF Submit, AtWork
  <2>2. CASE closed \/ Len(works) >= QueueSize
    BY <1>1, <1>3, <2>1, <2>2 DEF Submit
  <2>3. CASE ~(closed \/ Len(works) >= QueueSize)
    <3>1. /\ works' = Append(works, caller[r].key) /\ pending' = pending + 1 /\ ~closed /\ ~closed'
      BY <1>3, <2>3 DEF Submit
    <3>2. caller[r].key \in SeenKeys /\ caller[r].key # Stop
      BY <1>3 DEF Submit, WriterTypeInv, CallersInv, BestEffortAssumption
    <3>3. Len(works') = Len(works) + 1 /\ works'[Len(works) + 1] = caller[r].key
          /\ \A i \in 1 .. Len(works) : works'[i] = works[i]
      BY <1>0, <3>1, <3>2
    <3>4. \A i \in 1 .. Len(works') : works'[i] = Stop <=> closed'
      BY <1>0, <3>1, <3>2, <3>3 DEF CountInv
    <3>5. pending' = Len(works') + Cardinality(AtWork')
      BY <1>0, <2>1, <3>1, <3>3 DEF CountInv
    <3>6. QED  BY <3>1, <3>4, <3>5 DEF CountInv
  <2>4. QED  BY <2>2, <2>3
<1>4. ASSUME NEW t \in Threads, GetWork(t) PROVE CountInv'
  <2>1. /\ thread[t].at = "get" /\ works # <<>> /\ works' = Tail(works) /\ pending' = pending /\ closed' = closed
    BY <1>4 DEF GetWork
  <2>2. Len(works) \in Nat \ {0} /\ Len(works') = Len(works) - 1 /\ Head(works) = works[1]
        /\ \A i \in 1 .. Len(works') : i + 1 \in 1 .. Len(works) /\ works'[i] = works[i + 1]
    BY <1>0, <2>1
  <2>3. \A i \in 1 .. Len(works') : works'[i] = Stop <=> closed'
    BY <2>1, <2>2 DEF CountInv
  <2>4. Head(works) = Stop <=> closed
    BY <2>2 DEF CountInv
  <2>5. CASE closed
    <3>1. thread' = [thread EXCEPT ![t] = Worker("ended", NoKey, NoConn, TRUE)]
      BY <1>4, <2>4, <2>5 DEF GetWork
    <3>2. AtWork' = AtWork
      <4>1. thread'[t].at = "ended" /\ \A u \in Threads \ {t} : thread'[u] = thread[u]
        BY <1>0, <3>1, ThreadTurns DEF Places
      <4>2. QED  BY <2>1, <4>1 DEF AtWork
    <3>3. QED  BY <2>1, <2>3, <2>5, <3>2 DEF CountInv
  <2>6. CASE ~closed
    <3>1. thread' = [thread EXCEPT ![t] = Worker("checkout", Head(works), NoConn, FALSE)]
      BY <1>4, <2>4, <2>6 DEF GetWork
    <3>2. Head(works) \in SeenKeys
      BY <1>0, <2>1, <2>2, <2>4, <2>6
    <3>3. AtWork' = AtWork \cup {t} /\ t \notin AtWork
      <4>1. thread'[t].at = "checkout" /\ \A u \in Threads \ {t} : thread'[u] = thread[u]
        BY <1>0, <3>1, <3>2, ThreadTurns DEF Places
      <4>2. QED  BY <2>1, <4>1 DEF AtWork
    <3>4. Cardinality(AtWork') = N + 1
      BY <1>0, <3>3, FS_AddElement
    <3>5. pending' = Len(works') + Cardinality(AtWork')
      BY <1>0, <2>1, <2>2, <2>6, <3>4 DEF CountInv
    <3>6. QED  BY <2>1, <2>3, <2>6, <3>5 DEF CountInv
  <2>7. QED  BY <1>0, <2>5, <2>6
<1>5. ASSUME NEW t \in Threads, FinishWork(t) PROVE CountInv'
  <2>1. AtWork' = AtWork \ {t} /\ t \in AtWork
    BY <1>0, <1>5, ThreadTurns DEF FinishWork, AtWork, Places
  <2>2. Cardinality(AtWork') = N - 1
    BY <1>0, <2>1, FS_RemoveElement
  <2>3. pending' = pending - 1 /\ UNCHANGED <<works, closed>>
    BY <1>5 DEF FinishWork
  <2>4. QED  BY <1>0, <2>2, <2>3 DEF CountInv
<1>6. CASE CloseWriter
  <2>1. ~closed /\ closed' /\ pending' = pending - Len(works)
        /\ works' = [i \in 1 .. Cardinality(StartedThreads) |-> Stop] /\ UNCHANGED thread
    BY <1>6 DEF CloseWriter, poolVars
  <2>2. IsFiniteSet(StartedThreads)
    BY FS_Subset DEF StartedThreads, BestEffortAssumption
  <2>3. Cardinality(StartedThreads) \in Nat
    BY <2>2, FS_CardinalityType
  <2>4. \A i \in 1 .. Len(works') : works'[i] = Stop
    BY <2>1, <2>3
  <2>5. pending' = Cardinality(AtWork')
    BY <1>0, <1>2, <2>1 DEF CountInv
  <2>6. \A i \in 1 .. Len(works') : works'[i] = Stop <=> closed'
    BY <2>1, <2>4
  <2>7. pending' = 0 + Cardinality(AtWork')
    BY <1>0, <1>2, <2>1, <2>5
  <2>8. QED  BY <2>1, <2>6, <2>7 DEF CountInv
<1>7. ASSUME NEW t \in Threads, PoolTimeout(t) \/ Disarm(t) \/ SettleSeen(t) PROVE CountInv'
  <2>1. AtWork' = AtWork
    BY <1>0, <1>7, ThreadMoves DEF PoolTimeout, Disarm, SettleSeen, AtWork, Places
  <2>2. QED  BY <1>1, <1>7, <2>1 DEF PoolTimeout, Disarm, SettleSeen, writerVars
<1>8. ASSUME NEW t \in Threads, Execute(t) PROVE CountInv'
  <2>1. AtWork' = AtWork
    BY <1>0, <1>8, ThreadGoes DEF Execute, AtWork, Places
  <2>2. QED  BY <1>1, <1>8, <2>1 DEF Execute, writerVars
<1>9. ASSUME NEW t \in Threads, Cancel(t) PROVE CountInv'
  <2>1. CASE borrower[thread[t].conn] = t /\ thread[t].at = "execute"
    <3>1. thread' = [thread EXCEPT ![t].at = "disarm", ![t].ok = FALSE]
      BY <1>9, <2>1 DEF Cancel
    <3>2. AtWork' = AtWork
      BY <1>0, <2>1, <3>1, ThreadGoes DEF AtWork, Places
    <3>3. QED  BY <1>1, <1>9, <3>2 DEF Cancel, writerVars
  <2>2. CASE ~(borrower[thread[t].conn] = t /\ thread[t].at = "execute")
    BY <1>1, <1>2, <1>9, <2>2 DEF Cancel, writerVars
  <2>3. QED  BY <2>1, <2>2
<1>10. ASSUME NEW t \in Threads, Commit(t) PROVE CountInv'
  <2>1. PICK ok \in {FALSE, thread[t].ok} : thread' = [thread EXCEPT ![t].at = "settle", ![t].ok = ok]
    BY <1>10 DEF Commit
  <2>2. ok \in BOOLEAN
    BY <1>0 DEF WorkerShape
  <2>3. thread[t].at = "commit"
    BY <1>10 DEF Commit
  <2>4. AtWork' = AtWork
    BY <1>0, <2>1, <2>2, <2>3, ThreadGoes DEF AtWork, Places
  <2>5. QED  BY <1>1, <1>10, <2>4 DEF Commit, writerVars
<1>11. ASSUME NEW t \in Threads, NEW c \in Conns, Checkout(t, c) PROVE CountInv'
  <2>1. AtWork' = AtWork
    BY <1>0, <1>11, ThreadChecksOut DEF Checkout, AtWork
  <2>2. QED  BY <1>1, <1>11, <2>1 DEF Checkout, writerVars
<1>12. ASSUME UNCHANGED <<thread, writerVars>> PROVE CountInv'
  BY <1>1, <1>2, <1>12 DEF writerVars
<1>13. QED
  BY <1>3, <1>4, <1>5, <1>6, <1>7, <1>8, <1>9, <1>10, <1>11, <1>12
     DEF BestEffortNext, RecordUserSeen, Refused, Fire, Borrow, GiveBack, SecondPasses, poolVars, bestEffortVars

(* A claim is let go of only by what lands it or turns it into a backoff. *)
LEMMA ClaimStep ==
  ASSUME BestEffortAssumption, WriterTypeInv, CheckoutInv, CountInv, ClaimInv, [BestEffortNext]_bestEffortVars
  PROVE  ClaimInv'
<1>0. /\ thread \in [Threads -> WorkerShape] /\ works \in Seq(SeenKeys \cup {Stop}) /\ closed \in BOOLEAN
      /\ claim \in [SeenKeys -> {"none", "open", "backoff", "landed"}]
  BY DEF WriterTypeInv, ThreadsInv
<1> DEFINE Keeps(t) == thread'[t].key = thread[t].key /\ Undecided(t)'
<1>1. ASSUME UNCHANGED <<works, caller, closed>>,
             \A k \in SeenKeys : claim'[k] = "open" => claim[k] = "open",
             \A t \in Threads : Undecided(t) => Keeps(t) \/ claim'[thread[t].key] # "open"
      PROVE  ClaimInv'
  <2> SUFFICES ASSUME NEW k \in SeenKeys, claim'[k] = "open", ~closed' PROVE Carried(k)'
    BY DEF ClaimInv
  <2>1. Carried(k)
    BY <1>1 DEF ClaimInv
  <2>2. QED  BY <1>1, <2>1 DEF Carried
<1> HIDE DEF Keeps
<1>2. ASSUME NEW r \in Requests, NEW k \in SeenKeys, RecordUserSeen(r, k) PROVE ClaimInv'
  <2> SUFFICES ASSUME NEW j \in SeenKeys, claim'[j] = "open", ~closed' PROVE Carried(j)'
    BY DEF ClaimInv
  <2>1. caller'[r].at = "claimed" /\ caller'[r].key = k /\ caller[r].at = "idle"
        /\ \A q \in Requests \ {r} : caller'[q] = caller[q]
    BY <1>2 DEF RecordUserSeen, IdleCaller, WriterTypeInv, CallersInv
  <2>2. CASE j = k
    BY <2>1, <2>2 DEF Carried
  <2>3. CASE j # k
    <3>1. claim[j] = "open" /\ ~closed /\ UNCHANGED <<works, thread>>
      BY <1>0, <1>2, <2>3 DEF RecordUserSeen, writerVars, poolVars
    <3>2. Carried(j)
      BY <3>1 DEF ClaimInv
    <3>3. QED  BY <2>1, <3>1, <3>2 DEF Carried, Undecided
  <2>4. QED  BY <2>2, <2>3
<1>3. ASSUME NEW r \in Requests, Submit(r) PROVE ClaimInv'
  <2> SUFFICES ASSUME NEW k \in SeenKeys, claim'[k] = "open", ~closed' PROVE Carried(k)'
    BY DEF ClaimInv
  <2>1. Carried(k) /\ ~closed
    BY <1>3 DEF Submit, seenVars, ClaimInv
  <2>2. \A t \in Threads : Undecided(t) => thread'[t] = thread[t] /\ Undecided(t)'
    BY <1>0, <1>3, StartingIsQuiet DEF Submit, Undecided
  <2>3. CASE Len(works) >= QueueSize
    <3>1. UNCHANGED works /\ \A q \in Requests : caller'[q].key = caller[q].key
          /\ (caller[q].at # "idle" => caller'[q].at # "idle")
      BY <1>3, <2>3 DEF Submit, WriterTypeInv, CallersInv
    <3>2. QED  BY <2>1, <2>2, <3>1 DEF Carried
  <2>4. CASE ~(Len(works) >= QueueSize)
    <3>1. works' = Append(works, caller[r].key) /\ caller' = [caller EXCEPT ![r] = IdleCaller]
      BY <1>3, <2>1, <2>4 DEF Submit
    <3>2. caller[r].key \in SeenKeys /\ caller \in [Requests -> [at : {"idle", "claimed", "refused"}, key : SeenKeys \cup {NoKey}]]
      BY <1>3 DEF Submit, WriterTypeInv, CallersInv
    <3>3. Len(works') = Len(works) + 1 /\ works'[Len(works) + 1] = caller[r].key
          /\ \A i \in 1 .. Len(works) : i \in 1 .. Len(works') /\ works'[i] = works[i]
      BY <1>0, <3>1, <3>2
    <3>4. Len(works) + 1 \in 1 .. Len(works')
      BY <1>0, <3>3
    <3>5. \A q \in Requests \ {r} : caller'[q] = caller[q]
      BY <3>1, <3>2
    <3>6. QED  BY <2>1, <2>2, <3>3, <3>4, <3>5 DEF Carried
  <2>5. QED  BY <2>3, <2>4
<1>4. ASSUME NEW r \in Requests, Refused(r) PROVE ClaimInv'
  <2> SUFFICES ASSUME NEW k \in SeenKeys, claim'[k] = "open", ~closed' PROVE Carried(k)'
    BY DEF ClaimInv
  <2>1. k # caller[r].key /\ claim[k] = "open" /\ ~closed /\ UNCHANGED <<works, thread>>
    BY <1>0, <1>4 DEF Refused, RecordSeenFailure, writerVars, poolVars
  <2>2. Carried(k)
    BY <2>1 DEF ClaimInv
  <2>3. \A q \in Requests \ {r} : caller'[q] = caller[q]
    BY <1>4 DEF Refused, WriterTypeInv, CallersInv
  <2>4. QED  BY <2>1, <2>2, <2>3 DEF Carried, Undecided
<1>5. ASSUME NEW t \in Threads, GetWork(t) PROVE ClaimInv'
  <2> SUFFICES ASSUME NEW k \in SeenKeys, claim'[k] = "open", ~closed' PROVE Carried(k)'
    BY DEF ClaimInv
  <2>1. /\ Carried(k) /\ UNCHANGED caller /\ works' = Tail(works) /\ works # <<>> /\ thread[t].at = "get" /\ ~closed
    BY <1>5 DEF GetWork, seenVars, ClaimInv
  <2>2. /\ Len(works) \in Nat \ {0} /\ Len(works') = Len(works) - 1 /\ Head(works) = works[1]
        /\ \A i \in 2 .. Len(works) : i - 1 \in 1 .. Len(works') /\ works'[i - 1] = works[i]
    BY <1>0, <2>1
  <2>3. Head(works) # Stop /\ Head(works) \in SeenKeys
    BY <1>0, <2>1, <2>2 DEF CountInv
  <2>4. thread' = [thread EXCEPT ![t] = Worker("checkout", Head(works), NoConn, FALSE)]
    BY <1>5, <2>3 DEF GetWork
  <2>5. thread'[t].at = "checkout" /\ thread'[t].key = Head(works)
        /\ \A u \in Threads \ {t} : thread'[u] = thread[u]
    BY <1>0, <2>3, <2>4, ThreadTurns DEF Places
  <2>6. CASE \E i \in 1 .. Len(works) : works[i] = k
    <3>1. PICK i \in 1 .. Len(works) : works[i] = k
      BY <2>6
    <3>2. CASE i = 1
      BY <2>2, <2>5, <3>1, <3>2 DEF Carried, Undecided
    <3>3. CASE i # 1
      <4>1. i \in 2 .. Len(works)
        BY <2>2, <3>3
      <4>2. QED  BY <2>2, <3>1, <4>1 DEF Carried
    <3>4. QED  BY <3>2, <3>3
  <2>7. CASE \E u \in Threads : thread[u].key = k /\ Undecided(u)
    BY <2>1, <2>5, <2>7 DEF Carried, Undecided
  <2>8. CASE \E r \in Requests : caller[r].at # "idle" /\ caller[r].key = k
    BY <2>1, <2>8 DEF Carried
  <2>9. QED  BY <2>1, <2>6, <2>7, <2>8 DEF Carried
<1>6. ASSUME NEW t \in Threads, PoolTimeout(t) PROVE ClaimInv'
  <2>1. thread[t].at = "checkout" /\ UNCHANGED <<works, caller, closed, claim>>
    BY <1>6 DEF PoolTimeout, writerVars, seenVars
  <2>2. thread'[t].at = "settle" /\ thread'[t].key = thread[t].key /\ thread'[t].ok = thread[t].ok
        /\ \A u \in Threads \ {t} : thread'[u] = thread[u]
    BY <1>0, <1>6, ThreadMoves DEF PoolTimeout, Places
  <2>3. ~thread'[t].ok
    BY <2>1, <2>2 DEF WriterTypeInv, ThreadsInv
  <2>4. \A u \in Threads : Undecided(u) => Keeps(u)
    BY <2>2, <2>3 DEF Keeps, Undecided
  <2>5. QED  BY <1>1, <2>1, <2>4
<1>7. ASSUME NEW t \in Threads, Execute(t) PROVE ClaimInv'
  <2>1. thread'[t].at = "disarm" /\ thread'[t].key = thread[t].key /\ \A u \in Threads \ {t} : thread'[u] = thread[u]
    BY <1>0, <1>7, ThreadGoes DEF Execute, Places
  <2>2. \A u \in Threads : Undecided(u) => Keeps(u)
    BY <2>1 DEF Keeps, Undecided
  <2>3. QED  BY <1>1, <1>7, <2>2 DEF Execute, seenVars, writerVars
<1>8. ASSUME UNCHANGED <<thread, claim, caller, writerVars>> PROVE ClaimInv'
  <2>1. \A u \in Threads : Undecided(u) => Keeps(u)
    BY <1>8 DEF Keeps, Undecided
  <2>2. QED  BY <1>1, <1>8, <2>1 DEF writerVars
<1>9. ASSUME NEW t \in Threads, Cancel(t) PROVE ClaimInv'
  <2>1. CASE borrower[thread[t].conn] = t /\ thread[t].at = "execute"
    <3>1. thread' = [thread EXCEPT ![t].at = "disarm", ![t].ok = FALSE]
      BY <1>9, <2>1 DEF Cancel
    <3>2. thread'[t].at = "disarm" /\ thread'[t].key = thread[t].key
          /\ \A u \in Threads \ {t} : thread'[u] = thread[u]
      BY <1>0, <3>1, ThreadGoes DEF Places
    <3>3. \A u \in Threads : Undecided(u) => Keeps(u)
      BY <3>2 DEF Keeps, Undecided
    <3>4. QED  BY <1>1, <1>9, <3>3 DEF Cancel, seenVars, writerVars
  <2>2. CASE ~(borrower[thread[t].conn] = t /\ thread[t].at = "execute")
    BY <1>8, <1>9, <2>2 DEF Cancel, seenVars
  <2>3. QED  BY <2>1, <2>2
<1>10. ASSUME NEW t \in Threads, Disarm(t) PROVE ClaimInv'
  <2>1. thread'[t].at = "commit" /\ thread'[t].key = thread[t].key /\ \A u \in Threads \ {t} : thread'[u] = thread[u]
    BY <1>0, <1>10, ThreadMoves DEF Disarm, Places
  <2>2. \A u \in Threads : Undecided(u) => Keeps(u)
    BY <2>1 DEF Keeps, Undecided
  <2>3. QED  BY <1>1, <1>10, <2>2 DEF Disarm, seenVars, writerVars
<1>11. ASSUME NEW t \in Threads, Commit(t) PROVE ClaimInv'
  <2>1. PICK ok \in {FALSE, thread[t].ok} :
          /\ thread' = [thread EXCEPT ![t].at = "settle", ![t].ok = ok]
          /\ claim' = IF ok THEN [claim EXCEPT ![thread[t].key] = "landed"] ELSE claim
    BY <1>11 DEF Commit
  <2>2. ok \in BOOLEAN
    BY <1>0 DEF WorkerShape
  <2>3. thread'[t].at = "settle" /\ thread'[t].key = thread[t].key /\ thread'[t].ok = ok
        /\ \A u \in Threads \ {t} : thread'[u] = thread[u]
    BY <1>0, <2>1, <2>2, ThreadGoes DEF Places
  <2>4. thread[t].key \in SeenKeys
    BY <1>11 DEF Commit, WriterTypeInv, ThreadsInv, AtWork
  <2>5. \A k \in SeenKeys : claim'[k] = "open" => claim[k] = "open"
    BY <1>0, <2>1
  <2>6. \A u \in Threads \ {t} : Undecided(u) => Keeps(u)
    BY <2>3 DEF Keeps, Undecided
  <2>7. Keeps(t) \/ claim'[thread[t].key] # "open"
    <3>1. CASE ok
      BY <1>0, <2>1, <2>4, <3>1
    <3>2. CASE ~ok
      BY <2>3, <3>2 DEF Keeps, Undecided
    <3>3. QED  BY <3>1, <3>2
  <2>8. QED  BY <1>1, <1>11, <2>5, <2>6, <2>7 DEF Commit, writerVars
<1>12. ASSUME NEW t \in Threads, SettleSeen(t) PROVE ClaimInv'
  <2>1. \A u \in Threads \ {t} : thread'[u] = thread[u]
    BY <1>0, <1>12, ThreadMoves DEF SettleSeen, Places
  <2>2. \A u \in Threads \ {t} : Undecided(u) => Keeps(u)
    BY <2>1 DEF Keeps, Undecided
  <2>3. thread[t].at = "settle" /\ thread[t].key \in SeenKeys
    BY <1>12 DEF SettleSeen, WriterTypeInv, ThreadsInv, AtWork
  <2>4. Undecided(t) => claim'[thread[t].key] # "open"
    BY <1>0, <1>12, <2>3 DEF SettleSeen, RecordSeenFailure, Undecided
  <2>5. \A k \in SeenKeys : claim'[k] = "open" => claim[k] = "open"
    BY <1>0, <1>12 DEF SettleSeen, RecordSeenFailure
  <2>6. QED  BY <1>1, <1>12, <2>2, <2>4, <2>5 DEF SettleSeen, writerVars
<1>13. ASSUME NEW t \in Threads, FinishWork(t) PROVE ClaimInv'
  <2>1. thread[t].at = "finish" /\ \A u \in Threads \ {t} : thread'[u] = thread[u]
    BY <1>0, <1>13 DEF FinishWork
  <2>2. \A u \in Threads : Undecided(u) => Keeps(u)
    BY <2>1 DEF Keeps, Undecided
  <2>3. QED  BY <1>1, <1>13, <2>2 DEF FinishWork, seenVars
<1>14. ASSUME NEW t \in Threads, NEW c \in Conns, Checkout(t, c) PROVE ClaimInv'
  <2>1. thread'[t].at = "execute" /\ thread'[t].key = thread[t].key /\ \A u \in Threads \ {t} : thread'[u] = thread[u]
    BY <1>0, <1>14, ThreadChecksOut DEF Checkout
  <2>2. \A u \in Threads : Undecided(u) => Keeps(u)
    BY <2>1 DEF Keeps, Undecided
  <2>3. QED  BY <1>1, <1>14, <2>2 DEF Checkout, seenVars, writerVars
<1>15. CASE CloseWriter
  BY <1>15 DEF CloseWriter, ClaimInv
<1>16. QED
  BY <1>2, <1>3, <1>4, <1>5, <1>6, <1>7, <1>8, <1>9, <1>10, <1>11, <1>12, <1>13, <1>14, <1>15
     DEF BestEffortNext, Fire, Borrow, GiveBack, SecondPasses, poolVars, seenVars, bestEffortVars

BestEffortInv == WriterTypeInv /\ CheckoutInv /\ CountInv /\ ClaimInv

LEMMA BestEffortInvInit == ASSUME BestEffortAssumption, BestEffortInit PROVE BestEffortInv
<1>1. AtWork = {}
  BY DEF BestEffortInit, AtWork, Worker
<1>2. works = <<>> /\ Len(works) = 0 /\ ~closed /\ pending = 0
  BY DEF BestEffortInit
<1>3. CountInv
  BY <1>1, <1>2, FS_EmptySet DEF CountInv
<1>4. CallersInv /\ ThreadsInv
  BY <1>1 DEF BestEffortInit, CallersInv, ThreadsInv, IdleCaller, Worker, WorkerShape, Places
<1>5. WriterTypeInv
  <2>1. closed \in BOOLEAN
    BY Zenon DEF BestEffortInit
  <2>2. works \in Seq(SeenKeys \cup {Stop}) /\ pending \in Int
    BY <1>2
  <2>3. QED  BY <1>4, <2>1, <2>2 DEF BestEffortInit, WriterTypeInv
<1>6. CheckoutInv /\ ClaimInv
  BY DEF BestEffortInit, CheckoutInv, ClaimInv, Worker
<1>7. QED  BY <1>3, <1>5, <1>6 DEF BestEffortInv

(* Whatever is in the queue is a write until the close and nothing afterwards. *)
LEMMA QueuedIsCounted ==
  ASSUME BestEffortInv PROVE PendingIsExact /\ ClaimIsCovered /\ CancelHitsOwn
<1>0. works \in Seq(SeenKeys \cup {Stop}) /\ closed \in BOOLEAN /\ Len(works) \in Nat /\ DOMAIN works = 1 .. Len(works)
  BY DEF BestEffortInv, WriterTypeInv
<1>1. Cardinality(Queued) = IF closed THEN 0 ELSE Len(works)
  <2>1. CASE closed
    <3>1. Queued = {}
      BY <1>0, <2>1 DEF Queued, BestEffortInv, CountInv
    <3>2. QED  BY <2>1, <3>1, FS_EmptySet
  <2>2. CASE ~closed
    <3>1. Queued = 1 .. Len(works)
      BY <1>0, <2>2 DEF Queued, BestEffortInv, CountInv
    <3>2. Cardinality(1 .. Len(works)) = Len(works)
      <4>1. Cardinality(1 .. Len(works)) = IF 1 > Len(works) THEN 0 ELSE Len(works) - 1 + 1
        BY <1>0, FS_Interval
      <4>2. QED  BY <1>0, <4>1
    <3>3. QED  BY <2>2, <3>1, <3>2
  <2>3. QED  BY <2>1, <2>2
<1>2. PendingIsExact
  BY <1>1 DEF PendingIsExact, BestEffortInv, CountInv
<1>3. ClaimIsCovered
  <2> SUFFICES ASSUME NEW k \in SeenKeys, claim[k] = "open", ~closed PROVE OnItsWay(k)
    BY DEF ClaimIsCovered
  <2>1. Carried(k)
    BY DEF BestEffortInv, ClaimInv
  <2>2. ASSUME NEW i \in 1 .. Len(works), works[i] = k PROVE OnItsWay(k)
    BY <1>0, <2>2 DEF OnItsWay, Queued, BestEffortInv, CountInv
  <2>3. ASSUME NEW t \in Threads, thread[t].key = k, Undecided(t) PROVE OnItsWay(k)
    BY <2>3 DEF OnItsWay, AtWork, Undecided
  <2>4. QED  BY <2>1, <2>2, <2>3 DEF Carried, OnItsWay
<1>4. CancelHitsOwn
  BY DEF CancelHitsOwn, BestEffortInv, CheckoutInv
<1>5. QED  BY <1>2, <1>3, <1>4

(* With any number of requests, threads and connections: the writer's count of
   what it owes is exact (_pending), so wait_idle and close neither hang nor
   return early; a claimed window has its write under way or its backoff
   (record_user_seen); and a watchdog never cancels the next borrower's statement
   (_CancelWatchdog). *)
THEOREM BestEffortIsExact ==
  ASSUME BestEffortAssumption PROVE BestEffortSpec => [](PendingIsExact /\ ClaimIsCovered /\ CancelHitsOwn)
<1>1. BestEffortInit => BestEffortInv
  BY BestEffortInvInit
<1>2. BestEffortInv /\ [BestEffortNext]_bestEffortVars => BestEffortInv'
  BY WriterTypeStep, CheckoutStep, CountStep, ClaimStep DEF BestEffortInv
<1>3. BestEffortInv => PendingIsExact /\ ClaimIsCovered /\ CancelHitsOwn
  BY QueuedIsCounted
<1>4. QED  BY <1>1, <1>2, <1>3, PTL DEF BestEffortSpec
=============================================================================
