-------------------------- MODULE ExecutionProofs ---------------------------
(***************************************************************************)
(* What surrounds the runner of a run: the Track's store, the controller,  *)
(* the lock of the catalog's sweeps, the local and the Kubernetes workers, *)
(* the command line's bridge to a run and the views of runs.               *)
(*                                                                         *)
(* TrackStore first.  For any runs, writers, readers and assignment of     *)
(* locks to runs, shared ones included: a cursor never skips a committed   *)
(* row, and the store implements TrackLog.  A transaction past its lock is *)
(* alone in its run, so what it found of the run's rows still holds when   *)
(* it commits, and the number it drew is above every committed number of   *)
(* the run, hence above every cursor.                                      *)
(***************************************************************************)
EXTENDS MCExecution, RunViews, WellFoundedInduction, FiniteSetTheorems, SequenceTheorems, TLAPS

InTx == {"check", "insert", "commit"}

\* What a transaction knows of its run.
Exclusive(w) == pc[w] \in InTx => lock[LockFor(w)] = w

Checked(w) ==
  pc[w] \in {"insert", "commit"} /\ tx[w].kind = "request" => StillWanted(rows[tx[w].run])

Drawn(w) ==
  pc[w] = "commit" =>
    /\ tx[w].seq # 0 /\ tx[w].seq < next
    /\ \A e \in rows[tx[w].run] : e.seq < tx[w].seq
    /\ ~SubmittedTwice(w)

\* A cursor is not past the committed rows of its run.
CursorBehind ==
  \A rd \in Readers, r \in Runs :
    cursor[rd][r] = 0 \/ \E e \in rows[r] : cursor[rd][r] <= e.seq

StoreInv ==
  /\ TypeOK
  /\ \A w \in Writers : Exclusive(w) /\ Checked(w) /\ Drawn(w)
  /\ \A r \in Runs : \A e \in rows[r] : e.seq < next
  /\ CursorBehind
  /\ CursorNeverSkips

LEMMA NoTxType == NoTx \in [run : Runs, kind : Kinds, seq : Nat]
<1>1. (CHOOSE r \in Runs : TRUE) \in Runs  BY LockAssumption
<1> QED  BY <1>1 DEF NoTx, Kinds, Track!Kinds

LEMMA InitStoreInv == Init => StoreInv
<1> SUFFICES ASSUME Init PROVE StoreInv  OBVIOUS
<1>1. TypeOK  BY NoTxType DEF Init, TypeOK
<1> QED  BY <1>1 DEF Init, StoreInv, Exclusive, Checked, Drawn, InTx, CursorBehind, CursorNeverSkips

\* A step of one transaction that commits nothing: the readers, and the other
\* transactions, are where they were.
LEMMA NothingCommitted ==
  ASSUME StoreInv, TypeOK', NEW w \in Writers,
         UNCHANGED <<rows, cursor, seen>>, next' >= next,
         \A u \in Writers \ {w} :
           pc'[u] = pc[u] /\ tx'[u] = tx[u] /\ (pc[u] \in InTx => lock'[LockFor(u)] = u),
         Exclusive(w)', Checked(w)', Drawn(w)'
  PROVE  StoreInv'
<1>1. ASSUME NEW u \in Writers \ {w} PROVE Exclusive(u)' /\ Checked(u)' /\ Drawn(u)'
  <2>1. Exclusive(u) /\ Checked(u) /\ Drawn(u)  BY DEF StoreInv
  <2>2. next \in Nat /\ next' \in Nat /\ tx[u].seq \in Nat  BY DEF StoreInv, TypeOK
  <2> QED
    BY <2>1, <2>2 DEF Exclusive, Checked, Drawn, LockFor, SubmittedTwice, StillWanted,
                      Track!StillWanted, Holds, Track!Holds
<1>2. \A r \in Runs : \A e \in rows'[r] : e.seq < next'
  <2>1. next \in Nat /\ next' \in Nat /\ \A r \in Runs : \A e \in rows[r] : e.seq \in Nat
    BY DEF StoreInv, TypeOK, Track!Entries
  <2> QED  BY <2>1 DEF StoreInv
<1>3. CursorBehind' /\ CursorNeverSkips'  BY DEF StoreInv, CursorBehind, CursorNeverSkips
<1> QED  BY <1>1, <1>2, <1>3 DEF StoreInv

LEMMA RowTypes ==
  ASSUME TypeOK PROVE \A r \in Runs : \A e \in rows[r] : e.seq \in Nat \ {0}
  BY DEF TypeOK, Track!Entries

LEMMA TxTypes ==
  ASSUME TypeOK, NEW w \in Writers
  PROVE  /\ tx[w].run \in Runs /\ LockFor(w) \in Locks
         /\ tx[w].kind \in Kinds /\ tx[w].seq \in Nat /\ next \in Nat \ {0}
  BY LockAssumption DEF TypeOK, LockFor

\* Two transactions past their lock hold different locks.
LEMMA Alone ==
  ASSUME StoreInv, NEW w \in Writers, NEW u \in Writers \ {w},
         pc[w] \in InTx, pc[u] \in InTx
  PROVE  LockFor(u) # LockFor(w) /\ tx[u].run # tx[w].run
  BY DEF StoreInv, Exclusive, LockFor

LEMMA BeginInv ==
  ASSUME StoreInv, NEW w \in Writers, NEW r \in Runs, NEW k \in Kinds, Begin(w, r, k)
  PROVE  StoreInv'
<1> DEFINE t == [run |-> r, kind |-> k, seq |-> 0]
<1>1. t \in [run : Runs, kind : Kinds, seq : Nat]  OBVIOUS
<1> HIDE DEF t
<1>2. /\ tx' = [tx EXCEPT ![w] = t] /\ pc' = [pc EXCEPT ![w] = "lock"]
      /\ UNCHANGED <<rows, next, lock, cursor, seen>>
  BY DEF Begin, Goto, ReadersAside, t
<1>3. TypeOK'  BY <1>1, <1>2 DEF StoreInv, TypeOK
<1>4. pc'[w] = "lock"  BY <1>2 DEF StoreInv, TypeOK
<1>5. \A u \in Writers \ {w} : pc'[u] = pc[u] /\ tx'[u] = tx[u]
  BY <1>2 DEF StoreInv, TypeOK
<1>6. Exclusive(w)' /\ Checked(w)' /\ Drawn(w)'  BY <1>4 DEF Exclusive, Checked, Drawn, InTx
<1>7. \A u \in Writers \ {w} : pc[u] \in InTx => lock'[LockFor(u)] = u
  BY <1>2 DEF StoreInv, Exclusive
<1>8. next' >= next  BY <1>2, TxTypes DEF StoreInv
<1> QED  BY <1>2, <1>3, <1>5, <1>6, <1>7, <1>8, NothingCommitted

LEMMA LockInv ==
  ASSUME StoreInv, NEW w \in Writers, Lock(w) PROVE StoreInv'
<1>0. /\ lock[LockFor(w)] = Nobody /\ lock' = [lock EXCEPT ![LockFor(w)] = w]
      /\ pc' = [pc EXCEPT ![w] = AfterLock(w)] /\ UNCHANGED <<rows, next, tx, cursor, seen>>
  BY DEF Lock, Goto, ReadersAside
<1>1. AfterLock(w) \in {"check", "insert"} /\ (AfterLock(w) = "insert" => tx[w].kind # "request")
  BY DEF AfterLock
<1>2. TypeOK /\ LockFor(w) \in Locks  BY TxTypes DEF StoreInv
<1>3. TypeOK'  BY <1>0, <1>1, <1>2 DEF TypeOK
<1>4. pc'[w] = AfterLock(w) /\ \A u \in Writers \ {w} : pc'[u] = pc[u]
  BY <1>0, <1>2 DEF TypeOK
<1>5. \A u \in Writers \ {w} : pc[u] \in InTx => lock'[LockFor(u)] = u
  BY <1>0, <1>2, NobodyAssumption DEF StoreInv, Exclusive, TypeOK
<1>6. lock'[LockFor(w)'] = w  BY <1>0, <1>2 DEF TypeOK, LockFor
<1>7. Exclusive(w)' /\ Checked(w)' /\ Drawn(w)'
  BY <1>0, <1>1, <1>4, <1>6 DEF Exclusive, Checked, Drawn
<1>8. next' >= next  BY <1>0, TxTypes DEF StoreInv
<1> QED  BY <1>0, <1>3, <1>4, <1>5, <1>7, <1>8, NothingCommitted

\* A transaction that ends without a row, its lock held or not.
LEMMA EndsInv ==
  ASSUME StoreInv, NEW w \in Writers, RolledBack(w), next' \in {next, next + 1}, pc[w] \in InTx
  PROVE  StoreInv'
<1>0. /\ lock' = [lock EXCEPT ![LockFor(w)] = Nobody] /\ tx' = [tx EXCEPT ![w] = NoTx]
      /\ pc' = [pc EXCEPT ![w] = "idle"] /\ UNCHANGED <<rows, cursor, seen>>
  BY DEF RolledBack, Goto, ReadersAside
<1>1. TypeOK /\ LockFor(w) \in Locks  BY TxTypes DEF StoreInv
<1>2. TypeOK'
  <2>1. next \in Nat \ {0} /\ next' \in Nat \ {0}  BY <1>1, TxTypes
  <2> QED  BY <1>0, <1>1, <2>1, NoTxType DEF TypeOK
<1>3. \A u \in Writers \ {w} : pc'[u] = pc[u] /\ tx'[u] = tx[u]  BY <1>0, <1>1 DEF TypeOK
<1>4. \A u \in Writers \ {w} : pc[u] \in InTx => lock'[LockFor(u)] = u
  BY <1>0, <1>1, Alone, TxTypes DEF StoreInv, Exclusive, TypeOK
<1>5. pc'[w] = "idle"  BY <1>0, <1>1 DEF TypeOK
<1>6. Exclusive(w)' /\ Checked(w)' /\ Drawn(w)'  BY <1>5 DEF Exclusive, Checked, Drawn, InTx
<1>7. next' >= next  BY <1>1, TxTypes
<1> QED  BY <1>0, <1>2, <1>3, <1>4, <1>6, <1>7, NothingCommitted

LEMMA GiveUpInv ==
  ASSUME StoreInv, NEW w \in Writers, GiveUp(w) PROVE StoreInv'
<1>0. /\ tx' = [tx EXCEPT ![w] = NoTx] /\ pc' = [pc EXCEPT ![w] = "idle"]
      /\ UNCHANGED <<rows, next, lock, cursor, seen>>
  BY DEF GiveUp, Goto, ReadersAside
<1>1. TypeOK /\ TypeOK'  BY <1>0, NoTxType DEF StoreInv, TypeOK
<1>2. \A u \in Writers \ {w} : pc'[u] = pc[u] /\ tx'[u] = tx[u]  BY <1>0, <1>1 DEF TypeOK
<1>3. \A u \in Writers \ {w} : pc[u] \in InTx => lock'[LockFor(u)] = u
  BY <1>0 DEF StoreInv, Exclusive
<1>4. pc'[w] = "idle"  BY <1>0, <1>1 DEF TypeOK
<1>5. Exclusive(w)' /\ Checked(w)' /\ Drawn(w)'  BY <1>4 DEF Exclusive, Checked, Drawn, InTx
<1>6. next' >= next  BY <1>0, TxTypes DEF StoreInv
<1> QED  BY <1>0, <1>1, <1>2, <1>3, <1>5, <1>6, NothingCommitted

LEMMA WantedInv ==
  ASSUME StoreInv, NEW w \in Writers, Wanted(w) PROVE StoreInv'
<1>0. /\ pc[w] = "check" /\ StillWanted(rows[tx[w].run]) /\ pc' = [pc EXCEPT ![w] = "insert"]
      /\ UNCHANGED <<rows, next, tx, lock, cursor, seen>>
  BY DEF Wanted, Goto, ReadersAside
<1>1. TypeOK /\ TypeOK'  BY <1>0 DEF StoreInv, TypeOK
<1>2. pc'[w] = "insert" /\ \A u \in Writers \ {w} : pc'[u] = pc[u]  BY <1>0, <1>1 DEF TypeOK
<1>3. \A u \in Writers : pc[u] \in InTx => lock'[LockFor(u)] = u
  BY <1>0 DEF StoreInv, Exclusive
<1>4. Exclusive(w)' /\ Checked(w)' /\ Drawn(w)'
  BY <1>0, <1>2, <1>3 DEF Exclusive, Checked, Drawn, InTx, LockFor,
                          StillWanted, Track!StillWanted, Holds, Track!Holds
<1>5. next' >= next  BY <1>0, TxTypes DEF StoreInv
<1> QED  BY <1>0, <1>1, <1>2, <1>3, <1>4, <1>5, NothingCommitted

LEMMA InsertInv ==
  ASSUME StoreInv, NEW w \in Writers, Insert(w) PROVE StoreInv'
<1> DEFINE t == [tx[w] EXCEPT !.seq = next]
<1>0. /\ pc[w] = "insert" /\ ~SubmittedTwice(w) /\ pc' = [pc EXCEPT ![w] = "commit"]
      /\ tx' = [tx EXCEPT ![w] = t] /\ next' = next + 1
      /\ UNCHANGED <<rows, lock, cursor, seen>>
  BY DEF Insert, Goto, ReadersAside
<1>1. TypeOK /\ tx[w] \in [run : Runs, kind : Kinds, seq : Nat] /\ next \in Nat \ {0}
  BY DEF StoreInv, TypeOK
<1>2. /\ t \in [run : Runs, kind : Kinds, seq : Nat]
      /\ t.run = tx[w].run /\ t.kind = tx[w].kind /\ t.seq = next
  BY <1>1
<1> HIDE DEF t
<1>3. TypeOK'  BY <1>0, <1>1, <1>2 DEF TypeOK
<1>4. /\ pc'[w] = "commit" /\ tx'[w] = t
      /\ \A u \in Writers \ {w} : pc'[u] = pc[u] /\ tx'[u] = tx[u]
  BY <1>0, <1>1 DEF TypeOK
<1>5. \A u \in Writers : pc[u] \in InTx => lock'[LockFor(u)] = u
  BY <1>0 DEF StoreInv, Exclusive
<1>6. Exclusive(w)' /\ Checked(w)'
  BY <1>0, <1>2, <1>4, <1>5 DEF StoreInv, Exclusive, Checked, InTx, LockFor,
                          StillWanted, Track!StillWanted, Holds, Track!Holds
<1>7. Drawn(w)'
  <2>1. tx[w].run \in Runs /\ \A e \in rows[tx[w].run] : e.seq < next
    BY <1>1 DEF StoreInv
  <2>2. next # 0 /\ next < next + 1  BY <1>1
  <2> QED  BY <1>0, <1>2, <1>4, <2>1, <2>2 DEF Drawn, SubmittedTwice, Holds, Track!Holds
<1>8. next' >= next  BY <1>0, <1>1
<1> QED  BY <1>0, <1>3, <1>4, <1>5, <1>6, <1>7, <1>8, NothingCommitted

\* A commit adds a row above everything its run has, and nothing to other runs.
LEMMA CommitEffect ==
  ASSUME StoreInv, NEW w \in Writers, Commit(w)
  PROVE  LET r == tx[w].run
             e == [seq |-> tx[w].seq, kind |-> tx[w].kind]
         IN /\ r \in Runs /\ e \in Track!Entries /\ e.seq = tx[w].seq /\ e.kind = tx[w].kind
            /\ rows' = [rows EXCEPT ![r] = rows[r] \cup {e}]
            /\ rows'[r] = rows[r] \cup {e} /\ \A q \in Runs \ {r} : rows'[q] = rows[q]
            /\ \A old \in rows[r] : old.seq < e.seq
            /\ e.seq < next
<1>1. TypeOK /\ tx[w].run \in Runs /\ tx[w].kind \in Kinds /\ tx[w].seq \in Nat
  BY TxTypes DEF StoreInv
<1>2. Drawn(w) /\ pc[w] = "commit"  BY DEF StoreInv, Commit
<1>3. tx[w].seq # 0 /\ tx[w].seq < next /\ \A old \in rows[tx[w].run] : old.seq < tx[w].seq
  BY <1>2 DEF Drawn
<1> QED  BY <1>1, <1>3 DEF Commit, TypeOK, Track!Entries, Kinds

LEMMA CommitInv ==
  ASSUME StoreInv, NEW w \in Writers, Commit(w) PROVE StoreInv'
<1> DEFINE r == tx[w].run
           e == [seq |-> tx[w].seq, kind |-> tx[w].kind]
<1>0. /\ pc[w] = "commit" /\ lock' = [lock EXCEPT ![LockFor(w)] = Nobody]
      /\ tx' = [tx EXCEPT ![w] = NoTx] /\ pc' = [pc EXCEPT ![w] = "idle"]
      /\ UNCHANGED <<next, cursor, seen>>
  BY DEF Commit, Goto, ReadersAside
<1>1. /\ r \in Runs /\ e \in Track!Entries
      /\ rows' = [rows EXCEPT ![r] = rows[r] \cup {e}]
      /\ rows'[r] = rows[r] \cup {e} /\ \A q \in Runs \ {r} : rows'[q] = rows[q]
      /\ \A old \in rows[r] : old.seq < e.seq
      /\ e.seq < next
  BY CommitEffect
<1> HIDE DEF r, e
<1>2. TypeOK /\ LockFor(w) \in Locks  BY TxTypes DEF StoreInv
<1>3. TypeOK'  BY <1>0, <1>1, <1>2, NoTxType DEF TypeOK
<1>4. pc'[w] = "idle" /\ \A u \in Writers \ {w} : pc'[u] = pc[u] /\ tx'[u] = tx[u]
  BY <1>0, <1>2 DEF TypeOK
<1>5. ASSUME NEW u \in Writers PROVE Exclusive(u)' /\ Checked(u)' /\ Drawn(u)'
  <2>1. CASE u = w  BY <1>4, <2>1 DEF Exclusive, Checked, Drawn, InTx
  <2>2. CASE u # w /\ pc[u] \notin InTx
    BY <1>4, <2>2 DEF Exclusive, Checked, Drawn, InTx
  <2>3. CASE u # w /\ pc[u] \in InTx
    <3>1. LockFor(u) # LockFor(w) /\ tx[u].run # r /\ tx[u].run \in Runs
      BY <1>0, <1>2, <2>3, Alone, TxTypes DEF InTx, r
    <3>2. rows'[tx[u].run] = rows[tx[u].run] /\ tx'[u] = tx[u] /\ pc'[u] = pc[u]
      BY <1>1, <1>4, <2>3, <3>1
    <3>3. lock'[LockFor(u)'] = lock[LockFor(u)]
      <4>1. LockFor(u)' = LockFor(u)  BY <3>2 DEF LockFor
      <4>2. LockFor(u) \in Locks  BY <1>2, TxTypes
      <4> QED  BY <1>0, <1>2, <3>1, <4>1, <4>2 DEF TypeOK
    <3>4. LockFor(u)' = LockFor(u)  BY <3>2 DEF LockFor
    <3>5. Exclusive(u) /\ Checked(u) /\ Drawn(u)  BY DEF StoreInv
    <3> QED
      BY <1>0, <3>2, <3>3, <3>4, <3>5
         DEF Exclusive, Checked, Drawn, SubmittedTwice, StillWanted, Track!StillWanted,
             Holds, Track!Holds
  <2> QED  BY <2>1, <2>2, <2>3
<1>6. \A q \in Runs : \A x \in rows'[q] : x.seq < next'  BY <1>0, <1>1 DEF StoreInv
<1>7. CursorBehind'
  BY <1>0, <1>1 DEF StoreInv, CursorBehind
<1>8. CursorNeverSkips'
  <2> SUFFICES ASSUME NEW rd \in Readers, NEW q \in Runs, NEW x \in rows'[q],
                      x.seq <= cursor[rd][q]
               PROVE  x.seq \in seen[rd][q]
    BY <1>0 DEF CursorNeverSkips
  <2>1. CASE x \in rows[q]  BY <2>1 DEF StoreInv, CursorNeverSkips
  <2>2. CASE q = r /\ x = e
    <3>1. /\ cursor[rd][r] \in Nat /\ e.seq \in Nat \ {0}
          /\ \A old \in rows[r] : old.seq \in Nat
      BY <1>1, <1>2 DEF TypeOK, Track!Entries
    <3>2. cursor[rd][r] = 0 \/ \E old \in rows[r] : cursor[rd][r] <= old.seq
      BY <1>1 DEF StoreInv, CursorBehind
    <3> QED  BY <1>1, <2>2, <3>1, <3>2
  <2> QED  BY <1>1, <2>1, <2>2
<1> QED  BY <1>3, <1>5, <1>6, <1>7, <1>8 DEF StoreInv

LEMMA PollInv ==
  ASSUME StoreInv, NEW rd \in Readers, NEW r \in Runs, Poll(rd, r) PROVE StoreInv'
<1> DEFINE fresh == Fresh(rd, r)
<1>0. TypeOK /\ UNCHANGED <<rows, next, lock, pc, tx>>  BY DEF StoreInv, Poll
<1>1. /\ \A n \in fresh : n \in Nat /\ \E e \in rows[r] : n = e.seq
      /\ \A e \in rows[r] : e.seq > cursor[rd][r] => e.seq \in fresh
  BY <1>0, RowTypes DEF Fresh
<1>2. seen' = [seen EXCEPT ![rd] = [seen[rd] EXCEPT ![r] = seen[rd][r] \cup fresh]]
  BY DEF Poll
<1>3. PICK top \in Nat :
        /\ cursor' = [cursor EXCEPT ![rd] = [cursor[rd] EXCEPT ![r] = top]]
        /\ \A n \in fresh : n <= top
        /\ top = cursor[rd][r] \/ \E e \in rows[r] : top = e.seq
  <2>1. CASE fresh = {}
    <3>1. cursor[rd] \in [Runs -> Nat] /\ cursor[rd][r] \in Nat  BY <1>0 DEF TypeOK
    <3>2. cursor' = cursor  BY <2>1 DEF Poll
    <3>3. cursor' = [cursor EXCEPT ![rd] = [cursor[rd] EXCEPT ![r] = cursor[rd][r]]]
      BY <1>0, <3>1, <3>2 DEF TypeOK
    <3> QED  BY <2>1, <3>1, <3>3
  <2>2. CASE fresh # {}
    BY <1>1, <2>2 DEF Poll
  <2> QED  BY <2>1, <2>2
<1> HIDE DEF fresh
<1>4. TypeOK'
  <2>1. cursor[rd] \in [Runs -> Nat] /\ seen[rd] \in [Runs -> SUBSET Nat]  BY <1>0 DEF TypeOK
  <2>2. [cursor[rd] EXCEPT ![r] = top] \in [Runs -> Nat]  BY <2>1
  <2>3. [seen[rd] EXCEPT ![r] = seen[rd][r] \cup fresh] \in [Runs -> SUBSET Nat]
    BY <1>1, <2>1
  <2> QED  BY <1>0, <1>2, <1>3, <2>2, <2>3 DEF TypeOK
<1>5. /\ cursor'[rd][r] = top /\ seen'[rd][r] = seen[rd][r] \cup fresh
      /\ \A d \in Readers, q \in Runs :
           d # rd \/ q # r => cursor'[d][q] = cursor[d][q] /\ seen'[d][q] = seen[d][q]
  BY <1>0, <1>2, <1>3 DEF TypeOK
<1>6. CursorBehind'
  <2> SUFFICES ASSUME NEW d \in Readers, NEW q \in Runs
               PROVE  cursor'[d][q] = 0 \/ \E e \in rows[q] : cursor'[d][q] <= e.seq
    BY <1>0 DEF CursorBehind
  <2>1. cursor[d][q] = 0 \/ \E e \in rows[q] : cursor[d][q] <= e.seq
    BY DEF StoreInv, CursorBehind
  <2>2. \A e \in rows[q] : e.seq \in Nat  BY <1>0, RowTypes
  <2> QED  BY <1>3, <1>5, <2>1, <2>2
<1>7. CursorNeverSkips'
  <2> SUFFICES ASSUME NEW d \in Readers, NEW q \in Runs, NEW e \in rows[q],
                      e.seq <= cursor'[d][q]
               PROVE  e.seq \in seen'[d][q]
    BY <1>0 DEF CursorNeverSkips
  <2>1. e.seq <= cursor[d][q] => e.seq \in seen[d][q]  BY DEF StoreInv, CursorNeverSkips
  <2>2. e.seq \in Nat /\ cursor[d][q] \in Nat  BY <1>0, RowTypes DEF TypeOK
  <2> QED  BY <1>1, <1>5, <2>1, <2>2
<1>8. ASSUME NEW u \in Writers PROVE Exclusive(u)' /\ Checked(u)' /\ Drawn(u)'
  <2>1. Exclusive(u) /\ Checked(u) /\ Drawn(u)  BY DEF StoreInv
  <2> QED
    BY <1>0, <2>1 DEF Exclusive, Checked, Drawn, LockFor, SubmittedTwice, StillWanted,
                      Track!StillWanted, Holds, Track!Holds
<1>9. \A q \in Runs : \A e \in rows'[q] : e.seq < next'  BY <1>0 DEF StoreInv
<1> QED  BY <1>4, <1>6, <1>7, <1>8, <1>9 DEF StoreInv

LEMMA NextStoreInv == StoreInv /\ [Next]_vars => StoreInv'
<1> SUFFICES ASSUME StoreInv, [Next]_vars PROVE StoreInv'  OBVIOUS
<1>1. ASSUME NEW w \in Writers, TxStep(w) \/ Lose(w) \/ GiveUp(w) PROVE StoreInv'
  <2>1. CASE Refused(w) \/ Duplicate(w) \/ Lose(w)
    BY <2>1, EndsInv DEF Refused, Duplicate, Lose, InTx
  <2> QED  BY <1>1, <2>1, LockInv, WantedInv, InsertInv, CommitInv, GiveUpInv DEF TxStep
<1>2. CASE UNCHANGED vars
  BY <1>2 DEF vars, StoreInv, TypeOK, Exclusive, Checked, Drawn, LockFor, SubmittedTwice,
              StillWanted, Track!StillWanted, Holds, Track!Holds, CursorBehind, CursorNeverSkips
<1> QED  BY <1>1, <1>2, BeginInv, PollInv DEF Next

LEMMA SpecStoreInv == Spec => []StoreInv
  BY InitStoreInv, NextStoreInv, PTL DEF Spec

--------------------------------------------------------------------------
\* A cursor over a run's events never skips a committed one, whatever the order
\* transactions end in and whichever runs share an advisory lock.
THEOREM CursorsNeverSkip == Spec => []CursorNeverSkips
<1>1. StoreInv => CursorNeverSkips  BY DEF StoreInv
<1> QED  BY <1>1, SpecStoreInv, PTL

\* The store's transactions implement the atomic, conditional, one-submission log
\* the runner and the intents rely on.
THEOREM StoreImplementsLog == Spec => ImplementsLog
<1>1. Init => Track!Init  BY DEF Init, Track!Init
<1>2. ASSUME StoreInv, [Next]_vars PROVE [Track!Next]_rows
  <2>1. ASSUME NEW w \in Writers, Commit(w) PROVE Track!Next
    <3> DEFINE r == tx[w].run
               e == [seq |-> tx[w].seq, kind |-> tx[w].kind]
    <3>1. /\ r \in Runs /\ e.kind = tx[w].kind /\ e \in rows'[r]
          /\ rows' = [rows EXCEPT ![r] = rows[r] \cup {e}]
          /\ \A old \in rows[r] : old.seq < e.seq
      BY <1>2, <2>1, CommitEffect
    <3>2. Checked(w) /\ Drawn(w) /\ pc[w] = "commit"  BY <1>2, <2>1 DEF StoreInv, Commit
    <3>3. /\ tx[w].kind = "submitted" => ~Track!Holds(rows[r], "submitted")
          /\ tx[w].kind = "request" => Track!StillWanted(rows[r])
      BY <3>2 DEF Checked, Drawn, SubmittedTwice, Holds, StillWanted
    <3> HIDE DEF r, e
    <3>4. Track!Append(r, e)  BY <3>1, <3>3 DEF Track!Append
    <3> QED  BY <3>1, <3>4 DEF Track!Next
  <2>2. CASE UNCHANGED rows  BY <2>2
  <2>3. ASSUME NEW w \in Writers, TxStep(w) \/ Lose(w) \/ GiveUp(w), ~Commit(w)
        PROVE  UNCHANGED rows
    BY <2>3 DEF TxStep, Lock, Refused, Wanted, Duplicate, Insert, Lose, GiveUp, RolledBack
  <2> QED  BY <1>2, <2>1, <2>2, <2>3 DEF Next, Begin, Poll, vars
<1> QED  BY <1>1, <1>2, SpecStoreInv, PTL DEF Spec, ImplementsLog, Track!Spec

--------------------------------------------------------------------------
(***************************************************************************)
(* Controller, for any number of turns, restarts and failed writes.        *)
(***************************************************************************)
\* A driver has the claim, and nothing runs in a controller that has not started.
DriverClaims ==
  /\ claim = "advancing" <=> advancing = "drive"
  /\ claim = "cancelling" <=> cancelling = "write"
  /\ ~host.up => ~host.started
  /\ ~host.started => advancing = "none" /\ cancelling = "none" /\ turning.at = "none" /\ tick.at = "idle"

\* The turn under way is the first that waits, and the one delivery thread is the
\* only one that answers any.
InHand ==
  turning.at \in {"worker", "turn", "record"} =>
    /\ turning.turn \in 1 .. Len(trk.turns)
    /\ trk.turns[turning.turn] = "pending"
    /\ \A j \in 1 .. turning.turn - 1 : trk.turns[j] # "pending"

Decided == turning.at = "record" => turning.outcome # "pending"

ControllerInv == ControllerTypeOK /\ DriverClaims /\ RunningIsDriven /\ InHand /\ Decided

(* A set of numbers that is not empty has a least member. *)
LEMMA LeastOf ==
  ASSUME NEW S \in SUBSET Nat, S # {} PROVE \E n \in S : \A m \in S : n <= m
<1>1. PICK n \in S : \A m \in S : ~(<<m, n>> \in OpToRel(<, Nat))
  BY NatLessThanWellFounded, WFMin
<1>2. ASSUME NEW m \in S PROVE n <= m
  <2>1. ~(<<m, n>> \in OpToRel(<, Nat))
    BY <1>1
  <2>2. ~(m < n)
    BY <2>1 DEF OpToRel
  <2> QED BY <2>2
<1> QED BY <1>2

(* The first of the turns that wait. *)
LEMMA FirstWaiting ==
  ASSUME ControllerTypeOK, Waiting # {}
  PROVE  /\ NextTurn \in 1 .. Len(trk.turns) /\ trk.turns[NextTurn] = "pending"
         /\ \A j \in 1 .. NextTurn - 1 : trk.turns[j] # "pending"
<1>1. trk.turns \in Seq({"pending", "answered", "failed"}) /\ Len(trk.turns) \in Nat
  BY DEF ControllerTypeOK
<1>2. Waiting \subseteq 1 .. Len(trk.turns) /\ Waiting \subseteq Nat
  BY <1>1 DEF Waiting
<1>3. \E i \in Waiting : \A j \in Waiting : i <= j
  BY <1>2, LeastOf
<1>4. NextTurn \in Waiting /\ \A j \in Waiting : NextTurn <= j
  BY <1>3 DEF NextTurn
<1>5. trk.state \notin Ended
  BY <1>4 DEF Waiting, Shown
<1>6. \A j \in 1 .. Len(trk.turns) : j \in Waiting <=> trk.turns[j] = "pending"
  BY <1>5 DEF Waiting, Shown
<1> QED BY <1>1, <1>2, <1>4, <1>6

Tracks == [state : States, cancel : BOOLEAN, turns : Seq({"pending", "answered", "failed"})]
Hosts == [up : BOOLEAN, started : BOOLEAN, boots : Nat, failures : Nat]
Deliveries ==
  [at : {"none", "read", "worker", "turn", "record"}, turn : Nat, outcome : {"pending", "answered", "failed"}]

(* What is the turns' only: a step that touches neither them nor their thread. *)
LEMMA TurnsAside ==
  ASSUME InHand, Decided, turning' = turning, trk'.turns = trk.turns
  PROVE  InHand' /\ Decided'
BY DEF InHand, Decided

(* The Track's state moves, and nothing else of it. *)
LEMMA StateMoves ==
  ASSUME NEW t \in Tracks, NEW s \in States
  PROVE  /\ [t EXCEPT !.state = s] \in Tracks /\ [t EXCEPT !.state = s].state = s
         /\ [t EXCEPT !.state = s].turns = t.turns
BY DEF Tracks

(* What the API and the tick do. *)
LEMMA QuietSteps ==
  ASSUME ControllerInv, Submit \/ RequestCancel \/ TickView \/ TickEnded \/ TickAct \/ Settled
  PROVE  ControllerInv'
<1> USE DEF NoTick
<1>1. trk \in Tracks /\ host \in Hosts
  BY DEF ControllerInv, ControllerTypeOK, Tracks, Hosts
<1>2. "SUBMITTED" \in States
  BY DEF States
<1>3. CASE Submit
  <2>1. trk' \in Tracks /\ trk'.state = "SUBMITTED" /\ trk'.turns = trk.turns
    BY <1>1, <1>2, <1>3, StateMoves DEF Submit
  <2> QED BY <1>3, <2>1, TurnsAside
          DEF Submit, runner, ControllerInv, ControllerTypeOK, Tracks, DriverClaims, RunningIsDriven
<1>4. CASE RequestCancel
  <2>1. trk' \in Tracks /\ trk'.state = trk.state /\ trk'.turns = trk.turns
    BY <1>1, <1>4 DEF RequestCancel, Tracks
  <2> QED BY <1>4, <2>1, TurnsAside
          DEF RequestCancel, runner, ControllerInv, ControllerTypeOK, Tracks, DriverClaims, RunningIsDriven
<1>5. CASE TickView
  <2>1. tick' \in [at : {"idle", "act", "turns"}, state : States, cancel : BOOLEAN]
    BY <1>1, <1>5 DEF TickView, Tracks
  <2> QED BY <1>5, <2>1, TurnsAside
          DEF TickView, Serving, runner, ControllerInv, ControllerTypeOK, DriverClaims, RunningIsDriven
<1>6. CASE TickEnded
  <2>1. tick' \in [at : {"idle", "act", "turns"}, state : States, cancel : BOOLEAN] /\ tick'.at = "idle"
    BY <1>6 DEF TickEnded, States
  <2> QED BY <1>6, <2>1, TurnsAside
          DEF TickEnded, runner, ControllerInv, ControllerTypeOK, DriverClaims, RunningIsDriven
<1>7. CASE TickAct
  <2>1. tick' \in [at : {"idle", "act", "turns"}, state : States, cancel : BOOLEAN] /\ tick'.at = "turns"
    BY <1>7 DEF TickAct, ControllerInv, ControllerTypeOK
  <2>2. host.started
    BY <1>7 DEF TickAct, ControllerInv, DriverClaims
  <2> QED BY <1>7, <2>1, <2>2, TurnsAside
          DEF TickAct, ControllerInv, ControllerTypeOK, DriverClaims, RunningIsDriven
<1>8. CASE Settled
  BY <1>8, TurnsAside
     DEF Settled, controllerVars, ControllerInv, ControllerTypeOK, DriverClaims, RunningIsDriven
<1> QED BY <1>3, <1>4, <1>5, <1>6, <1>7, <1>8

(* What the advancing and the cancelling thread do. *)
LEMMA DriverSteps ==
  ASSUME ControllerInv, Advance \/ Drive \/ DriveBreaks \/ Cancel \/ CancelBreaks
  PROVE  ControllerInv'
<1>1. trk \in Tracks /\ host \in Hosts
  BY DEF ControllerInv, ControllerTypeOK, Tracks, Hosts
<1>2. host.started
  BY DEF Advance, Drive, Cancel, AdvanceClaim, AdvanceWait, AdvanceWaited, WorkerUp, WorkerDown, DriveEnd,
         DriveBreaks, CancelLeft, CancelClaim, CancelWrite, CancelBreaks, ControllerInv, DriverClaims
<1>3. turning' = turning /\ tick' = tick /\ ended' = ended
  BY DEF Advance, Drive, Cancel, AdvanceClaim, AdvanceWait, AdvanceWaited, WorkerUp, WorkerDown, DriveEnd,
         DriveBreaks, CancelLeft, CancelClaim, CancelWrite, CancelBreaks, Aside
<1>4. {"RUNNING", "CANCELLED", "COMPLETED", "FAILED", "BUDGET_EXCEEDED", "WAITING_AT_GATE"} \subseteq States
  BY DEF States, Ended
<1>5. CASE AdvanceClaim
  <2>1. CASE trk.state = "SUBMITTED"
    <3>1. trk' \in Tracks /\ trk'.turns = trk.turns
      <4>1. trk' = [trk EXCEPT !.state = "RUNNING"] /\ "RUNNING" \in States
        BY <1>4, <1>5, <2>1 DEF AdvanceClaim
      <4> QED BY <1>1, <4>1, StateMoves
    <3> QED BY <1>2, <1>3, <1>5, <2>1, <3>1, TurnsAside
            DEF AdvanceClaim, ControllerInv, ControllerTypeOK, Tracks, DriverClaims, RunningIsDriven
  <2>2. CASE trk.state # "SUBMITTED"
    BY <1>2, <1>3, <1>5, <2>2, TurnsAside
       DEF AdvanceClaim, ControllerInv, ControllerTypeOK, DriverClaims, RunningIsDriven
  <2> QED BY <2>1, <2>2
<1>6. CASE AdvanceWait \/ AdvanceWaited \/ WorkerUp \/ WorkerDown \/ CancelLeft \/ CancelClaim
  <2>1. trk' = trk /\ host' = host /\ InHand' /\ Decided'
    BY <1>3, <1>6, TurnsAside
       DEF AdvanceWait, AdvanceWaited, WorkerUp, WorkerDown, CancelLeft, CancelClaim, ControllerInv
  <2>2. CASE AdvanceWait \/ AdvanceWaited
    BY <1>2, <1>3, <2>1, <2>2
       DEF AdvanceWait, AdvanceWaited, ControllerInv, ControllerTypeOK, DriverClaims, RunningIsDriven
  <2>3. CASE WorkerUp \/ WorkerDown
    <3>1. live' \in BOOLEAN /\ cancelled' \in BOOLEAN
      BY <2>3, Zenon DEF WorkerUp, WorkerDown, ControllerInv, ControllerTypeOK
    <3> QED BY <1>2, <1>3, <2>1, <2>3, <3>1
       DEF WorkerUp, WorkerDown, ControllerInv, ControllerTypeOK, DriverClaims, RunningIsDriven
  <2>4. CASE CancelLeft \/ CancelClaim
    <3>1. live' \in BOOLEAN /\ cancelled' \in BOOLEAN
      BY <2>4, Zenon DEF CancelLeft, CancelClaim, ControllerInv, ControllerTypeOK
    <3> QED BY <1>2, <1>3, <2>1, <2>4, <3>1
       DEF CancelLeft, CancelClaim, ControllerInv, ControllerTypeOK, DriverClaims, RunningIsDriven
  <2> QED BY <1>6, <2>2, <2>3, <2>4
<1>7. CASE DriveEnd
  <2>1. trk' \in Tracks /\ trk'.turns = trk.turns /\ trk'.state # "RUNNING"
    BY <1>1, <1>4, <1>7, StateMoves DEF DriveEnd
  <2> QED BY <1>2, <1>3, <1>7, <2>1, TurnsAside
          DEF DriveEnd, LetGo, ControllerInv, ControllerTypeOK, Tracks, DriverClaims, RunningIsDriven
<1>8. CASE CancelWrite
  <2>1. trk' \in Tracks /\ trk'.turns = trk.turns /\ (trk'.state = "RUNNING" => trk.state \in Ended /\ trk' = trk)
    BY <1>1, <1>4, <1>8, StateMoves DEF CancelWrite
  <2>2. trk'.state # "RUNNING"
    BY <2>1 DEF Ended
  <2> QED BY <1>2, <1>3, <1>8, <2>1, <2>2, TurnsAside
          DEF CancelWrite, ControllerInv, ControllerTypeOK, Tracks, DriverClaims, RunningIsDriven
<1>9. CASE DriveBreaks \/ CancelBreaks
  <2>1. host' \in Hosts /\ host'.failures # 0 /\ host'.started = host.started /\ host'.up = host.up
    BY <1>1, <1>9 DEF DriveBreaks, CancelBreaks, Hosts
  <2>2. trk' = trk /\ InHand' /\ Decided'
    BY <1>3, <1>9, TurnsAside DEF DriveBreaks, CancelBreaks, ControllerInv
  <2>3. CASE DriveBreaks
    BY <1>2, <1>3, <2>1, <2>2, <2>3, ZenonT(40)
       DEF DriveBreaks, LetGo, ControllerInv, ControllerTypeOK, Hosts, DriverClaims, RunningIsDriven
  <2>4. CASE CancelBreaks
    BY <1>2, <1>3, <2>1, <2>2, <2>4
       DEF CancelBreaks, ControllerInv, ControllerTypeOK, Hosts, DriverClaims, RunningIsDriven
  <2> QED BY <1>9, <2>3, <2>4
<1> QED BY <1>5, <1>6, <1>7, <1>8, <1>9 DEF Advance, Drive, Cancel

(* Turns that are asked, and what the delivering thread does with them. *)
LEMMA TurnSteps ==
  ASSUME ControllerInv, RequestTurn \/ TickTurns \/ Deliver \/ TurnBreaks
  PROVE  ControllerInv' /\ TurnInOrder
<1>1. trk \in Tracks /\ host \in Hosts /\ turning \in Deliveries
  BY DEF ControllerInv, ControllerTypeOK, Tracks, Hosts, Deliveries
<1>2. trk.turns \in Seq({"pending", "answered", "failed"})
  BY <1>1 DEF Tracks
<1>3. NoTurn \in Deliveries /\ [NoTurn EXCEPT !.at = "read"] \in Deliveries /\ NoTurn.at = "none"
      /\ [NoTurn EXCEPT !.at = "read"].at = "read"
  BY DEF NoTurn, Deliveries
<1>4. advancing' = advancing /\ cancelling' = cancelling /\ claim' = claim /\ cancelled' = cancelled /\ live' = live
      /\ ended' = ended
  BY DEF RequestTurn, TickTurns, Deliver, TurnRead, TurnWorker, TurnAnswered, TurnRaises, TurnTooEarly,
         TurnRecord, TurnBreaks, TurnAside, runner
<1>5. CASE RequestTurn
  <2>1. /\ trk'.turns = Append(trk.turns, "pending") /\ trk' \in Tracks /\ trk'.state = trk.state
    <3>1. Append(trk.turns, "pending") \in Seq({"pending", "answered", "failed"})
      BY <1>2
    <3>2. trk' = [trk EXCEPT !.turns = Append(trk.turns, "pending")]
      BY <1>5 DEF RequestTurn
    <3> QED BY <1>1, <3>1, <3>2 DEF Tracks
  <2>2. \A i \in 1 .. Len(trk.turns) : trk'.turns[i] = trk.turns[i] /\ i \in 1 .. Len(trk'.turns)
    BY <1>2, <2>1
  <2>3. InHand' /\ Decided'
    <3>1. CASE turning.at \in {"worker", "turn", "record"}
      <4>1. turning.turn \in 1 .. Len(trk.turns) /\ \A j \in 1 .. turning.turn - 1 : j \in 1 .. Len(trk.turns)
        BY <1>2, <3>1 DEF ControllerInv, InHand
      <4> QED BY <1>5, <2>2, <4>1 DEF ControllerInv, InHand, Decided, RequestTurn
    <3>2. CASE turning.at \notin {"worker", "turn", "record"}
      BY <1>5, <3>2 DEF ControllerInv, InHand, Decided, RequestTurn
    <3> QED BY <3>1, <3>2
  <2>4. TurnInOrder
    BY <2>2 DEF TurnInOrder
  <2> QED BY <1>4, <1>5, <2>1, <2>3, <2>4
          DEF RequestTurn, ControllerInv, ControllerTypeOK, Tracks, DriverClaims, RunningIsDriven
<1>6. CASE TickTurns
  <2>1. turning' = turning \/ turning' = [NoTurn EXCEPT !.at = "read"]
    BY <1>6 DEF TickTurns
  <2>2. turning' \in Deliveries
    BY <1>1, <1>3, <2>1
  <2>3. tick' \in [at : {"idle", "act", "turns"}, state : States, cancel : BOOLEAN] /\ tick'.at = "idle" /\ trk' = trk
    BY <1>6 DEF TickTurns, NoTick, States
  <2>4. host.started /\ host' = host
    BY <1>6 DEF TickTurns, ControllerInv, DriverClaims
  <2>5. InHand' /\ Decided'
    BY <1>3, <2>1, <2>3 DEF ControllerInv, InHand, Decided
  <2>6. TurnInOrder
    BY <2>3 DEF TurnInOrder
  <2> QED BY <1>4, <2>2, <2>3, <2>4, <2>5, <2>6
          DEF Deliveries, ControllerInv, ControllerTypeOK, DriverClaims, RunningIsDriven
<1>7. CASE TurnRead
  <2>1. turning' \in Deliveries /\ trk' = trk /\ tick' = tick /\ host' = host /\ host.started
    <3>1. Waiting # {} => NextTurn \in Nat
      BY <1>2, FirstWaiting DEF ControllerInv
    <3>2. Waiting # {} => [at |-> "worker", turn |-> NextTurn, outcome |-> "pending"] \in Deliveries
      BY <3>1 DEF Deliveries
    <3> QED BY <1>3, <1>7, <3>2 DEF TurnRead, TurnAside, ControllerInv, DriverClaims
  <2>2. InHand' /\ Decided'
    <3>1. CASE Waiting = {}
      BY <1>3, <1>7, <3>1 DEF TurnRead, InHand, Decided
    <3>2. CASE Waiting # {}
      BY <1>7, <3>2, <2>1, FirstWaiting DEF TurnRead, InHand, Decided, ControllerInv
    <3> QED BY <3>1, <3>2
  <2>3. TurnInOrder
    BY <2>1 DEF TurnInOrder
  <2> QED BY <1>4, <2>1, <2>2, <2>3
          DEF Deliveries, ControllerInv, ControllerTypeOK, DriverClaims, RunningIsDriven
<1>8. CASE TurnWorker \/ TurnAnswered \/ TurnRaises \/ TurnTooEarly
  <2>1. trk' = trk /\ tick' = tick /\ host' = host /\ host.started
    BY <1>8 DEF TurnWorker, TurnAnswered, TurnRaises, TurnTooEarly, TurnAside, ControllerInv, DriverClaims
  <2>2. \/ turning' = NoTurn
        \/ /\ turning' \in Deliveries /\ turning'.turn = turning.turn
           /\ turning.at \in {"worker", "turn"} /\ turning'.at \in {"turn", "record"}
           /\ turning'.at = "record" => turning'.outcome # "pending"
    BY <1>1, <1>8 DEF TurnWorker, TurnAnswered, TurnRaises, TurnTooEarly, Deliveries
  <2>3. turning' \in Deliveries
    BY <1>3, <2>2
  <2>4. InHand' /\ Decided'
    BY <1>3, <2>1, <2>2 DEF ControllerInv, InHand, Decided
  <2>5. TurnInOrder
    BY <2>1 DEF TurnInOrder
  <2> QED BY <1>4, <2>1, <2>3, <2>4, <2>5
          DEF Deliveries, ControllerInv, ControllerTypeOK, DriverClaims, RunningIsDriven
<1>9. CASE TurnRecord
  <2>1. turning' = [NoTurn EXCEPT !.at = "read"] /\ tick' = tick /\ host' = host /\ host.started
    BY <1>9 DEF TurnRecord, TurnAside, ControllerInv, DriverClaims
  <2>2. /\ turning.turn \in 1 .. Len(trk.turns) /\ trk.turns[turning.turn] = "pending"
        /\ \A j \in 1 .. turning.turn - 1 : trk.turns[j] # "pending"
    BY <1>9 DEF TurnRecord, ControllerInv, InHand
  <2>3. turning.outcome \in {"pending", "answered", "failed"}
    BY <1>1 DEF Deliveries
  <2>4. trk'.turns = [trk.turns EXCEPT ![turning.turn] = turning.outcome] /\ trk' \in Tracks /\ trk'.state = trk.state
    <3>1. [trk.turns EXCEPT ![turning.turn] = turning.outcome] \in Seq({"pending", "answered", "failed"})
      BY <1>2, <2>2, <2>3
    <3>2. trk' = [trk EXCEPT !.turns = [trk.turns EXCEPT ![turning.turn] = turning.outcome]]
      BY <1>9 DEF TurnRecord
    <3> QED BY <1>1, <3>1, <3>2 DEF Tracks
  <2>5. \A i \in 1 .. Len(trk.turns) : i # turning.turn => trk'.turns[i] = trk.turns[i]
    BY <1>2, <2>4
  <2>6. TurnInOrder
    BY <2>2, <2>5 DEF TurnInOrder
  <2>7. InHand' /\ Decided'
    BY <1>3, <2>1 DEF InHand, Decided
  <2> QED BY <1>3, <1>4, <2>1, <2>4, <2>6, <2>7
          DEF Tracks, Deliveries, ControllerInv, ControllerTypeOK, DriverClaims, RunningIsDriven
<1>10. CASE TurnBreaks
  <2>1. turning' = NoTurn /\ tick' = tick /\ trk' = trk /\ host.started
    BY <1>10 DEF TurnBreaks, ControllerInv, DriverClaims
  <2>2. host' \in Hosts /\ host'.failures # 0 /\ host'.started = host.started /\ host'.up = host.up
    BY <1>1, <1>10 DEF TurnBreaks, Hosts
  <2>3. InHand' /\ Decided' /\ TurnInOrder
    BY <1>3, <2>1 DEF InHand, Decided, TurnInOrder
  <2> QED BY <1>3, <1>4, <2>1, <2>2, <2>3
          DEF Hosts, Deliveries, ControllerInv, ControllerTypeOK, DriverClaims, RunningIsDriven
<1> QED BY <1>5, <1>6, <1>7, <1>8, <1>9, <1>10 DEF Deliver

(* A controller that starts, stops and is started again. *)
LEMMA HostSteps ==
  ASSUME ControllerInv, Start \/ Stop \/ Boot
  PROVE  ControllerInv'
<1>1. trk \in Tracks /\ host \in Hosts
  BY DEF ControllerInv, ControllerTypeOK, Tracks, Hosts
<1>2. NoTurn \in Deliveries /\ NoTurn.at = "none"
  BY DEF NoTurn, Deliveries
<1>3. CASE Start
  <2>1. "INTERRUPTED" \in States
    BY DEF States, Ended
  <2>2. trk' \in Tracks /\ trk'.turns = trk.turns /\ trk'.state # "RUNNING"
    BY <1>1, <1>3, <2>1, StateMoves DEF Start
  <2>3. host' \in Hosts /\ host'.up
    BY <1>1, <1>3 DEF Start, Hosts
  <2> QED BY <1>3, <2>2, <2>3, TurnsAside
          DEF Start, runner, Tracks, Hosts, ControllerInv, ControllerTypeOK, DriverClaims, RunningIsDriven
<1>4. CASE Stop
  <2>1. host' \in Hosts /\ ~host'.started
    BY <1>1, <1>4 DEF Stop, Hosts
  <2>2. tick' \in [at : {"idle", "act", "turns"}, state : States, cancel : BOOLEAN] /\ tick'.at = "idle"
    BY <1>4 DEF Stop, NoTick, States
  <2>3. InHand' /\ Decided'
    BY <1>2, <1>4 DEF Stop, InHand, Decided
  <2> QED BY <1>2, <1>4, <2>1, <2>2, <2>3
          DEF Stop, Hosts, Deliveries, ControllerInv, ControllerTypeOK, DriverClaims, RunningIsDriven
<1>5. CASE Boot
  <2>1. host' \in Hosts /\ host'.started = host.started /\ ~host.started
    <3>1. host.boots + 1 \in Nat
      BY <1>1 DEF Hosts
    <3> QED BY <1>1, <1>5, <3>1 DEF Boot, Hosts, ControllerInv, DriverClaims
  <2> QED BY <1>5, <2>1, TurnsAside
          DEF Boot, runner, Hosts, ControllerInv, ControllerTypeOK, DriverClaims, RunningIsDriven
<1> QED BY <1>3, <1>4, <1>5

LEMMA ControllerInitially == ControllerInit => ControllerInv
<1> SUFFICES ASSUME ControllerInit PROVE ControllerInv
  OBVIOUS
<1>1. trk \in Tracks /\ turning \in Deliveries /\ host \in Hosts
  <2>1. <<>> \in Seq({"pending", "answered", "failed"}) /\ "NONE" \in States
    BY DEF States
  <2> QED BY <2>1 DEF ControllerInit, NoTurn, Tracks, Deliveries, Hosts
<1>2. tick \in [at : {"idle", "act", "turns"}, state : States, cancel : BOOLEAN]
  BY DEF ControllerInit, NoTick, States
<1>3. ControllerTypeOK
  BY <1>1, <1>2 DEF ControllerInit, ControllerTypeOK, Tracks, Deliveries, Hosts
<1> QED BY <1>3 DEF ControllerInit, ControllerInv, DriverClaims, RunningIsDriven, InHand, Decided, NoTick, NoTurn

LEMMA ControllerKeeps == ControllerInv /\ [ControllerNext]_controllerVars => ControllerInv'
<1>1. CASE UNCHANGED controllerVars
  BY <1>1, TurnsAside
     DEF controllerVars, ControllerInv, ControllerTypeOK, DriverClaims, RunningIsDriven
<1>2. CASE ControllerNext
  BY <1>2, QuietSteps, DriverSteps, TurnSteps, HostSteps DEF ControllerNext, Tick
<1> QED BY <1>1, <1>2

(* Whatever controllers stop, start and fail, for any bounds: a run that reads
   RUNNING has its driver, unless a Track write of the controller failed
   (Controller._advance, start). *)
THEOREM RunningRunsAreDriven == ControllerSpec => []RunningIsDriven
<1>1. ControllerInv => RunningIsDriven
  BY DEF ControllerInv
<1> QED BY ControllerInitially, ControllerKeeps, <1>1, PTL DEF ControllerSpec

(* For any number of turns, restarts and failed writes, turns are answered in the
   order they were asked, each once (Controller._deliver_turns). *)
THEOREM TurnsAnsweredInOrder == ControllerSpec => TurnsInOrder
<1>1. ControllerInv /\ [ControllerNext]_controllerVars => [TurnInOrder]_controllerVars
  <2> SUFFICES ASSUME ControllerInv, ControllerNext PROVE TurnInOrder
    OBVIOUS
  <2>1. CASE RequestTurn \/ TickTurns \/ Deliver \/ TurnBreaks
    BY <2>1, TurnSteps
  <2>2. trk \in Tracks
    BY DEF ControllerInv, ControllerTypeOK, Tracks
  <2>3. CASE trk'.turns = trk.turns
    BY <2>3 DEF TurnInOrder
  <2>4. trk'.turns = trk.turns \/ RequestTurn \/ TickTurns \/ Deliver \/ TurnBreaks
    BY <2>2 DEF ControllerNext, Submit, RequestCancel, Tick, TickView, TickEnded, TickAct, Advance, AdvanceClaim,
      AdvanceWait, AdvanceWaited, Drive, WorkerUp, WorkerDown, DriveEnd, DriveBreaks, Cancel, CancelLeft,
      CancelClaim, CancelWrite, CancelBreaks, Start, Stop, Boot, Settled, controllerVars, Tracks
  <2> QED BY <2>1, <2>3, <2>4
<1> QED BY ControllerInitially, ControllerKeeps, <1>1, PTL DEF ControllerSpec, TurnsInOrder

---------------------------------------------------------------------------
(***************************************************************************)
(* SweepLock, for any number of sweeps and replicas.                       *)
(***************************************************************************)
Busy(w) == task[w] \notin {"new", "ended"} \/ Running(w) \/ late[w] = "waiting"

\* A replica has one sweep under way; one whose thread outlives it, or whose lock
\* is freed late, is the last one before the replica stops.
OneAtATime == \A v, w \in Sweeps : Home[v] = Home[w] /\ Busy(v) /\ Busy(w) => v = w

Outlived(w) ==
  /\ task[w] = "new" => ~Running(w) /\ session[w] = "none"
  /\ late[w] = "waiting" => task[w] = "ended"
  /\ dropped[w] \/ task[w] = "drain" => Home[w] \in stopping
  /\ task[w] = "ended" /\ (Running(w) \/ late[w] = "waiting") => Home[w] \in stopping
  /\ task[w] = "release" /\ ~dropped[w] => ~Running(w)

\* What a sweep at work, or its statement, has: the store's connection.
AtWork(w) ==
  /\ task[w] = "work" => ~Running(w) /\ lockConn[Home[w]] = w
  /\ worker[w].job = "store" /\ Running(w) => worker[w].conn = w /\ lockConn[Home[w]] = w
  /\ worker[w].job = "enter" /\ Running(w) => session[w] = "none"

\* The store's connection has the lock, as long as the server has not dropped it.
Kept(w) ==
  /\ \A r \in Replicas : lockConn[r] = w => Home[w] = r /\ (holder = w \/ session[w] = "lost")
  /\ holder = w => session[w] = "open"

SweepInv == SweepTypeOK /\ OneAtATime /\ \A w \in Sweeps : Outlived(w) /\ AtWork(w) /\ Kept(w)

\* No sweep is under way, and none holds the lock.
LEMMA SweepStarts == SweepInit => SweepInv
  BY HomeAssumption
  DEF SweepInit, SweepInv, SweepTypeOK, OneAtATime, Busy, Outlived, AtWork, Kept, Running, NoThread,
      Threads, Tasks, Jobs, Sessions

LEMMA StartSweepKeeps == ASSUME SweepInv, NEW w \in Sweeps, StartSweep(w) PROVE SweepInv'
<1> USE HomeAssumption
<1>1. SweepTypeOK'
  BY DEF StartSweep, OnThread, MoveTo, SweepInv, SweepTypeOK, Threads, Tasks, Jobs, Sessions
<1>2. OneAtATime'
    BY DEF StartSweep, OnThread, MoveTo, SweepInv, SweepTypeOK, OneAtATime, Busy, Outlived,
    Running, Threads
<1>3. ASSUME NEW v \in Sweeps PROVE (Outlived(v) /\ AtWork(v) /\ Kept(v))'
    BY DEF StartSweep, OnThread, MoveTo, SweepInv, SweepTypeOK, OneAtATime, Busy, Outlived,
    AtWork, Kept, Running, Threads
<1> QED BY <1>1, <1>2, <1>3 DEF SweepInv

LEMMA EnterLockKeeps == ASSUME SweepInv, NEW w \in Sweeps, EnterLock(w) PROVE SweepInv'
<1> USE HomeAssumption
<1>1. SweepTypeOK'
  BY DEF EnterLock, Finished, SweepInv, SweepTypeOK, Threads, Tasks, Jobs, Sessions
<1>2. OneAtATime'
  BY DEF EnterLock, Finished, SweepInv, SweepTypeOK, OneAtATime, Busy, Outlived, Running, Threads
<1>3. ASSUME NEW v \in Sweeps PROVE (Outlived(v) /\ AtWork(v) /\ Kept(v))'
  <2>1. Outlived(v)'
    BY DEF EnterLock, Finished, SweepInv, SweepTypeOK, Outlived, Running, Threads
  <2>2. AtWork(v)'
    <3>1. CASE v = w
      BY <3>1 DEF EnterLock, Finished, SweepInv, SweepTypeOK, AtWork, Running, Threads
    <3>2. CASE v # w
      <4>1. worker'[v] = worker[v] /\ task'[v] = task[v] /\ session'[v] = session[v]
        BY <3>2 DEF EnterLock, Finished, SweepInv, SweepTypeOK
      <4>2. lockConn'[Home[v]] = lockConn[Home[v]] \/ Home[v] = Home[w]
        BY <3>2 DEF EnterLock, Finished, SweepInv, SweepTypeOK
      <4>3. AtWork(v)
        BY DEF SweepInv
      <4> QED BY <3>2, <4>1, <4>2, <4>3 DEF AtWork, Running, EnterLock, SweepInv, OneAtATime, Busy
    <3> QED BY <3>1, <3>2
  <2>3. Kept(v)'
    BY DEF EnterLock, Finished, SweepInv, SweepTypeOK, AtWork, Kept, Running, Threads
  <2> QED BY <2>1, <2>2, <2>3
<1> QED BY <1>1, <1>2, <1>3 DEF SweepInv

LEMMA EnterFailsKeeps == ASSUME SweepInv, NEW w \in Sweeps, EnterFails(w) PROVE SweepInv'
<1> USE HomeAssumption
<1>1. SweepTypeOK'
  BY DEF EnterFails, Finished, SweepInv, SweepTypeOK, Threads, Tasks, Jobs, Sessions
<1>2. OneAtATime'
  BY DEF EnterFails, Finished, SweepInv, SweepTypeOK, OneAtATime, Busy, Outlived, Running, Threads
<1>3. ASSUME NEW v \in Sweeps PROVE (Outlived(v) /\ AtWork(v) /\ Kept(v))'
    BY DEF EnterFails, Finished, SweepInv, SweepTypeOK, OneAtATime, Busy, Outlived, AtWork, Kept,
    Running, Threads
<1> QED BY <1>1, <1>2, <1>3 DEF SweepInv

LEMMA ResumeKeeps == ASSUME SweepInv, NEW w \in Sweeps, Resume(w) PROVE SweepInv'
<1> USE HomeAssumption
<1>1. SweepTypeOK'
  BY DEF Resume, MoveTo, SweepInv, SweepTypeOK, Threads, Tasks, Jobs, Sessions
<1>2. OneAtATime'
  BY DEF Resume, MoveTo, SweepInv, SweepTypeOK, OneAtATime, Busy, Outlived, Running, Threads
<1>3. ASSUME NEW v \in Sweeps PROVE (Outlived(v) /\ AtWork(v) /\ Kept(v))'
    BY DEF Resume, MoveTo, SweepInv, SweepTypeOK, OneAtATime, Busy, Outlived, AtWork, Kept,
    Running, Threads
<1> QED BY <1>1, <1>2, <1>3 DEF SweepInv

LEMMA CallStoreOnThreadKeeps == ASSUME SweepInv, NEW w \in Sweeps, CallStoreOnThread(w) PROVE SweepInv'
<1> USE HomeAssumption
<1>1. SweepTypeOK'
  BY DEF CallStoreOnThread, OnThread, MoveTo, SweepInv, SweepTypeOK, Threads, Tasks, Jobs, Sessions
<1>2. OneAtATime'
    BY DEF CallStoreOnThread, OnThread, MoveTo, SweepInv, SweepTypeOK, OneAtATime, Busy, Outlived,
    Running, Threads
<1>3. ASSUME NEW v \in Sweeps PROVE (Outlived(v) /\ AtWork(v) /\ Kept(v))'
    BY DEF CallStoreOnThread, OnThread, MoveTo, SweepInv, SweepTypeOK, OneAtATime, Busy, Outlived,
    AtWork, Kept, Running, Threads
<1> QED BY <1>1, <1>2, <1>3 DEF SweepInv

LEMMA StoreDoneKeeps == ASSUME SweepInv, NEW w \in Sweeps, StoreDone(w) PROVE SweepInv'
<1> USE HomeAssumption
<1>1. SweepTypeOK'
  BY DEF StoreDone, Finished, SweepInv, SweepTypeOK, Threads, Tasks, Jobs, Sessions
<1>2. OneAtATime'
  BY DEF StoreDone, Finished, SweepInv, SweepTypeOK, OneAtATime, Busy, Outlived, Running, Threads
<1>3. ASSUME NEW v \in Sweeps PROVE (Outlived(v) /\ AtWork(v) /\ Kept(v))'
    BY DEF StoreDone, Finished, SweepInv, SweepTypeOK, OneAtATime, Busy, Outlived, AtWork, Kept,
    Running, Threads
<1> QED BY <1>1, <1>2, <1>3 DEF SweepInv

LEMMA SweepDoneKeeps == ASSUME SweepInv, NEW w \in Sweeps, SweepDone(w) PROVE SweepInv'
<1> USE HomeAssumption
<1>1. SweepTypeOK'
  BY DEF SweepDone, MoveTo, SweepInv, SweepTypeOK, Threads, Tasks, Jobs, Sessions
<1>2. OneAtATime'
  BY DEF SweepDone, MoveTo, SweepInv, SweepTypeOK, OneAtATime, Busy, Outlived, Running, Threads
<1>3. ASSUME NEW v \in Sweeps PROVE (Outlived(v) /\ AtWork(v) /\ Kept(v))'
    BY DEF SweepDone, MoveTo, SweepInv, SweepTypeOK, OneAtATime, Busy, Outlived, AtWork, Kept,
    Running, Threads
<1> QED BY <1>1, <1>2, <1>3 DEF SweepInv

LEMMA CancelSweepKeeps == ASSUME SweepInv, NEW w \in Sweeps, CancelSweep(w) PROVE SweepInv'
<1> USE HomeAssumption
<1>1. SweepTypeOK'
  BY DEF CancelSweep, MoveTo, SweepInv, SweepTypeOK, Threads, Tasks, Jobs, Sessions
<1>2. OneAtATime'
  BY DEF CancelSweep, MoveTo, SweepInv, SweepTypeOK, OneAtATime, Busy, Outlived, Running, Threads
<1>3. ASSUME NEW v \in Sweeps PROVE (Outlived(v) /\ AtWork(v) /\ Kept(v))'
    BY DEF CancelSweep, MoveTo, SweepInv, SweepTypeOK, OneAtATime, Busy, Outlived, AtWork, Kept,
    Running, Threads
<1> QED BY <1>1, <1>2, <1>3 DEF SweepInv

LEMMA DrainedKeeps == ASSUME SweepInv, NEW w \in Sweeps, Drained(w) PROVE SweepInv'
<1> USE HomeAssumption
<1>1. SweepTypeOK'
  BY DEF Drained, AfterDrain, MoveTo, SweepInv, SweepTypeOK, Threads, Tasks, Jobs, Sessions
<1>2. OneAtATime'
    BY DEF Drained, AfterDrain, MoveTo, SweepInv, SweepTypeOK, OneAtATime, Busy, Outlived,
    Running, Threads
<1>3. ASSUME NEW v \in Sweeps PROVE (Outlived(v) /\ AtWork(v) /\ Kept(v))'
    BY DEF Drained, AfterDrain, MoveTo, SweepInv, SweepTypeOK, OneAtATime, Busy, Outlived, AtWork,
    Kept, Running, Threads
<1> QED BY <1>1, <1>2, <1>3 DEF SweepInv

LEMMA DrainExpiredKeeps == ASSUME SweepInv, NEW w \in Sweeps, DrainExpired(w) PROVE SweepInv'
<1> USE HomeAssumption
<1>1. SweepTypeOK'
  BY DEF DrainExpired, AfterDrain, MoveTo, SweepInv, SweepTypeOK, Threads, Tasks, Jobs, Sessions
<1>2. OneAtATime'
    BY DEF DrainExpired, AfterDrain, MoveTo, SweepInv, SweepTypeOK, OneAtATime, Busy, Outlived,
    Running, Threads
<1>3. ASSUME NEW v \in Sweeps PROVE (Outlived(v) /\ AtWork(v) /\ Kept(v))'
    BY DEF DrainExpired, AfterDrain, MoveTo, SweepInv, SweepTypeOK, OneAtATime, Busy, Outlived,
    AtWork, Kept, Running, Threads
<1> QED BY <1>1, <1>2, <1>3 DEF SweepInv

LEMMA ReleaseKeeps == ASSUME SweepInv, NEW w \in Sweeps, release(w) PROVE SweepInv'
<1> USE HomeAssumption
<1>1. SweepTypeOK'
  <2>1. [job |-> "exit", state |-> "running", conn |-> NoSweep] \in Threads
    BY DEF Threads, Jobs
  <2> QED BY <2>1 DEF release, OnThread, MoveTo, SweepInv, SweepTypeOK, Tasks
<1>2. OneAtATime'
    BY DEF release, OnThread, MoveTo, SweepInv, SweepTypeOK, OneAtATime, Busy, Outlived, Running,
    Threads
<1>3. ASSUME NEW v \in Sweeps PROVE (Outlived(v) /\ AtWork(v) /\ Kept(v))'
    BY DEF release, OnThread, MoveTo, SweepInv, SweepTypeOK, OneAtATime, Busy, Outlived, AtWork,
    Kept, Running, Threads
<1> QED BY <1>1, <1>2, <1>3 DEF SweepInv

LEMMA ExitOnThreadKeeps == ASSUME SweepInv, NEW w \in Sweeps, ExitOnThread(w) PROVE SweepInv'
<1> USE HomeAssumption
<1>1. SweepTypeOK'
  BY DEF ExitOnThread, ExitLock, Finished, SweepInv, SweepTypeOK, Threads, Tasks, Jobs, Sessions
<1>2. OneAtATime'
    BY DEF ExitOnThread, ExitLock, Finished, SweepInv, SweepTypeOK, OneAtATime, Busy, Outlived,
    Running, Threads
<1>3. ASSUME NEW v \in Sweeps PROVE (Outlived(v) /\ AtWork(v) /\ Kept(v))'
  <2>1. Outlived(v)'
    BY DEF ExitOnThread, ExitLock, Finished, SweepInv, SweepTypeOK, Outlived, Running, Threads
  <2>2. AtWork(v)'
    <3>1. CASE v = w
      BY <3>1 DEF ExitOnThread, ExitLock, Finished, SweepInv, SweepTypeOK, AtWork, Running, Threads
    <3>2. CASE v # w
      <4>1. worker'[v] = worker[v] /\ task'[v] = task[v] /\ session'[v] = session[v]
        BY <3>2 DEF ExitOnThread, ExitLock, Finished, SweepInv, SweepTypeOK
      <4>2. lockConn[Home[v]] = v => lockConn'[Home[v]] = v
        BY <3>2 DEF ExitOnThread, ExitLock, Finished, SweepInv, SweepTypeOK
      <4>3. AtWork(v)
        BY DEF SweepInv
      <4> QED BY <3>2, <4>1, <4>2, <4>3 DEF AtWork, Running
    <3> QED BY <3>1, <3>2
  <2>3. Kept(v)'
    BY DEF ExitOnThread, ExitLock, Finished, SweepInv, SweepTypeOK, AtWork, Kept, Running, Threads
  <2> QED BY <2>1, <2>2, <2>3
<1> QED BY <1>1, <1>2, <1>3 DEF SweepInv

LEMMA ReleaseLateKeeps == ASSUME SweepInv, NEW w \in Sweeps, ReleaseLate(w) PROVE SweepInv'
<1> USE HomeAssumption
<1>1. SweepTypeOK'
  BY DEF ReleaseLate, ExitLock, SweepInv, SweepTypeOK, Threads, Tasks, Jobs, Sessions
<1>2. OneAtATime'
  BY DEF ReleaseLate, ExitLock, SweepInv, SweepTypeOK, OneAtATime, Busy, Outlived, Running, Threads
<1>3. ASSUME NEW v \in Sweeps PROVE (Outlived(v) /\ AtWork(v) /\ Kept(v))'
  <2>1. Outlived(v)'
    BY DEF ReleaseLate, ExitLock, SweepInv, SweepTypeOK, Outlived, Running, Threads
  <2>2. AtWork(v)'
    BY ZenonT(40) DEF ReleaseLate, ExitLock, SweepInv, SweepTypeOK, OneAtATime, Busy, Outlived, AtWork,
       Running, Threads
  <2>3. Kept(v)'
    BY DEF ReleaseLate, ExitLock, SweepInv, SweepTypeOK, AtWork, Kept, Running, Threads
  <2> QED BY <2>1, <2>2, <2>3
<1> QED BY <1>1, <1>2, <1>3 DEF SweepInv

LEMMA SessionLostKeeps == ASSUME SweepInv, NEW w \in Sweeps, SessionLost(w) PROVE SweepInv'
<1> USE HomeAssumption
<1>1. SweepTypeOK'
  BY DEF SessionLost, SweepInv, SweepTypeOK, Threads, Tasks, Jobs, Sessions
<1>2. OneAtATime'
  BY DEF SessionLost, SweepInv, SweepTypeOK, OneAtATime, Busy, Outlived, Running, Threads
<1>3. ASSUME NEW v \in Sweeps PROVE (Outlived(v) /\ AtWork(v) /\ Kept(v))'
    BY DEF SessionLost, SweepInv, SweepTypeOK, OneAtATime, Busy, Outlived, AtWork, Kept, Running,
    Threads
<1> QED BY <1>1, <1>2, <1>3 DEF SweepInv

LEMMA ProcessExitKeeps == ASSUME SweepInv, NEW r \in Replicas, ProcessExit(r) PROVE SweepInv'
<1> USE HomeAssumption
<1>1. SweepTypeOK'
  BY DEF ProcessExit, SweepInv, SweepTypeOK, NoThread, Threads, Tasks, Jobs, Sessions
<1>2. OneAtATime'
  BY DEF ProcessExit, SweepInv, SweepTypeOK, OneAtATime, Busy, Running, NoThread
<1>3. ASSUME NEW v \in Sweeps PROVE (Outlived(v) /\ AtWork(v) /\ Kept(v))'
  BY DEF ProcessExit, SweepInv, SweepTypeOK, Outlived, AtWork, Kept, Running, NoThread
<1> QED BY <1>1, <1>2, <1>3 DEF SweepInv

LEMMA SweepSteps == SweepInv /\ [SweepNext]_sweepVars => SweepInv'
<1> SUFFICES ASSUME SweepInv, [SweepNext]_sweepVars PROVE SweepInv'
  OBVIOUS
<1>1. ASSUME NEW w \in Sweeps, Thread(w) PROVE SweepInv'
    BY <1>1, EnterLockKeeps, EnterFailsKeeps, StoreDoneKeeps, ExitOnThreadKeeps, ReleaseLateKeeps
    DEF Thread
<1>2. ASSUME NEW w \in Sweeps, Coroutine(w) PROVE SweepInv'
  BY <1>2, StartSweepKeeps, ResumeKeeps, CallStoreOnThreadKeeps, SweepDoneKeeps, CancelSweepKeeps,
     DrainedKeeps, DrainExpiredKeeps, ReleaseKeeps
  DEF Coroutine
<1>3. CASE UNCHANGED sweepVars
  BY <1>3
  DEF sweepVars, SweepInv, SweepTypeOK, OneAtATime, Busy, Outlived, AtWork, Kept, Running
<1> QED BY <1>1, <1>2, <1>3, SessionLostKeeps, ProcessExitKeeps DEF SweepNext

\* StatementsUnderLock: a statement that can still commit runs on the connection
\* of its own sweep, and that connection has the lock, whatever the cancellations,
\* expired drains, late releases, lost sessions and killed processes
\* (cogs/indexer.py _release, _hand_off; cogs/catalog.py _sweep_connection).
THEOREM SweepsWriteUnderLock == SweepSpec => []StatementsUnderLock
<1>1. SweepInv => StatementsUnderLock
  BY HomeAssumption DEF SweepInv, SweepTypeOK, AtWork, Kept, StatementsUnderLock
<1> QED BY SweepStarts, SweepSteps, <1>1, PTL DEF SweepSpec

-----------------------------------------------------------------------------
(***************************************************************************)
(* LocalWorkers.  While a launcher lives, its entry in _ports is its own   *)
(* (PortsHeld), so two living launchers have two ports, and whoever        *)
(* answers on a living launcher's port is its worker.  A port probed stays *)
(* free until it is entered because _lock_start is held in between         *)
(* (StartLocked, ProbedFree).                                              *)
(***************************************************************************)
Living(w) == launcher[w] \notin {"none", "exited"}
NotYet == {"idle", "resolved", "refused", "starting", "probed"}

\* A worker's processes: none before the launch, and none that serves after the launcher.
ProcessesEnd ==
  \A w \in Workers :
    /\ launcher[w] = "none" => child[w] = "none"
    /\ Exited(w) => child[w] \in {"none", "forked", "gone"}
    /\ launcher[w] = "none" <=> at[w] \in NotYet

StartLocked == up => \A w \in Workers : at[w] \in {"starting", "probed"} => starting = w
ProbedFree ==
  up => \A w \in Workers : at[w] = "probed" =>
          port[w] \in Ports /\ \A u \in Workers : Living(u) => port[u] # port[w]
PortsHeld == \A w \in Workers : Living(w) => port[w] \in Ports /\ ports[port[w]] = w

LocalInv == LocalTypeOK /\ ProcessesEnd /\ StartLocked /\ ProbedFree /\ PortsHeld /\ WorkersAreOwn

Stages == {"idle", "resolved", "refused", "starting", "probed", "launched", "polling", "asking",
           "ready", "stopping", "waiting", "stopped"}

LEMMA LocalInitially == LocalInit => LocalInv
<1> SUFFICES ASSUME LocalInit PROVE LocalInv
  OBVIOUS
<1>1. LocalTypeOK
  BY DEF LocalInit, LocalTypeOK
<1>2. ProcessesEnd /\ StartLocked /\ ProbedFree /\ PortsHeld
  BY DEF LocalInit, ProcessesEnd, StartLocked, ProbedFree, PortsHeld, NotYet, Exited, Living
<1>3. WorkersAreOwn
  BY DEF LocalInit, WorkersAreOwn
<1> QED BY <1>1, <1>2, <1>3 DEF LocalInv

\* A step of the controller's thread that neither takes nor holds the lock.
LEMMA ThreadStep ==
  ASSUME LocalInv, NEW w \in Workers, NEW stage \in Stages, at' = [at EXCEPT ![w] = stage],
         UNCHANGED <<up, port, ports, starting, launcher, child, killed>>, lifeline' \in [Workers -> BOOLEAN],
         stage \notin {"starting", "probed"}, at[w] \in NotYet <=> stage \in NotYet, stage = "stopped" => Exited(w),
         answered' \in [Workers -> Workers \cup {None}],
         \A u \in Workers : answered'[u] \in {answered[u], u}
  PROVE  LocalInv'
<1>0. at' \in [Workers -> Stages] /\ \A u \in Workers : at'[u] = IF u = w THEN stage ELSE at[u]
  BY DEF LocalInv, LocalTypeOK, Stages
<1>1. LocalTypeOK'
  BY <1>0 DEF LocalInv, LocalTypeOK, Stages
<1>2. ProcessesEnd'
  BY <1>0 DEF LocalInv, ProcessesEnd, Exited
<1>3. StartLocked' /\ ProbedFree' /\ PortsHeld'
  BY <1>0 DEF LocalInv, StartLocked, ProbedFree, PortsHeld, Living
<1>4. WorkersAreOwn'
  BY <1>0 DEF LocalInv, WorkersAreOwn, ProcessesEnd, Exited
<1> QED BY <1>1, <1>2, <1>3, <1>4 DEF LocalInv

\* A step of a launcher or of its worker process, or their end.
LEMMA ProcessStep ==
  ASSUME LocalInv, NEW w \in Workers,
         NEW l \in {"forking", "watching", "asked", "killing", "exited"},
         NEW c \in {"none", "forked", "starting", "serving", "gone"}, NEW stage \in Stages,
         launcher' = [launcher EXCEPT ![w] = l], child' = [child EXCEPT ![w] = c], at' = [at EXCEPT ![w] = stage],
         UNCHANGED <<up, port, ports, starting, lifeline, answered>>, killed' \in Nat,
         launcher[w] # "none", Exited(w) => l = "exited", l = "exited" => c \in {"none", "forked", "gone"},
         stage = at[w] \/ (stage = "stopped" /\ l = "exited" /\ at[w] = "waiting")
  PROVE  LocalInv'
<1>0. /\ at' \in [Workers -> Stages] /\ \A u \in Workers : at'[u] = IF u = w THEN stage ELSE at[u]
      /\ \A u \in Workers : launcher'[u] = IF u = w THEN l ELSE launcher[u]
      /\ \A u \in Workers : child'[u] = IF u = w THEN c ELSE child[u]
  BY DEF LocalInv, LocalTypeOK, Stages
<1>1. LocalTypeOK'
  BY <1>0 DEF LocalInv, LocalTypeOK, Stages
<1>2. \A u \in Workers : Living(u)' => Living(u)
  BY <1>0 DEF Living, Exited
<1>3. ProcessesEnd'
  BY <1>0 DEF LocalInv, ProcessesEnd, Exited, NotYet
<1>4. at[w] \notin {"starting", "probed"} /\ stage \notin {"starting", "probed"}
  BY DEF LocalInv, ProcessesEnd, NotYet
<1>5. StartLocked' /\ ProbedFree' /\ PortsHeld'
  <2>1. \A u \in Workers : at'[u] \in {"starting", "probed"} => at'[u] = at[u]
    BY <1>0, <1>4
  <2> QED BY <1>2, <2>1 DEF LocalInv, StartLocked, ProbedFree, PortsHeld
<1>6. WorkersAreOwn'
  BY <1>0, <1>3 DEF LocalInv, WorkersAreOwn, ProcessesEnd, Exited
<1> QED BY <1>1, <1>3, <1>5, <1>6 DEF LocalInv

LEMMA LocalKeeps == LocalInv /\ [LocalNext]_localVars => LocalInv'
<1> SUFFICES ASSUME LocalInv, [LocalNext]_localVars PROVE LocalInv'
  OBVIOUS
<1>0. /\ at \in [Workers -> Stages] /\ port \in [Workers -> Ports \cup {None}] /\ ports \in [Ports -> Workers \cup {None}]
      /\ starting \in Workers \cup {None} /\ lifeline \in [Workers -> BOOLEAN] /\ killed \in Nat
      /\ launcher \in [Workers -> {"none", "forking", "watching", "asked", "killing", "exited"}]
      /\ child \in [Workers -> {"none", "forked", "starting", "serving", "gone"}]
      /\ answered \in [Workers -> Workers \cup {None}] /\ None \notin Workers
      /\ ProcessesEnd /\ StartLocked /\ ProbedFree /\ PortsHeld /\ WorkersAreOwn
  BY LocalAssumption DEF LocalInv, LocalTypeOK, Stages
<1>1. CASE UNCHANGED localVars
  BY <1>1 DEF localVars, LocalInv, LocalTypeOK, ProcessesEnd, StartLocked, ProbedFree, PortsHeld, WorkersAreOwn, Living,
     Exited
<1>2. ASSUME NEW w \in Workers, MaterializeLocal(w) PROVE LocalInv'
  <2>1. PICK stage \in {"resolved", "refused"} : at' = [at EXCEPT ![w] = stage]
    BY <1>2 DEF MaterializeLocal, GoesTo
  <2> QED BY <1>0, <1>2, <2>1, ThreadStep DEF MaterializeLocal, NotYet, Stages
<1>3. ASSUME NEW w \in Workers, Enter(w) PROVE LocalInv'
  <2>1. /\ up /\ at[w] = "resolved" /\ starting = None /\ starting' = w /\ at' = [at EXCEPT ![w] = "starting"]
        /\ UNCHANGED <<up, port, ports, lifeline, launcher, child, answered, killed>>
    BY <1>3 DEF Enter, LockStart, GoesTo
  <2>2. at' \in [Workers -> Stages] /\ \A u \in Workers : at'[u] = IF u = w THEN "starting" ELSE at[u]
    BY <1>0, <2>1 DEF Stages
  <2>3. LocalTypeOK'
    BY <2>1, <2>2 DEF LocalInv, LocalTypeOK, Stages
  <2>4. ProcessesEnd'
    BY <1>0, <2>1, <2>2 DEF ProcessesEnd, NotYet, Exited
  <2>5. StartLocked'
    BY <1>0, <2>1, <2>2 DEF StartLocked
  <2>6. ProbedFree' /\ PortsHeld'
    BY <1>0, <2>1, <2>2 DEF ProbedFree, PortsHeld, Living
  <2>7. WorkersAreOwn'
    BY <1>0, <2>1, <2>2 DEF WorkersAreOwn, Exited
  <2> QED BY <2>3, <2>4, <2>5, <2>6, <2>7 DEF LocalInv
<1>4. ASSUME NEW w \in Workers, Probe(w) PROVE LocalInv'
  <2>1. PICK p \in Ports : ServingOn(p) = {} /\ Taken(p) = {} /\ port' = [port EXCEPT ![w] = p]
    BY <1>4 DEF Probe
  <2>2. /\ up /\ at[w] = "starting" /\ at' = [at EXCEPT ![w] = "probed"]
        /\ ports' = [q \in Ports |-> IF ports[q] # None /\ Exited(ports[q]) THEN None ELSE ports[q]]
        /\ UNCHANGED <<up, starting, lifeline, launcher, child, answered, killed>>
    BY <1>4 DEF Probe, GoesTo
  <2>3. /\ at' \in [Workers -> Stages] /\ \A u \in Workers : at'[u] = IF u = w THEN "probed" ELSE at[u]
        /\ port' \in [Workers -> Ports \cup {None}] /\ \A u \in Workers : port'[u] = IF u = w THEN p ELSE port[u]
        /\ ports' \in [Ports -> Workers \cup {None}]
    BY <1>0, <2>1, <2>2 DEF Stages
  <2>4. launcher[w] = "none"
    BY <1>0, <2>2 DEF ProcessesEnd, NotYet
  <2>5. LocalTypeOK'
    BY <2>2, <2>3 DEF LocalInv, LocalTypeOK, Stages
  <2>6. ProcessesEnd'
    BY <1>0, <2>2, <2>3 DEF ProcessesEnd, NotYet, Exited
  <2>7. StartLocked'
    BY <1>0, <2>2, <2>3 DEF StartLocked
  <2>8. ASSUME NEW u \in Workers, Living(u) PROVE u # w /\ port[u] # p /\ port[u] \in Ports /\ ports'[port[u]] = u
    <3>1. u # w /\ port[u] \in Ports /\ ports[port[u]] = u /\ ~Exited(u)
      BY <1>0, <2>4, <2>8 DEF Living, PortsHeld, Exited
    <3>2. port[u] # p
      BY <2>1, <3>1 DEF Taken
    <3> QED BY <2>2, <3>1, <3>2
  <2>9. ASSUME NEW v \in Workers, v # w PROVE at[v] # "probed"
    BY <1>0, <2>2, <2>9 DEF StartLocked
  <2>10. ProbedFree' /\ PortsHeld'
    <3>1. \A u \in Workers : Living(u)' <=> Living(u)
      BY <2>2 DEF Living
    <3> QED BY <2>1, <2>3, <2>8, <2>9, <3>1 DEF ProbedFree, PortsHeld
  <2>11. WorkersAreOwn'
    BY <1>0, <2>2, <2>3 DEF WorkersAreOwn, Exited
  <2> QED BY <2>5, <2>6, <2>7, <2>10, <2>11 DEF LocalInv
<1>5. ASSUME NEW w \in Workers, StartFails(w) PROVE LocalInv'
  <2>1. /\ up /\ at[w] \in {"starting", "probed"} /\ starting' = (IF starting = w THEN None ELSE starting)
        /\ at' = [at EXCEPT ![w] = "refused"]
        /\ UNCHANGED <<up, port, ports, lifeline, launcher, child, answered, killed>>
    BY <1>5 DEF StartFails, GoesTo
  <2>2. at' \in [Workers -> Stages] /\ \A u \in Workers : at'[u] = IF u = w THEN "refused" ELSE at[u]
    BY <1>0, <2>1 DEF Stages
  <2>3. LocalTypeOK'
    BY <2>1, <2>2 DEF LocalInv, LocalTypeOK, Stages
  <2>4. ProcessesEnd'
    BY <1>0, <2>1, <2>2 DEF ProcessesEnd, NotYet, Exited
  <2>5. StartLocked'
    BY <1>0, <2>1, <2>2 DEF StartLocked
  <2>6. ProbedFree' /\ PortsHeld'
    BY <1>0, <2>1, <2>2 DEF ProbedFree, PortsHeld, Living
  <2>7. WorkersAreOwn'
    BY <1>0, <2>1, <2>2 DEF WorkersAreOwn, Exited
  <2> QED BY <2>3, <2>4, <2>5, <2>6, <2>7 DEF LocalInv
<1>6. ASSUME NEW w \in Workers, Launch(w) PROVE LocalInv'
  <2>1. /\ up /\ at[w] = "probed" /\ launcher' = [launcher EXCEPT ![w] = "forking"] /\ lifeline' = [lifeline EXCEPT ![w] = TRUE]
        /\ ports' = [ports EXCEPT ![port[w]] = w] /\ starting' = (IF starting = w THEN None ELSE starting)
        /\ at' = [at EXCEPT ![w] = "launched"] /\ UNCHANGED <<up, port, child, answered, killed>>
    BY <1>6 DEF Launch, GoesTo
  <2>2. port[w] \in Ports /\ \A u \in Workers : Living(u) => port[u] # port[w]
    BY <1>0, <2>1 DEF ProbedFree
  <2>3. /\ at' \in [Workers -> Stages] /\ \A u \in Workers : at'[u] = IF u = w THEN "launched" ELSE at[u]
        /\ \A u \in Workers : launcher'[u] = IF u = w THEN "forking" ELSE launcher[u]
        /\ \A q \in Ports : ports'[q] = IF q = port[w] THEN w ELSE ports[q]
    BY <1>0, <2>1, <2>2 DEF Stages
  <2>4. LocalTypeOK'
    BY <1>0, <2>1, <2>2, <2>3 DEF LocalInv, LocalTypeOK, Stages
  <2>5. ProcessesEnd'
    BY <1>0, <2>1, <2>3 DEF ProcessesEnd, NotYet, Exited
  <2>6. StartLocked'
    BY <1>0, <2>1, <2>3 DEF StartLocked
  <2>7. ASSUME NEW v \in Workers, v # w PROVE at[v] # "probed"
    BY <1>0, <2>1, <2>7 DEF StartLocked
  <2>8. ProbedFree'
    BY <2>3, <2>7 DEF ProbedFree
  <2>9. PortsHeld'
    BY <1>0, <2>1, <2>2, <2>3 DEF PortsHeld, Living
  <2>10. WorkersAreOwn'
    BY <1>0, <2>1, <2>3 DEF WorkersAreOwn, Exited
  <2> QED BY <2>4, <2>5, <2>6, <2>8, <2>9, <2>10 DEF LocalInv
<1>7. ASSUME NEW w \in Workers, ReadLine(w) \/ PollLauncher(w) \/ NotReady(w) \/ TeardownLocal(w) \/ Stopped(w)
      PROVE  LocalInv'
  <2>1. PICK stage \in {"polling", "stopping", "asking", "stopped"} :
          at' = [at EXCEPT ![w] = stage] /\ (stage = "stopped" => Exited(w))
    BY <1>7 DEF ReadLine, PollLauncher, NotReady, TeardownLocal, Stopped, GoesTo
  <2>2. at[w] \notin NotYet /\ UNCHANGED <<up, port, ports, starting, lifeline, launcher, child, answered, killed>>
    BY <1>7 DEF ReadLine, PollLauncher, NotReady, TeardownLocal, Stopped, NotYet
  <2>3. stage \in Stages /\ stage \notin NotYet /\ stage \notin {"starting", "probed"}
    BY DEF Stages, NotYet
  <2> QED BY <1>0, <2>1, <2>2, <2>3, ThreadStep
<1>8. ASSUME NEW w \in Workers, StopWorker(w) PROVE LocalInv'
  <2>1. lifeline' \in [Workers -> BOOLEAN] /\ at' = [at EXCEPT ![w] = "waiting"] /\ at[w] = "stopping"
        /\ UNCHANGED <<up, port, ports, starting, launcher, child, answered, killed>>
    BY <1>0, <1>8 DEF StopWorker, CloseStreams, GoesTo
  <2> QED BY <1>0, <2>1, ThreadStep DEF Stages, NotYet
<1>9. ASSUME NEW w \in Workers, Healthz(w) PROVE LocalInv'
  <2>1. PICK u \in ServingOn(port[w]) : answered' = [answered EXCEPT ![w] = IF Exited(w) THEN answered[w] ELSE u]
    BY <1>9 DEF Healthz
  <2>2. at[w] = "asking" /\ at' = [at EXCEPT ![w] = "ready"] /\ UNCHANGED <<up, port, ports, starting, lifeline, launcher, child, killed>>
    BY <1>9 DEF Healthz, GoesTo
  <2>3. u \in Workers /\ child[u] = "serving" /\ port[u] = port[w]
    BY <2>1 DEF ServingOn
  <2>4. Living(u)
    BY <1>0, <2>3 DEF ProcessesEnd, Living, Exited
  <2>5. ~Exited(w) => Living(w)
    BY <1>0, <2>2 DEF ProcessesEnd, Living, Exited, NotYet
  <2>6. ~Exited(w) => u = w
    BY <1>0, <2>3, <2>4, <2>5 DEF PortsHeld
  <2>7. answered' \in [Workers -> Workers \cup {None}] /\ \A v \in Workers : answered'[v] \in {answered[v], v}
    BY <1>0, <2>1, <2>3, <2>6
  <2> QED BY <1>0, <2>2, <2>7, ThreadStep DEF Stages, NotYet
<1>10. ASSUME NEW w \in Workers, LauncherStep(w) PROVE LocalInv'
  <2>1. /\ launcher[w] \in {"forking", "watching", "asked", "killing"}
        /\ UNCHANGED <<up, at, port, ports, starting, lifeline, answered, killed>>
    BY <1>10 DEF LauncherStep, SayPid, Ask, KillGroup, LauncherExits, Fork
  <2>2. PICK l \in {"forking", "watching", "asked", "killing", "exited"}, c \in {"none", "forked", "starting", "serving", "gone"} :
          /\ launcher' = [launcher EXCEPT ![w] = l] /\ child' = [child EXCEPT ![w] = c]
          /\ l = "exited" => c \in {"none", "forked", "gone"}
    <3>0. launcher = [launcher EXCEPT ![w] = launcher[w]] /\ child = [child EXCEPT ![w] = child[w]]
      BY <1>0
    <3>1. CASE SayPid(w)
      BY <1>0, <3>0, <3>1 DEF SayPid
    <3>2. CASE Ask(w)
      BY <1>0, <3>0, <3>2 DEF Ask
    <3>3. CASE KillGroup(w)
      BY <1>0, <3>0, <3>3 DEF KillGroup
    <3>4. CASE LauncherExits(w)
      BY <1>0, <3>0, <3>4 DEF LauncherExits
    <3>5. CASE Fork(w)
      BY <1>0, <3>0, <3>5 DEF Fork
    <3> QED BY <1>10, <3>1, <3>2, <3>3, <3>4, <3>5 DEF LauncherStep
  <2>3. PICK stage \in Stages : stage = at[w]
    BY <1>0
  <2>4. at' = [at EXCEPT ![w] = stage] /\ killed' \in Nat /\ launcher[w] # "none" /\ ~Exited(w)
    BY <1>0, <2>1, <2>3 DEF Exited
  <2> QED BY <2>1, <2>2, <2>3, <2>4, ProcessStep
<1>11. ASSUME NEW w \in Workers, DieWithLauncher(w) \/ Bind(w) \/ ChildEnds(w) PROVE LocalInv'
  <2>1. /\ child[w] \in {"forked", "starting", "serving"} /\ UNCHANGED <<up, at, port, ports, starting, lifeline, launcher, answered, killed>>
        /\ child[w] = "forked" \/ ~Exited(w)
    BY <1>0, <1>11 DEF DieWithLauncher, Bind, ChildEnds, ProcessesEnd
  <2>2. PICK c \in {"starting", "serving", "gone"} :
          child' = [child EXCEPT ![w] = c] /\ (Exited(w) => c = "gone")
    <3>1. CASE DieWithLauncher(w)
      BY <3>1 DEF DieWithLauncher, Arm
    <3>2. CASE Bind(w) \/ ChildEnds(w)
      BY <1>0, <3>2 DEF Bind, ChildEnds, ProcessesEnd
    <3> QED BY <1>11, <3>1, <3>2
  <2>3. PICK stage \in Stages, l \in {"forking", "watching", "asked", "killing", "exited"} : stage = at[w] /\ l = launcher[w]
    BY <1>0, <2>1 DEF ProcessesEnd
  <2>4. at' = [at EXCEPT ![w] = stage] /\ launcher' = [launcher EXCEPT ![w] = l]
    BY <1>0, <2>1, <2>3
  <2>5. killed' \in Nat /\ launcher[w] # "none" /\ (Exited(w) => l = "exited") /\ (l = "exited" => c \in {"none", "forked", "gone"})
    BY <1>0, <2>1, <2>2, <2>3 DEF Exited
  <2> QED BY <2>1, <2>2, <2>3, <2>4, <2>5, ProcessStep
<1>12. ASSUME NEW w \in Workers, LauncherKilled(w) \/ StopTimesOut(w) PROVE LocalInv'
  <2>1. /\ launcher' = [launcher EXCEPT ![w] = "exited"] /\ child' = [child EXCEPT ![w] = Dies(w)]
        /\ UNCHANGED <<up, port, ports, starting, lifeline, answered>> /\ killed' \in Nat
    BY <1>0, <1>12 DEF LauncherKilled, StopTimesOut
  <2>2. Dies(w) \in {"none", "forked", "gone"}
    BY <1>0 DEF Dies
  <2>3. launcher[w] # "none"
    BY <1>0, <1>12 DEF LauncherKilled, StopTimesOut, ProcessesEnd, NotYet
  <2>4. PICK stage \in Stages : at' = [at EXCEPT ![w] = stage] /\ (stage = at[w] \/ (stage = "stopped" /\ at[w] = "waiting"))
    <3>1. CASE LauncherKilled(w)
      BY <1>0, <3>1 DEF LauncherKilled
    <3>2. CASE StopTimesOut(w)
      BY <1>0, <3>2 DEF StopTimesOut, GoesTo, Stages
    <3> QED BY <1>12, <3>1, <3>2
  <2> QED BY <1>0, <2>1, <2>2, <2>3, <2>4, ProcessStep
<1>13. CASE ControllerDies
  <2>1. /\ up' = FALSE /\ lifeline' \in [Workers -> BOOLEAN] /\ starting' = None
        /\ UNCHANGED <<at, port, ports, launcher, child, answered, killed>>
    BY <1>13 DEF ControllerDies
  <2>2. LocalTypeOK'
    BY <2>1 DEF LocalInv, LocalTypeOK
  <2> QED BY <1>0, <2>1, <2>2 DEF LocalInv, ProcessesEnd, StartLocked, ProbedFree, PortsHeld, WorkersAreOwn, Living, Exited
<1> QED BY <1>1, <1>2, <1>3, <1>4, <1>5, <1>6, <1>7, <1>8, <1>9, <1>10, <1>11, <1>12, <1>13 DEF LocalNext

(* However many workers start, end and are killed at once, whoever answers a
   living launcher's health check is its own worker, and a teardown that has
   returned leaves no process that could serve (local.py, launcher.py). *)
THEOREM LocalWorkersAreOwn == LocalSpec => []WorkersAreOwn
<1>1. LocalInv => WorkersAreOwn
  BY DEF LocalInv
<1>2. LocalInit /\ [][LocalNext]_localVars => []LocalInv
  BY LocalInitially, LocalKeeps, PTL
<1> QED BY <1>1, <1>2, PTL DEF LocalSpec

-----------------------------------------------------------------------------
(***************************************************************************)
(* KubernetesWorkers.  The policy is applied first and deleted last; what  *)
(* a removal or a cleaning has passed on its list is deleted, or reported  *)
(* (DeletedSoFar), so at the policy's turn the Deployment is one of both.  *)
(***************************************************************************)
\* What is not on the list any more is not in the cluster, or reported.
DeletedSoFar(reported) ==
  /\ Deployment \in cluster \ reported => executor.left \in {<<Deployment, Service, Policy>>, <<Deployment, Service>>}
  /\ Service \in cluster \ reported => executor.left # <<Policy>>

ExecutorTrue ==
  /\ ~Isolated => Policy \notin cluster
  /\ executor.at \in {"applying", "waiting", "cleaning", "raised"} => ~handle
  /\ executor.at \in {"removing", "calling"} => handle
  /\ Isolated /\ executor.at = "applying" /\ executor.left # <<Policy, Deployment, Service>> => Policy \in cluster
  /\ ~Isolated /\ executor.at = "applying" => executor.left # <<Policy, Deployment, Service>>
  /\ Isolated /\ executor.at = "waiting" => Policy \in cluster
  /\ Isolated /\ handle /\ executor.at # "removing" => Policy \in cluster \cup told
  /\ executor.at = "removing" => DeletedSoFar({})
  /\ executor.at = "cleaning" => DeletedSoFar(told)
  /\ executor.at = "raised" => cluster \subseteq told
  /\ executor.at = "calling" => ran = 0

KubernetesInv == KubernetesTypeOK /\ ExecutorTrue /\ WorkersAreContained

LEMMA HeadsAndTails ==
  ASSUME NEW a, NEW b, NEW c
  PROVE  /\ Head(<<a>>) = a /\ Tail(<<a>>) = <<>>
         /\ Head(<<a, b>>) = a /\ Tail(<<a, b>>) = <<b>> /\ Tail(<<a, b>>) # <<>>
         /\ Head(<<a, b, c>>) = a /\ Tail(<<a, b, c>>) = <<b, c>> /\ Tail(<<a, b, c>>) # <<>>
  OBVIOUS

LEMMA PathsSplit ==
  /\ Head(<<Deployment, Service, Policy>>) = Deployment /\ Tail(<<Deployment, Service, Policy>>) = <<Service, Policy>>
  /\ Head(<<Service, Policy>>) = Service /\ Tail(<<Service, Policy>>) = <<Policy>>
  /\ Head(<<Policy>>) = Policy /\ Tail(<<Policy>>) = <<>>
  /\ Head(<<Deployment, Service>>) = Deployment /\ Tail(<<Deployment, Service>>) = <<Service>>
  /\ Head(<<Service>>) = Service /\ Tail(<<Service>>) = <<>>
  /\ <<Service, Policy>> # <<>> /\ <<Policy>> # <<>> /\ <<Service>> # <<>>
  BY HeadsAndTails

LEMMA KubernetesNames ==
  /\ Policy # Deployment /\ Deployment # Service /\ Policy # Service
  /\ <<Deployment, Service, Policy>> # <<Service, Policy>> /\ <<Deployment, Service, Policy>> # <<Policy>>
  /\ <<Service, Policy>> # <<Policy>> /\ <<Deployment, Service>> # <<Service>>
  /\ <<Deployment, Service>> # <<Service, Policy>> /\ <<Deployment, Service>> # <<Policy>> /\ <<Service>> # <<Policy>>
  /\ <<Service>> # <<Deployment, Service, Policy>> /\ <<Deployment, Service, Policy>> # <<Deployment, Service>>
  /\ <<Policy, Deployment, Service>> # <<Deployment, Service>> /\ <<Policy, Deployment, Service>> # <<Service>>
  /\ Applied = IF Isolated THEN <<Policy, Deployment, Service>> ELSE <<Deployment, Service>>
  /\ ResourcePaths = IF Isolated THEN <<Deployment, Service, Policy>> ELSE <<Deployment, Service>>
<1>3. Policy # Deployment /\ Deployment # Service /\ Policy # Service
  BY DEF Policy, Deployment, Service
<1> QED BY <1>3 DEF Applied, ResourcePaths

LEMMA ListRanges ==
  /\ Range(<<Deployment, Service, Policy>>) = {Deployment, Service, Policy}
  /\ Range(<<Service, Policy>>) = {Service, Policy}
  /\ Range(<<Policy>>) = {Policy}
  /\ Range(<<Deployment, Service>>) = {Deployment, Service}
  /\ Range(<<Service>>) = {Service}
<1>1. ASSUME NEW a PROVE Range(<<a>>) = {a}
  <2>1. DOMAIN <<a>> = {1} /\ <<a>>[1] = a
    OBVIOUS
  <2> QED BY <2>1 DEF Range
<1>2. ASSUME NEW a, NEW b PROVE Range(<<a, b>>) = {a, b}
  <2>1. DOMAIN <<a, b>> = {1, 2} /\ <<a, b>>[1] = a /\ <<a, b>>[2] = b
    OBVIOUS
  <2> QED BY <2>1 DEF Range
<1>3. ASSUME NEW a, NEW b, NEW c PROVE Range(<<a, b, c>>) = {a, b, c}
  <2>1. DOMAIN <<a, b, c>> = {1, 2, 3} /\ <<a, b, c>>[1] = a /\ <<a, b, c>>[2] = b /\ <<a, b, c>>[3] = c
    OBVIOUS
  <2> QED BY <2>1 DEF Range
<1>4. Range(<<Service>>) = {Service} /\ Range(<<Policy>>) = {Policy}
  BY <1>1, Zenon
<1>5. Range(<<Service, Policy>>) = {Service, Policy} /\ Range(<<Deployment, Service>>) = {Deployment, Service}
  BY <1>2, Zenon
<1>6. Range(<<Deployment, Service, Policy>>) = {Deployment, Service, Policy}
  BY <1>3, Zenon
<1> QED BY <1>4, <1>5, <1>6

LEMMA KubernetesInitially == KubernetesInit => KubernetesInv
<1> SUFFICES ASSUME KubernetesInit PROVE KubernetesInv
  OBVIOUS
<1>1. executor.at = "rest" /\ cluster = {} /\ ran = 0 /\ told = {} /\ orphaned = {} /\ ~handle
  BY DEF KubernetesInit, AtRest
<1>2. ready \in BOOLEAN /\ handle \in BOOLEAN /\ ending \in BOOLEAN
  BY DEF KubernetesInit
<1>3. KubernetesTypeOK
  BY <1>1, <1>2 DEF KubernetesTypeOK
<1> QED BY <1>1, <1>3 DEF KubernetesInv, ExecutorTrue, WorkersAreContained

LEMMA KubernetesKeeps == KubernetesInv /\ [KubernetesNext]_kubernetesVars => KubernetesInv'
<1> SUFFICES ASSUME KubernetesInv, [KubernetesNext]_kubernetesVars PROVE KubernetesInv'
  OBVIOUS
<1> USE DEF KubernetesInv, KubernetesTypeOK, ExecutorTrue, WorkersAreContained
<1>1. CASE UNCHANGED kubernetesVars
  BY <1>1 DEF kubernetesVars, reports, DeletedSoFar
<1>2. CASE MaterializePod
  <2>1. executor'.at = "applying" /\ executor'.left = Applied /\ ~handle /\ UNCHANGED <<cluster, ready, ending, handle, told, orphaned, ran>>
    BY <1>2 DEF MaterializePod, Doing, reports
  <2> QED BY <2>1, KubernetesNames
<1>3. CASE Apply
  <2>1. /\ executor.at = "applying" /\ cluster' = cluster \cup {Head(executor.left)} /\ UNCHANGED <<ready, ending, handle, ran>>
        /\ told' = told \ {Head(executor.left)} /\ orphaned' = orphaned \ {Head(executor.left)}
    BY <1>3 DEF Apply, ReportSettled
  <2>2. executor.left = <<Policy, Deployment, Service>> =>
          Isolated /\ Head(executor.left) = Policy /\ executor'.at = "applying" /\ executor'.left = <<Deployment, Service>>
    BY <1>3, HeadsAndTails DEF Apply, Doing
  <2>3. executor.left = <<Deployment, Service>> =>
          Head(executor.left) = Deployment /\ executor'.at = "applying" /\ executor'.left = <<Service>>
    BY <1>3, HeadsAndTails DEF Apply, Doing
  <2>4. executor.left = <<Service>> => Head(executor.left) = Service /\ executor'.at = "waiting"
    BY <1>3, HeadsAndTails DEF Apply, Doing
  <2> QED BY <2>1, <2>2, <2>3, <2>4, KubernetesNames
<1>4. CASE ApplyFails
  <2>1. /\ executor.at = "applying" /\ cluster' \in {cluster, cluster \cup {Head(executor.left)}}
        /\ executor'.at = "cleaning" /\ executor'.left = ResourcePaths /\ UNCHANGED <<ready, ending, handle, told, orphaned, ran>>
    BY <1>4 DEF ApplyFails, CleanUp, Doing, reports
  <2>2. /\ executor.left = <<Policy, Deployment, Service>> => Isolated /\ Head(executor.left) = Policy
        /\ executor.left = <<Deployment, Service>> => Head(executor.left) = Deployment
        /\ executor.left = <<Service>> => Head(executor.left) = Service
    BY <2>1, HeadsAndTails
  <2> QED BY <2>1, <2>2, KubernetesNames DEF DeletedSoFar
<1>5. CASE BecomesReady
  BY <1>5 DEF BecomesReady, AtRest, reports
<1>6. CASE WaitFails
  <2>1. executor.at = "waiting" /\ executor'.at = "cleaning" /\ executor'.left = ResourcePaths
        /\ UNCHANGED <<cluster, ready, ending, handle, told, orphaned, ran>>
    BY <1>6 DEF WaitFails, CleanUp, Doing, reports
  <2> QED BY <2>1, KubernetesNames DEF DeletedSoFar
\* The head of the list and what follows it.
<1>7. ASSUME executor.at \in {"cleaning", "removing"}
      PROVE  \/ /\ executor.left = <<Deployment, Service, Policy>> /\ Isolated
                /\ Head(executor.left) = Deployment /\ Tail(executor.left) = <<Service, Policy>> /\ Tail(executor.left) # <<>>
             \/ /\ executor.left = <<Service, Policy>> /\ Isolated
                /\ Head(executor.left) = Service /\ Tail(executor.left) = <<Policy>> /\ Tail(executor.left) # <<>>
             \/ /\ executor.left = <<Policy>> /\ Isolated
                /\ Head(executor.left) = Policy /\ Tail(executor.left) = <<>>
             \/ /\ executor.left = <<Deployment, Service>> /\ ~Isolated
                /\ Head(executor.left) = Deployment /\ Tail(executor.left) = <<Service>> /\ Tail(executor.left) # <<>>
             \/ /\ executor.left = <<Service>> /\ ~Isolated
                /\ Head(executor.left) = Service /\ Tail(executor.left) = <<>>
  <2>1. CASE Isolated
    <3>1. executor.left \in {<<Deployment, Service, Policy>>, <<Service, Policy>>, <<Policy>>}
      BY <1>7, <2>1
    <3> QED BY ONLY <2>1, <3>1, PathsSplit
  <2>2. CASE ~Isolated
    <3>1. executor.left \in {<<Deployment, Service>>, <<Service>>}
      BY <1>7, <2>2
    <3> QED BY ONLY <2>2, <3>1, PathsSplit
  <2> QED BY <2>1, <2>2
<1>8. CASE Deleted
  <2>0. /\ cluster' = cluster \ {Head(executor.left)} /\ UNCHANGED ran
        /\ told' = told \ {Head(executor.left)} /\ orphaned' = orphaned \ {Head(executor.left)}
        /\ ready' \in BOOLEAN /\ ending' \in BOOLEAN
    BY <1>8 DEF Deleted, Delete, ReportSettled
  <2>1. CASE executor.at = "cleaning"
    <3>1. /\ UNCHANGED handle
          /\ executor'.at = IF Tail(executor.left) = <<>> THEN "raised" ELSE "cleaning"
          /\ executor'.left = Tail(executor.left)
      <4>1. executor' = After(Tail(executor.left)) /\ UNCHANGED handle
        BY <1>8, <2>1 DEF Deleted
      <4> QED BY <4>1 DEF After, Doing
    <3> QED BY <1>7, <2>0, <2>1, <3>1, KubernetesNames DEF DeletedSoFar
  <2>2. CASE executor.at = "removing"
    <3>1. /\ handle' <=> (handle /\ Tail(executor.left) # <<>>)
          /\ handle' \in BOOLEAN
          /\ executor'.at = IF Tail(executor.left) = <<>> THEN "rest" ELSE "removing"
          /\ executor'.left = Tail(executor.left)
      <4>1. /\ executor' = IF Tail(executor.left) = <<>> THEN AtRest ELSE Doing("removing", Tail(executor.left))
            /\ handle' = (handle /\ Tail(executor.left) # <<>>)
        BY <1>8, <2>2 DEF Deleted
      <4> QED BY <4>1 DEF AtRest, Doing
    <3> QED BY <1>7, <2>0, <2>2, <3>1, KubernetesNames DEF DeletedSoFar
  <2> QED BY <1>8, <2>1, <2>2 DEF Deleted
<1>9. ASSUME MayDelete(Head(executor.left))
      PROVE  cluster' \in {cluster, cluster \ {Head(executor.left)}} /\ ready' \in BOOLEAN /\ ending' \in BOOLEAN
  BY <1>9 DEF MayDelete, Delete
<1>10. CASE CleanupFails
  <2>1. /\ executor.at = "cleaning" /\ told' = told \cup {Head(executor.left)} /\ UNCHANGED <<handle, orphaned, ran>>
        /\ executor'.at = IF Tail(executor.left) = <<>> THEN "raised" ELSE "cleaning"
        /\ executor'.left = Tail(executor.left)
    BY <1>10 DEF CleanupFails, After, Doing
  <2>2. cluster' \in {cluster, cluster \ {Head(executor.left)}} /\ ready' \in BOOLEAN /\ ending' \in BOOLEAN
    BY <1>9, <1>10 DEF CleanupFails
  <2> QED BY <1>7, <2>1, <2>2, KubernetesNames DEF DeletedSoFar
<1>11. CASE TeardownFails
  <2>1. /\ executor.at = "removing" /\ told' = told \cup Range(executor.left) /\ UNCHANGED <<orphaned, ran>>
        /\ executor'.at = "rest" /\ handle' \in BOOLEAN
    BY <1>11 DEF TeardownFails, AtRest
  <2>2. cluster' \in {cluster, cluster \ {Head(executor.left)}} /\ ready' \in BOOLEAN /\ ending' \in BOOLEAN
    BY <1>9, <1>11 DEF TeardownFails
  <2>3. /\ Isolated => Policy \in Range(executor.left)
        /\ cluster \subseteq Range(executor.left)
        /\ Range(executor.left) \subseteq {Policy, Deployment, Service}
    BY <1>7, <2>1, ListRanges, KubernetesNames DEF DeletedSoFar
  <2>4. Isolated /\ Deployment \in cluster' => Policy \in cluster'
    BY <1>7, <2>1, <2>2, KubernetesNames DEF DeletedSoFar
  <2> QED BY <2>1, <2>2, <2>3, <2>4
<1>12. CASE Raised
  BY <1>12 DEF Raised, AtRest, reports
<1>13. CASE TeardownPod
  <2>1. executor.at = "rest" /\ handle /\ executor'.at = "removing" /\ executor'.left = ResourcePaths
        /\ UNCHANGED <<cluster, ready, ending, handle, told, orphaned, ran>>
    BY <1>13 DEF TeardownPod, Doing, reports
  <2> QED BY <2>1, KubernetesNames DEF DeletedSoFar
<1>14. CASE Interact
  <2>1. executor.at = "rest" /\ executor'.at = "calling" /\ ran' = 0 /\ handle /\ UNCHANGED <<cluster, ready, ending, handle, told, orphaned>>
    BY <1>14 DEF Interact, Doing, reports
  <2> QED BY <2>1
<1>15. CASE NoConnection
  <2>1. executor'.at \in {"rest", "calling"} /\ executor.at = "calling" /\ UNCHANGED <<cluster, ready, ending, handle, told, orphaned, ran>>
    <3>1. [executor EXCEPT !.try = executor.try + 1].at = executor.at
      OBVIOUS
    <3> QED BY <1>15, <3>1 DEF NoConnection, Again, AtRest, reports
  <2> QED BY <2>1
<1>16. CASE Answer \/ NoAnswer
  <2>1. executor.at = "calling" /\ executor'.at = "rest" /\ ran' = ran + 1 /\ UNCHANGED <<cluster, ready, ending, handle, told, orphaned>>
    BY <1>16 DEF Answer, NoAnswer, GiveUpCall, AtRest, reports
  <2> QED BY <2>1
<1>17. CASE Readiness
  BY <1>17 DEF Readiness, DeletedSoFar, reports
<1>18. CASE PodEnds
  BY <1>18 DEF PodEnds, DeletedSoFar, reports
<1>19. CASE Crash
  BY <1>19 DEF Crash, AtRest
<1> QED BY <1>1, <1>2, <1>3, <1>4, <1>5, <1>6, <1>8, <1>10, <1>11, <1>12, <1>13, <1>14, <1>15, <1>16, <1>17, <1>18, <1>19
        DEF KubernetesNext

(* However requests fail, with or without their effect, whenever the host stops
   and however long a deleted pod goes on, a Deployment is without its policy
   only where its own removal was reported to have failed, a worker handed over
   has every pod of its name behind it, each resource left behind was reported
   or left by a host that stopped, and a call runs at most once (kubernetes.py). *)
THEOREM PodsAreContained == KubernetesSpec => []WorkersAreContained
<1>1. KubernetesInv => WorkersAreContained
  BY DEF KubernetesInv
<1> QED BY <1>1, KubernetesInitially, KubernetesKeeps, PTL DEF KubernetesSpec

-----------------------------------------------------------------------------
(***************************************************************************)
(* CliRuns.  A prompt has no response until it is answered and one from    *)
(* then on (OneResponse); a session is cancelled only with every prompt    *)
(* that was read before told so (CancelsSeen); and the run a command has   *)
(* seen completed or cancelled is so for good (SeenIsFinal).               *)
(***************************************************************************)
PromptStages == {"unsent", "posting", "waiting", "asking", "answered"}
Said == {"result", "session", "error", "end_turn", "cancelled", "late", "none", "answer", "failure"}
PromptRecords == [at : PromptStages, session : AcpSessions \cup {"none"}, polls : Nat]

OneResponse ==
  \A r \in Requests :
    /\ prompt[r].at # "answered" => answers[r] = {}
    /\ prompt[r].at = "answered" => \E f \in Final : answers[r] \cap Final = {f}
CancelsSeen ==
  \A r \in Requests :
    /\ prompt[r].at \in {"posting", "waiting", "asking"} /\ prompt[r].session \in cancelledSessions => since[r]
    /\ "cancelled" \in answers[r] => since[r]
PromptsJoined == exited => ~reading /\ \A r \in Requests : prompt[r].at \in {"unsent", "answered"}
SeenIsFinal ==
  /\ command.at = "saying" => command.name = "say"
  /\ command.at = "following" => command.name # "say"
  /\ command.seen \in {"COMPLETED", "CANCELLED"} => run = command.seen
  /\ command.at = "exited" /\ command.exit = 0 => DidAsAsked(command, command.seen)

RunsInv == RunsTypeOK /\ OneResponse /\ CancelsSeen /\ PromptsJoined /\ SeenIsFinal

LEMMA RunsInitially == RunsInit => RunsInv
<1> SUFFICES ASSUME RunsInit PROVE RunsInv
  OBVIOUS
<1>1. RunsTypeOK
  BY DEF RunsInit, RunsTypeOK, NoPrompt, NoCommand, CommandRecords, Statuses
<1>2. OneResponse /\ CancelsSeen /\ PromptsJoined
  BY DEF RunsInit, OneResponse, CancelsSeen, PromptsJoined, NoPrompt
<1>3. SeenIsFinal
  BY DEF RunsInit, SeenIsFinal, NoCommand
<1> QED BY <1>1, <1>2, <1>3 DEF RunsInv

\* A step of the bridge about one request: its stage and what it says.
LEMMA RequestStep ==
  ASSUME RunsInv, NEW r \in Requests, NEW p \in PromptRecords, NEW a \in SUBSET Said,
         prompt' = [prompt EXCEPT ![r] = p], answers' = [answers EXCEPT ![r] = a],
         UNCHANGED <<run, reading, exited, since, cancels, command>>, ~exited,
         turn' \in [Requests -> {"none", "pending", "answer", "failure"}],
         opened' \subseteq AcpSessions, cancelledSessions' \subseteq cancelledSessions,
         p.at # "answered" => a = {},
         p.at = "answered" => \E f \in Final : a \cap Final = {f},
         p.at \in {"posting", "waiting", "asking"} /\ p.session \in cancelledSessions' => since[r],
         "cancelled" \in a => since[r]
  PROVE  RunsInv'
<1>0. /\ \A q \in Requests : prompt'[q] = IF q = r THEN p ELSE prompt[q]
      /\ \A q \in Requests : answers'[q] = IF q = r THEN a ELSE answers[q]
  BY DEF RunsInv, RunsTypeOK
<1>1. RunsTypeOK'
  BY DEF RunsInv, RunsTypeOK, PromptRecords, PromptStages, Said
<1>2. OneResponse'
  BY <1>0 DEF RunsInv, OneResponse
<1>3. CancelsSeen'
  BY <1>0 DEF RunsInv, CancelsSeen
<1>4. PromptsJoined' /\ SeenIsFinal'
  BY DEF RunsInv, PromptsJoined, SeenIsFinal
<1> QED BY <1>1, <1>2, <1>3, <1>4 DEF RunsInv

\* A step of a run command.
LEMMA CommandStep ==
  ASSUME RunsInv, UNCHANGED <<run, bridgeVars>>,
         command' \in CommandRecords, command'.seen \in {run, command.seen, "none"},
         command'.at = "saying" => command'.name = "say", command'.at = "following" => command'.name # "say",
         command'.at = "exited" /\ command'.exit = 0 => DidAsAsked(command', command'.seen)
  PROVE  RunsInv'
<1>1. RunsTypeOK'
  BY DEF RunsInv, RunsTypeOK, bridgeVars
<1>2. OneResponse' /\ CancelsSeen' /\ PromptsJoined'
  BY DEF RunsInv, OneResponse, CancelsSeen, PromptsJoined, bridgeVars
<1>3. SeenIsFinal'
  BY DEF RunsInv, SeenIsFinal
<1> QED BY <1>1, <1>2, <1>3 DEF RunsInv

LEMMA RunsKeep == RunsInv /\ [RunsNext]_runsVars => RunsInv'
<1> SUFFICES ASSUME RunsInv, [RunsNext]_runsVars PROVE RunsInv'
  OBVIOUS
<1>0. /\ RunsTypeOK /\ OneResponse /\ CancelsSeen /\ PromptsJoined /\ SeenIsFinal
      /\ prompt \in [Requests -> PromptRecords] /\ answers \in [Requests -> SUBSET Said]
  BY DEF RunsInv, RunsTypeOK, PromptRecords, PromptStages, Said
<1>a. ASSUME NEW r \in Requests, NEW stage \in PromptStages, At(r, stage)
      PROVE  \E p \in PromptRecords : /\ p = [prompt[r] EXCEPT !.at = stage] /\ prompt' = [prompt EXCEPT ![r] = p]
                                      /\ p.at = stage /\ p.session = prompt[r].session
  <2>1. prompt[r] \in PromptRecords
    BY <1>0
  <2>2. [prompt[r] EXCEPT !.at = stage] \in PromptRecords
    BY <2>1 DEF PromptRecords
  <2>3. [prompt[r] EXCEPT !.at = stage].at = stage /\ [prompt[r] EXCEPT !.at = stage].session = prompt[r].session
    BY <2>1 DEF PromptRecords
  <2>4. prompt' = [prompt EXCEPT ![r] = [prompt[r] EXCEPT !.at = stage]]
    BY <1>a DEF At
  <2> QED BY <2>2, <2>3, <2>4
<1>b. ASSUME NEW r \in Requests, prompt[r].at # "answered"
      PROVE  answers[r] = {}
  BY <1>0, <1>b DEF OneResponse
<1>1. CASE UNCHANGED runsVars
  BY <1>0, <1>1 DEF runsVars, RunsInv, RunsTypeOK, OneResponse, CancelsSeen, PromptsJoined, SeenIsFinal
<1>2. ASSUME NEW r \in Requests, Simple(r) PROVE RunsInv'
  <2>1. PICK p \in PromptRecords : prompt' = [prompt EXCEPT ![r] = p] /\ p.at = "answered"
    BY <1>a, <1>2 DEF Simple, PromptStages
  <2>2. answers' = [answers EXCEPT ![r] = {"result"}] /\ {"result"} \in SUBSET Said
    BY <1>b, <1>2 DEF Simple, Says, Unread, Said
  <2>3. {"result"} \cap Final = {"result"} /\ "result" \in Final /\ ~exited
    BY <1>0, <1>2 DEF Final, Simple, Unread, PromptsJoined
  <2>4. /\ UNCHANGED <<run, turn, opened, cancelledSessions, reading, exited, since, cancels, command>>
        /\ turn' \in [Requests -> {"none", "pending", "answer", "failure"}] /\ opened' \subseteq AcpSessions
    BY <1>0, <1>2 DEF Simple, RunsTypeOK
  <2> QED BY <2>1, <2>2, <2>3, <2>4, RequestStep
<1>3. ASSUME NEW r \in Requests, NewSession(r) PROVE RunsInv'
  <2>1. PICK p \in PromptRecords : prompt' = [prompt EXCEPT ![r] = p] /\ p.at = "answered"
    BY <1>a, <1>3 DEF NewSession, PromptStages
  <2>2. PICK f \in {"session", "error"} : answers' = [answers EXCEPT ![r] = {f}]
    BY <1>b, <1>3 DEF NewSession, Says, Unread
  <2>3. {f} \in SUBSET Said /\ {f} \cap Final = {f} /\ f \in Final /\ "cancelled" \notin {f} /\ ~exited
    BY <1>0, <1>3 DEF Final, Said, NewSession, Unread, PromptsJoined
  <2>4. /\ UNCHANGED <<run, turn, cancelledSessions, reading, exited, since, cancels, command>>
        /\ turn' \in [Requests -> {"none", "pending", "answer", "failure"}] /\ opened' \subseteq AcpSessions
    BY <1>0, <1>3 DEF NewSession, RunsTypeOK
  <2> QED BY <2>1, <2>2, <2>3, <2>4, RequestStep
<1>4. ASSUME NEW r \in Requests, NEW s \in AcpSessions, Prompt(r, s) PROVE RunsInv'
  <2>0. /\ UNCHANGED <<run, turn, opened, reading, exited, since, cancels, command>>
        /\ turn' \in [Requests -> {"none", "pending", "answer", "failure"}] /\ opened' \subseteq AcpSessions /\ ~exited
        /\ answers[r] = {}
    BY <1>0, <1>b, <1>4 DEF Prompt, RunsTypeOK, Unread, PromptsJoined
  <2>1. CASE s \in opened
    <3>1. PICK p \in PromptRecords : p = [at |-> "posting", session |-> s, polls |-> 0]
      BY DEF PromptRecords, PromptStages
    <3>2. /\ prompt' = [prompt EXCEPT ![r] = p] /\ cancelledSessions' = cancelledSessions \ {s}
          /\ answers' = [answers EXCEPT ![r] = {}]
      BY <1>0, <1>4, <2>0, <2>1, <3>1 DEF Prompt, ClearCancel
    <3>3. p.at = "posting" /\ p.session \notin cancelledSessions' /\ {} \in SUBSET Said
      BY <3>1, <3>2
    <3> QED BY <2>0, <3>2, <3>3, RequestStep
  <2>2. CASE s \notin opened
    <3>1. PICK p \in PromptRecords : prompt' = [prompt EXCEPT ![r] = p] /\ p.at = "answered"
      BY <1>a, <1>4, <2>2 DEF Prompt, PromptStages
    <3>2. answers' = [answers EXCEPT ![r] = {"error"}] /\ {"error"} \in SUBSET Said
      BY <1>4, <2>0, <2>2 DEF Prompt, Says, Said
    <3>3. {"error"} \cap Final = {"error"} /\ "error" \in Final /\ UNCHANGED cancelledSessions
      BY <1>4, <2>2 DEF Final, Prompt
    <3> QED BY <2>0, <3>1, <3>2, <3>3, RequestStep
  <2> QED BY <2>1, <2>2
<1>5. ASSUME NEW r \in Requests, Post(r) PROVE RunsInv'
  <2>0. /\ UNCHANGED <<run, opened, cancelledSessions, reading, exited, since, cancels, command>>
        /\ turn' \in [Requests -> {"none", "pending", "answer", "failure"}] /\ opened' \subseteq AcpSessions /\ ~exited
        /\ answers[r] = {} /\ prompt[r].at = "posting"
    BY <1>0, <1>b, <1>5 DEF Post, RunsTypeOK
  <2>1. CASE At(r, "waiting") /\ UNCHANGED answers
    <3>1. PICK p \in PromptRecords :
            prompt' = [prompt EXCEPT ![r] = p] /\ p.at = "waiting" /\ p.session = prompt[r].session
      BY <1>a, <2>1 DEF PromptStages
    <3>2. answers' = [answers EXCEPT ![r] = {}] /\ {} \in SUBSET Said
      BY <1>0, <2>0, <2>1
    <3>3. p.session \in cancelledSessions' => since[r]
      BY <1>0, <2>0, <3>1 DEF CancelsSeen
    <3> QED BY <2>0, <3>1, <3>2, <3>3, RequestStep
  <2>2. CASE At(r, "answered") /\ Says(r, "end_turn")
    <3>1. PICK p \in PromptRecords : prompt' = [prompt EXCEPT ![r] = p] /\ p.at = "answered"
      BY <1>a, <2>2 DEF PromptStages
    <3>2. answers' = [answers EXCEPT ![r] = {"end_turn"}] /\ {"end_turn"} \in SUBSET Said
      BY <2>0, <2>2 DEF Says, Said
    <3>3. {"end_turn"} \cap Final = {"end_turn"} /\ "end_turn" \in Final
      BY DEF Final
    <3> QED BY <2>0, <3>1, <3>2, <3>3, RequestStep
  <2> QED BY <1>5, <2>1, <2>2 DEF Post
<1>6. ASSUME NEW r \in Requests, LookAtCancel(r) PROVE RunsInv'
  <2>0. /\ UNCHANGED <<run, turn, opened, cancelledSessions, reading, exited, since, cancels, command>>
        /\ turn' \in [Requests -> {"none", "pending", "answer", "failure"}] /\ opened' \subseteq AcpSessions /\ ~exited
        /\ answers[r] = {} /\ prompt[r].at = "waiting"
    BY <1>0, <1>b, <1>6 DEF LookAtCancel, RunsTypeOK
  <2>1. CASE prompt[r].session \in cancelledSessions
    <3>1. PICK p \in PromptRecords : prompt' = [prompt EXCEPT ![r] = p] /\ p.at = "answered"
      BY <1>a, <1>6, <2>1 DEF LookAtCancel, PromptStages
    <3>2. answers' = [answers EXCEPT ![r] = {"cancelled"}] /\ {"cancelled"} \in SUBSET Said
      BY <1>6, <2>0, <2>1 DEF LookAtCancel, Says, Said
    <3>3. {"cancelled"} \cap Final = {"cancelled"} /\ "cancelled" \in Final /\ since[r]
      BY <1>0, <2>0, <2>1 DEF Final, CancelsSeen
    <3> QED BY <2>0, <3>1, <3>2, <3>3, RequestStep
  <2>2. CASE prompt[r].session \notin cancelledSessions
    <3>1. PICK p \in PromptRecords :
            prompt' = [prompt EXCEPT ![r] = p] /\ p.at = "asking" /\ p.session = prompt[r].session
      BY <1>a, <1>6, <2>2 DEF LookAtCancel, PromptStages
    <3>2. answers' = [answers EXCEPT ![r] = {}] /\ {} \in SUBSET Said
      BY <1>0, <1>6, <2>0, <2>2 DEF LookAtCancel
    <3>3. p.session \notin cancelledSessions'
      BY <2>0, <2>2, <3>1
    <3> QED BY <2>0, <3>1, <3>2, <3>3, RequestStep
  <2> QED BY <2>1, <2>2
<1>7. ASSUME NEW r \in Requests, PollTurn(r) PROVE RunsInv'
  <2>0. /\ UNCHANGED <<run, turn, opened, cancelledSessions, reading, exited, since, cancels, command>>
        /\ turn' \in [Requests -> {"none", "pending", "answer", "failure"}] /\ opened' \subseteq AcpSessions /\ ~exited
        /\ answers[r] = {} /\ prompt[r].at = "asking" /\ turn[r] \in {"none", "pending", "answer", "failure"}
    BY <1>0, <1>b, <1>7 DEF PollTurn, RunsTypeOK
  <2>1. CASE UNCHANGED answers /\ prompt' = [prompt EXCEPT ![r].at = "waiting", ![r].polls = @ + 1]
    <3>1. PICK p \in PromptRecords :
            prompt' = [prompt EXCEPT ![r] = p] /\ p.at = "waiting" /\ p.session = prompt[r].session
      <4>1. [prompt[r] EXCEPT !.at = "waiting", !.polls = @ + 1] \in PromptRecords
        <5>1. prompt[r] \in PromptRecords /\ prompt[r].polls + 1 \in Nat
          BY <1>0 DEF PromptRecords
        <5> QED BY <5>1 DEF PromptRecords, PromptStages
      <4> QED BY <1>0, <2>1, <4>1 DEF PromptRecords
    <3>2. answers' = [answers EXCEPT ![r] = {}] /\ {} \in SUBSET Said
      BY <1>0, <2>0, <2>1
    <3>3. p.session \in cancelledSessions' => since[r]
      BY <1>0, <2>0, <3>1 DEF CancelsSeen
    <3> QED BY <2>0, <3>1, <3>2, <3>3, RequestStep
  <2>2. CASE At(r, "answered") /\ \E t \in {"none", "late", "answer", "failure", "end_turn"} :
               answers' = [answers EXCEPT ![r] = @ \cup {t, "end_turn"}]
    <3>1. PICK p \in PromptRecords : prompt' = [prompt EXCEPT ![r] = p] /\ p.at = "answered"
      BY <1>a, <2>2 DEF PromptStages
    <3>2. PICK t \in {"none", "late", "answer", "failure", "end_turn"} : answers' = [answers EXCEPT ![r] = {t, "end_turn"}]
      BY <2>0, <2>2
    <3>3. {t, "end_turn"} \cap Final = {"end_turn"} /\ "end_turn" \in Final /\ {t, "end_turn"} \in SUBSET Said
      BY DEF Final, Said
    <3> QED BY <2>0, <3>1, <3>2, <3>3, RequestStep
  <2>3. CASE turn[r] # "pending" /\ At(r, "answered") /\ answers' = [answers EXCEPT ![r] = @ \cup {turn[r], "end_turn"}]
    BY <2>0, <2>2, <2>3
  <2>4. CASE At(r, "answered") /\ answers' = [answers EXCEPT ![r] = @ \cup {"late", "end_turn"}]
    BY <2>2, <2>4
  <2>5. CASE At(r, "answered") /\ Says(r, "end_turn")
    <3>1. {"end_turn", "end_turn"} = {"end_turn"}
      OBVIOUS
    <3> QED BY <2>2, <2>5, <3>1 DEF Says
  <2> QED BY <1>7, <2>1, <2>3, <2>4, <2>5 DEF PollTurn
<1>8. ASSUME NEW r \in Requests, TurnMoves(r) PROVE RunsInv'
  <2>1. turn' \in [Requests -> {"none", "pending", "answer", "failure"}]
    BY <1>0, <1>8 DEF TurnMoves, RunsTypeOK
  <2> QED BY <1>0, <1>8, <2>1 DEF TurnMoves, RunsInv, RunsTypeOK, OneResponse, CancelsSeen, PromptsJoined, SeenIsFinal
<1>9. ASSUME NEW s \in AcpSessions, CancelPrompt(s) PROVE RunsInv'
  <2>1. /\ UNCHANGED <<run, turn, opened, prompt, reading, exited, answers, command>>
        /\ cancelledSessions' = cancelledSessions \cup {s} /\ cancels' = cancels + 1
        /\ since' = [r \in Requests |-> since[r] \/ (prompt[r].session = s /\ prompt[r].at # "answered")]
    BY <1>9 DEF CancelPrompt
  <2>2. since' \in [Requests -> BOOLEAN]
    BY <1>0, <2>1 DEF RunsTypeOK
  <2>3. RunsTypeOK'
    BY <1>0, <2>1, <2>2 DEF RunsTypeOK
  <2>4. CancelsSeen'
    BY <1>0, <2>1 DEF CancelsSeen
  <2>5. OneResponse' /\ PromptsJoined' /\ SeenIsFinal'
    BY <1>0, <2>1 DEF OneResponse, PromptsJoined, SeenIsFinal
  <2> QED BY <2>3, <2>4, <2>5 DEF RunsInv
<1>10. CASE EndOfInput \/ Exit
  <2>1. /\ UNCHANGED <<run, turn, opened, cancelledSessions, prompt, answers, since, cancels, command>>
        /\ reading' \in BOOLEAN /\ exited' \in BOOLEAN
    BY <1>0, <1>10 DEF EndOfInput, Exit, RunsTypeOK
  <2>2. PromptsJoined'
    BY <1>0, <1>10, <2>1 DEF EndOfInput, Exit, JoinPrompts, PromptsJoined
  <2>3. OneResponse' /\ CancelsSeen' /\ SeenIsFinal'
    BY <1>0, <2>1 DEF OneResponse, CancelsSeen, SeenIsFinal
  <2>4. RunsTypeOK'
    BY <1>0, <2>1 DEF RunsTypeOK
  <2> QED BY <2>2, <2>3, <2>4 DEF RunsInv
<1>c. command \in CommandRecords /\ run \in Statuses /\ command.seen \in Statuses \cup {"none"}
  BY <1>0 DEF RunsTypeOK, CommandRecords
<1>11. ASSUME NEW name \in {"watch", "terminate", "terminate_no_wait"}, StartCommand(name) PROVE RunsInv'
  <2>1. UNCHANGED <<run, bridgeVars>>
    BY <1>11 DEF StartCommand
  <2>2. /\ command' \in CommandRecords /\ command'.seen = run
        /\ command'.name = name /\ name # "say" /\ command'.at # "saying"
        /\ command'.at = "exited" => command'.exit = 1
    BY <1>11, <1>c DEF StartCommand, NoCommand, CommandRecords
  <2> QED BY <2>1, <2>2, CommandStep
<1>12. CASE Follow
  <2>1. UNCHANGED <<run, bridgeVars>>
    BY <1>12 DEF Follow
  <2>2. /\ command' \in CommandRecords /\ command'.seen \in {run, command.seen}
        /\ command'.name = command.name /\ command'.name # "say" /\ command'.at # "saying"
        /\ command'.at = "exited" => command'.exit = 1
    BY <1>0, <1>12, <1>c DEF Follow, CommandRecords, SeenIsFinal
  <2> QED BY <2>1, <2>2, CommandStep
<1>13. CASE Finish
  <2>1. ExitCode(command.name, command.seen) \in {0, 1, 3, 4, 6}
    BY DEF ExitCode, RunExit
  <2>2. /\ command.at = "following" /\ HasSettled(command.name, command.seen) /\ UNCHANGED <<run, bridgeVars>>
        /\ command' = [command EXCEPT !.at = "exited", !.exit = ExitCode(command.name, command.seen)]
    BY <1>13 DEF Finish
  <2>3. command' \in CommandRecords /\ command'.seen = command.seen /\ command'.name = command.name
        /\ command'.exit = ExitCode(command.name, command.seen) /\ command.name # "say"
        /\ command'.at = "exited"
    BY <1>0, <1>c, <2>1, <2>2 DEF CommandRecords, SeenIsFinal
  <2>4. command'.exit = 0 => DidAsAsked(command', command'.seen)
    <3>1. command.name = "watch" /\ ExitCode(command.name, command.seen) = 0 => command.seen = "COMPLETED"
      BY DEF ExitCode, RunExit
    <3>2. command.name # "watch" /\ ExitCode(command.name, command.seen) = 0 =>
            command.seen \notin EndedRuns \/ command.seen = "CANCELLED"
      BY DEF ExitCode
    <3>3. command.name = "terminate" => command.seen \in EndedRuns
      BY <2>2 DEF HasSettled
    <3> QED BY <2>3, <3>1, <3>2, <3>3 DEF DidAsAsked
  <2> QED BY <2>2, <2>3, <2>4, CommandStep
<1>15. CASE Say
  <2>1. UNCHANGED <<run, bridgeVars>>
    BY <1>15 DEF Say
  <2>2. /\ command' \in CommandRecords /\ command'.seen = "none" /\ command'.name = "say"
        /\ command'.at # "following" /\ (command'.at = "exited" => command'.exit = 1)
    BY <1>15 DEF Say, NoCommand, CommandRecords
  <2> QED BY <2>1, <2>2, CommandStep
<1>16. CASE HearAnswer
  <2>1. /\ UNCHANGED <<run, bridgeVars>>
        /\ \E exit \in {0, 1} : /\ exit = 0 => command.turn = "answer"
                               /\ command' = [command EXCEPT !.at = "exited", !.exit = exit]
    <3>1. PICK exit \in {1} \cup (IF command.turn = "answer" THEN {0} ELSE {}) :
            command' = [command EXCEPT !.at = "exited", !.exit = exit]
      BY <1>16, Zenon DEF HearAnswer
    <3>2. exit \in {0, 1} /\ (exit = 0 => command.turn = "answer")
      OBVIOUS
    <3>3. UNCHANGED <<run, bridgeVars>>
      BY <1>16, Zenon DEF HearAnswer
    <3> QED BY <3>1, <3>2, <3>3, Zenon
  <2>2. command' \in CommandRecords /\ command'.seen = command.seen /\ command'.name = "say"
        /\ command'.at = "exited" /\ (command'.exit = 0 => command'.turn = "answer")
    BY <1>0, <1>16, <1>c, <2>1 DEF CommandRecords, HearAnswer, SeenIsFinal
  <2>3. command'.exit = 0 => DidAsAsked(command', command'.seen)
    BY <2>2 DEF DidAsAsked
  <2> QED BY <2>1, <2>2, <2>3, CommandStep
<1>17. CASE SaidTurnMoves
  <2>1. /\ UNCHANGED <<run, bridgeVars>> /\ command.turn = "pending"
        /\ \E outcome \in {"answer", "failure"} : command' = [command EXCEPT !.turn = outcome]
    BY <1>17 DEF SaidTurnMoves
  <2>2. command' \in CommandRecords /\ command'.seen = command.seen /\ command'.name = command.name
        /\ command'.at = command.at /\ command'.exit = command.exit /\ command.turn = "pending"
    BY <1>c, <2>1 DEF CommandRecords
  <2>3. command'.at = "exited" /\ command'.exit = 0 => DidAsAsked(command', command'.seen)
    BY <1>0, <2>1, <2>2 DEF SeenIsFinal, DidAsAsked
  <2>4. (command'.at = "saying" => command'.name = "say") /\ (command'.at = "following" => command'.name # "say")
    BY <1>0, <2>2 DEF SeenIsFinal
  <2> QED BY <2>1, <2>2, <2>3, <2>4, CommandStep
<1>14. CASE RunMoves
  <2>1. run \notin {"COMPLETED", "CANCELLED"} /\ run' \in Statuses /\ UNCHANGED <<bridgeVars, command>>
    BY <1>0, <1>14 DEF RunMoves, Statuses, EndedRuns, RunsTypeOK
  <2> QED BY <1>0, <2>1 DEF bridgeVars, RunsInv, RunsTypeOK, OneResponse, CancelsSeen, PromptsJoined, SeenIsFinal
<1> QED BY <1>1, <1>2, <1>3, <1>4, <1>5, <1>6, <1>7, <1>8, <1>9, <1>10, <1>11, <1>12, <1>13, <1>14,
        <1>15, <1>16, <1>17 DEF RunsNext, PromptStep

LEMMA ClientsFollow == RunsInv => ClientsAreTold
<1> SUFFICES ASSUME RunsInv PROVE ClientsAreTold
  OBVIOUS
<1>1. ASSUME NEW r \in Requests PROVE Cardinality(answers[r] \cap Final) <= 1
  <2>1. CASE answers[r] = {}
    <3>1. answers[r] \cap Final = {}
      BY <2>1
    <3> QED BY <3>1, FS_EmptySet
  <2>2. CASE \E f \in Final : answers[r] \cap Final = {f}
    <3>1. PICK f \in Final : answers[r] \cap Final = {f}
      BY <2>2
    <3>2. Cardinality({f}) = 1
      BY FS_Singleton, Zenon
    <3> QED BY <3>1, <3>2
  <2> QED BY <2>1, <2>2 DEF RunsInv, OneResponse
<1>2. ASSUME NEW r \in Requests, exited, prompt[r].at # "unsent" PROVE answers[r] \cap Final # {}
  BY <1>2 DEF RunsInv, PromptsJoined, OneResponse
<1>3. \A r \in Requests : "cancelled" \in answers[r] => since[r]
  BY DEF RunsInv, CancelsSeen
<1>4. command.at = "exited" /\ command.exit = 0 => DidAsAsked(command, run)
  BY DEF RunsInv, SeenIsFinal, DidAsAsked
<1> QED BY <1>1, <1>2, <1>3, <1>4 DEF ClientsAreTold

(* A request has one response, its own; a prompt is answered as cancelled only if
   its session was cancelled after it was read; the bridge leaves no prompt behind;
   and a command's exit 0 means what was asked of the run. *)
THEOREM ClientsAreToldOnce == RunsSpec => []ClientsAreTold
<1>1. RunsInit => RunsInv
  BY RunsInitially
<1>2. RunsInv /\ [RunsNext]_runsVars => RunsInv'
  BY RunsKeep
<1>3. RunsInv => ClientsAreTold
  BY ClientsFollow
<1> QED BY <1>1, <1>2, <1>3, PTL DEF RunsSpec

-----------------------------------------------------------------------------
(* HeldByItsOwner, of workers, pods and clients at once: whatever the three do
   next to each other, a worker answers at its own port and leaves no process, a
   pod stays behind its policy, and a request of an ACP client has one answer
   (locations/local.py, kubernetes.py, cli acp.py). *)
THEOREM ResourcesHeldByTheirOwner == LocalSpec /\ KubernetesSpec /\ RunsSpec => []HeldByItsOwner
<1>1. WorkersAreOwn /\ WorkersAreContained /\ ClientsAreTold => HeldByItsOwner
  BY DEF HeldByItsOwner
<1> QED BY <1>1, LocalWorkersAreOwn, PodsAreContained, ClientsAreToldOnce, PTL

--------------------------------------------------------------------------
(***************************************************************************)
(* RunViews, for any number of viewers, events and calls.  ViewsInv says   *)
(* of every object, also one that was dropped while a viewer still works   *)
(* on it, that it is the Track up to its last event (Whole), except of the *)
(* one that the lock's holder is reading again (Reading); and that the     *)
(* object of a call has been read up to where the call began, or further    *)
(* (ReadInv).                                                              *)
(***************************************************************************)

EventLists == {First(n) : n \in 0 .. MaxEvents} \cup {NoValue}
KeptShape == [events : EventLists, last : Nat, built : Nat, view : EventLists, turns : EventLists, unreadable : BOOLEAN]
ReadCalls == {"view", "events", "turns"}
WorkingOn(t) == place[t] \in {"view", "view_read", "events", "events_copy", "turns"}
ReadingAgain(t) == place[t] \in {"whole", "extend"}

\* An object's view and turns are those of the events up to its last one.
ToldOf(k, track) ==
  /\ k.last <= Len(track) /\ k.built = k.last
  /\ k.turns # NoValue => k.turns = First(k.last)
  /\ k.last = 0 => k.view = NoValue
  /\ k.last # 0 => k.view = IF k.unreadable THEN NoValue ELSE First(k.last)
  /\ k.unreadable => k.last # 0 /\ track[k.last] = "unreadable"

Whole(k, track) ==
  /\ ToldOf(k, track)
  /\ k.events # NoValue => k.events = First(k.last)
  /\ k.events = NoValue => k.last # 0 /\ track[k.last] = "ended" /\ k.turns # NoValue

\* The list of a run that moved again, emptied or filled up to some event.
Reading(k, track) ==
  /\ ToldOf(k, track) /\ k.last < freshLength /\ freshLength <= Len(track)
  /\ \E m \in 0 .. freshLength : k.events = First(m)

ViewsTypeInv ==
  /\ log \in Seq(Outcomes) /\ Len(log) <= MaxEvents
  /\ heap \in [Objects -> KeptShape]
  /\ table \in Objects /\ freshLength \in Nat
  /\ viewLock \in Viewers \cup {NoViewer}
  /\ place \in [Viewers -> {"idle", "refresh", "whole", "extend", "view_read", "events_copy"} \cup ReadCalls]
  /\ call \in [Viewers -> ReadCalls]
  /\ kept \in [Viewers -> Objects]
  /\ began \in [Viewers -> Nat]
  /\ DOMAIN result = Viewers /\ result = [t \in Viewers |-> result[t]]
  /\ used \in [calls : Nat, forgets : 0 .. MaxForgets]

\* Only the lock's holder reads a Track again, and its object stays in the table.
ViewLockInv ==
  \A t \in Viewers : ReadingAgain(t) <=> viewLock = t

HeapInv ==
  \A o \in Objects :
    \/ Whole(heap[o], log)
    \/ /\ viewLock # NoViewer /\ o = table /\ place[viewLock] = "extend"
       /\ Reading(heap[o], log)

MovedInv ==
  viewLock # NoViewer =>
    /\ table # 0
    /\ place[viewLock] = "whole" => heap[table].last < Len(log)
    /\ place[viewLock] = "extend" => Reading(heap[table], log) /\ began[viewLock] <= freshLength

ReadInv ==
  \A t \in Viewers :
    /\ place[t] # "idle" => began[t] <= Len(log)
    /\ place[t] \in {"events", "events_copy"} => call[t] = "events"
    /\ WorkingOn(t) => began[t] <= heap[kept[t]].last

ViewsInv == ViewsTypeInv /\ ViewLockInv /\ HeapInv /\ MovedInv /\ ReadInv

LEMMA FirstIs ==
  ASSUME NEW n \in Nat
  PROVE  /\ First(n) \in Seq(Nat) /\ Len(First(n)) = n
         /\ \A i \in 1 .. n : First(n)[i] = i
         /\ First(0) = <<>>
  BY DEF First

LEMMA FirstApart ==
  ASSUME NEW n \in Nat, NEW m \in Nat, First(n) = First(m)
  PROVE  n = m
  BY FirstIs

LEMMA FirstAppend ==
  ASSUME NEW n \in Nat
  PROVE  Append(First(n), Len(First(n)) + 1) = First(n + 1)
<1>1. Len(First(n)) = n /\ First(n) \in Seq(Nat)  BY FirstIs
<1>2. DOMAIN First(n + 1) = 1 .. n + 1  BY DEF First
<1>3. ASSUME NEW i \in 1 .. n + 1 PROVE Append(First(n), n + 1)[i] = First(n + 1)[i]
  <2>1. CASE i \in 1 .. n
    <3>1. Append(First(n), n + 1)[i] = First(n)[i]  BY <1>1, <2>1
    <3>2. First(n)[i] = i /\ First(n + 1)[i] = i  BY <2>1, FirstIs
    <3> QED  BY <3>1, <3>2
  <2>2. CASE i = n + 1
    <3>1. Append(First(n), n + 1)[i] = n + 1  BY <1>1, <2>2
    <3>2. First(n + 1)[i] = i  BY <2>2, FirstIs
    <3> QED  BY <2>2, <3>1, <3>2
  <2>3. i \in 1 .. n \/ i = n + 1  OBVIOUS
  <2> QED  BY <2>1, <2>2, <2>3
<1>4. Append(First(n), n + 1) \in Seq(Nat) /\ Len(Append(First(n), n + 1)) = n + 1  BY <1>1
<1>5. First(n + 1) \in Seq(Nat) /\ Len(First(n + 1)) = n + 1  BY FirstIs
<1> HIDE DEF First
<1> QED  BY <1>1, <1>3, <1>4, <1>5, SeqEqual

\* The events after the first n, of a Track of more.
LEMMA AfterIs ==
  ASSUME log \in Seq(Outcomes), NEW n \in 0 .. Len(log)
  PROVE  /\ EventsAfter(n) = <<>> <=> n = Len(log)
         /\ n # Len(log) => /\ EventsAfter(n)[Len(EventsAfter(n))] = Len(log)
                            /\ First(n) \o EventsAfter(n) = First(Len(log))
<1> DEFINE N == Len(log)
<1>1. N \in Nat /\ n \in Nat /\ n <= N  OBVIOUS
<1>2. First(N) \in Seq(Nat) /\ Len(First(N)) = N /\ \A i \in 1 .. N : First(N)[i] = i  BY <1>1, FirstIs
<1>3. First(n) \in Seq(Nat) /\ Len(First(n)) = n /\ \A i \in 1 .. n : First(n)[i] = i  BY <1>1, FirstIs
<1> HIDE DEF N
<1>4. /\ EventsAfter(n) \in Seq(Nat) /\ Len(EventsAfter(n)) = N - n
      /\ \A i \in 1 .. N - n : EventsAfter(n)[i] = n + i
  BY <1>1, <1>2 DEF EventsAfter, N
<1>5. EventsAfter(n) = <<>> <=> n = N  BY <1>1, <1>4
<1>6. ASSUME n # N PROVE EventsAfter(n)[Len(EventsAfter(n))] = N /\ First(n) \o EventsAfter(n) = First(N)
  <2>1. N - n \in 1 .. N - n  BY <1>1, <1>6
  <2>2. EventsAfter(n)[N - n] = N  BY <1>1, <1>4, <2>1
  <2>3. First(n) \o EventsAfter(n) \in Seq(Nat) /\ Len(First(n) \o EventsAfter(n)) = N  BY <1>1, <1>3, <1>4
  <2>4. ASSUME NEW i \in 1 .. N PROVE (First(n) \o EventsAfter(n))[i] = First(N)[i]
    <3>1. CASE i <= n
      <4>1. i \in 1 .. n  BY <3>1, <1>1
      <4>2. (First(n) \o EventsAfter(n))[i] = First(n)[i]  BY <4>1, <1>3, <1>4
      <4> QED  BY <4>1, <4>2, <1>2, <1>3
    <3>2. CASE i > n
      <4>1. i - n \in 1 .. N - n  BY <3>2, <1>1
      <4>2. (First(n) \o EventsAfter(n))[i] = EventsAfter(n)[i - n]  BY <3>2, <1>1, <1>3, <1>4, <2>3
      <4> QED  BY <4>1, <4>2, <1>1, <1>2, <1>4
    <3>3. i <= n \/ i > n  BY <1>1
    <3> QED  BY <3>1, <3>2, <3>3
  <2>5. First(n) \o EventsAfter(n) = First(N)  BY <1>2, <2>3, <2>4, SeqEqual
  <2> QED  BY <1>4, <2>2, <2>5
<1> QED  BY <1>5, <1>6 DEF N

LEMMA PartsAre ==
  ASSUME ViewsAssumption, NEW n \in 0 .. MaxEvents
  PROVE  First(n) \in EventLists /\ First(n) # NoValue /\ NoValue \in EventLists
  BY DEF EventLists, ViewsAssumption

LEMMA BuiltIs ==
  ASSUME ViewsAssumption, log \in Seq(Outcomes), Len(log) <= MaxEvents, NEW k \in KeptShape,
         k.last \in 1 .. Len(log), k.events = First(k.last), k.built # k.last
  PROVE  Built(k) \in KeptShape /\ Whole(Built(k), log) /\ Built(k).last = k.last
<1> DEFINE n == k.last
<1>1. /\ n \in Nat /\ n \in 1 .. n /\ n \in 0 .. MaxEvents /\ Len(log) \in Nat /\ MaxEvents \in Nat
  BY DEF ViewsAssumption
<1>2. State(k.events) = log[n]  BY <1>1, FirstIs DEF State
<1>3. First(n) \in EventLists /\ First(n) # NoValue /\ NoValue \in EventLists  BY <1>1, PartsAre
<1>4. Built(k) = [events |-> IF log[n] = "ended" THEN NoValue ELSE First(n), last |-> n, built |-> n,
                  view |-> IF log[n] = "unreadable" THEN NoValue ELSE First(n),
                  turns |-> IF log[n] = "ended" THEN First(n) ELSE NoValue,
                  unreadable |-> log[n] = "unreadable"]
  BY <1>2 DEF Built, KeptShape
<1> HIDE DEF n
<1>5. Built(k) \in KeptShape  BY <1>1, <1>3, <1>4 DEF KeptShape
<1>6. ToldOf(Built(k), log)
  <2> DEFINE b == Built(k)
  <2>1. /\ b.last = n /\ b.built = n /\ b.turns \in {First(n), NoValue}
        /\ b.view = IF log[n] = "unreadable" THEN NoValue ELSE First(n)
        /\ b.unreadable = (log[n] = "unreadable")
    BY <1>4
  <2> HIDE DEF b
  <2>2. n # 0 /\ n <= Len(log)  BY <1>1 DEF n
  <2>3. ToldOf(b, log)
    <3>1. CASE log[n] = "unreadable"  BY <2>1, <2>2, <3>1 DEF ToldOf
    <3>2. CASE log[n] # "unreadable"  BY <2>1, <2>2, <3>2 DEF ToldOf
    <3> QED  BY <3>1, <3>2
  <2> QED  BY <2>3 DEF b
<1>7. Whole(Built(k), log)  BY <1>1, <1>3, <1>4, <1>6 DEF Whole, n
<1> QED  BY <1>4, <1>5, <1>7 DEF n

\* A refresh that finds an object whole leaves it whole, and read to the end.
LEMMA RefreshedIs ==
  ASSUME ViewsAssumption, log \in Seq(Outcomes), Len(log) <= MaxEvents, NEW k \in KeptShape,
         Whole(k, log), k.events # NoValue \/ EventsAfter(k.last) = <<>>
  PROVE  LET n == Built(Extended(k, EventsAfter(k.last))) IN
         n \in KeptShape /\ Whole(n, log) /\ n.last = Len(log)
<1> DEFINE found == EventsAfter(k.last)  x == Extended(k, found)
<1>1. k.last \in 0 .. Len(log) /\ k.built = k.last /\ Len(log) \in Nat  BY DEF Whole, ToldOf, KeptShape
<1>2. found = <<>> <=> k.last = Len(log)  BY <1>1, AfterIs
<1>3. CASE found = <<>>
  <2>1. Built(x) = k  BY <1>1, <1>3 DEF Built, Extended
  <2> QED  BY <1>2, <1>3, <2>1
<1>4. CASE found # <<>>
  <2>1. k.events = First(k.last)  BY <1>4 DEF Whole
  <2>2. found[Len(found)] = Len(log) /\ First(k.last) \o found = First(Len(log))  BY <1>1, <1>2, <1>4, AfterIs
  <2> HIDE DEF found
  <2>3. x = [k EXCEPT !.events = First(Len(log)), !.last = Len(log)]
    BY <1>4, <2>1, <2>2 DEF Extended, KeptShape
  <2>4. First(Len(log)) \in EventLists  BY <1>1, PartsAre DEF ViewsAssumption
  <2>5. /\ x \in KeptShape /\ x.events = First(Len(log)) /\ x.last = Len(log) /\ x.built = k.last
    BY <1>1, <2>3, <2>4 DEF KeptShape
  <2> HIDE DEF x
  <2>6. x.last \in 1 .. Len(log) /\ x.built # x.last  BY <1>1, <1>2, <1>4, <2>5
  <2> QED  BY <2>5, <2>6, BuiltIs DEF found, x
<1> QED  BY <1>3, <1>4

LEMMA NewIsWhole ==
  ASSUME ViewsAssumption, NEW track, Len(track) \in Nat
  PROVE  NewKept \in KeptShape /\ Whole(NewKept, track) /\ NewKept.last = 0 /\ NewKept.events # NoValue
<1>1. <<>> \in EventLists /\ <<>> # NoValue /\ NoValue \in EventLists /\ <<>> = First(0)
  <2>1. 0 \in 0 .. MaxEvents  BY DEF ViewsAssumption
  <2>2. First(0) \in EventLists /\ First(0) # NoValue /\ NoValue \in EventLists  BY <2>1, PartsAre
  <2>3. <<>> = First(0)  BY FirstIs
  <2> QED  BY <2>2, <2>3
<1> QED  BY <1>1 DEF NewKept, KeptShape, Whole, ToldOf

--------------------------------------------------------------------------
LEMMA ViewsInvInit == ASSUME ViewsAssumption, ViewsInit PROVE ViewsInv
<1>1. log = <<>> /\ Len(log) = 0 /\ log \in Seq(Outcomes)  BY DEF ViewsInit
<1>2. \A o \in Objects : heap[o] = NewKept /\ heap[o] \in KeptShape /\ Whole(heap[o], log)
  BY <1>1, NewIsWhole DEF ViewsInit
<1>3. heap \in [Objects -> KeptShape]  BY <1>2 DEF ViewsInit
<1>4. ViewsTypeInv
  BY <1>1, <1>3 DEF ViewsInit, ViewsTypeInv, ViewsAssumption, Objects, ReadCalls
<1>5. ViewLockInv  BY DEF ViewsInit, ViewLockInv, ReadingAgain, ViewsAssumption
<1> QED  BY <1>2, <1>4, <1>5 DEF ViewsInv, HeapInv, MovedInv, ReadInv, WorkingOn, ViewsInit

\* A step of a thread that does not read again, and writes no object.
LEMMA QuietRead ==
  ASSUME ViewsInv, ViewsAssumption, NEW t \in Viewers, ~ReadingAgain(t), NEW l,
         l \notin {"whole", "extend"}, ViewerGoes(t, l), UNCHANGED <<log, heap, table, viewLock, freshLength>>,
         \A u \in Viewers : u # t => began'[u] = began[u]
  PROVE  ViewLockInv' /\ HeapInv' /\ MovedInv'
<1>1. place \in [Viewers -> {"idle", "refresh", "whole", "extend", "view_read", "events_copy"} \cup ReadCalls]
      /\ viewLock \in Viewers \cup {NoViewer}
  BY DEF ViewsInv, ViewsTypeInv
<1>2. viewLock # t  BY DEF ViewsInv, ViewLockInv
<1>3. \A u \in Viewers : u # t => place'[u] = place[u]  BY <1>1 DEF ViewerGoes
<1>4. place'[t] = l  BY <1>1 DEF ViewerGoes
<1>5. ViewLockInv'  BY <1>2, <1>3, <1>4 DEF ViewsInv, ViewLockInv, ReadingAgain
<1>6. viewLock # NoViewer => place'[viewLock] = place[viewLock] /\ began'[viewLock] = began[viewLock]  BY <1>1, <1>2, <1>3
<1>7. HeapInv'  BY <1>6 DEF ViewsInv, HeapInv, Reading
<1>8. MovedInv'  BY <1>6 DEF ViewsInv, MovedInv, Reading
<1> QED  BY <1>5, <1>7, <1>8

\* A step that writes one object, whole and read no less far, with the lock free.
LEMMA Written ==
  ASSUME ViewsInv, ViewsAssumption, viewLock = NoViewer, NEW t \in Viewers, ~ReadingAgain(t), NEW l,
         l \notin {"whole", "extend"}, ViewerGoes(t, l),
         NEW o \in Objects, NEW n \in KeptShape, Whole(n, log), heap[o].last <= n.last,
         heap' = [heap EXCEPT ![o] = n], UNCHANGED <<log, viewLock>>
  PROVE  /\ ViewLockInv' /\ HeapInv' /\ MovedInv'
         /\ heap' \in [Objects -> KeptShape] /\ heap'[o] = n
         /\ \A p \in Objects : heap[p].last <= heap'[p].last
<1>1. place \in [Viewers -> {"idle", "refresh", "whole", "extend", "view_read", "events_copy"} \cup ReadCalls]
      /\ heap \in [Objects -> KeptShape]
  BY DEF ViewsInv, ViewsTypeInv
<1>2. ViewLockInv'  BY <1>1 DEF ViewsInv, ViewLockInv, ReadingAgain, ViewerGoes, ViewsAssumption
<1>3. heap' \in [Objects -> KeptShape] /\ heap'[o] = n /\ \A p \in Objects : p # o => heap'[p] = heap[p]  BY <1>1
<1>4. \A p \in Objects : Whole(heap[p], log)  BY DEF ViewsInv, HeapInv
<1>5. \A p \in Objects : Whole(heap'[p], log)  BY <1>3, <1>4
<1>6. HeapInv' /\ MovedInv'  BY <1>5 DEF HeapInv, MovedInv
<1>7. \A p \in Objects : heap[p].last \in Nat  BY <1>1 DEF KeptShape
<1> QED  BY <1>2, <1>3, <1>6, <1>7

\* What the other threads' calls rely on is kept by every step that takes no
\* object back.
LEMMA CallsGoOn ==
  ASSUME ViewsInv, NEW t \in Viewers, NEW u \in Viewers, u # t,
         place'[u] = place[u], call'[u] = call[u], kept'[u] = kept[u], began'[u] = began[u],
         log' \in Seq(Outcomes), Len(log) <= Len(log'), heap' \in [Objects -> KeptShape],
         \A p \in Objects : heap[p].last <= heap'[p].last
  PROVE  /\ place'[u] # "idle" => began'[u] <= Len(log')
         /\ place'[u] \in {"events", "events_copy"} => call'[u] = "events"
         /\ WorkingOn(u)' => began'[u] <= heap'[kept'[u]].last
<1>1. began[u] \in Nat /\ kept[u] \in Objects /\ Len(log) \in Nat /\ heap \in [Objects -> KeptShape]
  BY DEF ViewsInv, ViewsTypeInv
<1>2. heap[kept[u]].last \in Nat /\ heap'[kept[u]].last \in Nat /\ Len(log') \in Nat
  BY <1>1 DEF KeptShape
<1> QED  BY <1>1, <1>2 DEF ViewsInv, ReadInv, WorkingOn

LEMMA ReadStep ==
  ASSUME ViewsInv, ViewsAssumption, NEW t \in Viewers, NEW c \in ReadCalls, Call(t, c)
  PROVE  ViewsInv'
<1>1. ViewsTypeInv  BY DEF ViewsInv
<1>2. ViewLockInv' /\ HeapInv' /\ MovedInv'
  <2>1. \A u \in Viewers : u # t => began'[u] = began[u]  BY <1>1 DEF ViewsTypeInv, Call
  <2> QED  BY <2>1, QuietRead DEF Call, ReadingAgain
<1>3. ViewsTypeInv'
  <2>1. used' \in [calls : Nat, forgets : 0 .. MaxForgets]
    <3>1. used.calls \in Nat /\ used.forgets \in 0 .. MaxForgets  BY <1>1 DEF ViewsTypeInv
    <3>2. used' = [calls |-> used.calls + 1, forgets |-> used.forgets]  BY <1>1 DEF ViewsTypeInv, Call
    <3>3. used.calls + 1 \in Nat  BY <3>1
    <3> QED  BY <3>1, <3>2, <3>3
  <2>2. Len(log) \in Nat  BY <1>1 DEF ViewsTypeInv
  <2> QED  BY <1>1, <2>1, <2>2 DEF ViewsTypeInv, Call, ViewerGoes
<1>4. ReadInv'
  <2> SUFFICES ASSUME NEW u \in Viewers
               PROVE /\ place'[u] # "idle" => began'[u] <= Len(log')
                     /\ place'[u] \in {"events", "events_copy"} => call'[u] = "events"
                     /\ WorkingOn(u)' => began'[u] <= heap'[kept'[u]].last
    BY DEF ReadInv
  <2>1. CASE u = t
    <3>1. place'[t] = "refresh" /\ began'[t] = Len(log) /\ log' = log  BY <1>1 DEF Call, ViewerGoes, ViewsTypeInv
    <3>2. Len(log) \in Nat  BY <1>1 DEF ViewsTypeInv
    <3> QED  BY <2>1, <3>1, <3>2 DEF WorkingOn
  <2>2. CASE u # t
    <3>1. /\ place'[u] = place[u] /\ call'[u] = call[u] /\ kept'[u] = kept[u] /\ began'[u] = began[u]
      BY <1>1, <2>2 DEF Call, ViewerGoes, ViewsTypeInv
    <3>2. /\ log' \in Seq(Outcomes) /\ Len(log) <= Len(log') /\ heap' \in [Objects -> KeptShape]
          /\ \A p \in Objects : heap[p].last <= heap'[p].last
      BY <1>1 DEF Call, ViewsTypeInv, KeptShape
    <3> QED  BY <2>2, <3>1, <3>2, CallsGoOn
  <2> QED  BY <2>1, <2>2
<1> QED  BY <1>2, <1>3, <1>4 DEF ViewsInv

\* The steps of a call on its object that write nothing.
LEMMA LookStep ==
  ASSUME ViewsInv, ViewsAssumption, NEW t \in Viewers,
         View(t) \/ ViewRead(t) \/ Events(t) \/ EventsCopy(t) \/ TurnsRaise(t)
  PROVE  ViewsInv'
<1>1. ViewsTypeInv  BY DEF ViewsInv
<1>2. PICK l \in {"idle", "view_read", "events_copy"} :
        /\ ViewerGoes(t, l) /\ WorkingOn(t)
        /\ l = "events_copy" => place[t] = "events"
        /\ \/ l = "idle" /\ \E value : result' = [result EXCEPT ![t] = value] /\ kept' = [kept EXCEPT ![t] = 0]
           \/ l # "idle" /\ UNCHANGED <<kept, result>>
        /\ UNCHANGED <<log, heap, table, viewLock, freshLength, call, began, used>>
  <2>1. CASE View(t)
    <3>1. CASE heap[kept[t]].unreadable  BY <2>1, <3>1 DEF View, Return, ViewerAside, WorkingOn
    <3>2. CASE ~heap[kept[t]].unreadable  BY <2>1, <3>2 DEF View, Return, ViewerAside, WorkingOn
    <3> QED  BY <3>1, <3>2
  <2>2. CASE ViewRead(t)  BY <2>2 DEF ViewRead, Return, ViewerAside, WorkingOn
  <2>3. CASE Events(t)
    <3>1. CASE heap[kept[t]].events = NoValue  BY <2>3, <3>1 DEF Events, Return, ViewerAside, WorkingOn
    <3>2. CASE heap[kept[t]].events # NoValue  BY <2>3, <3>2 DEF Events, Return, ViewerAside, WorkingOn
    <3> QED  BY <3>1, <3>2
  <2>4. CASE EventsCopy(t)  BY <2>4 DEF EventsCopy, Return, ViewerAside, WorkingOn
  <2>5. CASE TurnsRaise(t)  BY <2>5 DEF TurnsRaise, Return, ViewerAside, WorkingOn
  <2> QED  BY <2>1, <2>2, <2>3, <2>4, <2>5
<1>3. ~ReadingAgain(t)  BY <1>2 DEF WorkingOn, ReadingAgain
<1>4. ViewLockInv' /\ HeapInv' /\ MovedInv'  BY <1>2, <1>3, QuietRead
<1>5. 0 \in Objects  BY DEF Objects, ViewsAssumption
<1>6. ViewsTypeInv'
  <2>1. CASE l = "idle"  BY <1>1, <1>2, <1>5, <2>1 DEF ViewsTypeInv, ViewerGoes
  <2>2. CASE l # "idle"  BY <1>1, <1>2, <2>2 DEF ViewsTypeInv, ViewerGoes
  <2> QED  BY <2>1, <2>2
<1>7. ReadInv'
  <2> SUFFICES ASSUME NEW u \in Viewers
               PROVE /\ place'[u] # "idle" => began'[u] <= Len(log')
                     /\ place'[u] \in {"events", "events_copy"} => call'[u] = "events"
                     /\ WorkingOn(u)' => began'[u] <= heap'[kept'[u]].last
    BY DEF ReadInv
  <2>1. CASE u = t
    <3>1. place'[t] = l  BY <1>1, <1>2 DEF ViewsTypeInv, ViewerGoes
    <3>2. /\ place[t] # "idle" /\ began[t] <= Len(log) /\ began[t] <= heap[kept[t]].last
          /\ place[t] = "events" => call[t] = "events"
      BY <1>2 DEF ViewsInv, ReadInv, WorkingOn
    <3>3. l # "idle" => kept'[t] = kept[t]  BY <1>2
    <3> QED  BY <1>2, <2>1, <3>1, <3>2, <3>3 DEF WorkingOn
  <2>2. CASE u # t
    <3>1. /\ place'[u] = place[u] /\ call'[u] = call[u] /\ kept'[u] = kept[u] /\ began'[u] = began[u]
      BY <1>1, <1>2, <2>2 DEF ViewerGoes, ViewsTypeInv
    <3>2. /\ log' \in Seq(Outcomes) /\ Len(log) <= Len(log') /\ heap' \in [Objects -> KeptShape]
          /\ \A p \in Objects : heap[p].last <= heap'[p].last
      BY <1>1, <1>2 DEF ViewsTypeInv, KeptShape
    <3> QED  BY <2>2, <3>1, <3>2, CallsGoOn
  <2> QED  BY <2>1, <2>2
<1> QED  BY <1>4, <1>6, <1>7 DEF ViewsInv

\* A refresh hands the object it read to the end on to the rest of the call.
LEMMA Handed ==
  ASSUME ViewsInv, ViewsAssumption, NEW t \in Viewers, place[t] \in {"refresh", "extend"},
         NEW o \in Objects, Continue(t, o), UNCHANGED <<log, call, began, result, used>>,
         heap' \in [Objects -> KeptShape], heap'[o].last = Len(log),
         \A p \in Objects : heap[p].last <= heap'[p].last
  PROVE  /\ ReadInv'
         /\ place' \in [Viewers -> {"idle", "refresh", "whole", "extend", "view_read", "events_copy"} \cup ReadCalls]
         /\ kept' \in [Viewers -> Objects] /\ call[t] \notin {"whole", "extend"}
<1>1. ViewsTypeInv  BY DEF ViewsInv
<1>2. /\ place'[t] = call[t] /\ call[t] \in ReadCalls /\ kept'[t] = o
      /\ \A u \in Viewers : u # t => place'[u] = place[u] /\ kept'[u] = kept[u]
      /\ kept' \in [Viewers -> Objects]
      /\ place' \in [Viewers -> {"idle", "refresh", "whole", "extend", "view_read", "events_copy"} \cup ReadCalls]
  BY <1>1 DEF ViewsTypeInv, Continue, ViewerGoes
<1>3. ReadInv'
  <2> SUFFICES ASSUME NEW u \in Viewers
               PROVE /\ place'[u] # "idle" => began'[u] <= Len(log')
                     /\ place'[u] \in {"events", "events_copy"} => call'[u] = "events"
                     /\ WorkingOn(u)' => began'[u] <= heap'[kept'[u]].last
    BY DEF ReadInv
  <2>1. CASE u = t
    <3>1. began[t] <= Len(log)  BY DEF ViewsInv, ReadInv
    <3> QED  BY <1>2, <2>1, <3>1 DEF ReadCalls, WorkingOn
  <2>2. CASE u # t
    <3>1. log' \in Seq(Outcomes) /\ Len(log) <= Len(log')  BY <1>1 DEF ViewsTypeInv
    <3> QED  BY <1>2, <2>2, <3>1, CallsGoOn
  <2> QED  BY <2>1, <2>2
<1> QED  BY <1>2, <1>3 DEF ReadCalls

LEMMA RefreshStep ==
  ASSUME ViewsInv, ViewsAssumption, NEW t \in Viewers, RefreshNew(t) \/ RefreshKept(t)
  PROVE  ViewsInv'
<1>1. ViewsTypeInv /\ Len(log) \in Nat  BY DEF ViewsInv, ViewsTypeInv
<1>2. place[t] = "refresh" /\ viewLock = NoViewer /\ UNCHANGED <<log, viewLock, freshLength, call, began, result, used>>
  BY DEF RefreshNew, RefreshKept
<1>3. \A o \in Objects : heap[o] \in KeptShape /\ Whole(heap[o], log)
  BY <1>1, <1>2 DEF ViewsInv, HeapInv, ViewsTypeInv
<1>4. 0 \in Objects /\ used.forgets + 1 \in Objects  BY <1>1 DEF ViewsTypeInv, Objects, ViewsAssumption
<1>5. \A o \in Objects : heap[o].last \in Nat /\ heap[o].last <= Len(log)  BY <1>3 DEF KeptShape, Whole, ToldOf
<1>6. ASSUME NEW o \in Objects, NEW n \in KeptShape, Whole(n, log), n.last = Len(log),
             heap' = [heap EXCEPT ![o] = n], table' \in Objects, Continue(t, o)
      PROVE  ViewsInv'
  <2>1. ViewerGoes(t, call[t]) /\ call[t] \notin {"whole", "extend"} /\ ~ReadingAgain(t)
    BY <1>1, <1>2, <1>6 DEF Continue, ViewsTypeInv, ReadCalls, ReadingAgain
  <2>2. /\ ViewLockInv' /\ HeapInv' /\ MovedInv'
        /\ heap' \in [Objects -> KeptShape] /\ heap'[o] = n
        /\ \A p \in Objects : heap[p].last <= heap'[p].last
    BY <1>2, <1>5, <1>6, <2>1, Written
  <2>3. /\ ReadInv'
        /\ place' \in [Viewers -> {"idle", "refresh", "whole", "extend", "view_read", "events_copy"} \cup ReadCalls]
        /\ kept' \in [Viewers -> Objects]
    BY <1>2, <1>6, <2>2, Handed
  <2>4. ViewsTypeInv'  BY <1>1, <1>2, <1>6, <2>2, <2>3 DEF ViewsTypeInv
  <2> QED  BY <2>2, <2>3, <2>4 DEF ViewsInv
<1>7. CASE RefreshNew(t) /\ log = <<>>
  <2>1. UNCHANGED <<heap, table>> /\ Continue(t, 0)  BY <1>7 DEF RefreshNew
  <2>2. heap[0].last = Len(log)  BY <1>4, <1>5, <1>7
  <2>3. heap' = [heap EXCEPT ![0] = heap[0]] /\ table' \in Objects  BY <1>1, <1>4, <2>1 DEF ViewsTypeInv
  <2> QED  BY <1>3, <1>4, <1>6, <2>1, <2>2, <2>3
<1>8. CASE RefreshNew(t) /\ log # <<>>
  <2> DEFINE o == used.forgets + 1  n == Built(Extended(NewKept, EventsAfter(0)))
  <2>1. heap' = [heap EXCEPT ![o] = n] /\ table' = o /\ Continue(t, o)  BY <1>8 DEF RefreshNew
  <2>2. NewKept \in KeptShape /\ Whole(NewKept, log) /\ NewKept.last = 0 /\ NewKept.events # NoValue
    BY <1>1, NewIsWhole
  <2>3. n \in KeptShape /\ Whole(n, log) /\ n.last = Len(log)
    <3>1. n = Built(Extended(NewKept, EventsAfter(NewKept.last)))  BY <2>2
    <3> HIDE DEF n
    <3> QED  BY <1>1, <2>2, <3>1, RefreshedIs DEF ViewsTypeInv
  <2> HIDE DEF n, o
  <2>4. o \in Objects  BY <1>4 DEF o
  <2> QED  BY <1>6, <2>1, <2>3, <2>4
<1>9. CASE RefreshKept(t)
  <2> DEFINE k == heap[table]  n == Built(Extended(k, EventsAfter(k.last)))
  <2>1. /\ k.events # NoValue \/ EventsAfter(k.last) = <<>>
        /\ heap' = [heap EXCEPT ![table] = n] /\ table' = table /\ Continue(t, table)
    BY <1>9 DEF RefreshKept
  <2>2. table \in Objects  BY <1>1 DEF ViewsTypeInv
  <2>3. n \in KeptShape /\ Whole(n, log) /\ n.last = Len(log)
    BY <1>1, <1>3, <2>1, <2>2, RefreshedIs DEF ViewsTypeInv
  <2> HIDE DEF n
  <2> QED  BY <1>6, <2>1, <2>2, <2>3
<1> QED  BY <1>7, <1>8, <1>9

LEMMA TurnsStep ==
  ASSUME ViewsInv, ViewsAssumption, NEW t \in Viewers, Turns(t)
  PROVE  /\ ViewsInv' /\ result'[t] = First(heap[kept[t]].last)
<1> DEFINE k == heap[kept[t]]  v == First(k.last)  n == [k EXCEPT !.turns = v]
<1>1. ViewsTypeInv /\ viewLock = NoViewer /\ place[t] = "turns" /\ kept[t] \in Objects  BY DEF ViewsInv, ViewsTypeInv, Turns
<1>2. k \in KeptShape /\ Whole(k, log)  BY <1>1 DEF ViewsInv, HeapInv, ViewsTypeInv
<1>3. k.last \in 0 .. MaxEvents /\ v \in EventLists /\ v # NoValue
  <2>1. k.last \in Nat /\ k.last <= Len(log) /\ Len(log) <= MaxEvents /\ Len(log) \in Nat
    BY <1>1, <1>2 DEF KeptShape, Whole, ToldOf, ViewsTypeInv
  <2>2. k.last \in 0 .. MaxEvents  BY <2>1 DEF ViewsAssumption
  <2> QED  BY <2>2, PartsAre
<1>4. (IF k.turns # NoValue THEN k.turns ELSE IF k.events = NoValue THEN <<>> ELSE k.events) = v
  BY <1>2 DEF Whole, ToldOf
<1>5. heap' = [heap EXCEPT ![kept[t]].turns = v] /\ Return(t, v) /\ ViewerAside  BY <1>4 DEF Turns
<1>6. heap' = [heap EXCEPT ![kept[t]] = n]  BY <1>1, <1>5 DEF ViewsTypeInv
<1> HIDE DEF v
<1>7. n \in KeptShape /\ n.last = k.last  BY <1>2, <1>3 DEF KeptShape
<1>8. Whole(n, log)
  <2>1. /\ n.last = k.last /\ n.built = k.built /\ n.view = k.view /\ n.unreadable = k.unreadable
        /\ n.events = k.events /\ n.turns = v
    BY <1>2 DEF KeptShape
  <2> HIDE DEF n
  <2> QED  BY <1>2, <1>3, <2>1 DEF Whole, ToldOf, v
<1> HIDE DEF n
<1>9. k.last <= n.last /\ k.last \in Nat  BY <1>3, <1>7 DEF ViewsAssumption
<1>10. /\ ViewLockInv' /\ HeapInv' /\ MovedInv'
       /\ heap' \in [Objects -> KeptShape]
       /\ \A p \in Objects : heap[p].last <= heap'[p].last
  <2>1. ViewerGoes(t, "idle") /\ UNCHANGED <<log, viewLock>>  BY <1>5 DEF Return, ViewerAside
  <2>2. ~ReadingAgain(t)  BY <1>1 DEF ReadingAgain
  <2> QED  BY <1>1, <1>6, <1>7, <1>8, <1>9, <2>1, <2>2, Written
<1>11. /\ place'[t] = "idle" /\ result'[t] = v
       /\ \A u \in Viewers : u # t => place'[u] = place[u] /\ kept'[u] = kept[u]
       /\ UNCHANGED <<log, table, viewLock, freshLength, call, began, used>>
  BY <1>1, <1>5 DEF ViewsTypeInv, Return, ViewerGoes, ViewerAside
<1>12. ViewsTypeInv'
  <2>1. 0 \in Objects  BY DEF Objects, ViewsAssumption
  <2> QED  BY <1>1, <1>5, <1>10, <1>11, <2>1 DEF ViewsTypeInv, Return, ViewerGoes
<1>13. ReadInv'
  <2> SUFFICES ASSUME NEW u \in Viewers
               PROVE /\ place'[u] # "idle" => began'[u] <= Len(log')
                     /\ place'[u] \in {"events", "events_copy"} => call'[u] = "events"
                     /\ WorkingOn(u)' => began'[u] <= heap'[kept'[u]].last
    BY DEF ReadInv
  <2>1. CASE u = t  BY <1>11, <2>1 DEF WorkingOn
  <2>2. CASE u # t
    <3>1. log' \in Seq(Outcomes) /\ Len(log) <= Len(log')  BY <1>1, <1>11 DEF ViewsTypeInv
    <3> QED  BY <1>10, <1>11, <2>2, <3>1, CallsGoOn
  <2> QED  BY <2>1, <2>2
<1> QED  BY <1>10, <1>11, <1>12, <1>13 DEF ViewsInv, v

LEMMA MovedAgainStep ==
  ASSUME ViewsInv, ViewsAssumption, NEW t \in Viewers, MovedAgain(t)
  PROVE  ViewsInv'
<1>1. ViewsTypeInv /\ Len(log) \in Nat  BY DEF ViewsInv, ViewsTypeInv
<1>2. /\ place'[t] = "whole" /\ \A u \in Viewers : u # t => place'[u] = place[u]
      /\ viewLock = NoViewer /\ viewLock' = t /\ t # NoViewer /\ table # 0
      /\ UNCHANGED <<log, heap, table, freshLength, call, kept, began, result, used>>
  BY <1>1 DEF MovedAgain, ViewerGoes, ViewsTypeInv, ViewsAssumption
<1>3. ViewsTypeInv'  BY <1>1, <1>2 DEF ViewsTypeInv, MovedAgain, ViewerGoes
<1>4. \A o \in Objects : Whole(heap[o], log)  BY <1>2 DEF ViewsInv, HeapInv
<1>5. HeapInv'  BY <1>2, <1>4 DEF HeapInv
<1>6. ViewLockInv'  BY <1>2 DEF ViewsInv, ViewLockInv, ReadingAgain, ViewsAssumption
<1>7. heap[table].last < Len(log)
  <2>1. heap[table].last \in 0 .. Len(log)  BY <1>1, <1>4 DEF ViewsTypeInv, KeptShape, Whole, ToldOf
  <2>2. heap[table].last # Len(log)  BY <1>1, <2>1, AfterIs DEF MovedAgain, ViewsTypeInv
  <2> QED  BY <1>1, <2>1, <2>2
<1>8. MovedInv'  BY <1>2, <1>7 DEF MovedInv
<1>9. ReadInv'
  <2> SUFFICES ASSUME NEW u \in Viewers
               PROVE /\ place'[u] # "idle" => began'[u] <= Len(log')
                     /\ place'[u] \in {"events", "events_copy"} => call'[u] = "events"
                     /\ WorkingOn(u)' => began'[u] <= heap'[kept'[u]].last
    BY DEF ReadInv
  <2>1. CASE u = t
    <3>1. place[t] = "refresh"  BY DEF MovedAgain
    <3> QED  BY <1>2, <2>1, <3>1 DEF ViewsInv, ReadInv, WorkingOn
  <2>2. CASE u # t  BY <1>2, <2>2 DEF ViewsInv, ReadInv, WorkingOn
  <2> QED  BY <2>1, <2>2
<1> QED  BY <1>3, <1>5, <1>6, <1>8, <1>9 DEF ViewsInv

\* The lock's holder empties and fills its object, which stays told of as it was.
LEMMA ReadingStep ==
  ASSUME ViewsInv, ViewsAssumption, NEW t \in Viewers, ReadWhole(t) \/ Extend(t)
  PROVE  ViewsInv'
<1>1. ViewsTypeInv /\ Len(log) \in Nat /\ table \in Objects /\ heap[table] \in KeptShape  BY DEF ViewsInv, ViewsTypeInv
<1>2. viewLock = t /\ viewLock # NoViewer /\ place[t] \in {"whole", "extend"}
  BY DEF ViewsInv, ViewLockInv, ReadingAgain, ReadWhole, Extend, ViewsAssumption
<1>3. UNCHANGED <<log, table, viewLock, call, kept, began, result, used>>  BY DEF ReadWhole, Extend
<1>4. PICK m \in 0 .. freshLength' :
        /\ heap' = [heap EXCEPT ![table].events = First(m)]
        /\ place' = [place EXCEPT ![t] = "extend"]
        /\ freshLength' \in Nat /\ freshLength' <= Len(log) /\ heap[table].last < freshLength' /\ ToldOf(heap[table], log)
  <2>1. CASE ReadWhole(t)
    <3>1. freshLength' = Len(log) /\ heap' = [heap EXCEPT ![table].events = <<>>] /\ ViewerGoes(t, "extend") /\ place[t] = "whole"
      BY <2>1 DEF ReadWhole
    <3>2. Whole(heap[table], log) /\ heap[table].last < Len(log)
      BY <1>1, <1>2, <3>1 DEF ViewsInv, HeapInv, MovedInv
    <3>3. <<>> = First(0) /\ 0 \in 0 .. freshLength'  BY <1>1, <3>1, FirstIs
    <3>4. heap' = [heap EXCEPT ![table].events = First(0)] /\ place' = [place EXCEPT ![t] = "extend"]
      BY <3>1, <3>3 DEF ViewerGoes
    <3>5. ToldOf(heap[table], log)  BY <3>2 DEF Whole
    <3>6. freshLength' \in Nat /\ freshLength' <= Len(log) /\ heap[table].last < freshLength'  BY <1>1, <3>1, <3>2
    <3> QED  BY <3>3, <3>4, <3>5, <3>6
  <2>2. CASE Extend(t)
    <3>1. Reading(heap[table], log) /\ freshLength' = freshLength /\ freshLength \in Nat /\ place[t] = "extend"
      BY <1>1, <1>2, <2>2 DEF Extend, ViewsInv, MovedInv, ViewsTypeInv
    <3>2. PICK j \in 0 .. freshLength : heap[table].events = First(j)  BY <3>1 DEF Reading
    <3>3. j \in Nat /\ Len(First(j)) = j  BY <3>1, <3>2, FirstIs
    <3>4. j + 1 \in 0 .. freshLength'  BY <2>2, <3>1, <3>2, <3>3 DEF Extend
    <3>5. Append(heap[table].events, Len(heap[table].events) + 1) = First(j + 1)  BY <3>2, <3>3, FirstAppend
    <3>6. heap' = [heap EXCEPT ![table].events = First(j + 1)]  BY <2>2, <3>5 DEF Extend
    <3>7. place' = [place EXCEPT ![t] = "extend"]  BY <1>1, <2>2, <3>1 DEF Extend, ViewsTypeInv
    <3> QED  BY <3>1, <3>4, <3>6, <3>7 DEF Reading
  <2> QED  BY <2>1, <2>2
<1> DEFINE k == heap[table]  n == [k EXCEPT !.events = First(m)]
<1>5. First(m) \in EventLists
  <2>1. m \in 0 .. MaxEvents  BY <1>1, <1>4 DEF ViewsTypeInv, ViewsAssumption
  <2> QED  BY <2>1, PartsAre
<1>6. /\ n \in KeptShape /\ n.events = First(m) /\ n.last = k.last /\ n.built = k.built /\ n.turns = k.turns
      /\ n.view = k.view /\ n.unreadable = k.unreadable
  BY <1>1, <1>5 DEF KeptShape
<1>7. /\ heap' \in [Objects -> KeptShape] /\ heap'[table] = n
      /\ \A p \in Objects : p # table => heap'[p] = heap[p]
  BY <1>1, <1>4, <1>6 DEF ViewsTypeInv
<1> HIDE DEF n
<1>8. Reading(heap[table], log)'
  <2>1. ToldOf(n, log)  BY <1>4, <1>6 DEF ToldOf
  <2> QED  BY <1>3, <1>4, <1>6, <1>7, <2>1 DEF Reading
<1>9. place'[t] = "extend" /\ \A u \in Viewers : u # t => place'[u] = place[u]  BY <1>1, <1>4 DEF ViewsTypeInv
<1>10. ViewsTypeInv'
  <2>1. place' \in [Viewers -> {"idle", "refresh", "whole", "extend", "view_read", "events_copy"} \cup ReadCalls]
    BY <1>1, <1>4 DEF ViewsTypeInv
  <2> QED  BY <1>1, <1>3, <1>4, <1>7, <2>1 DEF ViewsTypeInv
<1>11. HeapInv'
  <2> SUFFICES ASSUME NEW o \in Objects
               PROVE Whole(heap'[o], log') \/ (/\ viewLock' # NoViewer /\ o = table' /\ place'[viewLock'] = "extend"
                                               /\ Reading(heap[o], log)')
    BY DEF HeapInv
  <2>1. CASE o = table  BY <1>2, <1>3, <1>8, <1>9, <2>1
  <2>2. CASE o # table
    <3>1. Whole(heap[o], log)  BY <2>2 DEF ViewsInv, HeapInv
    <3> QED  BY <1>3, <1>7, <2>2, <3>1
  <2> QED  BY <2>1, <2>2
<1>12. ViewLockInv'  BY <1>2, <1>3, <1>9 DEF ViewsInv, ViewLockInv, ReadingAgain
<1>13. MovedInv'
  <2>1. table # 0  BY <1>2 DEF ViewsInv, MovedInv
  <2>2. began[t] <= freshLength'
    <3>1. CASE ReadWhole(t)  BY <1>2, <3>1 DEF ReadWhole, ViewsInv, ReadInv
    <3>2. CASE Extend(t)  BY <1>2, <3>2 DEF Extend, ViewsInv, MovedInv
    <3> QED  BY <3>1, <3>2
  <2> QED  BY <1>2, <1>3, <1>8, <1>9, <2>1, <2>2 DEF MovedInv
<1>14. \A p \in Objects : heap'[p].last = heap[p].last  BY <1>6, <1>7
<1>15. ReadInv'
  <2> SUFFICES ASSUME NEW u \in Viewers
               PROVE /\ place'[u] # "idle" => began'[u] <= Len(log')
                     /\ place'[u] \in {"events", "events_copy"} => call'[u] = "events"
                     /\ WorkingOn(u)' => began'[u] <= heap'[kept'[u]].last
    BY DEF ReadInv
  <2>1. kept[u] \in Objects  BY <1>1 DEF ViewsTypeInv
  <2>2. CASE u = t
    <3>1. place[t] # "idle"  BY <1>2
    <3> QED  BY <1>3, <1>9, <2>2, <3>1 DEF ViewsInv, ReadInv, WorkingOn
  <2>3. CASE u # t  BY <1>3, <1>9, <1>14, <2>1, <2>3 DEF ViewsInv, ReadInv, WorkingOn
  <2> QED  BY <2>2, <2>3
<1> QED  BY <1>10, <1>11, <1>12, <1>13, <1>15 DEF ViewsInv

LEMMA RefreshWholeStep ==
  ASSUME ViewsInv, ViewsAssumption, NEW t \in Viewers, RefreshWhole(t)
  PROVE  ViewsInv'
<1>1. ViewsTypeInv /\ Len(log) \in Nat /\ table \in Objects /\ heap[table] \in KeptShape /\ freshLength \in Nat
  BY DEF ViewsInv, ViewsTypeInv
<1>2. place[t] = "extend" /\ viewLock = t /\ viewLock # NoViewer
  BY DEF ViewsInv, ViewLockInv, ReadingAgain, RefreshWhole, ViewsAssumption
<1> DEFINE k == heap[table]  x == [k EXCEPT !.last = freshLength]  n == Built(x)
<1>3. Reading(k, log)  BY <1>2 DEF ViewsInv, MovedInv
<1>4. k.events = First(freshLength)
  <2>1. PICK m \in 0 .. freshLength : k.events = First(m)  BY <1>3 DEF Reading
  <2>2. Len(First(m)) = m /\ m \in Nat  BY <1>1, <2>1, FirstIs
  <2>3. m = freshLength  BY <1>1, <2>1, <2>2 DEF RefreshWhole
  <2> QED  BY <2>1, <2>3
<1>5. k.last < freshLength /\ freshLength <= Len(log) /\ k.built = k.last /\ k.last \in Nat
  BY <1>1, <1>3 DEF Reading, ToldOf, KeptShape
<1>6. x \in KeptShape /\ x.last = freshLength /\ x.events = k.events /\ x.built = k.built  BY <1>1 DEF KeptShape
<1>7. heap' = [heap EXCEPT ![table] = n]  BY DEF RefreshWhole
<1> HIDE DEF x
<1>8. n \in KeptShape /\ Whole(n, log) /\ n.last = freshLength
  <2>1. x.last \in 1 .. Len(log) /\ x.events = First(x.last) /\ x.built # x.last  BY <1>1, <1>4, <1>5, <1>6
  <2> QED  BY <1>1, <1>6, <2>1, BuiltIs DEF ViewsTypeInv
<1> HIDE DEF n
<1>9. /\ heap' \in [Objects -> KeptShape] /\ heap'[table] = n
      /\ \A p \in Objects : p # table => heap'[p] = heap[p]
  BY <1>1, <1>7, <1>8 DEF ViewsTypeInv
<1>10. /\ viewLock' = NoViewer /\ freshLength' = 0 /\ Continue(t, table) /\ UNCHANGED <<log, table, call, began, result, used>>
  BY DEF RefreshWhole
<1>11. \A p \in Objects : Whole(heap'[p], log')
  <2>1. \A p \in Objects : p # table => Whole(heap[p], log)  BY DEF ViewsInv, HeapInv
  <2> QED  BY <1>8, <1>9, <1>10, <2>1
<1>12. HeapInv' /\ MovedInv'  BY <1>10, <1>11 DEF HeapInv, MovedInv
<1>13. /\ place'[t] = call[t] /\ call[t] \in ReadCalls /\ kept'[t] = table
       /\ \A u \in Viewers : u # t => place'[u] = place[u] /\ kept'[u] = kept[u]
       /\ kept' \in [Viewers -> Objects]
       /\ place' \in [Viewers -> {"idle", "refresh", "whole", "extend", "view_read", "events_copy"} \cup ReadCalls]
  BY <1>1, <1>10 DEF ViewsTypeInv, Continue, ViewerGoes
<1>14. ViewLockInv'  BY <1>2, <1>10, <1>13 DEF ViewsInv, ViewLockInv, ReadingAgain, ViewsAssumption, ReadCalls
<1>15. ViewsTypeInv'  BY <1>1, <1>9, <1>10, <1>13 DEF ViewsTypeInv
<1>16. \A p \in Objects : heap[p].last <= heap'[p].last
  <2>1. \A p \in Objects : heap[p].last \in Nat  BY <1>1 DEF ViewsTypeInv, KeptShape
  <2> QED  BY <1>1, <1>5, <1>8, <1>9, <2>1
<1>17. ReadInv'
  <2> SUFFICES ASSUME NEW u \in Viewers
               PROVE /\ place'[u] # "idle" => began'[u] <= Len(log')
                     /\ place'[u] \in {"events", "events_copy"} => call'[u] = "events"
                     /\ WorkingOn(u)' => began'[u] <= heap'[kept'[u]].last
    BY DEF ReadInv
  <2>1. CASE u = t
    <3>1. began[t] <= Len(log)  BY <1>2 DEF ViewsInv, ReadInv
    <3>2. began[t] <= freshLength  BY <1>2 DEF ViewsInv, MovedInv
    <3> QED  BY <1>8, <1>9, <1>10, <1>13, <2>1, <3>1, <3>2 DEF ReadCalls, WorkingOn
  <2>2. CASE u # t
    <3>1. log' \in Seq(Outcomes) /\ Len(log) <= Len(log')  BY <1>1, <1>10 DEF ViewsTypeInv
    <3> QED  BY <1>9, <1>10, <1>13, <1>16, <2>2, <3>1, CallsGoOn
  <2> QED  BY <2>1, <2>2
<1> QED  BY <1>12, <1>14, <1>15, <1>17 DEF ViewsInv

\* A Track that grows keeps what was read of it.
LEMMA GrowStep ==
  ASSUME ViewsInv, ViewsAssumption, Grow
  PROVE  ViewsInv'
<1>1. ViewsTypeInv /\ Len(log) \in Nat /\ Len(log) < MaxEvents /\ MaxEvents \in Nat
  BY DEF ViewsInv, ViewsTypeInv, Grow, ViewsAssumption
<1>2. UNCHANGED <<heap, table, viewLock, freshLength, place, call, kept, began, result, used>>  BY DEF Grow
<1>3. /\ log' \in Seq(Outcomes) /\ Len(log') = Len(log) + 1
      /\ \A i \in 1 .. Len(log) : log'[i] = log[i]
  <2>1. PICK s \in Outcomes : log' = Append(log, s)  BY DEF Grow
  <2> QED  BY <1>1, <2>1 DEF ViewsTypeInv
<1>4. ViewsTypeInv'  BY <1>1, <1>2, <1>3 DEF ViewsTypeInv
<1>5. ASSUME NEW o \in Objects
      PROVE  /\ ToldOf(heap[o], log) => ToldOf(heap[o], log')
             /\ Whole(heap[o], log) => Whole(heap[o], log')
             /\ Reading(heap[o], log) => Reading(heap[o], log')
  <2> DEFINE k == heap[o]
  <2>1. k.last \in Nat  BY <1>1 DEF ViewsTypeInv, KeptShape
  <2>2. k.last # 0 /\ k.last <= Len(log) => log'[k.last] = log[k.last]  BY <1>1, <1>3, <2>1
  <2>3. k.last <= Len(log) => k.last <= Len(log')  BY <1>1, <1>3, <2>1
  <2>4. freshLength <= Len(log) => freshLength <= Len(log')  BY <1>1, <1>3 DEF ViewsTypeInv
  <2>5. ToldOf(k, log) => ToldOf(k, log')  BY <2>2, <2>3 DEF ToldOf
  <2>6. Whole(k, log) => Whole(k, log')
    <3>1. ToldOf(k, log) => k.last <= Len(log)  BY DEF ToldOf
    <3> QED  BY <2>2, <2>5, <3>1 DEF Whole
  <2>7. Reading(k, log) => Reading(k, log')  BY <2>4, <2>5 DEF Reading
  <2> QED  BY <2>5, <2>6, <2>7
<1>6. \A o \in Objects : /\ heap'[o] = heap[o]
                         /\ Whole(heap[o], log) => Whole(heap[o], log)'
                         /\ Reading(heap[o], log) => Reading(heap[o], log)'
  BY <1>2, <1>5 DEF Reading
<1>7. HeapInv'  BY <1>2, <1>6 DEF ViewsInv, HeapInv
<1>8. MovedInv'
  <2>1. table \in Objects /\ heap[table].last \in Nat  BY <1>1 DEF ViewsTypeInv, KeptShape
  <2>2. heap[table].last < Len(log) => heap[table].last < Len(log')  BY <1>1, <1>3, <2>1
  <2> QED  BY <1>2, <1>6, <2>1, <2>2 DEF ViewsInv, MovedInv
<1>9. ViewLockInv'  BY <1>2 DEF ViewsInv, ViewLockInv, ReadingAgain
<1>10. ReadInv'
  <2> SUFFICES ASSUME NEW u \in Viewers
               PROVE /\ place'[u] # "idle" => began'[u] <= Len(log')
                     /\ place'[u] \in {"events", "events_copy"} => call'[u] = "events"
                     /\ WorkingOn(u)' => began'[u] <= heap'[kept'[u]].last
    BY DEF ReadInv
  <2>1. began[u] \in Nat  BY <1>1 DEF ViewsTypeInv
  <2>2. began[u] <= Len(log) => began[u] <= Len(log')  BY <1>1, <1>3, <2>1
  <2> QED  BY <1>2, <2>2 DEF ViewsInv, ReadInv, WorkingOn
<1> QED  BY <1>4, <1>7, <1>8, <1>9, <1>10 DEF ViewsInv

LEMMA ForgetStep ==
  ASSUME ViewsInv, ViewsAssumption, Forget
  PROVE  ViewsInv'
<1>1. ViewsTypeInv  BY DEF ViewsInv
<1>2. /\ viewLock = NoViewer /\ table' = 0 /\ used.forgets < MaxForgets
      /\ UNCHANGED <<log, heap, viewLock, freshLength, place, call, kept, began, result>>
  BY DEF Forget
<1>3. ViewsTypeInv'
  <2>1. used.calls \in Nat /\ used.forgets \in 0 .. MaxForgets  BY <1>1 DEF ViewsTypeInv
  <2>2. used' = [calls |-> used.calls, forgets |-> used.forgets + 1]  BY <1>1 DEF ViewsTypeInv, Forget
  <2>3. used.forgets + 1 \in 0 .. MaxForgets  BY <1>2, <2>1 DEF ViewsAssumption
  <2>4. used' \in [calls : Nat, forgets : 0 .. MaxForgets]  BY <2>1, <2>2, <2>3
  <2>5. 0 \in Objects  BY DEF Objects, ViewsAssumption
  <2> QED  BY <1>1, <1>2, <2>4, <2>5 DEF ViewsTypeInv
<1>4. HeapInv' /\ MovedInv'  BY <1>2 DEF ViewsInv, HeapInv, MovedInv
<1>5. ViewLockInv' /\ ReadInv'  BY <1>2 DEF ViewsInv, ViewLockInv, ReadInv, WorkingOn, ReadingAgain
<1> QED  BY <1>3, <1>4, <1>5 DEF ViewsInv

LEMMA ViewsInvStep == ASSUME ViewsAssumption, ViewsInv, [ViewsNext]_viewVars PROVE ViewsInv'
<1>1. ASSUME NEW t \in Viewers, NEW c \in {"view", "events", "turns"}, Call(t, c) PROVE ViewsInv'
  BY <1>1, ReadStep DEF ReadCalls
<1>2. ASSUME NEW t \in Viewers, RefreshNew(t) \/ RefreshKept(t) PROVE ViewsInv'  BY <1>2, RefreshStep
<1>3. ASSUME NEW t \in Viewers, MovedAgain(t) PROVE ViewsInv'  BY <1>3, MovedAgainStep
<1>4. ASSUME NEW t \in Viewers, ReadWhole(t) \/ Extend(t) PROVE ViewsInv'  BY <1>4, ReadingStep
<1>5. ASSUME NEW t \in Viewers, RefreshWhole(t) PROVE ViewsInv'  BY <1>5, RefreshWholeStep
<1>6. ASSUME NEW t \in Viewers, View(t) \/ ViewRead(t) \/ Events(t) \/ EventsCopy(t) \/ TurnsRaise(t) PROVE ViewsInv'
  BY <1>6, LookStep
<1>7. ASSUME NEW t \in Viewers, Turns(t) PROVE ViewsInv'  BY <1>7, TurnsStep
<1>8. CASE Grow  BY <1>8, GrowStep
<1>9. CASE Forget  BY <1>9, ForgetStep
<1>10. CASE Done \/ UNCHANGED viewVars
  BY <1>10 DEF Done, viewVars, ViewsInv, ViewsTypeInv, ViewLockInv, HeapInv, MovedInv, ReadInv, WorkingOn, ReadingAgain, Reading
<1> QED  BY <1>1, <1>2, <1>3, <1>4, <1>5, <1>6, <1>7, <1>8, <1>9, <1>10 DEF ViewsNext

\* KeptIsAPrefix for any number of threads, events, calls and forgotten objects.
THEOREM ViewsArePrefixes == ASSUME ViewsAssumption PROVE ViewsSpec => []KeptIsAPrefix
<1>1. ViewsInv => KeptIsAPrefix
  <2> SUFFICES ASSUME ViewsInv, viewLock = NoViewer, NEW o \in Objects
               PROVE  LET k == heap[o] IN
                 /\ k.last <= Len(log)
                 /\ k.events = NoValue => k.last # 0 /\ log[k.last] = "ended" /\ k.turns # NoValue
                 /\ \A part \in {k.events, k.turns} : part # NoValue => part = First(k.last)
                 /\ k.last # 0 => IF k.unreadable THEN k.view = NoValue ELSE k.view = First(k.last)
    BY DEF KeptIsAPrefix
  <2>1. Whole(heap[o], log)  BY DEF ViewsInv, HeapInv
  <2> QED  BY <2>1 DEF Whole, ToldOf
<1>2. ViewsInit => ViewsInv  BY ViewsInvInit
<1>3. ViewsInv /\ [ViewsNext]_viewVars => ViewsInv'  BY ViewsInvStep
<1> QED  BY <1>1, <1>2, <1>3, PTL DEF ViewsSpec

\* ReadIsCurrent likewise: no thread is told a view or turns from before its call
\* began, whoever refreshed, forgot or emptied the object meanwhile.
THEOREM ReadsAreCurrent == ASSUME ViewsAssumption PROVE ViewsSpec => ReadsCurrent
<1>1. ASSUME ViewsInv, [ViewsNext]_viewVars PROVE [ReadIsCurrent]_viewVars
  <2> SUFFICES ASSUME ViewsNext, NEW t \in Viewers, place[t] # "idle", place'[t] = "idle", call[t] # "events",
                      result'[t] \notin {RunUnreadable, InvalidTransition}
               PROVE  IF result'[t] = NoValue
                      THEN began[t] = 0 \/ \E i \in 1 .. Len(log) : log[i] = "unreadable"
                      ELSE \E n \in began[t] .. Len(log) : result'[t] = First(n)
    BY <1>1 DEF ReadIsCurrent
  <2>1. ViewsTypeInv /\ Len(log) \in Nat /\ kept[t] \in Objects /\ began[t] \in Nat  BY <1>1 DEF ViewsInv, ViewsTypeInv
  <2>2. ViewRead(t) \/ Turns(t)
    <3>1. \A u \in Viewers : \A l : u # t /\ ViewerGoes(u, l) => place'[t] = place[t]  BY <2>1 DEF ViewsTypeInv, ViewerGoes
    <3>2. \A l : ViewerGoes(t, l) => l = "idle"  BY <2>1 DEF ViewsTypeInv, ViewerGoes
    <3>3. call[t] # "idle" /\ ~(place[t] \in {"events", "events_copy"})
      BY <1>1, <2>1 DEF ViewsInv, ReadInv, ViewsTypeInv, ReadCalls
    <3>4. \A x : Return(t, x) => result'[t] = x  BY <2>1 DEF ViewsTypeInv, Return
    <3>5. PICK u \in Viewers :
            \/ \E c \in {"view", "events", "turns"} : Call(u, c)
            \/ RefreshNew(u) \/ RefreshKept(u) \/ MovedAgain(u) \/ ReadWhole(u) \/ Extend(u) \/ RefreshWhole(u)
            \/ View(u) \/ ViewRead(u) \/ Events(u) \/ EventsCopy(u) \/ Turns(u) \/ TurnsRaise(u)
      BY DEF ViewsNext, Grow, Forget, Done, viewVars
    <3>6. u = t
      <4> SUFFICES ASSUME u # t PROVE FALSE  OBVIOUS
      <4>1. \A l : ~ViewerGoes(u, l)  BY <3>1
      <4>2. place' # place  OBVIOUS
      <4> QED  BY <3>5, <4>1, <4>2
               DEF Call, RefreshNew, RefreshKept, MovedAgain, ReadWhole, Extend, RefreshWhole, Continue, Return,
                   View, ViewRead, Events, EventsCopy, Turns, TurnsRaise
    <3>7. ~(\E c \in {"view", "events", "turns"} : Call(t, c))  BY <3>2 DEF Call
    <3>8. ~RefreshNew(t) /\ ~RefreshKept(t) /\ ~RefreshWhole(t)
      BY <3>2, <3>3 DEF RefreshNew, RefreshKept, RefreshWhole, Continue
    <3>9. ~MovedAgain(t) /\ ~ReadWhole(t) /\ ~Extend(t)  BY <3>2 DEF MovedAgain, ReadWhole, Extend
    <3>10. ~View(t)
      <4> SUFFICES ASSUME View(t) PROVE FALSE  OBVIOUS
      <4>1. CASE heap[kept[t]].unreadable  BY <3>4, <4>1 DEF View
      <4>2. CASE ~heap[kept[t]].unreadable  BY <3>2, <4>2 DEF View
      <4> QED  BY <4>1, <4>2
    <3>11. ~Events(t) /\ ~EventsCopy(t)  BY <3>3 DEF Events, EventsCopy
    <3>12. ~TurnsRaise(t)  BY <3>4 DEF TurnsRaise
    <3> QED  BY <3>5, <3>6, <3>7, <3>8, <3>9, <3>10, <3>11, <3>12
  <2> DEFINE k == heap[kept[t]]
  <2>3. began[t] <= k.last /\ ToldOf(k, log) /\ k.last \in Nat /\ k.last <= Len(log)
    <3>1. WorkingOn(t)  BY <2>2 DEF ViewRead, Turns, WorkingOn
    <3>2. ToldOf(k, log)  BY <1>1, <2>1 DEF ViewsInv, HeapInv, Whole, Reading
    <3> QED  BY <1>1, <2>1, <3>1, <3>2 DEF ViewsInv, ReadInv, ViewsTypeInv, KeptShape, ToldOf
  <2>4. k.last \in began[t] .. Len(log) /\ First(k.last) # NoValue
    <3>1. k.last \in 0 .. MaxEvents  BY <2>1, <2>3 DEF ViewsTypeInv, ViewsAssumption
    <3> QED  BY <2>1, <2>3, <3>1, PartsAre
  <2>5. CASE Turns(t)
    <3>1. result'[t] = First(k.last)  BY <1>1, <2>5, TurnsStep
    <3> QED  BY <2>4, <3>1
  <2>6. CASE ViewRead(t)
    <3>1. result'[t] = k.view  BY <2>1, <2>6 DEF ViewRead, Return, ViewsTypeInv
    <3>2. CASE k.last = 0
      <4>1. k.view = NoValue /\ began[t] = 0  BY <2>1, <2>3, <3>2 DEF ToldOf
      <4> QED  BY <3>1, <4>1
    <3>3. CASE k.last # 0 /\ k.unreadable
      <4>1. k.view = NoValue /\ log[k.last] = "unreadable" /\ k.last \in 1 .. Len(log)
        BY <2>1, <2>3, <3>3 DEF ToldOf
      <4> QED  BY <3>1, <4>1
    <3>4. CASE k.last # 0 /\ ~k.unreadable
      <4>1. k.view = First(k.last)  BY <2>3, <3>4 DEF ToldOf
      <4> QED  BY <2>4, <3>1, <4>1
    <3> QED  BY <3>2, <3>3, <3>4
  <2> QED  BY <2>2, <2>5, <2>6
<1>2. ViewsInit => ViewsInv  BY ViewsInvInit
<1>3. ViewsInv /\ [ViewsNext]_viewVars => ViewsInv'  BY ViewsInvStep
<1> QED  BY <1>1, <1>2, <1>3, PTL DEF ViewsSpec, ReadsCurrent
=============================================================================
